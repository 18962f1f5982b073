------------------------------ MODULE WavPlayer ------------------------------
(***************************************************************************)
(* The wave player of sample_audio_player/WavPlayer.c: the thread          *)
(* ThreadAudioPlayer that plays the file named in playInform through ALSA, *)
(* and the calls of the application, PlayOnWaveFile and StopAudioPlayer.   *)
(*                                                                         *)
(* semWavPlayer guards playInform and is held for a whole playback; the    *)
(* flags needStop and status are shared without it.  Sizes are in bytes    *)
(* (num, waveFileSize) or in frames of two bytes (PeriodSize, BufferSize,  *)
(* left), as they are in the code: the player is mono, 16 bit.             *)
(***************************************************************************)
EXTENDS Integers, Sequences

CONSTANTS
  File,        \* names of wave files
  NoFile,      \* no name
  Kind,        \* "wave", "bad" (the header is refused) or "missing"
  Bytes,       \* bytes of sound in a file, after the header
  PeriodSize,  \* frames of a period
  BufferSize,  \* frames of the ALSA buffer
  Apps,        \* application threads
  MaxPlays,    \* bound: calls of PlayOnWaveFile
  Failures,    \* bound: what may go wrong
  Garbage      \* bound: sizes that an uninitialised struct stat may hold

\* The sizes that the device offers and the player accepts; with any others it is
\* not opened.
SetPcmHwParams == 2 * PeriodSize <= BufferSize

ASSUME WavPlayerAssumption ==
  /\ NoFile \notin File
  /\ Kind \in [File -> {"wave", "bad", "missing"}]
  /\ Bytes \in [File -> Nat]
  /\ PeriodSize \in Nat \ {0}
  /\ BufferSize \in Nat /\ SetPcmHwParams
  /\ MaxPlays \in Nat
  /\ Failures \subseteq {"calloc", "fopen", "underrun", "suspend", "prepare"}
  /\ Garbage \subseteq Nat

VARIABLES
  playInform,    \* the file to play; NoFile: its flag is FLAG_OFF
  semWavPlayer,  \* the value of the semaphore
  needStop,      \* pcmInfo.needStop
  status,        \* pcmInfo.status, what CheckAudioPlayer returns
  waveFileName,  \* pcmInfo.waveFileName
  waveFileSize,  \* pcmInfo.waveFileSize
  wavFd,         \* PlayWaveFile's descriptor is open
  wavFp,         \* the file ReadWavFile's static stream is open on
  opened,        \* descriptors that the player has opened and not closed
  pcmFramesData, \* the period buffer is allocated
  pc,            \* where the player is
  num,           \* WritePcmDevice's offset into the file
  left,          \* WritePcmBuffer's cptr
  pcm,           \* the state of the PCM
  queued,        \* the frames in the ALSA buffer, by file and index in it
  handed,        \* history: frames handed to the PCM in this pass of the file
  call,          \* the call of PlayOnWaveFile of every application thread
  plays,         \* calls of PlayOnWaveFile so far
  alive          \* FALSE once the process has crashed

flags  == <<needStop, status>>
files  == <<waveFileName, waveFileSize, wavFd, wavFp, opened>>
device == <<pcm, queued>>
app    == <<playInform, call, plays>>
vars   == <<app, semWavPlayer, flags, files, pcmFramesData, pc, num, left,
            handed, device, alive>>

-----------------------------------------------------------------------------
NoCall    == [at |-> "none", file |-> NoFile]
CallAts   == {"none", "wait", "set"}
Frame     == [file : File, frame : Nat]
PcmStates == {"prepared", "running", "xrun", "suspended", "setup", "closed"}
PcValues  == {"idle", "check", "read", "write", "writei", "writing", "resume",
              "drain", "release", "clear"}

\* In PlayWaveFile after its checks, and with the lock.
Playing == pc \in {"read", "write", "writei", "writing", "resume", "drain"}
Holding == Playing \/ pc \in {"check", "release"}

Smaller(x, y) == IF x < y THEN x ELSE y
Count(open) == IF open THEN 1 ELSE 0
IsOk  == pcm \in {"prepared", "running"}
Space == BufferSize - Len(queued)

CanTake == semWavPlayer > 0

-----------------------------------------------------------------------------
\* OpenAudioPlayer has set up the PCM; without it the process has ended.
Init ==
  /\ playInform = NoFile
  /\ semWavPlayer = 1
  /\ needStop = FALSE /\ status = FALSE
  /\ waveFileName = NoFile /\ waveFileSize = 0
  /\ wavFd = FALSE /\ wavFp = NoFile /\ opened = 0
  /\ pcmFramesData = FALSE
  /\ pc = "idle" /\ num = 0 /\ left = 0 /\ handed = 0
  /\ pcm = "prepared" /\ queued = << >>
  /\ call = [c \in Apps |-> NoCall]
  /\ plays = 0
  /\ alive = TRUE

Running == alive /\ UNCHANGED alive

-----------------------------------------------------------------------------
(* The application.                                                         *)

\* PlayOnWaveFile is called, and goes for the semaphore.
AppPlays(c, f) ==
  /\ Running
  /\ call[c].at = "none" /\ plays < MaxPlays
  /\ call' = [call EXCEPT ![c] = [at |-> "wait", file |-> f]]
  /\ plays' = plays + 1
  /\ UNCHANGED <<playInform, semWavPlayer, flags, files, pcmFramesData, pc, num,
                 left, handed, device>>

PlayOnTakes(c) ==
  /\ Running
  /\ call[c].at = "wait" /\ CanTake
  /\ semWavPlayer' = semWavPlayer - 1
  /\ call' = [call EXCEPT ![c].at = "set"]
  /\ UNCHANGED <<playInform, plays, flags, files, pcmFramesData, pc, num, left,
                 handed, device>>

PlayOnSets(c) ==
  /\ Running
  /\ call[c].at = "set"
  /\ playInform' = call[c].file
  /\ semWavPlayer' = semWavPlayer + 1
  /\ call' = [call EXCEPT ![c] = NoCall]
  /\ UNCHANGED <<plays, flags, files, pcmFramesData, pc, num, left,
                 handed, device>>

StopAudioPlayer ==
  /\ Running
  /\ ~needStop
  /\ needStop' = TRUE
  /\ UNCHANGED <<app, semWavPlayer, status, files, pcmFramesData, pc, num, left,
                 handed, device>>

-----------------------------------------------------------------------------
(* ThreadAudioPlayer.                                                       *)

\* Nothing to play: the semaphore is taken and given back.
PassesIdle ==
  /\ Running
  /\ pc = "idle" /\ CanTake /\ playInform = NoFile
  /\ pc' = "clear"
  /\ UNCHANGED <<app, semWavPlayer, flags, files, pcmFramesData, num, left, handed,
                 device>>

\* Mutant: the name is only filled in the first time.
FirstName == IF waveFileName = NoFile THEN playInform ELSE waveFileName

\* memset, then memcpy of the request's name.
NameCopied == playInform

\* The lock is taken, the request copied, needStop reset and the file opened.
Starts(kinds, next) ==
  /\ Running
  /\ pc = "idle" /\ CanTake
  /\ playInform # NoFile /\ Kind[playInform] \in kinds
  /\ semWavPlayer' = semWavPlayer - 1
  /\ waveFileName' = NameCopied
  /\ needStop' = FALSE
  /\ pc' = next
  /\ UNCHANGED <<app, status, waveFileSize, wavFp, pcmFramesData, num, left, handed,
                 device>>

StartsPlaying ==
  /\ Starts({"wave", "bad"}, "check")
  /\ wavFd' = TRUE
  /\ opened' = opened + 1

\* Mutant: the lock is not released when the file cannot be opened.
StartsMissingLocked == Starts({"missing"}, "clear") /\ UNCHANGED <<wavFd, opened>>

StartsMissing == Starts({"missing"}, "release") /\ UNCHANGED <<wavFd, opened>>

\* CheckWavFile refuses the header; the caller closes the file.
CheckFails ==
  /\ Running
  /\ pc = "check" /\ Kind[waveFileName] = "bad"
  /\ wavFd' = FALSE
  /\ opened' = opened - 1
  /\ pc' = "release"
  /\ UNCHANGED <<app, semWavPlayer, flags, waveFileName, waveFileSize, wavFp,
                 pcmFramesData, num, left, handed, device>>

\* CheckWavFile takes the size of the file and closes it.  When stat() fails (the
\* file has just been removed), the size is what the structure happens to hold.
Checked ==
  /\ Running
  /\ pc = "check" /\ Kind[waveFileName] = "wave"
  /\ waveFileSize' \in {Bytes[waveFileName]} \cup Garbage
  /\ wavFd' = FALSE
  /\ opened' = opened - 1
  /\ status' = TRUE
  /\ UNCHANGED <<app, semWavPlayer, needStop, waveFileName, wavFp, left, queued>>

CheckPasses ==
  /\ Checked
  /\ pcmFramesData' = TRUE
  /\ num' = 0 /\ handed' = 0
  /\ pc' = "read"
  /\ UNCHANGED pcm

\* No memory: the PCM is closed, and status stays on.
CallocFails ==
  /\ Checked
  /\ "calloc" \in Failures
  /\ pcm' = "closed"
  /\ pc' = "release"
  /\ UNCHANGED <<pcmFramesData, num, handed>>

\* From then on the handle is dangling: its next use may crash.
Crashes ==
  /\ alive /\ pcm = "closed" /\ pc \in {"check", "read", "writei", "drain"}
  /\ alive' = FALSE
  /\ UNCHANGED <<app, semWavPlayer, flags, files, pcmFramesData, pc, num, left,
                 handed, device>>

-----------------------------------------------------------------------------
(* WritePcmDevice: ReadWavFile at offset num, then WritePcmBuffer.          *)

\* Mutant: all that is left of the file is read.
ChunkToEnd == waveFileSize - num

\* The bytes ReadWavFile gets: whole samples, for as long as size < bufSize and
\* the file has one.
Chunk ==
  LET bufSize == Smaller(2 * PeriodSize, waveFileSize - num)
      rest    == Bytes[waveFileName] - num
  IN Smaller(bufSize + (bufSize % 2), rest - (rest % 2))

\* ReadWavFile returns size.  It breaks off, at any sample, when needStop is
\* set, not counting the sample it has just read.
Sizes ==
  IF needStop THEN {n \in 0..Chunk : n % 2 = 0 /\ (n < Chunk \/ n = 0)}
              ELSE {Chunk}

\* Mutant: off by one.
PastEnd == num > waveFileSize

AtEnd == num >= waveFileSize

\* The end of the file counts as a stop (and as one byte read).
ReadEnds ==
  /\ Running
  /\ pc = "read" /\ AtEnd
  /\ needStop' = TRUE
  /\ status' = FALSE
  /\ num' = num + 1
  /\ left' = 0
  /\ pc' = "write"
  /\ UNCHANGED <<app, semWavPlayer, files, pcmFramesData, handed, device>>

\* Mutant: the stream of the last playback is not closed.
FcloseForgotten == opened

\* fclose, if there is a stream.
AfterFclose == opened - Count(wavFp # NoFile)

\* fopen, of the file that is played.
Fopen == wavFp' = waveFileName /\ opened' = AfterFclose + 1

\* At offset 0 the stream is opened anew.
ReadGets ==
  /\ Running
  /\ pc = "read" /\ ~AtEnd
  /\ IF num = 0 THEN Fopen ELSE UNCHANGED <<wavFp, opened>>
  /\ \E size \in Sizes :
       /\ num' = num + size
       /\ left' = size \div 2
       /\ pc' = IF size > 0 THEN "write" ELSE "drain"
  /\ UNCHANGED <<app, semWavPlayer, flags, waveFileName, waveFileSize, wavFd,
                 pcmFramesData, handed, device>>

\* fopen fails, or fseek, with the stream open.
ReadFails ==
  /\ Running
  /\ pc = "read" /\ num = 0 /\ ~AtEnd
  /\ "fopen" \in Failures
  /\ (wavFp' = NoFile /\ opened' = AfterFclose) \/ Fopen
  /\ pc' = "drain"
  /\ UNCHANGED <<app, semWavPlayer, flags, waveFileName, waveFileSize, wavFd,
                 pcmFramesData, num, left, handed, device>>

\* Mutant: the loop is left after each period.
AfterPeriodStops == "drain"

AfterPeriod == IF needStop THEN "drain" ELSE "read"

\* The top of WritePcmBuffer's loop: done or told to stop, ...
WriteEnds ==
  /\ Running
  /\ pc = "write" /\ (left = 0 \/ needStop)
  /\ left' = 0
  /\ pc' = AfterPeriod
  /\ UNCHANGED <<app, semWavPlayer, flags, files, pcmFramesData, num, handed, device>>

\* ... or on to snd_pcm_writei.
WriteGoesOn ==
  /\ Running
  /\ pc = "write" /\ left > 0 /\ ~needStop
  /\ pc' = "writei"
  /\ UNCHANGED <<app, semWavPlayer, flags, files, pcmFramesData, num, left, handed,
                 device>>

\* Mutant: ptr is not moved on after a write.
NextFrameStuck == ((num - 1) \div (2 * PeriodSize)) * PeriodSize

\* The frame ptr points to.
NextFrame == (num \div 2) - left

\* snd_pcm_writei moves what the buffer has room for.
Room == Smaller(left, Space)

\* SetPcmSwParams: the transfer starts when the buffer is full.
StartThreshold == BufferSize

\* It blocks until all is written.  It is woken up when a period fits (avail_min)
\* or earlier, as the driver has it.
Transfer ==
  LET k == Room IN
  /\ Running
  /\ pc \in {"writei", "writing"} /\ IsOk /\ Space > 0
  /\ queued' = queued \o [i \in 1..k |-> [file |-> wavFp, frame |-> NextFrame + i - 1]]
  /\ left' = left - k /\ handed' = handed + k
  /\ pcm' = IF Len(queued') >= StartThreshold THEN "running" ELSE pcm
  /\ pc' = IF left' = 0 THEN "write" ELSE "writing"
  /\ UNCHANGED <<app, semWavPlayer, flags, files, pcmFramesData, num>>

\* An error in the middle: what was written is returned, and the loop goes on
\* at the frame that comes next.
TransferStops ==
  /\ Running
  /\ pc = "writing" /\ ~IsOk
  /\ pc' = "write"
  /\ UNCHANGED <<app, semWavPlayer, flags, files, pcmFramesData, num, left, handed,
                 device>>

\* RecoveryPcm is done: WritePcmBuffer breaks off and returns the error all the
\* same, and WritePcmDevice gives up.
GivesUp ==
  /\ left' = 0
  /\ pc' = "drain"
  /\ UNCHANGED <<app, semWavPlayer, flags, files, pcmFramesData, num, handed>>

\* snd_pcm_prepare empties the buffer, unless it fails.
Prepare ==
  \/ pcm' = "prepared" /\ queued' = << >>
  \/ "prepare" \in Failures /\ UNCHANGED device

WriteUnderruns ==
  /\ Running
  /\ pc = "writei" /\ pcm = "xrun"
  /\ Prepare
  /\ GivesUp

\* Any other error is not recovered from.
WriteFails ==
  /\ Running
  /\ pc = "writei" /\ pcm \in {"setup", "closed"}
  /\ GivesUp
  /\ UNCHANGED device

WriteSuspended ==
  /\ Running
  /\ pc = "writei" /\ pcm = "suspended"
  /\ pc' = "resume"
  /\ UNCHANGED <<app, semWavPlayer, flags, files, pcmFramesData, num, left, handed,
                 device>>

\* Mutant: a suspended player does not look at needStop.
StopSeenNever == FALSE

StopSeen == needStop

\* snd_pcm_resume says -EAGAIN, and there is a reason not to try again.
ResumeGivesUp ==
  /\ Running
  /\ pc = "resume" /\ StopSeen
  /\ Prepare
  /\ GivesUp

\* Mutant: the stop leaves status on.
StatusLeftOn == status

StatusAfterStop == FALSE

\* A short playback is drained (num, in bytes, against the buffer, in frames) and
\* the PCM prepared again; if that fails, nobody looks, and it is left set up.
Drains ==
  IF BufferSize > num /\ pcm # "closed"
  THEN /\ queued' = << >>
       /\ pcm' = "prepared" \/ ("prepare" \in Failures /\ pcm' = "setup")
  ELSE UNCHANGED device

\* PlayWaveFile is told to stop.
DrainStops ==
  /\ Running
  /\ pc = "drain" /\ needStop
  /\ Drains
  /\ pcmFramesData' = FALSE
  /\ status' = StatusAfterStop
  /\ pc' = "release"
  /\ UNCHANGED <<app, semWavPlayer, needStop, files, num, left, handed>>

\* PlayWaveFile's own loop (l.642) ends in no other way: once more from offset 0.
DrainRepeats ==
  /\ Running
  /\ pc = "drain" /\ ~needStop
  /\ Drains
  /\ num' = 0 /\ handed' = 0
  /\ pc' = "read"
  /\ UNCHANGED <<app, semWavPlayer, flags, files, pcmFramesData, left>>

-----------------------------------------------------------------------------
(* ThreadAudioPlayer again: the lock is released, and needStop reset.       *)

Releases ==
  /\ Running
  /\ pc = "release"
  /\ semWavPlayer' = semWavPlayer + 1
  /\ pc' = "clear"
  /\ UNCHANGED <<app, flags, files, pcmFramesData, num, left, handed,
                 device>>

Clears ==
  /\ Running
  /\ pc = "clear"
  /\ needStop' = FALSE
  /\ pc' = "idle"
  /\ UNCHANGED <<app, semWavPlayer, status, files, pcmFramesData, num, left, handed,
                 device>>

-----------------------------------------------------------------------------
(* The PCM plays on its own.                                                *)

\* A frame is played; a PCM that runs out of frames is in under-run.
DevicePlays ==
  /\ Running
  /\ pcm = "running"
  /\ Len(queued) > 1 \/ ~Playing \/ "underrun" \in Failures
  /\ queued' = Tail(queued)
  /\ pcm' = IF queued' = << >> THEN "xrun" ELSE pcm
  /\ UNCHANGED <<app, semWavPlayer, flags, files, pcmFramesData, pc, num, left, handed>>

DeviceSuspends ==
  /\ Running
  /\ "suspend" \in Failures
  /\ pcm = "running"
  /\ pcm' = "suspended"
  /\ UNCHANGED <<app, semWavPlayer, flags, files, pcmFramesData, pc, num, left, handed,
                 queued>>

\* snd_pcm_resume stops saying -EAGAIN: it has worked, or is not supported.
DeviceResumes ==
  /\ Running
  /\ pc = "resume"
  /\ (pcm' = "running" /\ UNCHANGED queued) \/ Prepare
  /\ GivesUp

-----------------------------------------------------------------------------
Player ==
  \/ PassesIdle \/ StartsPlaying \/ StartsMissing
  \/ CheckFails \/ CheckPasses
  \/ ReadEnds \/ ReadGets
  \/ WriteEnds \/ WriteGoesOn \/ Transfer \/ TransferStops
  \/ WriteUnderruns \/ WriteFails \/ WriteSuspended \/ ResumeGivesUp
  \/ DrainStops \/ DrainRepeats
  \/ Releases \/ Clears

\* What goes wrong, or not, of its own accord.
Chance == CallocFails \/ Crashes \/ ReadFails \/ DeviceSuspends \/ DeviceResumes

Next ==
  \/ Player
  \/ Chance
  \/ DevicePlays
  \/ StopAudioPlayer
  \/ \E c \in Apps : PlayOnTakes(c) \/ PlayOnSets(c)
  \/ \E c \in Apps, f \in File : AppPlays(c, f)

Spec == Init /\ [][Next]_vars

\* The threads are scheduled and the PCM plays.  The player sleeps 100 ms
\* between sem_post and sem_wait, so that whoever waits gets the semaphore.
Fairness ==
  /\ WF_vars(Player)
  /\ WF_vars(DevicePlays)
  /\ \A c \in Apps : SF_vars(PlayOnTakes(c)) /\ WF_vars(PlayOnSets(c))

FairSpec == Spec /\ Fairness

-----------------------------------------------------------------------------
(* Properties                                                               *)

\* Every variable keeps to its values; the ALSA buffer is never overfilled.
TypeOK ==
  /\ playInform \in File \cup {NoFile}
  /\ semWavPlayer \in {0, 1}
  /\ needStop \in BOOLEAN /\ status \in BOOLEAN
  /\ waveFileName \in File \cup {NoFile} /\ waveFileSize \in Nat
  /\ wavFd \in BOOLEAN /\ wavFp \in File \cup {NoFile} /\ opened \in Nat
  /\ pcmFramesData \in BOOLEAN
  /\ pc \in PcValues /\ num \in Nat /\ left \in 0..PeriodSize /\ handed \in Nat
  /\ pcm \in PcmStates
  /\ queued \in Seq(Frame) /\ Len(queued) <= BufferSize
  /\ call \in [Apps -> [at : CallAts, file : File \cup {NoFile}]]
  /\ plays \in 0..MaxPlays
  /\ alive \in BOOLEAN

\* The semaphore is a lock around playInform: it is free exactly when neither
\* the player nor a call has it, and no two of them do.
LockHolds ==
  LET setting == {c \in Apps : call[c].at = "set"} IN
  /\ \A c, d \in setting : c = d
  /\ Holding => setting = {}
  /\ semWavPlayer = (IF Holding \/ setting # {} THEN 0 ELSE 1)

\* Through partial writes, errors in the middle of them, and however the buffer is
\* emptied in between, WritePcmDevice hands over the frames of the file it was asked
\* to play in order: ptr (l.559) is at the frame that comes next, none read is
\* left out when the next are read, and the last frames in the ALSA buffer are those
\* of this pass, without a gap and from the file of the request and not from
\* the stream (l.446) of the one before.
FramesInOrder ==
  /\ pc \in {"writei", "writing"} => NextFrame = handed
  /\ pc = "read" => num = 2 * handed
  /\ Playing =>
       \A i \in 1..Len(queued) :
         LET behind == Len(queued) - i IN
         behind < handed =>
           queued[i] = [file |-> waveFileName, frame |-> handed - 1 - behind]

\* A playback goes back to the first frame only when frames it had read could not be
\* handed over, because the PCM failed, recovered or not (l.556, l.576), or when the
\* file ends before waveFileSize says (an odd byte, or no size), or was not opened.
StartsOverOnlyThen ==
  [][Playing /\ num' < num
       => handed < num \div 2
          \/ (num < waveFileSize /\ Bytes[waveFileName] - num < 2)]_vars

\* A stop made while CheckAudioPlayer says that a file plays is not overwritten
\* by the player's own resets of needStop (l.613, l.703).
StopIsKept ==
  [][status /\ needStop => needStop' \/ ~status' \/ pcm = "closed"]_vars

\* What the player has open is what it still has a name for, PlayWaveFile's wavFd and
\* ReadWavFile's static wavFp, and neither is opened over an open one.  On whichever
\* path PlayWaveFile returns, wavFd is closed and the memory given back.  wavFp is
\* not: it stays open until the next playback, so that after any number of them,
\* repeated, refused or failed, one descriptor at the most is left open.
OnlyStreamStaysOpen ==
  /\ opened = Count(wavFd) + Count(wavFp # NoFile)
  /\ pc \in {"release", "clear", "idle"} => ~wavFd /\ ~pcmFramesData

\* A stop made during a playback ends it, whatever goes wrong with the file or the
\* PCM in the meantime, but for the lack of memory, which closes the PCM for good.
StopEndsPlayback == needStop /\ status ~> ~status \/ pcm = "closed"

\* With a PCM that keeps up: PlayOnWaveFile returns, also when a file plays at the
\* time, unless that file has an odd number of bytes.  Such a file is repeated with the
\* semaphore held until somebody stops it: fread (l.480) fails with a byte left, and
\* l.449 never sees the end.
OddPlays == status /\ Bytes[waveFileName] % 2 = 1

RequestsReturn ==
  \A c \in Apps : call[c].at # "none" ~> call[c].at = "none" \/ OddPlays

\* With a PCM that keeps up: the file asked for last plays, whatever
\* else was asked for, refused or stopped before it; and as nothing resets the flag
\* of the request (l.735), it plays again after every end and every stop.
RequestPlays ==
  \A f \in File : Kind[f] = "wave" /\ playInform = f
    ~> playInform # f \/ (status /\ waveFileName = f)

-----------------------------------------------------------------------------
(* What a comment of the code promises and the code does not keep.          *)

\* The problem of other players, left-over sound when another one is played, is what
\* this one was written for: "when switching, delete the ALSA level buffer at once"
\* (l.17-19).  So a sound that was cut off is not followed by another in the buffer.
SwitchDropsBuffer ==
  \A i \in 1..(Len(queued) - 1) :
    queued[i + 1].file # queued[i].file
      => queued[i].frame + 1 = Bytes[queued[i].file] \div 2

=============================================================================
