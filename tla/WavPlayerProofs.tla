--------------------------- MODULE WavPlayerProofs ---------------------------
(***************************************************************************)
(* What WavPlayer promises for all files, sizes of period and buffer,      *)
(* application threads and failures.                                       *)
(*                                                                         *)
(* The player is one thread, so its invariants say what holds at each      *)
(* point of it: what it has taken and must give back, who has the lock,    *)
(* and which frame of the file comes next; the PCM and the callers run     *)
(* beside it and break none of this.                                       *)
(***************************************************************************)
EXTENDS WavPlayer, SequenceTheorems, TLAPS

\* The descriptor is held in CheckWavFile, for a file that is there; the period
\* buffer during the playback; and nothing is open but what has a name.
Resources ==
  /\ pc = "check" \/ Playing => waveFileName \in File
  /\ wavFd <=> pc = "check"
  /\ pcmFramesData <=> Playing
  /\ opened = Count(wavFd) + Count(wavFp # NoFile)

\* CheckAudioPlayer says that a file plays only in the playback; but without memory
\* for it (l.637) for ever.
StatusInv == status => Playing \/ pcm = "closed"

\* A PCM that plays, or would, has something to play; it is suspended as long as the
\* player waits for snd_pcm_resume.
DeviceInv ==
  /\ pcm \in {"running", "suspended"} => queued # << >>
  /\ pc = "resume" => pcm = "suspended"

\* In the middle of a period: what was read of the file is handed over or left.
AtWrite == pc \in {"write", "writei", "writing", "resume"}
Reached == num = 2 * (handed + left) /\ num <= Bytes[waveFileName]

\* Why a playback that nobody has stopped starts over.
GaveUp ==
  \/ num = 0
  \/ handed < num \div 2
  \/ num < waveFileSize /\ Bytes[waveFileName] - num < 2

\* How far a pass is.  A player that was stopped, or is at the end, writes no more.
PassInv ==
  /\ left > 0 => AtWrite
  /\ pc = "read" => Reached
  /\ pc = "write" => needStop \/ Reached
  /\ pc \in {"writei", "writing", "resume"} => left > 0 /\ Reached
  /\ pc = "drain" => needStop \/ GaveUp
  /\ Playing /\ handed + left > 0 => wavFp = waveFileName

\* The last frames in the buffer are this pass's.
LastInOrder ==
  Playing =>
    \A i \in 1..Len(queued) :
      LET behind == Len(queued) - i IN
      behind < handed =>
        queued[i] = [file |-> waveFileName, frame |-> handed - 1 - behind]

PlayerInv ==
  /\ TypeOK /\ LockHolds /\ Resources /\ StatusInv
  /\ DeviceInv /\ PassInv /\ LastInOrder

-----------------------------------------------------------------------------
(* Sequences and sizes.                                                     *)

\* The k entries of t, after those of q.
LEMMA AppendRun ==
  ASSUME NEW S, NEW q \in Seq(S), NEW k \in Nat, NEW t \in [1..k -> S]
  PROVE  /\ q \o t \in Seq(S)
         /\ Len(q \o t) = Len(q) + k
         /\ \A i \in 1..Len(q) : (q \o t)[i] = q[i]
         /\ \A i \in (Len(q) + 1)..(Len(q) + k) : (q \o t)[i] = t[i - Len(q)]
<1>1. t \in Seq(S) /\ Len(t) = k
  OBVIOUS
<1>2. /\ q \o t \in Seq(S)
      /\ Len(q \o t) = Len(q) + k
      /\ \A i \in 1..(Len(q) + k) : (q \o t)[i] = IF i <= Len(q) THEN q[i] ELSE t[i - Len(q)]
  BY <1>1, ConcatProperties
<1>3. Len(q) \in Nat
  BY LenProperties
<1> QED BY <1>2, <1>3

LEMMA TailOf ==
  ASSUME NEW S, NEW q \in Seq(S), q # << >>
  PROVE  /\ Tail(q) \in Seq(S) /\ Len(Tail(q)) = Len(q) - 1 /\ Len(q) > 0
         /\ \A i \in 1..(Len(q) - 1) : Tail(q)[i] = q[i + 1]
BY HeadTailProperties, EmptySeq, LenProperties

LEMMA FileSize ==
  ASSUME Resources, pc = "check" \/ Playing
  PROVE  waveFileName \in File /\ waveFileName # NoFile /\ Bytes[waveFileName] \in Nat
BY WavPlayerAssumption DEF Resources

\* What ReadWavFile can return: whole samples that the file has, a period of them at
\* the most; nothing only when told to stop, or when the file has no more.
LEMMA SizeBounds ==
  ASSUME TypeOK, Resources, PassInv, pc = "read", ~AtEnd, NEW size \in Sizes
  PROVE  /\ size \in Nat /\ size = 2 * (size \div 2)
         /\ size \div 2 \in 0..PeriodSize
         /\ num + size <= Bytes[waveFileName]
         /\ size = 0 /\ ~needStop => Bytes[waveFileName] - num < 2
<1>1. /\ num \in Nat /\ waveFileSize \in Nat /\ num < waveFileSize
      /\ PeriodSize \in Nat /\ PeriodSize > 0
  BY WavPlayerAssumption DEF TypeOK, AtEnd
<1>2. Bytes[waveFileName] \in Nat
  BY FileSize DEF Playing
<1>3. num <= Bytes[waveFileName]
  BY DEF PassInv, Reached
<1> DEFINE bufSize == Smaller(2 * PeriodSize, waveFileSize - num)
           rest    == Bytes[waveFileName] - num
           samples == bufSize + (bufSize % 2)
           whole   == rest - (rest % 2)
<1>4. bufSize \in 1..(2 * PeriodSize) /\ rest \in Nat
  BY <1>1, <1>2, <1>3 DEF Smaller
<1> HIDE DEF bufSize, rest
<1>5. samples \in 2..(2 * PeriodSize) /\ samples % 2 = 0
  BY <1>1, <1>4
<1>6. whole \in 0..rest /\ whole % 2 = 0 /\ (whole = 0 => rest < 2)
  BY <1>4
<1>7. Chunk = Smaller(samples, whole)
  BY DEF Chunk, bufSize, rest
<1> HIDE DEF samples, whole
<1>8. Chunk \in 0..rest /\ Chunk % 2 = 0 /\ Chunk <= 2 * PeriodSize /\ (Chunk = 0 => rest < 2)
  BY <1>1, <1>4, <1>5, <1>6, <1>7 DEF Smaller
<1>9. size \in 0..Chunk /\ size % 2 = 0 /\ (~needStop => size = Chunk)
  BY <1>8 DEF Sizes
<1> HIDE DEF Chunk
<1> QED BY <1>1, <1>2, <1>4, <1>8, <1>9 DEF rest

\* The room in the buffer for a write that goes on.
LEMMA RoomBounds ==
  ASSUME TypeOK, PassInv, pc \in {"writei", "writing"}, Space > 0
  PROVE  /\ Room \in 1..left /\ Len(queued) + Room <= BufferSize
         /\ NextFrame = handed /\ Len(queued) \in Nat
<1>1. Len(queued) \in Nat /\ BufferSize \in Nat /\ left \in Nat /\ num \in Nat /\ handed \in Nat
  BY LenProperties, WavPlayerAssumption DEF TypeOK
<1>2. left > 0 /\ num = 2 * (handed + left)
  BY DEF PassInv, Reached
<1> QED BY <1>1, <1>2 DEF Room, Space, Smaller, NextFrame

-----------------------------------------------------------------------------
(* What Next is made of: the application, the player up to and after the       *)
(* playback, reading, writing, and the PCM.                                    *)

Requests ==
  \/ StopAudioPlayer
  \/ \E c \in Apps : PlayOnTakes(c) \/ PlayOnSets(c) \/ \E f \in File : AppPlays(c, f)

Opening ==
  \/ PassesIdle \/ StartsPlaying \/ StartsMissing
  \/ CheckFails \/ CheckPasses \/ CallocFails \/ Releases \/ Clears

Reading == ReadEnds \/ ReadGets \/ ReadFails \/ DrainStops \/ DrainRepeats

Writing ==
  \/ WriteEnds \/ WriteGoesOn \/ TransferStops
  \/ WriteUnderruns \/ WriteFails \/ WriteSuspended \/ ResumeGivesUp \/ DeviceResumes

LEMMA NextParts ==
  Next <=> Requests \/ Opening \/ Reading \/ Writing \/ Transfer
             \/ DevicePlays \/ DeviceSuspends \/ Crashes
BY DEF Next, Player, Chance, Requests, Opening, Reading, Writing

-----------------------------------------------------------------------------
(* Types.                                                                   *)

LEMMA NoFrames == << >> \in Seq(Frame) /\ Len(<< >>) = 0
BY EmptySeq

LEMMA TypeInit == Init => TypeOK
<1> SUFFICES ASSUME Init
             PROVE  TypeOK
  OBVIOUS
<1>1. queued \in Seq(Frame) /\ Len(queued) <= BufferSize /\ left \in 0..PeriodSize /\ plays \in 0..MaxPlays
  BY NoFrames, WavPlayerAssumption DEF Init
<1>2. call \in [Apps -> [at : CallAts, file : File \cup {NoFile}]]
  BY DEF Init, NoCall, CallAts
<1> QED BY <1>1, <1>2 DEF Init, TypeOK, PcValues, PcmStates

LEMMA DrainsType ==
  ASSUME TypeOK, Drains \/ Prepare
  PROVE  pcm' \in PcmStates /\ queued' \in Seq(Frame) /\ Len(queued') <= BufferSize
<1>1. CASE pcm' \in {"prepared", "setup"} /\ queued' = << >>
  BY <1>1, WavPlayerAssumption, NoFrames DEF PcmStates
<1>2. CASE UNCHANGED device
  BY <1>2 DEF TypeOK, device
<1> QED BY <1>1, <1>2 DEF Drains, Prepare

LEMMA RequestsType ==
  ASSUME TypeOK, LockHolds, Requests
  PROVE  TypeOK'
<1> USE DEF TypeOK, CallAts, Running, flags, files, device, app
<1>1. CASE StopAudioPlayer
  BY <1>1 DEF StopAudioPlayer
<1>2. ASSUME NEW c \in Apps, PlayOnTakes(c)
      PROVE  TypeOK'
  <2>1. semWavPlayer' = 0
    BY <1>2 DEF PlayOnTakes, CanTake
  <2>2. call' \in [Apps -> [at : CallAts, file : File \cup {NoFile}]]
    BY <1>2 DEF PlayOnTakes
  <2> QED BY <1>2, <2>1, <2>2 DEF PlayOnTakes
<1>3. ASSUME NEW c \in Apps, PlayOnSets(c)
      PROVE  TypeOK'
  <2>1. semWavPlayer = 0
    BY <1>3 DEF PlayOnSets, LockHolds
  <2> QED BY <1>3, <2>1 DEF PlayOnSets, NoCall
<1>4. ASSUME NEW c \in Apps, NEW f \in File, AppPlays(c, f)
      PROVE  TypeOK'
  BY <1>4, WavPlayerAssumption DEF AppPlays
<1> QED BY <1>1, <1>2, <1>3, <1>4 DEF Requests

LEMMA OpeningType ==
  ASSUME TypeOK, LockHolds, Resources, Opening
  PROVE  TypeOK'
<1> USE DEF TypeOK, PcValues, Running, flags, files, device, app
<1>1. CASE PassesIdle
  BY <1>1 DEF PassesIdle
<1>2. CASE StartsPlaying \/ StartsMissing
  <2>1. semWavPlayer' = 0 /\ waveFileName' \in File /\ needStop' = FALSE
    BY <1>2 DEF StartsPlaying, StartsMissing, Starts, CanTake, NameCopied
  <2>2. wavFd' \in BOOLEAN /\ opened' \in Nat
    <3>1. CASE StartsPlaying
      BY <3>1 DEF StartsPlaying
    <3>2. CASE StartsMissing
      BY <3>2 DEF StartsMissing
    <3> QED BY <1>2, <3>1, <3>2
  <2>3. pc' \in {"check", "release"} /\ Running
        /\ UNCHANGED <<app, status, waveFileSize, wavFp, pcmFramesData, num, left, handed, device>>
    BY <1>2 DEF StartsPlaying, StartsMissing, Starts
  <2> QED BY <2>1, <2>2, <2>3
<1>c. pc = "check" => opened - 1 \in Nat
  BY DEF Resources, Count
<1>3. CASE CheckFails
  BY <1>c, <1>3 DEF CheckFails
<1>4. ASSUME Checked
      PROVE  /\ waveFileSize' \in Nat /\ wavFd' = FALSE /\ status' = TRUE /\ opened' \in Nat
             /\ UNCHANGED <<app, semWavPlayer, needStop, waveFileName, wavFp, left, queued>>
  <2>1. waveFileName \in File
    BY <1>4 DEF Checked, Resources
  <2> QED BY <1>c, <1>4, <2>1, WavPlayerAssumption DEF Checked
<1>5. CASE CheckPasses
  BY <1>4, <1>5 DEF CheckPasses, Checked
<1>6. CASE CallocFails
  BY <1>4, <1>6 DEF CallocFails, Checked, PcmStates
<1>7. CASE Releases
  BY <1>7 DEF Releases, LockHolds, Holding
<1>8. CASE Clears
  BY <1>8 DEF Clears
<1> QED BY <1>1, <1>2, <1>3, <1>5, <1>6, <1>7, <1>8 DEF Opening

LEMMA ReadingType ==
  ASSUME TypeOK, Resources, PassInv, Reading
  PROVE  TypeOK'
<1> USE DEF TypeOK, PcValues, Running, flags, files, device, app
<1>s. pc = "read" => AfterFclose \in Nat /\ waveFileName \in File
  BY FileSize DEF AfterFclose, Resources, Count, Playing
<1>1. CASE ReadEnds
  <2>1. left' \in 0..PeriodSize /\ num' \in Nat
    BY <1>1, WavPlayerAssumption DEF ReadEnds
  <2> QED BY <1>1, <2>1 DEF ReadEnds
<1>2. CASE ReadGets
  <2>1. PICK size \in Sizes : /\ num' = num + size
                              /\ left' = size \div 2
                              /\ pc' = IF size > 0 THEN "write" ELSE "drain"
    BY <1>2 DEF ReadGets
  <2>2. size \in Nat /\ size \div 2 \in 0..PeriodSize
    BY <1>2, SizeBounds DEF ReadGets
  <2>3. num' \in Nat /\ left' \in 0..PeriodSize /\ pc' \in PcValues
    BY <2>1, <2>2
  <2>4. wavFp' \in File \cup {NoFile} /\ opened' \in Nat
    BY <1>2, <1>s DEF ReadGets, Fopen
  <2> QED BY <1>2, <2>3, <2>4 DEF ReadGets
<1>3. CASE ReadFails
  BY <1>3, <1>s DEF ReadFails, Fopen
<1>4. CASE DrainStops
  BY <1>4, DrainsType DEF DrainStops, StatusAfterStop
<1>5. CASE DrainRepeats
  BY <1>5, DrainsType DEF DrainRepeats
<1> QED BY <1>1, <1>2, <1>3, <1>4, <1>5 DEF Reading

LEMMA WritingType ==
  ASSUME TypeOK, Writing
  PROVE  TypeOK'
<1> USE DEF TypeOK, PcValues, Running, flags, files, device, app
<1>0. 0 \in 0..PeriodSize
  BY WavPlayerAssumption
<1>1. CASE WriteEnds
  BY <1>0, <1>1 DEF WriteEnds, AfterPeriod
<1>2. CASE WriteGoesOn \/ TransferStops \/ WriteSuspended
  BY <1>2 DEF WriteGoesOn, TransferStops, WriteSuspended
<1>3. CASE WriteUnderruns \/ ResumeGivesUp
  BY <1>0, <1>3, DrainsType DEF WriteUnderruns, ResumeGivesUp, GivesUp
<1>4. CASE WriteFails
  BY <1>0, <1>4 DEF WriteFails, GivesUp
<1>5. CASE DeviceResumes
  BY <1>0, <1>5, DrainsType DEF DeviceResumes, GivesUp, PcmStates
<1> QED BY <1>1, <1>2, <1>3, <1>4, <1>5 DEF Writing

\* What a write puts into the buffer, after what was there.
LEMMA TransferRun ==
  ASSUME TypeOK, Resources, PassInv, Transfer
  PROVE  /\ Room \in 1..left /\ Len(queued) \in Nat /\ handed \in Nat
         /\ queued' \in Seq(Frame) /\ Len(queued') = Len(queued) + Room
         /\ Len(queued') <= BufferSize
         /\ \A i \in 1..Len(queued) : queued'[i] = queued[i]
         /\ \A i \in (Len(queued) + 1)..(Len(queued) + Room) :
              queued'[i] = [file |-> waveFileName, frame |-> handed + (i - Len(queued)) - 1]
<1>1. /\ Room \in 1..left /\ Len(queued) + Room <= BufferSize
      /\ NextFrame = handed /\ Len(queued) \in Nat
  BY RoomBounds DEF Transfer
<1>2. Room \in Nat /\ queued \in Seq(Frame) /\ handed \in Nat /\ left > 0
  BY <1>1, WavPlayerAssumption DEF TypeOK
<1>3. waveFileName \in File /\ wavFp = waveFileName
  <2>1. Playing /\ handed + left > 0
    BY <1>2 DEF Transfer, Playing, TypeOK
  <2> QED BY <2>1, FileSize DEF PassInv
<1> DEFINE t == [i \in 1..Room |-> [file |-> waveFileName, frame |-> handed + i - 1]]
<1>4. queued' = queued \o t
  BY <1>1, <1>3 DEF Transfer
<1> HIDE DEF Room
<1>5. t \in [1..Room -> Frame]
  BY <1>2, <1>3 DEF Frame
<1>6. \A i \in 1..Room : t[i] = [file |-> waveFileName, frame |-> handed + i - 1]
  OBVIOUS
<1> HIDE DEF t
<1>7. /\ queued' \in Seq(Frame) /\ Len(queued') = Len(queued) + Room
      /\ \A i \in 1..Len(queued) : queued'[i] = queued[i]
      /\ \A i \in (Len(queued) + 1)..(Len(queued) + Room) : queued'[i] = t[i - Len(queued)]
  BY <1>2, <1>4, <1>5, AppendRun
<1>8. \A i \in (Len(queued) + 1)..(Len(queued) + Room) : i - Len(queued) \in 1..Room
  BY <1>1, <1>2
<1> QED BY <1>1, <1>2, <1>6, <1>7, <1>8

LEMMA TransferType ==
  ASSUME TypeOK, Resources, PassInv, Transfer
  PROVE  TypeOK'
<1> USE DEF TypeOK, PcValues, Running, flags, files, device, app
<1>1. Room \in 1..left /\ queued' \in Seq(Frame) /\ Len(queued') <= BufferSize
  BY TransferRun
<1>2. left' \in 0..PeriodSize /\ handed' \in Nat
  BY <1>1, WavPlayerAssumption DEF Transfer
<1>3. pcm' \in PcmStates /\ pc' \in PcValues
  BY DEF Transfer, PcmStates
<1> QED BY <1>1, <1>2, <1>3 DEF Transfer

LEMMA DeviceType ==
  ASSUME TypeOK, DeviceInv, DevicePlays \/ DeviceSuspends \/ Crashes
  PROVE  TypeOK'
<1> USE DEF TypeOK, Running, flags, files, device, app
<1>1. CASE DevicePlays
  <2>1. queued # << >>
    BY <1>1 DEF DevicePlays, DeviceInv
  <2>2. queued' \in Seq(Frame) /\ Len(queued') = Len(queued) - 1 /\ Len(queued) \in Nat /\ BufferSize \in Nat
    BY <1>1, <2>1, TailOf, LenProperties, WavPlayerAssumption DEF DevicePlays
  <2>3. pcm' \in PcmStates /\ Len(queued') <= BufferSize
    BY <1>1, <2>2 DEF DevicePlays, PcmStates
  <2> QED BY <1>1, <2>2, <2>3 DEF DevicePlays
<1>2. CASE DeviceSuspends
  BY <1>2 DEF DeviceSuspends, PcmStates
<1>3. CASE Crashes
  BY <1>3 DEF Crashes
<1> QED BY <1>1, <1>2, <1>3

-----------------------------------------------------------------------------
(* The lock.  It changes hands in four steps; in all others nobody's part of it  *)
(* does.                                                                       *)

LEMMA LockKept ==
  ASSUME LockHolds, UNCHANGED <<semWavPlayer, call>>, Holding' <=> Holding
  PROVE  LockHolds'
BY DEF LockHolds

LEMMA RequestsLock ==
  ASSUME TypeOK, LockHolds, Requests
  PROVE  LockHolds'
<1> USE DEF TypeOK
<1> DEFINE setting == {d \in Apps : call[d].at = "set"}
<1>1. CASE StopAudioPlayer
  BY <1>1, LockKept DEF StopAudioPlayer, app, Holding, Playing
<1>2. ASSUME NEW c \in Apps, PlayOnTakes(c)
      PROVE  LockHolds'
  <2>1. semWavPlayer = 1 /\ semWavPlayer' = 0 /\ ~Holding /\ setting = {}
    BY <1>2 DEF PlayOnTakes, CanTake, LockHolds
  <2>2. \A d \in Apps : call'[d].at = "set" <=> d = c
    BY <1>2, <2>1 DEF PlayOnTakes
  <2>3. ~Holding'
    BY <1>2, <2>1 DEF PlayOnTakes, Holding, Playing
  <2> QED BY <2>1, <2>2, <2>3 DEF LockHolds
<1>3. ASSUME NEW c \in Apps, PlayOnSets(c)
      PROVE  LockHolds'
  <2>1. semWavPlayer' = 1 /\ ~Holding /\ \A d \in Apps : call[d].at = "set" <=> d = c
    BY <1>3 DEF PlayOnSets, LockHolds
  <2>2. \A d \in Apps : call'[d].at # "set"
    BY <1>3, <2>1 DEF PlayOnSets, NoCall
  <2>3. ~Holding'
    BY <1>3, <2>1 DEF PlayOnSets, Holding, Playing
  <2> QED BY <2>1, <2>2, <2>3 DEF LockHolds
<1>4. ASSUME NEW c \in Apps, NEW f \in File, AppPlays(c, f)
      PROVE  LockHolds'
  <2>1. \A d \in Apps : call'[d].at = "set" <=> call[d].at = "set"
    BY <1>4 DEF AppPlays
  <2>2. Holding' <=> Holding
    BY <1>4 DEF AppPlays, Holding, Playing
  <2>3. semWavPlayer' = semWavPlayer
    BY <1>4 DEF AppPlays
  <2> HIDE DEF TypeOK
  <2>4. setting' = setting
    BY <2>1
  <2> QED BY <2>1, <2>2, <2>3, <2>4 DEF LockHolds
<1> QED BY <1>1, <1>2, <1>3, <1>4 DEF Requests

LEMMA OpeningLock ==
  ASSUME TypeOK, LockHolds, Opening
  PROVE  LockHolds'
<1> USE DEF app
<1>1. CASE StartsPlaying \/ StartsMissing
  <2>1. semWavPlayer = 1 /\ semWavPlayer' = 0 /\ UNCHANGED call /\ pc' \in {"check", "release"}
    BY <1>1 DEF StartsPlaying, StartsMissing, Starts, CanTake, TypeOK
  <2>2. \A d \in Apps : call[d].at # "set"
    BY <2>1 DEF LockHolds
  <2> QED BY <2>1, <2>2 DEF LockHolds, Holding
<1>2. CASE Releases
  <2>1. Holding /\ semWavPlayer' = semWavPlayer + 1 /\ UNCHANGED call /\ ~Holding'
    BY <1>2 DEF Releases, Holding, Playing
  <2>2. semWavPlayer = 0 /\ \A d \in Apps : call[d].at # "set"
    BY <2>1 DEF LockHolds
  <2> QED BY <2>1, <2>2 DEF LockHolds
<1>3. CASE PassesIdle \/ Clears \/ CheckFails
  BY <1>3, LockKept DEF PassesIdle, Clears, CheckFails, Holding, Playing
<1>4. CASE CheckPasses \/ CallocFails
  BY <1>4, LockKept DEF CheckPasses, CallocFails, Checked, Holding, Playing
<1> QED BY <1>1, <1>2, <1>3, <1>4 DEF Opening

LEMMA OtherLock ==
  ASSUME LockHolds,
         Reading \/ Writing \/ Transfer \/ DevicePlays \/ DeviceSuspends \/ Crashes
  PROVE  LockHolds'
<1> USE DEF app, Holding, Playing
<1>1. CASE Reading
  BY <1>1, LockKept DEF Reading, ReadEnds, ReadGets, ReadFails, DrainStops, DrainRepeats
<1>2. CASE Writing
  BY <1>2, LockKept DEF Writing, WriteEnds, AfterPeriod, WriteGoesOn, TransferStops,
        WriteUnderruns, WriteFails, WriteSuspended, ResumeGivesUp, DeviceResumes, GivesUp
<1>3. CASE Transfer
  BY <1>3, LockKept DEF Transfer
<1>4. CASE DevicePlays \/ DeviceSuspends \/ Crashes
  BY <1>4, LockKept DEF DevicePlays, DeviceSuspends, Crashes
<1> QED BY <1>1, <1>2, <1>3, <1>4

-----------------------------------------------------------------------------
(* What a playback has taken, and what it says of itself.                      *)

LEMMA ResourcesNext ==
  ASSUME TypeOK, Resources, Next
  PROVE  Resources'
<1> USE DEF Resources, Playing, files, flags
<1>1. CASE Requests
  BY <1>1 DEF Requests, StopAudioPlayer, PlayOnTakes, PlayOnSets, AppPlays
<1>2. CASE StartsPlaying \/ StartsMissing
  BY <1>2 DEF StartsPlaying, StartsMissing, Starts, NameCopied, TypeOK, Count
<1>3. CASE PassesIdle \/ CheckFails \/ CheckPasses \/ CallocFails \/ Releases \/ Clears
  BY <1>3 DEF PassesIdle, CheckFails, CheckPasses, CallocFails, Checked, Releases, Clears,
        Count, TypeOK
<1>4. CASE ReadEnds \/ DrainStops \/ DrainRepeats
  BY <1>4 DEF ReadEnds, DrainStops, DrainRepeats
<1>8. CASE ReadGets \/ ReadFails
  <2>1. pc = "read" /\ pc' \in {"write", "drain"} /\ UNCHANGED <<waveFileName, wavFd, pcmFramesData>>
    BY <1>8 DEF ReadGets, ReadFails
  <2>2. waveFileName # NoFile
    BY <2>1, FileSize
  <2>3. \/ wavFp' = NoFile /\ opened' = AfterFclose
        \/ wavFp' = waveFileName /\ opened' = AfterFclose + 1
        \/ wavFp' = wavFp /\ opened' = opened
    BY <1>8 DEF ReadGets, ReadFails, Fopen
  <2> QED BY <2>1, <2>2, <2>3 DEF AfterFclose, Count, TypeOK
<1>5. CASE Writing
  BY <1>5 DEF AfterPeriod, Writing, WriteEnds, WriteGoesOn, TransferStops, WriteUnderruns,
        WriteFails, WriteSuspended, ResumeGivesUp, DeviceResumes, GivesUp
<1>6. CASE Transfer
  BY <1>6 DEF Transfer
<1>7. CASE DevicePlays \/ DeviceSuspends \/ Crashes
  BY <1>7 DEF DevicePlays, DeviceSuspends, Crashes
<1> QED BY <1>1, <1>2, <1>3, <1>4, <1>5, <1>6, <1>7, <1>8, NextParts DEF Opening, Reading

LEMMA StatusNext ==
  ASSUME TypeOK, StatusInv, Next
  PROVE  StatusInv'
<1> USE DEF StatusInv, Playing, device, flags
<1>1. CASE Requests
  BY <1>1 DEF Requests, StopAudioPlayer, PlayOnTakes, PlayOnSets, AppPlays
<1>2. CASE Opening
  BY <1>2 DEF Opening, PassesIdle, StartsPlaying, StartsMissing, Starts, CheckFails,
        CheckPasses, CallocFails, Checked, Releases, Clears
<1>3. CASE Reading
  BY <1>3 DEF Reading, ReadEnds, ReadGets, ReadFails, DrainStops, DrainRepeats, StatusAfterStop
<1>4. CASE Writing
  BY <1>4 DEF Writing, AfterPeriod, WriteEnds, WriteGoesOn, TransferStops, WriteUnderruns,
        WriteFails, WriteSuspended, ResumeGivesUp, DeviceResumes, GivesUp
<1>5. CASE Transfer
  BY <1>5 DEF Transfer
<1>6. CASE DevicePlays \/ DeviceSuspends \/ Crashes
  BY <1>6 DEF DevicePlays, DeviceSuspends, Crashes
<1> QED BY <1>1, <1>2, <1>3, <1>4, <1>5, <1>6, NextParts

-----------------------------------------------------------------------------
(* How far the player is in the file, and what the PCM has.                    *)

LEMMA PassKept ==
  ASSUME PassInv, UNCHANGED <<pc, num, left, handed, files>>, needStop => needStop'
  PROVE  PassInv'
BY DEF PassInv, AtWrite, Reached, GaveUp, Playing, files

LEMMA OpeningPass ==
  ASSUME TypeOK, Resources, PassInv, Opening
  PROVE  PassInv'
<1> USE DEF PassInv, AtWrite, Playing
<1>1. left' = left
  BY DEF Opening, PassesIdle, StartsPlaying, StartsMissing, Starts, CheckFails,
         CheckPasses, CallocFails, Checked, Releases, Clears
<1>2. ~AtWrite
  BY DEF Opening, PassesIdle, StartsPlaying, StartsMissing, Starts, CheckFails,
         CheckPasses, CallocFails, Checked, Releases, Clears
<1>3. left = 0
  BY <1>2, WavPlayerAssumption DEF TypeOK
<1>4. CASE CheckPasses
  <2>1. waveFileName' = waveFileName /\ pc' = "read" /\ num' = 0 /\ handed' = 0 /\ pc = "check"
    BY <1>4 DEF CheckPasses, Checked
  <2>2. Bytes[waveFileName] \in Nat
    BY <2>1, FileSize
  <2> QED BY <1>1, <1>3, <2>1, <2>2 DEF Reached
<1>5. CASE ~CheckPasses
  <2>1. pc' \in {"idle", "check", "release", "clear"}
    BY <1>5 DEF Opening, PassesIdle, StartsPlaying, StartsMissing, Starts, CheckFails,
                CallocFails, Releases, Clears
  <2> QED BY <1>1, <1>3, <2>1
<1> QED BY <1>4, <1>5

LEMMA ReadingPass ==
  ASSUME TypeOK, Resources, PassInv, Reading
  PROVE  PassInv'
<1> USE DEF PassInv, AtWrite
<1>0. num \in Nat /\ left \in Nat /\ handed \in Nat
  BY WavPlayerAssumption DEF TypeOK
<1>1. CASE ReadEnds
  BY <1>0, <1>1 DEF ReadEnds, files, Playing
<1>2. CASE ReadGets
  <2>1. PICK size \in Sizes : /\ num' = num + size
                              /\ left' = size \div 2
                              /\ pc' = IF size > 0 THEN "write" ELSE "drain"
    BY <1>2 DEF ReadGets
  <2>2. pc = "read" /\ ~AtEnd /\ Reached /\ left = 0
        /\ UNCHANGED <<handed, needStop, waveFileName, waveFileSize>>
    BY <1>0, <1>2 DEF ReadGets, flags
  <2>3. /\ size \in Nat /\ size = 2 * (size \div 2)
        /\ size \div 2 \in Nat
        /\ num + size <= Bytes[waveFileName]
        /\ size = 0 /\ ~needStop => Bytes[waveFileName] - num < 2
    BY <2>1, <2>2, SizeBounds, WavPlayerAssumption
  <2>4. Reached'
    BY <1>0, <2>1, <2>2, <2>3 DEF Reached
  <2>5. handed' + left' > 0 => wavFp' = waveFileName'
    <3>1. CASE num = 0
      BY <1>2, <2>2, <3>1 DEF ReadGets, Fopen
    <3>2. CASE num # 0
      <4>1. handed + left > 0 /\ wavFp' = wavFp
        BY <1>0, <1>2, <2>2, <3>2 DEF ReadGets, Reached
      <4> QED BY <2>2, <4>1 DEF Playing
    <3> QED BY <3>1, <3>2
  <2>6. CASE size > 0
    BY <2>1, <2>4, <2>5, <2>6
  <2>7. CASE size = 0
    <3>1. num' = num /\ left' = 0 /\ pc' = "drain"
      BY <1>0, <2>1, <2>3, <2>7
    <3>2. needStop \/ GaveUp'
      BY <1>0, <2>2, <2>3, <2>7, <3>1 DEF GaveUp, AtEnd, TypeOK
    <3> QED BY <2>2, <2>5, <3>1, <3>2
  <2> QED BY <2>3, <2>6, <2>7
<1>3. CASE ReadFails
  <2>1. pc = "read" /\ num = 0 /\ pc' = "drain" /\ UNCHANGED <<num, left, handed, needStop>>
    BY <1>3 DEF ReadFails, flags
  <2>2. handed = 0 /\ left = 0
    BY <1>0, <2>1 DEF Reached
  <2> QED BY <2>1, <2>2 DEF GaveUp
<1>4. CASE DrainStops \/ DrainRepeats
  <2>1. pc = "drain" /\ left' = left /\ UNCHANGED files
    BY <1>4 DEF DrainStops, DrainRepeats
  <2>2. left = 0 /\ Bytes[waveFileName] \in Nat
    BY <1>0, <2>1, FileSize DEF Playing
  <2>3. pc' = "release" \/ (pc' = "read" /\ num' = 0 /\ handed' = 0)
    BY <1>4 DEF DrainStops, DrainRepeats
  <2> QED BY <2>1, <2>2, <2>3 DEF Reached, Playing, files
<1> QED BY <1>1, <1>2, <1>3, <1>4 DEF Reading

LEMMA WritingPass ==
  ASSUME TypeOK, Resources, PassInv, Writing
  PROVE  PassInv'
<1> USE DEF PassInv, AtWrite, Playing
<1>0. num \in Nat /\ left \in Nat /\ handed \in Nat
  BY WavPlayerAssumption DEF TypeOK
<1>1. UNCHANGED <<num, handed, needStop, waveFileName, waveFileSize, wavFp>>
  BY DEF Writing, WriteEnds, WriteGoesOn, TransferStops, WriteUnderruns, WriteFails,
         WriteSuspended, ResumeGivesUp, DeviceResumes, GivesUp, files, flags
<1>2. CASE WriteEnds
  <2>1. pc = "write" /\ (left = 0 \/ needStop) /\ left' = 0
        /\ pc' = IF needStop THEN "drain" ELSE "read"
    BY <1>2 DEF WriteEnds, AfterPeriod
  <2> QED BY <1>0, <1>1, <2>1 DEF Reached
<1>3. CASE WriteGoesOn \/ TransferStops \/ WriteSuspended
  <2>1. left' = left /\ left > 0 /\ Reached /\ pc' \in {"write", "writei", "resume"} /\ AtWrite
    BY <1>3 DEF WriteGoesOn, TransferStops, WriteSuspended
  <2> QED BY <1>1, <2>1 DEF Reached
<1>4. CASE WriteUnderruns \/ WriteFails \/ ResumeGivesUp \/ DeviceResumes
  <2>1. pc \in {"writei", "resume"} /\ pc' = "drain" /\ left' = 0
    BY <1>4 DEF WriteUnderruns, WriteFails, ResumeGivesUp, DeviceResumes, GivesUp
  <2>2. left > 0 /\ num = 2 * (handed + left)
    BY <2>1 DEF Reached
  <2>3. handed' < num' \div 2
    BY <1>0, <1>1, <2>2
  <2> QED BY <1>0, <1>1, <2>1, <2>2, <2>3 DEF GaveUp
<1> QED BY <1>2, <1>3, <1>4 DEF Writing

LEMMA TransferPass ==
  ASSUME TypeOK, Resources, PassInv, Transfer
  PROVE  PassInv'
<1>0. num \in Nat /\ left \in Nat /\ handed \in Nat
  BY WavPlayerAssumption DEF TypeOK
<1>1. Room \in 1..left
  BY TransferRun
<1>2. left' = left - Room /\ handed' = handed + Room
      /\ UNCHANGED <<num, needStop, waveFileName, waveFileSize, wavFp>>
      /\ pc \in {"writei", "writing"} /\ pc' = IF left' = 0 THEN "write" ELSE "writing"
  BY DEF Transfer, files, flags
<1>3. handed' + left' = handed + left /\ left' \in Nat
  BY <1>0, <1>1, <1>2
<1>4. Reached /\ left > 0
  BY <1>2 DEF PassInv
<1>5. Reached'
  BY <1>2, <1>3, <1>4 DEF Reached
<1> QED BY <1>2, <1>3, <1>4, <1>5 DEF PassInv, AtWrite, Playing

LEMMA PassNext ==
  ASSUME TypeOK, Resources, PassInv, Next
  PROVE  PassInv'
<1>1. ASSUME Requests \/ DevicePlays \/ DeviceSuspends \/ Crashes
      PROVE  PassInv'
  <2>1. UNCHANGED <<pc, num, left, handed, files>> /\ (needStop => needStop')
    BY <1>1 DEF Requests, StopAudioPlayer, PlayOnTakes, PlayOnSets, AppPlays,
                DevicePlays, DeviceSuspends, Crashes, flags
  <2> QED BY <2>1, PassKept
<1> QED BY <1>1, NextParts, OpeningPass, ReadingPass, WritingPass, TransferPass

LEMMA DeviceNext ==
  ASSUME TypeOK, Resources, PassInv, DeviceInv, Next
  PROVE  DeviceInv'
<1> USE DEF DeviceInv, device
<1>1. CASE Requests
  BY <1>1 DEF Requests, StopAudioPlayer, PlayOnTakes, PlayOnSets, AppPlays
<1>2. CASE Opening
  BY <1>2 DEF Opening, PassesIdle, StartsPlaying, StartsMissing, Starts, CheckFails,
        CheckPasses, CallocFails, Checked, Releases, Clears
<1>3. CASE Reading
  BY <1>3 DEF Reading, ReadEnds, ReadGets, ReadFails, DrainStops, DrainRepeats, Drains
<1>4. CASE Writing
  BY <1>4 DEF Writing, AfterPeriod, WriteEnds, WriteGoesOn, TransferStops, WriteUnderruns,
        WriteFails, WriteSuspended, ResumeGivesUp, DeviceResumes, GivesUp, Prepare
<1>5. CASE Transfer
  <2>1. Len(queued') > 0
    <3>1. left \in Nat
      BY WavPlayerAssumption DEF TypeOK
    <3>2. Room \in 1..left /\ Len(queued) \in Nat /\ Len(queued') = Len(queued) + Room
      BY <1>5, TransferRun
    <3> QED BY <3>1, <3>2
  <2>2. queued' # << >>
    BY <2>1, NoFrames
  <2>3. pc' # "resume"
    BY <1>5 DEF Transfer
  <2> QED BY <2>2, <2>3
<1>6. CASE DevicePlays \/ DeviceSuspends \/ Crashes
  BY <1>6 DEF DevicePlays, DeviceSuspends, Crashes
<1> QED BY <1>1, <1>2, <1>3, <1>4, <1>5, <1>6, NextParts

-----------------------------------------------------------------------------
(* The order of the frames.                                                    *)

\* A step that leaves the buffer and the count alone, in a playback of the same file,
\* or empties the buffer, or starts a pass or ends it.
LEMMA OrderKept ==
  ASSUME LastInOrder,
         \/ UNCHANGED <<queued, handed>> /\ (Playing' => Playing /\ waveFileName' = waveFileName)
         \/ queued' = << >>
         \/ handed' = 0
         \/ ~Playing'
  PROVE  LastInOrder'
<1>1. CASE UNCHANGED <<queued, handed>> /\ (Playing' => Playing /\ waveFileName' = waveFileName)
  BY <1>1 DEF LastInOrder
<1>2. CASE queued' = << >>
  BY <1>2, NoFrames DEF LastInOrder
<1>3. CASE handed' = 0
  <2> SUFFICES ASSUME NEW i \in 1..Len(queued'), Len(queued') - i < 0
               PROVE  FALSE
    BY <1>3 DEF LastInOrder
  <2> QED OBVIOUS
<1>4. CASE ~Playing'
  BY <1>4 DEF LastInOrder
<1> QED BY <1>1, <1>2, <1>3, <1>4

\* snd_pcm_writei puts the next frames behind the last.
LEMMA TransferOrder ==
  ASSUME TypeOK, Resources, PassInv, LastInOrder, Transfer
  PROVE  LastInOrder'
<1> DEFINE n == Len(queued)
<1>1. /\ Room \in 1..left /\ n \in Nat /\ handed \in Nat
      /\ Len(queued') = n + Room
      /\ \A i \in 1..n : queued'[i] = queued[i]
      /\ \A i \in (n + 1)..(n + Room) :
           queued'[i] = [file |-> waveFileName, frame |-> handed + (i - n) - 1]
  BY TransferRun
<1>2. left \in Nat
  BY WavPlayerAssumption DEF TypeOK
<1>3. Playing /\ waveFileName' = waveFileName /\ handed' = handed + Room
  BY DEF Transfer, files, Playing
<1> SUFFICES ASSUME NEW i \in 1..(n + Room), n + Room - i < handed + Room
             PROVE  queued'[i] = [file |-> waveFileName, frame |-> handed + Room - 1 - (n + Room - i)]
  BY <1>1, <1>3 DEF LastInOrder
<1> HIDE DEF n
<1>4. CASE i <= n
  <2>1. i \in 1..n /\ n - i < handed
    BY <1>1, <1>2, <1>4
  <2>2. queued[i] = [file |-> waveFileName, frame |-> handed - 1 - (n - i)]
    BY <1>3, <2>1 DEF LastInOrder, n
  <2>3. handed + Room - 1 - (n + Room - i) = handed - 1 - (n - i)
    BY <1>1, <1>2
  <2> QED BY <1>1, <2>1, <2>2, <2>3
<1>5. CASE i > n
  <2>1. i \in (n + 1)..(n + Room)
    BY <1>1, <1>2, <1>5
  <2>2. handed + Room - 1 - (n + Room - i) = handed + (i - n) - 1
    BY <1>1, <1>2
  <2> QED BY <1>1, <2>1, <2>2
<1> QED BY <1>1, <1>2, <1>4, <1>5

\* The frame played is the first.
LEMMA PlaysOrder ==
  ASSUME TypeOK, DeviceInv, LastInOrder, DevicePlays
  PROVE  LastInOrder'
<1>1. queued # << >> /\ queued \in Seq(Frame) /\ queued' = Tail(queued) /\ handed \in Nat
  BY DEF DevicePlays, DeviceInv, TypeOK
<1>2. /\ Len(queued') = Len(queued) - 1 /\ Len(queued) \in Nat
      /\ \A i \in 1..(Len(queued) - 1) : queued'[i] = queued[i + 1]
  BY <1>1, TailOf, LenProperties
<1>3. UNCHANGED <<pc, handed, waveFileName>>
  BY DEF DevicePlays, files
<1> DEFINE n == Len(queued)
<1> SUFFICES ASSUME Playing, NEW i \in 1..(n - 1), n - 1 - i < handed
             PROVE  queued'[i] = [file |-> waveFileName, frame |-> handed - 1 - (n - 1 - i)]
  BY <1>2, <1>3 DEF LastInOrder, Playing
<1>4. i + 1 \in 1..n /\ n - (i + 1) < handed /\ n - (i + 1) = n - 1 - i
  BY <1>1, <1>2
<1>5. queued[i + 1] = [file |-> waveFileName, frame |-> handed - 1 - (n - (i + 1))]
  BY <1>4 DEF LastInOrder
<1> QED BY <1>2, <1>4, <1>5

LEMMA OrderNext ==
  ASSUME TypeOK, Resources, DeviceInv, PassInv, LastInOrder, Next
  PROVE  LastInOrder'
<1> USE DEF files, device
<1>1. CASE Requests \/ DeviceSuspends \/ Crashes
  BY <1>1, OrderKept DEF Requests, StopAudioPlayer, PlayOnTakes, PlayOnSets, AppPlays,
                         DeviceSuspends, Crashes, Playing
<1>2. CASE Opening
  <2>1. handed' = 0 \/ ~Playing'
    BY <1>2 DEF Opening, PassesIdle, StartsPlaying, StartsMissing, Starts, CheckFails,
                CheckPasses, CallocFails, Releases, Clears, Playing
  <2> QED BY <2>1, OrderKept
<1>3. CASE Reading
  BY <1>3, OrderKept DEF Reading, ReadEnds, ReadGets, ReadFails, DrainStops, DrainRepeats, Playing
<1>4. CASE Writing
  <2>1. Playing /\ UNCHANGED <<handed, waveFileName>>
    BY <1>4 DEF Writing, WriteEnds, WriteGoesOn, TransferStops, WriteUnderruns,
        WriteFails, WriteSuspended, ResumeGivesUp, DeviceResumes, GivesUp, Playing
  <2>2. queued' = queued \/ queued' = << >>
    BY <1>4 DEF Writing, WriteEnds, WriteGoesOn, TransferStops, WriteUnderruns,
        WriteFails, WriteSuspended, ResumeGivesUp, DeviceResumes, GivesUp, Prepare
  <2> QED BY <2>1, <2>2, OrderKept
<1> QED BY <1>1, <1>2, <1>3, <1>4, NextParts, TransferOrder, PlaysOrder

-----------------------------------------------------------------------------
LEMMA PlayerInvInit == Init => PlayerInv
<1> SUFFICES ASSUME Init
             PROVE  PlayerInv
  OBVIOUS
<1>1. TypeOK
  BY TypeInit
<1>2. LockHolds
  BY DEF Init, LockHolds, Holding, Playing, NoCall
<1>3. Resources /\ StatusInv /\ DeviceInv /\ PassInv
  BY DEF Init, Resources, Count, Playing, StatusInv, DeviceInv, PassInv
<1>4. LastInOrder
  BY DEF Init, LastInOrder, Playing
<1> QED BY <1>1, <1>2, <1>3, <1>4 DEF PlayerInv

LEMMA PlayerInvNext == PlayerInv /\ [Next]_vars => PlayerInv'
<1> SUFFICES ASSUME PlayerInv, [Next]_vars
             PROVE  PlayerInv'
  OBVIOUS
<1>1. CASE Next
  <2>1. TypeOK'
    BY <1>1, NextParts, RequestsType, OpeningType, ReadingType, WritingType, TransferType,
       DeviceType DEF PlayerInv
  <2>2. LockHolds'
    BY <1>1, NextParts, RequestsLock, OpeningLock, OtherLock DEF PlayerInv
  <2>3. Resources' /\ StatusInv' /\ DeviceInv'
    BY <1>1, ResourcesNext, StatusNext, DeviceNext DEF PlayerInv
  <2>4. PassInv' /\ LastInOrder'
    BY <1>1, PassNext, OrderNext DEF PlayerInv
  <2> QED BY <2>1, <2>2, <2>3, <2>4 DEF PlayerInv
<1>2. CASE UNCHANGED vars
  <2>1. TypeOK' /\ LockHolds'
    BY <1>2 DEF PlayerInv, TypeOK, LockHolds, Holding, Playing, vars, app, flags, files, device
  <2>2. Resources' /\ StatusInv' /\ DeviceInv' /\ PassInv'
    BY <1>2, PassKept DEF PlayerInv, Resources, Playing, StatusInv, DeviceInv,
                vars, app, flags, files, device
  <2>3. LastInOrder'
    BY <1>2, OrderKept DEF PlayerInv, Playing, vars, files, device
  <2> QED BY <2>1, <2>2, <2>3 DEF PlayerInv
<1> QED BY <1>1, <1>2

\* PlayerInv is an invariant.
THEOREM PlayerInvariant == Spec => []PlayerInv
BY PlayerInvInit, PlayerInvNext, PTL DEF Spec

-----------------------------------------------------------------------------
(* What the runs check, for every value of the constants.                      *)

\* Every variable of WavPlayer keeps to its values, and the player never puts more
\* into the ALSA buffer than it takes.
THEOREM PlayerTypeCorrect == Spec => []TypeOK
<1>1. PlayerInv => TypeOK
  BY DEF PlayerInv
<1> QED BY <1>1, PlayerInvariant, PTL

\* semWavPlayer is a lock, whatever the number of callers of PlayOnWaveFile, and
\* however the playbacks between sem_wait and sem_post end.
THEOREM SemaphoreIsLock == Spec => []LockHolds
<1>1. PlayerInv => LockHolds
  BY DEF PlayerInv
<1> QED BY <1>1, PlayerInvariant, PTL

\* However playbacks follow each other, fail and are repeated, the player has at most
\* its two named files open, and between playbacks only ReadWavFile's stream.
THEOREM StreamIsAllThatStays == Spec => []OnlyStreamStaysOpen
<1>1. PlayerInv => OnlyStreamStaysOpen
  BY DEF PlayerInv, Resources, Playing, OnlyStreamStaysOpen
<1> QED BY <1>1, PlayerInvariant, PTL

\* Within a pass, the frames of the file are handed over in order and without a gap,
\* for all sizes of files, periods and buffers, sizes the player is told that are not
\* the file's, and all partial writes, errors and stops.
THEOREM FramesStayInOrder == Spec => []FramesInOrder
<1>1. ASSUME PlayerInv
      PROVE  FramesInOrder
  <2>1. num \in Nat /\ left \in Nat /\ handed \in Nat
    BY <1>1, WavPlayerAssumption DEF PlayerInv, TypeOK
  <2>2. pc \in {"writei", "writing"} => NextFrame = handed
    BY <1>1, <2>1 DEF PlayerInv, PassInv, Reached, NextFrame
  <2>3. pc = "read" => num = 2 * handed
    BY <1>1, <2>1 DEF PlayerInv, PassInv, Reached, AtWrite
  <2> QED BY <1>1, <2>2, <2>3 DEF PlayerInv, LastInOrder, FramesInOrder
<1>2. PlayerInv => FramesInOrder
  BY <1>1
<1> QED BY <1>2, PlayerInvariant, PTL

\* A sound that nobody has stopped goes on to its end, but for the reasons named.
THEOREM StartsOverForThese == Spec => StartsOverOnlyThen
<1>1. ASSUME PlayerInv, Next, Playing, num' < num
      PROVE  handed < num \div 2 \/ (num < waveFileSize /\ Bytes[waveFileName] - num < 2)
  <2>1. num \in Nat /\ PeriodSize \in Nat
    BY <1>1, WavPlayerAssumption DEF PlayerInv, TypeOK
  <2>2. ~Requests /\ ~Writing /\ ~Transfer /\ ~DevicePlays /\ ~DeviceSuspends /\ ~Crashes
    BY <1>1, <2>1 DEF Requests, StopAudioPlayer, PlayOnTakes, PlayOnSets, AppPlays,
          Writing, WriteEnds, WriteGoesOn, TransferStops, WriteUnderruns, WriteFails,
          WriteSuspended, ResumeGivesUp, DeviceResumes, GivesUp, Transfer, DevicePlays,
          DeviceSuspends, Crashes
  <2>3. ~Opening
    BY <1>1 DEF Playing, Opening, PassesIdle, StartsPlaying, StartsMissing, Starts, CheckFails,
                CheckPasses, CallocFails, Checked, Releases, Clears
  <2>4. ~ReadGets
    <3>1. ASSUME ReadGets
          PROVE  FALSE
      <4>1. PICK size \in Sizes : num' = num + size /\ size \in Nat
        BY <1>1, <3>1, SizeBounds DEF ReadGets, PlayerInv
      <4> QED BY <1>1, <2>1, <4>1
    <3> QED BY <3>1
  <2>5. ~ReadEnds /\ ~ReadFails /\ ~DrainStops
    BY <1>1, <2>1 DEF ReadEnds, ReadFails, DrainStops
  <2>6. DrainRepeats
    BY <1>1, <2>2, <2>3, <2>4, <2>5, NextParts DEF Reading
  <2>7. pc = "drain" /\ ~needStop /\ num' = 0
    BY <2>6 DEF DrainRepeats
  <2>8. num # 0 /\ GaveUp
    BY <1>1, <2>1, <2>7 DEF PlayerInv, PassInv
  <2> QED BY <2>8 DEF GaveUp
<1>2. PlayerInv /\ [Next]_vars
        => [Playing /\ num' < num
              => handed < num \div 2
                 \/ (num < waveFileSize /\ Bytes[waveFileName] - num < 2)]_vars
  BY <1>1
<1> QED BY <1>2, PlayerInvariant, PTL DEF Spec, StartsOverOnlyThen

\* A stop during a playback is still there when the player looks: the resets of
\* needStop come before status goes on and after it goes off.
THEOREM StopsAreKept == Spec => StopIsKept
<1>1. PlayerInv /\ [Next]_vars
        => [status /\ needStop => needStop' \/ ~status' \/ pcm = "closed"]_vars
  <2> SUFFICES ASSUME PlayerInv, status, needStop, pcm # "closed", Next
               PROVE  needStop' \/ ~status'
    OBVIOUS
  <2>1. Playing
    BY DEF PlayerInv, StatusInv
  <2>2. ~Opening
    BY <2>1 DEF Playing, Opening, PassesIdle, StartsPlaying, StartsMissing, Starts, CheckFails,
                CheckPasses, CallocFails, Checked, Releases, Clears
  <2>3. CASE Requests
    BY <2>3 DEF Requests, StopAudioPlayer, PlayOnTakes, PlayOnSets, AppPlays, flags
  <2>4. CASE Reading
    BY <2>4 DEF Reading, ReadEnds, ReadGets, ReadFails, DrainStops, DrainRepeats, flags
  <2>5. CASE Writing
    BY <2>5 DEF Writing, AfterPeriod, WriteEnds, WriteGoesOn, TransferStops, WriteUnderruns,
          WriteFails, WriteSuspended, ResumeGivesUp, DeviceResumes, GivesUp, flags
  <2>6. CASE Transfer \/ DevicePlays \/ DeviceSuspends \/ Crashes
    BY <2>6 DEF Transfer, DevicePlays, DeviceSuspends, Crashes, flags
  <2> QED BY <2>2, <2>3, <2>4, <2>5, <2>6, NextParts
<1> QED BY <1>1, PlayerInvariant, PTL DEF Spec, StopIsKept

=============================================================================
