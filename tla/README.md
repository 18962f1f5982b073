# basic_c: specifications, model checks and proofs

The repository is a collection of embedded Linux samples for an i.MX6 board, one
directory for each. They share no code. Each has a C file with its threads, its state
in file-scope variables, and a few exported functions an application would call. This
directory holds TLA+ specifications of the samples that keep state several threads
share or that transform data, TLC configurations that check them on small instances,
and TLAPS proofs about each of them. `PROJECT.json` is
the index: components, runs, the source lines each definition stands for, mutants,
findings, hazards and theorems.

Paths below are relative to `src/`; "l.351" is a line of the component's C file.

## 1. Inventory

| Component | Source | State | Operations | Modelled |
|---|---|---|---|---|
| TCP echo server | `sample_tcp_server/TcpServer.c` | two client tables, two semaphores, a `pollFd` array for each receiver, the process's sockets | two receiver threads, `SendTcpDataFromServer` | `TcpServer`, with `ClientTable` as its abstract specification, and proofs |
| Wave player | `sample_audio_player/WavPlayer.c` | `playInform` and its semaphore, `pcmInfo` (stop and status flags, file, offsets), a PCM | player thread, `PlayOnWaveFile`, `StopAudioPlayer`, `CheckAudioPlayer` | `WavPlayer`, with proofs |
| TCP client | `sample_tcp_client/TcpClient.c` | a table of three connections, a reconnection counter for each, the process's sockets | three connection threads, `SendTcpDataFromClient` | `TcpClient`, with proofs |
| ARIA cipher | `sample_module_aria/aria.c` | none (pure functions) | key set-up for both directions, `Crypt` | `Aria`, with proofs |
| ARIA data module | `sample_module_aria/sample_module_aria.c` | round keys and their flags | key renewal, padding, block-wise encryption | `AriaModule`, with proofs |
| IIC access | `sample_contoller_iic/control_iic.c` | a descriptor, a semaphore | open, close, read, write with retries | `ControlIic`, with proofs |
| SPI access | `sample_controller_spi/control_spi.c` | a descriptor, a semaphore, settings | open, close, read, write | `ControlSpi`, with proofs |
| UART and RS-485 | `sample_controller_uart/control_uart.c` | two descriptors, the direction of the line | receiver thread, two send functions | `ControlUart`, with proofs |
| TCA8418 key matrix | `sample_controller_tca8418/control_tca8418.c` | the interrupt's descriptor | open, one polling function | no: its register access is a stub |
| SI4730 tuner | `sample_controller_si4730/controller_si4730.c` | none | one register write with a delay | no: no state |
| Modbus RTU | `sample_modbus_rtu485/controller_modbus.c` | a counter | one thread that calls libmodbus every 200 passes | no: one thread, all effects in a library |
| LCD test | `sample_test_lcd/controller_lcd.c` | a descriptor | open, draw, close of a framebuffer | no: one thread, pure output |
| Build files, headers, libraries | `Makefile`, `env_set/`, `include/`, `lib/` | | | no: vendored code (ALSA, oRTP, libmodbus) and scripts |

IIC, SPI, UART and the ARIA data module do not compile as they are (misspelt or
conflicting declarations, a duplicate `case`, an unbalanced brace). Their control flow
can still be read; the models of them speak of that, not of a program that was ever
run.

### How the parts interact, and what is hard

**TCP server.** `StartTcpServer` starts a receiver for port 5000 and one for port 5002.
A receiver polls its listener and its clients, accepts, receives, and echoes what it
received by calling the same `SendTcpDataFromServer` that application threads use. That
function takes the port's semaphore, looks for the client's address in the published
table, sends, and *marks* the entry (address `0xFFFFFFFF`) when `send()` fails; the
receiver later removes marked entries. The hard parts:

- new clients are put into the table without the semaphore;
- a removal moves entries down in two parallel arrays while one pass over the results
  of `poll()` goes on;
- the removal is there in three copies that differ in what they do to the semaphore;
- a full table's removal writes past its end, over what the linker put there;
- descriptors are recycled, the lowest first, by both threads;
- a client may come back before its old connection is noticed;
- `send()` may raise `SIGPIPE`.

Correct means: the two arrays agree; a client has one entry; a removal takes out one
client and nobody else; the semaphores are locks and are given back; no descriptor is
lost; `recv()` on the blocking sockets does not stop the receiver; connections and
hang-ups are got to.

**Wave player.** One thread looks every 100 ms whether `playInform` names a file and
plays it with the semaphore held. `PlayOnWaveFile` waits for that semaphore, so a
request waits for the end of the current file. `StopAudioPlayer` sets a flag without a
lock, and the player resets the flag in two places. The hard parts are these races, the
arithmetic at the end of a file, which is in bytes here and in frames there, partial
writes, under-runs and suspensions of the PCM in the middle of a file, frames that one
playback leaves in the ALSA buffer to the next, and the early returns. Correct means:
the semaphore is a lock; a pass of a file hands over its frames in order, none skipped or
repeated, and goes back to the start for a reason only; the rest of one sound is not
followed by another; a stop is neither lost nor ignored; what the player opens does not
add up from one playback to the next; requests return.

**TCP client.** Three threads each keep one connection up. They share the table with
senders without any lock, and the descriptors with each other. A counter that is
decremented in every pass, connected or not, starts an attempt only when it is exactly
0. Correct means: the table never leads to another client's connection; no socket is
lost; the counter never gets past 0 while disconnected; an ended connection is closed
and tried again.

**IIC, SPI, UART.** Each sample keeps one descriptor (UART two) in file scope. An
application that links them calls them from its threads, and they meet in the process's
descriptors: the number one of them closes is the number the next `open()` returns. IIC
and SPI guard a transfer with a semaphore, but not opening and closing; SPI's read and
one return of IIC's transfers do not give it back. The RS-485 line is turned to sending
and back without any lock. Correct means: one transfer at a time on a bus; a semaphore
that is taken is given back on every way out, retries included; nobody closes a
descriptor that is somebody else's. That the line ends up receiving would be correct
too; the code as it is written does not do it (section 5).

**ARIA.** The data module makes the round keys of both directions from one master key,
and encrypts and decrypts block by block, after filling data up to whole blocks. Correct
means: decryption undoes encryption, for every size of key, between any two programs
that were last given the same key, and with no other.

## 2. Modules

| Module | What it is |
|---|---|
| `TcpServer` | the server: receivers, senders, clients, sockets |
| `MCTcpServer` | who connects where, what clients and applications may do |
| `TcpServerProofs` | type correctness, that the receiver's index is in use, and the semaphores |
| `TcpServerTableProofs` | the two arrays, removals, one entry for each client |
| `TcpServerSocketProofs` | entries left behind, who has which socket, where `recv()` is called |
| `ClientTable` | the abstract specification: a list of clients for each port |
| `TcpServerRefinement` | the server implements `ClientTable` |
| `WavPlayer`, `MCWavPlayer` | the player thread, its callers and the PCM; kinds of files and of failures |
| `WavPlayerProofs` | the semaphore, what the player has open, the order of frames, restarts, stops |
| `TcpClient` | the keyboard, the connection threads, senders and servers |
| `TcpClientProofs` | entries, sockets and counters of the connection threads |
| `Process` | threads in calls, and the descriptors of a process |
| `ControlIic`, `ControlSpi`, `ControlUart` | the three driver samples, each over `Process` |
| `Drivers` | their composition: an application that uses all three |
| `DriversProofs` | which steps break or lose a lock, or close another driver's descriptor |
| `Aria` | the cipher, as functions on blocks |
| `AriaModule`, `MCAria` | programs that hold keys and exchange messages; keys, data and test vectors |
| `AriaProofs` | decryption undoes encryption, from the bits of a byte to the messages |

Definitions keep the names of the source. An operator whose comment begins with
"Mutant:" is a faulty variant of the definition that follows it. No specification uses
it; putting it in place of its definition must break a property (`PROJECT.json`,
`mutants`).

### TcpServer

| TLA+ | C |
|---|---|
| `cliFd`, `cliIpAddress` | `clientInfoPort1/2[].cliFd`, `.cliIpAddress` |
| `pollFd`, `revents` | the receiver's local `pollFd[]`, its `POLLIN` bits |
| `sockCnt`, `loop` | the locals of the same names |
| `semInfo` | the value of each semaphore |
| `call[c]` | one call of `SendTcpDataFromServer`: `wait` (before `sem_wait`), `found` (before the descriptor is read), `send` (before `send`), `finish` (before the mark and `sem_post`) |
| `sock`, `pending`, `visits` | the kernel: sockets by descriptor, the listen queues, the clients' past connections |

A step is the code between two places where another thread can act on the same data:
`sem_wait`, `recv`, `send`, the return to `poll`. A receiver at `pc = "scan"` is at the
head of the loop of l.311; `sweep`, `rmerr` and `rmfin` are the three copies of the
removal, waiting for the semaphore; `dup` waits at l.255; `rewait` is the second wait
at l.351; `echo` is inside the call of l.441.

Decisions a reader should know:

- *Installing a client is one step* (`AcceptNew`). The code takes no lock there
  (l.286-295), and a sender's search, its reading of the descriptor and its mark are three
  steps (`SendFinds`, `SendReads`, `SendFinishes`) that the installation may come between.
  What a sender could see in the middle of it is an entry with the old address or a zeroed
  one, and with the old descriptor, 0 or the new one. The old and the new ones are what it
  sees before and after the step; a zeroed address matches no client; and `send()` to
  descriptor 0, which is no socket, fails like one to a closed descriptor.
- *Init* is the state after the listeners are up. A failing set-up step calls `exit`.
- `poll()` returning -1 is a stutter. `POLLIN` is the only bit the code looks at.
- *The write past the table's end.* With `CLIENT_MAX_NUM` entries in use a removal
  clears entry `CLIENT_MAX_NUM`. The order of the tables in memory is that of the
  executable in the repository (`sample_tcp_server/imx6_app_100_003`):
  `clientInfoPort1` at 0x13098, `clientInfoPort2` at 0x13200 (360 bytes each) and
  `semInfo` at 0x13368. So entry 30 of the first table is the listener entry of the
  second, which nothing reads, and entry 30 of the second is `semInfo[0]`, whose value
  becomes 0xFFFFFFFF (-1 in the model; `sem_wait` gets through any value but 0).
  `semInfo[2]`, which l.107 and l.136 post, is memory nobody uses. The same removal writes
  `pollFd[30]` (l.342-343, 391-392, 428-429), past the end of the receiver's own array.
  By the debug information of that executable the eight bytes behind the array are those of
  `sockOpt`, which is not used after the listener's set-up, and of the beginning of
  `cli_addr`, which `accept()` fills in anew before it is read: the write changes
  nothing that matters, and `PollFdsAfterDrop` leaves it out. Another build may lay its
  stack out otherwise.
- *A socket's states*: `fin` (the peer has closed), `err` (it has reset the connection,
  and nobody was told), `pipe` (somebody was told, or our data was answered by a reset:
  the next `send()` raises `SIGPIPE`).
- The default case of `SendTcpDataFromServer` goes over both ports; the two named cases
  go over one. `todo` is the set of ports left.

### ClientTable

The abstract specification says what the tables are for: each port has a list of clients
in the order in which they came, no address twice. A client *joins* at the end, *renews*
its entry with a new connection, is *marked*, or *leaves*, and those behind it move up.
`TcpServer` implements it (`IsClientTable`) under the mapping `size = sockCnt - 1` and
`client[k] = (cliFd[k], cliIpAddress[k])` for the entries in use: two parallel arrays, a
count, shifts in three copies, stale entries behind the end and the overrun are all
invisible in the list. `Mark` of an entry that is not in use is a stutter there.

### WavPlayer

`pc` follows `ThreadAudioPlayer` (`idle`, `release`, `clear`), `PlayWaveFile` (`check`,
`drain`), `WritePcmDevice` (`read`), `WritePcmBuffer` (`write`, `writei`, `writing`) and
`RecoveryPcm` (`resume`). `num` counts bytes and `left` frames, as in the code.

- The PCM is external, modelled from how the code opens and uses it: blocking mode, so
  that `snd_pcm_writei` waits for room and returns early only on an error; the transfer
  starts when the buffer is full; a PCM that runs out of frames is in under-run;
  `snd_pcm_prepare` empties it. `snd_pcm_drain` is one step.
- `queued` holds the *file and the index in it* of every frame in the PCM's buffer, and
  `handed` (auxiliary) counts the frames that the current pass of the file has handed over.
  So `FramesInOrder` can say, of whatever the buffer still holds of this pass, that no frame
  is skipped, repeated or another file's, and `SwitchDropsBuffer` what was there before.
- `wavFd` is `PlayWaveFile`'s descriptor, `wavFp` `ReadWavFile`'s static stream (l.446). The
  stream is closed only when the next playback opens its own (l.458). `opened` counts what
  was opened and not closed, so that the two can be held against it.
- `stat()` may fail (l.425), as the file may be removed; nobody looks, and `waveFileSize`
  is what the structure happens to hold: any of `Garbage`, a bound.
- The loop of l.642 compares `num`, which stays 0, with `loop`, which it advances: it ends
  by `needStop` only. That is why the end-of-file branch (l.449) sets `needStop`.
- `snd_pcm_prepare` may fail after a recovery, which leaves the PCM as it was, and after
  draining (l.590), which leaves it in `setup`: its next write fails and is not recovered.
- A failing `calloc` (l.635) closes the PCM and leaves the handle as it was. Any later
  use of it is undefined: `Crashes` and the ordinary error result are both possible. The
  two properties about stops except a closed PCM.
- Set-up is modelled by what it settles: `SetPcmHwParams` accepts a buffer of at least two
  periods, `SetPcmSwParams` makes the transfer start when the buffer is full
  (`StartThreshold`). A writer that waits for room sleeps until a period fits or less,
  depending on the driver; `Transfer` allows both.

### TcpClient

A pass of `ThreadTcpClient` is one step, but for `connect()`, which blocks (`pc =
"connect"`), and the gap between `close(fd)` and `fd = -1` (`pc = "forget"`), in which
another thread can get the same descriptor. A sender reads the descriptor (`SendReads`)
and writes to it later (`SendWrites`). By then the descriptor may be another thread's new
socket: `write()` waits while that connects, and raises `SIGPIPE` where `connect()` is not
called for it (`SendKilled`). `waitTimeCnt` goes on falling while connected;
nothing looks at it then, and `Less` stops it at `-MaxDown`. The threads start at the
keyboard (`pc = "ip"`, then `"port"`), in any order, since they read one `stdin` a
character at a time. Every line ends, within the 32 characters of `keyboard[]`: a longer
one, which l.102-106 write past its end, and the end of the input, at which they do not
stop, are left out. So is what a line says, and with it which server a client connects to:
no step depends on it. A client is its `sockNo`, an index of the arrays of
the code, so `Client` is a set of natural numbers.

### Process, ControlIic, ControlSpi, ControlUart and Drivers

| TLA+ | C |
|---|---|
| `fdIic`, `semIic` | the statics of the same names; `semIic` is the semaphore's value |
| `fdSpi`, `semSpi` | the fields of `controlSpi` |
| `uartFd`, `line` | `pollFd[].fd`, and RTS of port 1 as the direction of the RS-485 line: clear for sending |
| `call[t]` | the function thread `t` is in: `open` (before `open()`), `forget` (after `close()`), `wait` (before `sem_wait`), `try` and `post` (IIC), `ioctl` (SPI), `send` (UART: line turned, before it is turned back) |
| `owner` | who has opened each descriptor of the process |
| `fdOpened` | auxiliary: what `open()` last gave SPI, while `fdSpi` is still that |

- *An application is a set of threads that call in any order*; the samples have no main
  program. That is what exported functions with their own semaphores are for.
- `WriteIic` and `ReadIic` have the same steps and share their actions. `ReadIic` returns
  its result as a `char`; nobody uses it here.
- *Sizes*: IIC transfers of at most 253 bytes and SPI transfers that fit the buffers, as
  larger ones are refused (IIC) or undefined (SPI).
- `sem_destroy` leaves the value alone. `OpenSpiDriver` clears the whole structure, the
  semaphore included (l.136), and `sem_init`s it after `open()`.
- `sem_post(&controlSpi.fdSpi)` (l.255) adds 1 to the integer it is given, or 2 where the
  C library keeps a bit for waiters beside the value: `ReadSpiPosts` allows both.
- `open()` returns the lowest free descriptor or fails; a failing `open()` of the UART
  receiver ends the process. 0 to 2 are `stdin`, `stdout` and `stderr`.
- *`ControlRs485` as it is written*: `UART_FLAG_OFF` clears RTS, unless an `ioctl` fails,
  and the result is not looked at. `UART_FLAG_ON` (l.122, l.189) has no case, because the
  label of the one that would set RTS is `UART_FLAG_OFF` a second time (l.77), which does
  not compile; it goes to `default`, and the line stays as it is. RTS is set by `open()`.
- *Left out*: SPI's speed and bits (the speed read back is never stored, so that the open
  reports a failure with the device open), and `SendUart1Data` and the receiving loop,
  which change no state.

### Aria and AriaModule

Bytes are integers 0..255, a block is a sequence of 16, round keys a sequence of blocks.
`XorOf` is the exclusive or as a table, built once: each of the eight bits is the sum of
two, without the carry. `DL` has its indices in two tables, as the code numbers them:
`Shared` has the four bytes of each value of `T`, `Own` the three others of each byte and
which `T` it takes. The in-place update of `RotXOR` into zeroed keys becomes a value for each block, and
`DecKeySetup`'s swaps become the reversed sequence with all but its ends diffused. The
key in the middle needs care: the code diffuses it onto itself, which spoils it, and
then overwrites it with the copy made before (l.184-186).

A program's round keys are named by the master key they were made from; `NoKey` is a
renewal flag that is off. `RenewalAriaKey` makes those of both directions in one step: a
program has one thread and does not encrypt in between. `message` is what one program has sent and any may decrypt,
also after keys were renewed. A message carries its data and key as auxiliary fields,
which no guard reads. `Padded` and `Filled` are the two ways of filling up; a size of at
most 10240 is assumed (`AriaModuleAssumption`), which the code does not check. `Blocks`
are blocks for the cipher by itself, in `DecryptionUndoes`; no action uses them.

## 3. Runs

### Passing

| Run | Instance | What it shows |
|---|---|---|
| `sender` | 4 entries, 2 clients, one comes back, 1 application thread sending to that one over both ports | `LocksHold`, `CountNeverLost`, `TablesAgree`, `OneSlotPerAddress`, `IsClientTable` |
| `three_clients` | 4 entries, 3 clients that do anything, symmetric | `RemovalSparesOthers`, `LeftoversConfined`, `SocketsAccounted`, `RecvNeverWaits` |
| `overrun` | 3 entries, 2 clients, both ports full | `OnlyOverrunBreaksLock`, `LeakIsForever` |
| `liveness` | 3 entries, 3 clients: one too many; fair | `TypeOK`, `DialsAnswered`, `HangupsClosed` |
| `wav_errors` | 3 files (long, odd-sized, refused), 1 caller, 2 requests, all failures; fair | `TypeOK`, `OnlyStreamStaysOpen`, `FramesInOrder`, `StartsOverOnlyThen`, `StopIsKept`, `StopEndsPlayback` |
| `wav_requests` | 5 files (long, short, odd-sized, refused, missing), no failures, 2 callers, 2 requests; fair | `LockHolds`, `RequestsReturn`, `RequestPlays` |
| `client` | 2 clients, 3 descriptors, 1 sender, all failures; fair | `TypeOK`, `EntryIsOwn`, `SocketsHeld`, `WaitReachesZero`, `ClientTriesAgain`, `EndIsNoticed` |
| `drivers` | 2 threads, the UART receiver, 5 descriptors, 2 opens, 2 tries; fair | `TypeOK`, `OnlyOpenBreaksLock`, `OnlyTheseLoseLock`, `OnlyTheseCloseOthers`, `TransfersEnd` |
| `aria` | 2 programs, 2 keys, data of 1, 16, 17, 31 and 32 bytes | `TypeOK`, `ComesBack`, `OnlyWithItsKey`, `IsAria`, `DecryptionUndoes` |

Why the bounds are enough to be interesting:

- *Server.* `ClientMax` includes the listener. Three entries are the least with which a
  removal has a "last of several" and an "only one" case; four are needed for a removal
  from the middle with entries on both sides, and for a second sweep in one pass.
  Three clients against two free entries make the table refuse one. Two addresses and
  two visits make a client come back while its old entry is in use, marked, or left
  over. Reconnections are left out of `three_clients` and `liveness` because those
  properties are about clients that come once: with reconnections a stale entry may
  name the new descriptor (section 5), and the bounds of the other runs show that case.
  `MaxData` and `MaxPending` are 1: whether there is unread data matters, how much does
  not. `Acts` bounds what each client may do, `Dials` how often it connects.
- *Player.* A period of 2 frames, a buffer of 4. `long` has 7 frames: the buffer fills,
  a write is partial, and the last chunk is short. Two requests let one come
  while the other file plays, fails or is stopped. `odd` has five bytes, `short` one
  frame, which is less than the buffer (the draining case). When `stat()` fails, the size
  is less than that of either playable file, or greater than both (`Garbage`).
- *Client.* `Reconn` is 2, so that a counter that is off by one passes 0. Three
  descriptors for two clients let one be lost to a failing `setsockopt()` and the others
  be recycled between the two.
- *Drivers.* Two opens by the application besides the receiver's two let a driver be
  opened again during a transfer, and let one driver's descriptor be opened by another
  while a close is not finished. With five descriptors the last `open()` finds none.
  `CNT_RETRY` is 2, so that a transfer can succeed at the second try, or fail twice.
  Three opens were searched to a depth of 24 without anything new.
- *ARIA.* Data shorter than, equal to and longer than a block, with one byte missing to
  a whole block and one too many. The cipher by itself is checked with keys of 128, 192
  and 256 bits, on three blocks and the published test vectors; the module uses 256.

`CHECK_DEADLOCK FALSE` everywhere but in `aria`: the bounded environment runs out, threads can stop
for good (a lost lock), and a signal can end the process.

### Fairness

Each thread that can run is scheduled: weak fairness of each receiver and of each call
in progress; of the player and of the PCM's own playing; of each connection thread,
which includes that `connect()` returns; of each thread that is in a driver's call, which
includes that `ioctl()` returns. Clients, servers, applications and whoever should type
owe nothing.
One case needs strong fairness: `PlayOnWaveFile`'s `sem_wait`. The player takes and
gives back the semaphore again and again, but sleeps 100 ms in between (l.706), and a
waiter that is woken gets it in that time.

The server's liveness properties except `Stuck`: the process killed, a lock lost, or a
receiver waiting for the lock it holds. These are the ways in which the code does stop;
the properties say there is no other.

### Disagreements

Each of these runs checks one property that a text of the repository promises and TLC
finds violated.

| Run | Violated | Why |
|---|---|---|
| `echo_never_returns` | `EveryEchoReturns` | on port 5002 the lock is taken as `semInfo[1]` and given back as `semInfo[2]`: the second echo waits for ever (l.107, l.136) |
| `wrong_client_marked` | `FailureMarksItsClient` | between a failing `send()` and the mark, the receiver installs a new client in that entry without the lock: the new client is dropped |
| `wav_switch` | `SwitchDropsBuffer` | a stop leaves the ALSA buffer as it is: the next file's frames are queued behind those of the one that was stopped (l.17-19) |

`PROJECT.json` quotes the promises.

## 4. What is proved

Each theorem holds for every value of the constants that the assumption named in the
declaring module allows; nothing else is assumed, but for the two hypotheses that the
statements below show. Every safety invariant and every action property of the passing
runs is stated by one of them, but for the two about ARIA that are named at the end.

| Module | Assumption | What it leaves open |
|---|---|---|
| `TcpServer` | `ServerAssumption` | tables of at least 3 entries; any clients, descriptors, senders, calls and bounds |
| `WavPlayer` | `WavPlayerAssumption` | any files of any size, callers and failures; a period of at least 1 frame, a buffer that `SetPcmHwParams` accepts |
| `TcpClient` | `TcpClientAssumption` | any clients, descriptors, servers' bounds and failures; `Reconn` at least 1 |
| `Process`, `ControlIic` | `ProcessAssumption`, `IicAssumption` | any threads, opens and descriptors that include the three standard ones; `CntRetry` at least 1 |
| `AriaModule` | `AriaModuleAssumption` | any programs, master keys of 32 bytes, data of up to 10240 bytes, and blocks |

### The server

| Theorem | States |
|---|---|
| `TypeCorrect` | `Spec => []TypeOK` |
| `CountCorrect` | `Spec => []CountNeverLost`: a removal and an echo find their index in use; the "cannot happen" branches of l.320, 369 and 407 do not |
| `ArraysAgree` | `Spec => []TablesAgree` |
| `OthersSpared` | `Spec => RemovalSparesOthers` |
| `AddressesUnique` | `Spec => []OneSlotPerAddress` |
| `LocksKept` | `Spec => OnlyOverrunBreaksLock` |
| `LocksHoldUntilOverrun` | `Spec /\ [][~OverrunStep]_vars => []LocksHold` |
| `Port2Locked` | `Spec => []Port2LockHolds` |
| `LeaksStay` | `Spec => LeakIsForever` |
| `LeftoversNearby` | `Spec /\ [][~OverrunStep]_vars => []LeftoversConfined` |
| `Port2Leftovers` | `Spec => []StaleConfined(Port2)` |
| `SocketsAreAccounted` | `Spec /\ OnceEach => []SocketsAccounted` |
| `ReceiversDoNotWait` | `Spec /\ OnceEach => []RecvNeverWaits` |
| `TableRefined` | `Spec => IsClientTable`: the server implements `ClientTable` |

*The inductive invariant.* `TypeOK` alone is not inductive: `loop' = loop + 1` stays in
range only if the loop's head is where it should be, and `sockCnt' = sockCnt - 1` only if
the removed entry was in use. `TypeInv` adds `CountNeverLost` and `ScanInRange` (at the
head of the loop, `loop <= sockCnt`). The proof has one lemma for each group of actions:
the environment, the sender's calls, the installation of clients, the scan, the three
removals.

*Locks.* The core is the step property `LockStep`: from `TypeInv` and `EchoInv` (a
receiver that is not in an echo has no call in progress, so that it cannot hold its lock
twice), every step keeps `IsLock(p)` unless it is the removal that writes over
`semInfo[0]`. `SameHolders` does the many steps that change neither a semaphore nor who
holds it. `LocksHold` is therefore an invariant of exactly the behaviours in which
no removal is made from a full table of port 5002, which is what `[][~OverrunStep]_vars`
says; the run that checks it has fewer clients than entries. `Port2Locked` needs no such
hypothesis, as port 5002's lock is never written over. `LeakStep` shows that only a
holder posts, so that a lock nobody holds and nobody can take stays so.

*Tables.* `DropEntry` says what the shift of a removal leaves at each index, for all
three copies. `ArraysAgree` and `OthersSpared` follow from it; `TablesKept` does the
steps that touch no table. For `AddressesUnique`, `DupInv` adds what a receiver that
waits at l.255 knows: the entry it is about to replace is the first with that address or
has been marked in the meantime, so no other entry in use has the address.

*Left behind.* A removal leaves one entry behind the last in use (`StaleRemoval`). What
could put a second one there is a mark, or a replacement, at an index that was found
earlier and that removals have put out of use since. `HeldInRange` says that neither
happens: the one who holds an index has the lock (a sender) or is the thread that
removes (the receiver at l.255). This is where the lock is needed: once port 5000's
semaphore is written over, a sender and a removal can go on at once. `Named` excludes
searches for the zeroed address that free entries have.

*Sockets.* `SocketsAccounted` and `RecvNeverWaits` are about clients that connect at most
once to a port (`OnceEach`, a condition on `Dials`; two clients, or one on both ports, are
as free as ever). They are not true of a client that comes back: it may meet the entry it
left behind (section 5). Three facts are needed. `NewcomerInv`: nothing in the table, not
even what was left behind, has the address of a client still to be accepted, so that no
entry is ever replaced. `OwnerInv`: each entry in use has an open connection of its
port, no two the same, of either port, and each open connection has an entry. `PassInv`:
what `poll()` reported of an entry that the pass has still to read is still there. A
removal during the pass moves entries and results down together; and a socket keeps what
can be read until its own receiver reads it or removes its entry (`ReadableKept`), whatever the
other port's receiver and the senders do.

*Refinement.* `ListStep` says that a step is one of the abstract list or leaves it as it
is. `JoinStep`, `RenewStep`, `MarkStep` and `LeaveStep` do the four kinds, the last from
`DropEntry`; `SameList` everything else. `RenewStep` needs, besides `DupInv`, what
`FoundInv` says of a receiver that waits at l.255: the entry it found holds that address
still, or has been marked. `TableRefined` puts them together.

### The player

| Theorem | States |
|---|---|
| `PlayerTypeCorrect` | `Spec => []TypeOK` |
| `SemaphoreIsLock` | `Spec => []LockHolds` |
| `StreamIsAllThatStays` | `Spec => []OnlyStreamStaysOpen` |
| `FramesStayInOrder` | `Spec => []FramesInOrder` |
| `StartsOverForThese` | `Spec => StartsOverOnlyThen` |
| `StopsAreKept` | `Spec => StopIsKept` |

All follow from one invariant, `PlayerInv`. `OnlyStreamStaysOpen` needs `Resources`, which
says at which points of `PlayWaveFile` the descriptor and the period buffer are held; that
the stream is open in between is what the code does, and that nothing else is, nor a second
stream, is what is proved. `FramesInOrder` and `StartsOverOnlyThen` are about how far a pass
of the file is: `PassInv` says for each of the loops that the offset is at twice the frames
handed over and left (`Reached`), unless a stop has been made, after which nothing more is
written, and that a playback which gives up unstopped does so for one of the named reasons
(`GaveUp`). `SizeBounds` says what `ReadWavFile` can return at the end of the file, odd and
garbage sizes included, and `TransferRun` what `snd_pcm_writei` appends. With them
`LastInOrder`, which is about the end of the buffer and not about what other passes and
files left before it, is kept by a partial write, by a frame that is played, and by
`snd_pcm_prepare`. `DeviceInv` is what the PCM contributes: it does not run on an empty
buffer, and is suspended while the player waits for it to resume.
`StopIsKept` follows from `StatusInv`: `status` is on only during a playback, and neither
reset of `needStop` (l.613, l.703) is inside one; the closed PCM is the exception.

### The client

| Theorem | States |
|---|---|
| `ClientTypeCorrect` | `Spec => []TypeOK` |
| `EntriesAreOwn` | `Spec => []EntryIsOwn` |
| `SocketsAreHeld` | `Spec => []SocketsHeld` |
| `WaitEndsAtZero` | `Spec => []WaitReachesZero` |

`ClientInv` is `TypeOK`, `SocketInv` and `CountInv`. `SocketInv` ties the three views of a
connection together, in both directions: what a client connects with or is connected by
is a socket it owns (`ConnectingOwns`, `ConnectedOwns`), and a socket that has an owner is
the one its owner holds (`OwnerHolds`). The weak point is between `close(fd)` and
`fd = -1`, when the descriptor may be another thread's already: `NoEntry` says that this
is the only point at which a client that is not connected has a descriptor in the table.
`CountInv` has the value of the counter at every point of the thread. While connected it
falls below 0; each way back sets it.

### The drivers

| Theorem | States |
|---|---|
| `DriversTypeCorrect` | `Spec => []TypeOK` |
| `LocksBrokenByOpens` | `Spec => OnlyOpenBreaksLock` |
| `LocksLostByThese` | `Spec => OnlyTheseLoseLock` |
| `DescriptorsTakenByThese` | `Spec => OnlyTheseCloseOthers` |

The three samples are proved about in their composition, where descriptors are shared.
`RetryInv` bounds the tries, which `TypeOK` needs. That the semaphores are locks is no invariant. What is proved is that each
step keeps, takes or gives back a bus (`Keeps`, `Takes`, `GivesBack`) unless it is one of those
the property names; a step that does one of the three breaks no lock and loses none. `OnlyOpenBreaksLock` names
an open of the same bus, during a transfer on it: an open of one driver never breaks the
other's lock.
The same goes for `Own` and descriptors: each step either opens a descriptor nobody has, or
closes one that its driver opened, or is one of the two that are named.

### ARIA

| Theorem | States |
|---|---|
| `DecryptionUndoesEncryption` | for every master key, size of key and block, `Crypt` with the keys of `DecKeySetup` undoes `Crypt` with those of `EncKeySetup` |
| `KeysDecrypt` | `Spec => []DecryptionUndoes` |
| `TypeCorrect` | `Spec => []TypeOK` |
| `DataComeBack` | `Spec => []ComesBack` |

The proof goes up the layers of the cipher.

- *Bytes.* A byte is its eight bits (`SameBits`), and `XorOf` adds them one by one
  (`XorBits`), so that it takes itself back (`XorTwice`).
- *Substitution.* The S-boxes two places on are the inverses (`SBoxInverses`, all 256
  bytes of each), so that in `SubstitutedBack` a round with the boxes from the other place
  on gives the block before, with its key, whatever key is added in between.
- *Diffusion.* Each bit of the result is the sum of seven bits (`DiffusedSeven`). Added up
  twice they leave one, every other bit an even number of times (`SevenTwice`, a step for
  each of the sixteen bytes): `DL` is its own inverse (`DiffusedTwice`), and it distributes
  over the exclusive or (`DiffusedXor`).
- *Rounds.* `CryptRounds` turns the recursive function in `Crypt` into a sequence of blocks
  that exists and is of the right type. `CryptUndone` is about any even number of rounds
  and any keys that are `Paired`: before round `i + 1` of decryption the block is that of
  encryption between substitution and diffusion in round `R - i`, under the next key.
  Here the diffused keys are needed, and that the rounds begin with alternating boxes.
- *Keys.* `EncKeysOf` and `DecKeysOf`: the key set-up makes blocks, one more than rounds,
  and `DecKeySetup` pairs them.
- *Messages.* `InBlocksUndone` puts the blocks together, `PaddedOf` says what filling up
  does. The inductive invariant `AriaInv` says that a program's two keys are the same and
  that what is under way, and what arrived, was made by the two functions.

The inductions over the rounds are over sets of numbers (`UpTo`, from the well-foundedness
of the natural numbers), so that no operator is taken as a parameter and the number of
rounds stays open.

### Only model-checked

- *Liveness*: `DialsAnswered`, `HangupsClosed`, `StopEndsPlayback`, `RequestsReturn`,
  `RequestPlays`, `ClientTriesAgain`, `EndIsNoticed`, `TransfersEnd`. They rest on
  fairness, and so on `ENABLED`, which the prover does not handle.
- *ARIA*: `IsAria` and `OnlyWithItsKey`. `IsAria` is the computation of three test vectors.
  `OnlyWithItsKey` is true of the keys and data it is checked with and cannot be true of
  all: there are more keys than blocks, so that two keys make one block of the same bytes.
- The three runs that expect a violation show what is not true.


## 5. Seen while modelling, without a run

- A removal of the only client after `recv()` returned 0 breaks out without `sem_post`
  (l.416). The lock is lost (`LeakIsForever`), and the client's next connection waits at
  l.255 for ever.
- The search for a duplicate goes over entries that are not in use. When a client whose
  entry was left behind comes back, `accept()` may return the descriptor that entry still
  names, and l.256-261 close the connection just accepted. A sender's search may find
  such an entry too, whose descriptor is another client's by now.
- `SIGPIPE` is not handled: an echo to a client that has reset its connection can end the
  process, in the server and in the client.
- A sender reads the entry's descriptor (l.85) after its search (l.81), and a new client may
  be installed there in between: what was meant for one client is sent to another.
- After an under-run from which it has recovered, the player starts the file again at
  offset 0: `WritePcmBuffer` returns the old error. It does so after every failing write,
  and after a file that cannot be opened (`StartsOverOnlyThen` names the reasons).
- A file with an odd number of bytes is repeated until it is stopped, with the semaphore
  held: `ReadWavFile` returns 0 with a byte left, so that l.449 never sees the end. Calls of
  `PlayOnWaveFile` wait (`RequestsReturn` names it as the one exception).
- `ReadWavFile`'s stream stays open after the last playback, and after a failing `fseek`
  (l.464), until the next one (`OnlyStreamStaysOpen`).
- A stop made after the request and before l.613 is overwritten, although
  `StopAudioPlayer` returned 1.
- `playInform.flag` is never set to `FLAG_OFF`: a file plays again 100 ms after it ended
  or was stopped.
- The RS-485 line stays sending after the first `SendUart2Data`: `ControlRs485` has no case
  for `UART_FLAG_ON`, and its failing `ioctl`s are not looked at either.
- Dropping one marked client of several ends with `sem_wait` where the other two copies
  of the removal have `sem_post` (l.351): the receiver waits for the lock it holds. The
  liveness properties except it (`rewait` in `Stuck`).
- The client applies `htonl` to an address that `inet_aton` returned in network order
  (`TcpClient.c` l.163): on the little-endian board it connects to the address reversed.
- `CloseIicDriver` closes before it forgets, without the lock: a second close at the same
  time closes what another sample has opened in between (`OnlyTheseCloseOthers` names it).
- After `CloseSpiDriver` the descriptor is 1: the next close closes `stdout`.
- In data that is no multiple of 16 bytes ARIA's padding overwrites the last byte
  (`sample_module_aria.c` l.115), and the receiver is not told where the data ended.
- The three client threads read one `stdin` character by character at the same time, so
  that a typed line is spread over threads.

## 6. Not modelled

The TCA8418 key matrix (its register access is a stub that returns 1 and reads nothing,
so that no key is ever seen), the SI4730 tuner (one function, no state), the Modbus
sample (one thread around library calls) and the LCD test (one thread, pure output)
have no behaviour that a model would add to. The build files, headers and libraries are
vendored or scripts. Within the modelled parts: `SetPcmHwParams` and `SetPcmSwParams` of
the player by their results only, its `CloseAudioPlayer`, which nothing calls, and what
section 2 lists under each module.

## 7. Plan

Every safety property that can be a theorem is one. What would add to this project is
more of the repository, not more about the parts that are here: the TCA8418 key matrix
once its register access is more than a stub, and the Modbus sample with a model of
libmodbus under it.
