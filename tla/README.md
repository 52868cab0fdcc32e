# A verification project for OpenDoors

OpenDoors 6.30 is a C library for BBS door programs: it talks to a remote
caller through a serial port, a FOSSIL driver or a socket, mirrors the session
on a local screen, reads keys from both ends, keeps the caller's time limit and
idle limit, and gives the sysop chat, hang-up and similar commands. This
directory holds TLA+ models of its parts, the TLC configurations that check
them, and proofs that TLAPS checks. All paths below are relative to `src/src/`
of the repository unless they say otherwise.

## Inventory

| Component | Source | State it keeps | Operations | Interacts with |
|---|---|---|---|---|
| Reservations | `ODRsv.c` | a registry file shared by all door processes: header, one record per participant, byte-range locks; in memory the own record, the name, the ticket and the requested/acquired flags | join, request, wait, end, leave | other processes through the file; the kernel and the checkpoint while it waits |
| Input queue | `ODInQue.c` | ring of events, reserved slots, item semaphore, last-activity time, last list-control key | add one, add a group, reserve/commit/cancel, get, empty | frame thread and kernel add, the application flow removes |
| Kernel | `ODKrnl.c` | re-entrancy flag, next deduction time, pending requests, operator's cache | poll the port, handle sysop keys, deduct time, dispatch operator requests, chat | communications, input queue, frame, lifecycle |
| API nesting | `ODSync.c` | API level, session flag | entry, exit, release, reacquire, checkpoint | dispatches requests and finishes pending exits at the outermost level |
| Lifecycle | `ODInEx1.c`, `ODInEx2.c` | lifecycle state, pending error level, lines of the drop file | `od_init`, `od_exit`, drop files | every other component |
| Core I/O | `ODCore.c` | attribute, cursor | `od_get_key`, `od_input_str`, `od_disp` | input queue, communications, screen |
| Key sequences | `ODGetIn.c` | partial sequence in a buffer of ten, latency timer | `od_get_input` | input queue |
| Communications | `ODCom.c` | UART rings, flow control, telnet state | open, send, receive, carrier | interrupt handler, drivers |
| Platform | `ODPlat.c` | timers, semaphores, threads | start, elapsed, wait | all |
| Screen | `ODScrn.c` | session screen with its dirty rectangle, application and display buffers, dirty bit | put, scroll, present, publish | frame's painter |
| Windows frame | `ODFrame.c`, `ODWin.c` | windows, menu state | operator commands | request FIFO, input queue |
| Spawning | `ODSpawn.c`, `ODSwap.asm` | saved directory, screen | `od_spawn*` | API nesting |
| Emulator | `ODEmu.c` | parser state | display ANSI/AVATAR | screen |
| Editors | `ODEdStr.c`, `ODEdit.c` | buffer, cursor, line index | edit | core I/O |
| Menus, lists, blocks | `ODPopup.c`, `ODList.c`, `ODBlock.c` | menu levels, page counters | show, page | core I/O |
| Log | `ODLog.c` | log file | write | lifecycle |
| Configuration | `ODCFile.c`, `ODCmdLn.c` | none after start-up | parse | lifecycle |
| Personalities | `ODMulti.c`, `ODRA.c`, `ODPCB.c`, `ODWCat.c`, `ODStand.c` | current personality | status line | kernel |
| Helpers | `ODUtil.c`, `ODStr.c`, `ODSafe.c`, `ODPrntf.c`, `ODFormat.c`, `ODDrBox.c`, `ODGraph.c` | none | | all |

What is hard, by component, and what makes the component correct:

* Reservations. Processes die at any point, read each other's records one by
  one while they change, and detect death by trying a lock. Correct: one holder
  per name, first come first served, one session per identity, nobody writes a
  record it does not own, every queued request is served or given up.
* Input queue. Two threads and a semaphore over a bounded ring, with slots
  reserved before a remote byte is taken from the port. Correct: FIFO order, no
  fetched byte is dropped, a two-event key stays together, the semaphore agrees
  with the ring.
* Operator requests. A FIFO filled by the frame thread and drained at API
  boundaries, where chat mode can start inside the draining. Correct: order,
  each request applied at most once, the operator's cache shows what the FIFO
  will lead to, nothing applied once an exit has begun.
* Lifecycle. `od_exit` may be called during initialization, from a callback,
  from an exit hook, or twice, and may have to return to the application.
  Correct: the first request wins and is carried out once; nothing is used
  after it is freed.
* Kernel time limit. Callbacks may run for minutes. Correct: every minute is
  deducted once, the expiry comes after the warnings.
* Communications. An interrupt handler shares ring indices and counters with
  the foreground; a Telnet connection cuts its two-byte forms anywhere.
  Correct: no byte lost, duplicated or reordered, the transmitter armed while
  there is something to send, flow control released when room returns, keys
  and text unharmed by commands among them.
* Key sequences. A sequence arrives in pieces and local keys come between; what is
  no sequence fills the buffer.
  Correct: every byte is returned once and in order, the longest sequence at
  once.
* Timers. The counter wraps. Correct: a wait is as long as it was meant to be.
* Line editor. Literals come and go under one character held back. Correct:
  what is accepted fits the format, the screen shows the string, every key
  is finished with.
* Drop files. They are read line by line and written again after the caller's
  data changed, with failures in between. Correct: every line is where it was.
* Screen. Three copies of the screen and two threads. Correct: the operator's
  window shows the caller's screen as far as it fits.

`PROJECT.json` lists each hazard at the line where it bites.

## Modules

| Module | What it is |
|---|---|
| `Reserve` | the registry protocol of `ODRsv.c` between any number of door processes |
| `Registry` | `Reserve` with the creation and opening of the registry file before it |
| `ReserveInvariant` | the inductive invariants behind exclusion and identity |
| `Reservation` | what named reservations promise, without records, tickets and scans |
| `ReserveOrder` | `Reserve` with a history variable, refined to `Reservation` |
| `ReserveProofs` | TLAPS: types and mutual exclusion; one session per identity, and what a step may never do to the records |
| `RegistryProofs` | TLAPS: nobody takes part before the header is committed, and `Registry` refines `Reserve` |
| `OrderProofs` | TLAPS: `Reserve` serves requests in the order in which they came, as `Reservation` promises |
| `OperatorRequests` | the FIFO of operator commands in `ODKrnl.c` and the cache the operator is shown |
| `Session` | the application flow: nested calls, kernel, chat, callbacks, dispatch, start and end of a session; extends `OperatorRequests` |
| `TimeLimit` | a kernel pass over inactivity and time limit, with late passes, children, chat and callbacks; the inactivity limit set, changed and suspended |
| `LineEditor` | `od_edit_str` (`ODEdStr.c`), label by label |
| `Timer` | the timers of `ODPlat.c` on a counter that wraps |
| `DropFile` | five text drop files, read by `od_init` and written again by `od_exit` |
| `Screen` | session screen, local screen and the operator's window (`ODScrn.c`) |
| `Application` | the sum of the six modules above it that belong to the application's side; extends `Session` |
| `SessionProofs` | TLAPS: the API level, the exit that counts, every command carried out once, nothing queued after the FIFO, what the operator is shown; types |
| `ApplicationProofs` | TLAPS: the caller's minutes, the last warning, inactivity, timers, fields, drop files, the operator's window; types; `Application` contains `Session` |
| `InQueue` | the ring of `ODInQue.c` between the frame thread, the kernel's polling, readers and `od_clear_keybuffer` |
| `BoundedFifo` | what the input queue promises: a bounded FIFO with booked places |
| `InQueueProofs` | TLAPS: the ring's invariant, that it implements `BoundedFifo`, that pairs stay together and no byte is lost |
| `SerialPort` | the built-in UART driver (`ODCom.c`) taking the port from the BBS and giving it back |
| `SerialTransmit`, `SerialReceive` | the two halves of the driver while the port is open, between door, interrupt routine and modem |
| `TelnetInput`, `TelnetOutput` | the two directions of a Telnet socket (`ODCom.c`) |
| `ByteStream` | what a serial ring promises: numbered bytes come out in order |
| `KeySequences` | `od_get_input` and `od_get_input_until` (`ODGetIn.c`), with the size of their buffer |
| `Line` | the sum of `InQueue`, the serial port and both its halves, both directions of Telnet and the key sequences; extends `InQueue` |
| `LineProofs` | TLAPS: the transmitter, flow control, the rings' order, the port's return, both directions of Telnet, and the bytes of the key sequences |
| `Recursion` | TLAPS: induction over `0..N`, functions defined by recursion, and machines that read a sequence; knows nothing of the code |
| `MCReserve`, `MCReserveOrder`, `MCRegistry`, `MCLine`, `MCApplication`, `MCSession`, `MCSerialReceive`, `MCTimeLimit`, `MCLineEditor` | instances for TLC |

`Line` and `Application` put modules into one behaviour that share no state: a
variable `part`, chosen at the start, says which one moves. Each module
closes over its environment instead, which may do whatever the others can do
to it: bytes may arrive between any two steps of the key sequences, the frame
thread may press a key between any two steps of the queue, any call may draw.
So nothing is lost by leaving the others still, and a run checks the sum of the
state spaces, not their product.

### Reserve and Registry

One step is one system call another process can observe: taking or dropping a
byte-range lock, reading or writing one payload, reading the file's length.
`pc[p]` says where process `p` is inside `ODRsv.c`; `own`, `name`, `ticket`,
`requested`, `acquired` are its static variables, `snap`, `scan`, `seen` the
locals of a scan. `record` and `count` are the file; `lock` is the owner of each
record's lifetime byte and `registry` the exclusive owner of byte 0. A ticket is
two words of `0..WordMax`, compared and incremented word by word.

* The probe that tests a peer's life takes the peer's lock for a moment, as in
  `ODReserveReadLiveRecord`: `ProbeFree` takes it and `SkipStale` drops it, so
  probers see each other.
* `Crash` may strike in every state. It drops the locks and leaves the record.
* With `IOErrors` every payload transfer may fail. A failed write leaves the old
  payload: torn writes are not modelled. A transfer is one step because
  `ODReserveAccess` holds the payload's range lock around it.
* `Extend` grows the file and takes the new record's lifetime lock in one step:
  a record that was just added is in nobody's snapshot, since the registry is
  held exclusively. `ResetRecord` writes the record and drops the registry lock.
* Retrying is abstracted. A lock that a live process holds only for a moment is
  obtained within the 20 seconds of `ODReserveRangeLock`; one that stays taken
  is given up (`RefuseIdentity`, `SnapshotTimesOut`).
* `Forget` resets the ticket and the record number, which the code leaves as
  dead values.
* `Registry` adds the file's header: absent, empty, zeros, written but for its
  commit byte, committed, or something that is no registry. Whoever creates the
  file writes the header, under byte 0's lock but for the zeros; everybody
  else waits for the commit byte. A creator that dies leaves the registry shut
  for ever, as in the code.

Not in the modules: the PRESENT flag, which no reader tests, a partial last
record after a full disk, DOS without SHARE, `od_reserve_configure`, and
`od_reserve_end` called by a kernel callback inside `od_reserve_wait`.

### OperatorRequests and Session

`Session` models the Windows builds, graphical and console. `flow` is the call
stack of the one application thread. A frame says which activation it is
(`od_init`, `od_get_key`, `od_chat`, `od_kernel`, `od_exit`, the chat loop, a
dispatch, a callback) and how far it has come. `level` is `nAPILevel`, `lifecycle` is
`eODLifecycleState`. The other thread is the frame's: it tests that the
session is active (`TestActive`), then queues the command and flips the cache in
one critical section of the FIFO's lock (`Enqueue`).

* `od_get_key(TRUE)` stands for every call that waits with the API level
  released: the level is saved and set to zero, the wait ends or the checkpoint
  runs the kernel, the level is restored.
* Callbacks may call the library again, chat hooks may wait for a key, exit
  hooks may call `od_exit`, and an exit may come during initialization.
* Hang-up, lockout, inactivity, the end of the time limit and the loss of the
  carrier are one kind of event, an exit with the code `kernel`; the
  operator's and the application's carry theirs.
* Left out: `od_time_msg_func`, the shell and spawning, the application writing
  to `od_control` between calls (a chat hook that turns chat off excepted), a
  frame that cannot be told to stop, an allocation that fails in
  `ODKrnlQueueUIChange` (which drops the command). The work of `od_exit` between
  `Finalizing` and the join of the frame thread is one step.

### TimeLimit and Timer

`TimeLimit` is the part of `od_kernel` between the polling of the port and the
last warning. `due` is `nNextTimeDeductTime`, relative to now; `behind` says how
long ago the pass read its clock. Time may go by, bytes and local keys may come
at every point of a pass; the callback of a warning may give the caller time or
end the session. `unpaid`, `announced`, `changed` and `silent` are histories:
time not charged yet, the last warning, whether somebody changed the limit since,
how long the caller has pressed no key. `ToggleInactivity` switches `od_disable_inactivity`,
which suspends warning and expiry (`InForce`) and leaves the idle time running.

`Timer` counts milliseconds and derives the counter from them: 55 a tick with
midnight's wrap for the 32-bit DOS build, 1 with 2^32 elsewhere. `TimerAssumption`
says for which waits the arithmetic is meant: a duration, the longest time
between two looks and two ticks fit into the counter's period. Open Watcom's DOS
clock, in milliseconds that advance by ticks, is left out.

### LineEditor

The function is one loop with a dozen labels and jumps between them; every
label is an action, `at` the next one. A position of a format is literal or
stands for a class of characters; `M`, `#` and `*` stand for all classes, and a code the
format does not know (`-`) takes any character. `shown` and
`column` are the field on the caller's screen. Password mode, the field's
colours, date checking and the suppressed redraw are left out.

### DropFile

`CHAIN.TXT`, `DOOR.SYS` (GAP and WILDCAT by length), Doorway, `SFDOORS.DAT` and
`TRIBBS.SYS`. A line is `<<name, value>>`, the member or the numbered
string that `od_init` reads it into; `od_exit` writes them in its own order.
Any write may fail, which sets `nErrorCode`; from then on nothing is written, as
a later line would take the place of the missing one. The tables are the order
of the calls in the code. `Disarranged` names the cases in which the code does
move lines (see *Met while reading*), so that the property says what holds
everywhere else.

### Screen

The graphical Windows build in a remote session. A buffer is the set of the
cells that hold a mark: contents are only copied, and two of them tell any two
cells apart. `Presented` is the end of `ODSessionScreenPresent`, `Publish` is
`ODScrnPublish`, and the frame's thread paints in two steps, since Windows
counts an area as painted when the paint begins. In `window` a cell that is still
to be painted counts as blank, as it may show anything. `od_disp_emu` may
bracket any drawing, during which nothing is presented. Left out: the library's
own windows and messages on the local screen, a callback that calls `od_disp_emu`
inside another, the scroll that cannot allocate its copy.

### InQueue

A critical section of `QueueMutex` is one step. Taking an event is two steps,
the semaphore (`Await`) and the ring (`Take`), and so is discarding one. The
frame thread's `PressKey` may come between any two. `flow` says which operation
the application flow is in the middle of. The bell that rings for a key that
does not fit, the time of last activity and the last list-control key are left
out, as is the error return of the semaphore other than a timeout, which
`ODSemaphoreDown` cannot produce. In a console session the application flow adds
the sysop's keys itself, a subset of these interleavings.

One thing a reader of the code may stumble over: the header of
`ODInQueueAlloc` calls its argument "the minimum number of events that the
input queue should be able to hold", while the ring holds one fewer
(`Available`); the model follows the code.

### The serial port, Telnet and key sequences

* `SerialPort` writes one register, or the vector, per action, from any state in
  which the BBS may have left the UART and the interrupt controller. What the
  rings hold is abstracted to what the interrupt routine asks of them.
* In `SerialTransmit` and `SerialReceive` the code between
  `OD_COM_INTERRUPTS_DISABLE` and `_ENABLE` is one action, and one pass of
  `ODComInternalISR`'s loop is one; the interrupt and the modem move between any two
  actions of the door. The registers are variables: the transmit register and
  whether its interrupt is enabled and signalled, the modem's CTS and its change
  bit, RTS, the receive register. The modem may send `Skid` bytes after RTS fell.
  Bytes are numbered modulo `Numbers`, so that a lost, repeated or exchanged
  one shows. Both rings refine `ByteStream`.
* `TelnetInput` is one pass of `ODComGetByte`'s loop per action. The caller's program
  sends the forms of its keys (a carriage return is CR NUL or CR LF or, by
  some programs, bare), a doubled IAC, and commands between them.
* `TelnetOutput` writes the form of a buffer in pieces; the socket takes any number,
  would block, is interrupted, or fails. The terminal's reading of the wire by
  the rules of the Network Virtual Terminal is the reference.
* `KeySequences` takes one look at the queue per action; the deadline of the held
  bytes and of the call may pass at any of them. `owed` is the history of bytes
  read and not returned. The table has one sequence of every kind: short, a start
  of another, long, a control key. `SEQUENCE_BUFFER_SIZE` is the size of
  `szCurrentSequence`, to which `Extend` adds a byte and its terminator without a look at
  the room (`ODGetIn.c:436-437`). What a byte past the end does depends on what the build
  puts there: `overrun` records that it happened, and the two flags declared behind the
  array have any value from then on. `OnlyUnknownOverruns` says when it can happen;
  `BytesAccounted` and `TranslatesLongest` speak of what came before.

## Runs

| Run | Instance | Distinct states | Shows |
|---|---|---|---|
| `reserve_order` | 3 processes, 3 records, 1 name, tickets of 2 x 2 values, I/O errors | 402,000 | `TypeOK`, `ExclusionInv`, `MutualExclusion`; first come, first served, as a refinement of `Reservation` |
| `reserve_identity` | `Registry`, 3 processes, two of them one node, I/O errors | 295,000 | `IdentityInv`, one session per identity, tombstones, owners' writes, queued tickets, header first |
| `reserve_liveness` | 2 processes, 2 names, I/O errors, fairness | 100,000 | every queued request is served or given up |
| `line` | the seven parts of `Line` | 758,000 | the port's return, the rings, the transmitter, flow control, Telnet both ways, the FIFO, key sequences |
| `application` | the six parts of `Application` | 1,899,000 | session, time limit, field, timer, drop file, screen |
| `reserve_contention` | 2 processes, 3 records | - | violation, see below |
| `session_deferred_exit`, `session_outermost`, `session_order` | `Session`, 1, 1 and 3 requests | - | violations |
| `serial_clear` | `SerialReceive`, ring of 8 | - | violation |
| `spawn_time` | `TimeLimit`, children's time charged | - | violation |
| `edit_hang` | `LineEditor`, field of 2 after a longer one | - | violation |

Why the bounds are enough.

* Reservations. Three processes give every role of the bakery at once: one that
  holds or scans, one that follows, one that probes, crashes or joins
  meanwhile, and for the header one that creates, one that lost the race and one
  that came later. Three records let a session rejoin as another slot than its
  own tombstone. `WordMax = 1` reaches the carry from the low word into the
  high one and the exhaustion of tickets within four requests.
* Session. Six frames are `od_get_key`, the kernel in its wait, a dispatch, chat, its
  callback and a call from there; deeper stacks repeat these. Two requests give
  the FIFO, a batch and a command queued between; the order violation needs
  three.
* Time limit. Minutes of two ticks and passes up to three ticks late: a pass can
  come in the middle of a minute, and a whole minute can fall between two
  passes. A limit of two lets the last two warnings come, or the
  first of them be skipped; the theorems hold for every limit and lag.
* Field. Three positions with a literal in the middle or in front: an insertion
  can push over a literal, a deletion pull one in, and each can fill the field.
* Timer. Counters of 24 milliseconds, 8 or 24 ticks; waits of up to 14 with
  looks up to 4 late start everywhere on the counter and wrap.
* Drop file. Files whole, without a last line, and cut where the code asks
  whether there is more (31, 32, 36 and 52 lines of `DOOR.SYS`, the optional ends
  of `SFDOORS.DAT`).
* Screen. The local screen has one cell, the caller's is one column by three rows
  or two by two: what is visible and what is not differ by one cell in each direction,
  and one scroll moves a cell out.
* Queue. Four slots hold three events: a booked place, a pair and one more
  compete for them, and the indices wrap. Two bytes and two keys can be
  exchanged, parted and dropped; the theorems hold for any number.
* Serial. The port as it changes hands has no bound. Three slots for transmission and buffers of four: one does not fit
  and is sent in parts. Sixteen for reception, the smallest ring whose quarter above
  the high-water mark holds twice the byte that lowers RTS and one of skid
  (`FlowControlLosesNothing` says why twice). Two or three numbers are
  enough to see an exchange of neighbours.
* Telnet. Two forms put any form next to any other; two buffers of two bytes
  put any byte next to any other, in one buffer and across two.
* Key sequences. Four bytes are the longest sequence of the table; five let a byte
  follow it, or a partial one be followed by bytes that do not go on with it. A buffer of
  five takes that sequence and its terminator and no more, so that five bytes that match
  nothing reach past its end. The code's buffer of ten takes its longest key, of seven, and
  is filled in the same way. At most two bytes wait in the queue, a local extended key or
  what comes between two looks.

`CHECK_DEADLOCK FALSE` stands where a part may end: a program after `od_exit`, a
closed socket, a caller who was put out.

`VIEW` in `MCLine` and `MCApplication` leaves out what cannot matter any
more: the parts that stand still, the slots of a serial ring that hold no waiting byte, a
character that the next label does not read. Symmetry (permutations of the
processes) is used in `reserve_order` only, whose properties do not tell
processes apart and which has no fairness. Breaking ties by record number is
not affected: records are numbers, not processes.

### Fairness

* `reserve_liveness`. A process inside the library goes on with its scan and its
  request (weak fairness of the steps that no peer can disable for good), a
  waiting process polls again every 25 ms and finds the registry unlocked
  often enough (strong fairness of the snapshots, since joins hold the registry
  for a moment at a time), and a caller that was told ACQUIRED ends its turn,
  without which nobody's turn comes. Finally, crashes, departures, withdrawn
  requests and collisions of two probes stop at some time: each costs a waiting
  process at most one more scan, but endless ones can hold it up for ever.
  `Disturb` names them.
* `line`. The UART shifts what it holds (weak), and an interrupt that is signalled
  and enabled is served; strong, because a door that disables interrupts for a
  moment, or the other cause served first, interrupts the wait and nothing
  ends it for good. `OldestLeaves` says that under this, with a modem that lets
  bytes go again and again, the oldest byte leaves.
* `serial_clear` assumes, besides, a caller who sends whenever he may and a door
  that keeps asking for bytes: it shows that even they are stuck.
* `edit_hang` assumes that the loop goes on, and nothing of the caller.

### What the violations show

* `reserve_contention`: `od_reserve_wait.md` says ordinary contention is
  pending. Two waiting sessions that probe one uncommitted tombstone at the same
  time can make one of them take it for an unreadable live record and detach.
* `session_deferred_exit`: in no-exit mode an exit raised by the dispatch at the
  end of the outermost call is put off to "that call's outermost API-exit
  boundary", which has been passed: `ODSyncAPIExit` looks for a pending exit
  before it dispatches. The session stays in `ExitPending` for good.
* `session_outermost`: `od_exit.md` says destruction waits for the outermost
  call to unwind. In a console session the kernel that runs inside a wait sees
  API level zero, takes itself for the outermost call and finalizes the session
  while `od_get_key` is still waiting on the input queue.
* `session_order`: `threading.md` says requests are not reordered. A chat request
  runs chat inside the dispatch of its batch, and a chat hook that waits
  dispatches newer requests before the rest of that batch.
* `serial_clear`: `od_clear_keybuffer.md` says keys that arrive afterwards remain
  available. Emptying the ring leaves RTS low, only taking a byte raises it,
  and no byte comes.
* `spawn_time`: `caller.md` says one minute is subtracted for every minute. With
  `od_spawn_freeze_time` FALSE a child's minutes are subtracted when it ends and
  again by the next pass of the kernel.
* `edit_hang`: behind a full field the format arrays still hold an earlier
  format. If that is a literal, a character typed there is held back and tried
  again for ever.

## Proofs

All theorems hold for every value of the constants that satisfies the named
assumptions next to them (`DoorAssumption`, `BoundAssumption`,
`EntriesAssumption` and so on): any number of processes, names, records and
ticket values, any size of the ring, any number of bytes and keys.

**Mutual exclusion** (`ReserveProofs`). `MutualExclusion` is not inductive: it says
nothing about processes still scanning. `ExclusionInv` adds, first, a
*footing*: types, owners hold their lifetime locks, scans stay inside their
snapshots, memory flags fit the place. Second, every live session's record
shows its state (`RecordsShowState`). Third, the core of the bakery
(`PassedAreBehind`): if a queued `p` has passed the record of `q`, then `q` has
a larger ticket, or is choosing and will still read the ticket of `p`, or has
read one at least as large. Footing is proved for the process that steps
(`TypeStep`, `OwnerStep`, `ScanStep`, `FlagStep`), and frame lemmas say that a
step leaves the others alone; `PasserStep` and `FollowerStep` carry the core.
One observation on the way: exclusion does not rest on the choosing flag alone,
since a record in the choosing state shows ticket zero, which precedes every
other.

**Order** (`OrderProofs`). Exclusion would also hold if requests overtook each
other. The refinement of `Reservation` needs that a request stays behind every
peer that was queued when it came: `OrderInv`, over the history `ahead`, with
the relation `Behind` of the bakery. `BehindStep` carries it through the steps of
the request (its scan for a ticket cannot miss a ticket that was there before,
and its own is then larger); the peer's steps leave its ticket alone or end its
request. A request that acquires has passed every record and would have
stopped at one that is ahead (`NobodyAhead`), so `Acquire` is the abstract
lock's, and the other steps are its arrivals, ends or stutters.

**Identity** (`ReserveProofs`). `StepKinds` classifies every step by what it
does to the file: four steps of a joining process, and three kinds (writes the own
record, closes the file, leaves the records alone). `IdentityInv` says that the
registry lock belongs to the joining process, that a session's record carries its
identity and, once past the append, its commit byte, and that committed records
have distinct identities. From the classification also follow the three action
properties.

**The registry's header** (`RegistryProofs`). `HeaderInv` says that a
process that opens the registry is not yet inside `Reserve`, that there is at most
one creator, that the header is uncommitted as long as there is one, and that
byte 0 is held by the process that looks at the header or writes it. It is
inductive because `O_EXCL` makes one creator and only the creator leaves the
uncommitted states.
A step of `Registry` is a step of `Reserve` or leaves its variables alone, so the
theorems of `Reserve` carry over (`RegistryExclusion`).

**Input queue** (`InQueueProofs`). `Wrap` is the one fact about `%` that is
needed, since no sum reaches twice the ring's size. `AddAppends` and
`AdvanceRemoves` say what moving an index does to the queue in the ring.
`RingInv`, of which `line` checks `SemaphoreCounts`, the types and through `ImplementsFifo` the
room, is inductive: the semaphore is one behind the ring exactly between
the reader's two steps, a place is booked exactly between reservation and
commitment, used and booked slots leave one slot free, and used slots hold
events. The refinement maps a key to `Put`, a reservation to `Book`, a commit
to `PutBooked`, a cancellation to `Release`, taking and discarding to `Take`.

Four lemmas say what the steps do to the queue (`KeyIsAdded`, `ByteIsAdded`,
`HeadIsTaken`, `QueueStays`), and from these follow the refinement and two
invariants about what the events are. `PairsInv`: what was read, followed by
what waits, never has a scan code without its zero before it; while
`od_clear_keybuffer` empties the queue, which it does an event at a time, the queue may
begin with an orphaned scan code, and only `Emptied` lets readers in again.
`BytesInv`: read, waiting, in the kernel's hands and in the port, in this order,
are the bytes that were sent and not dropped, each once. It needs that the
kernel has a byte in hand exactly between fetching and committing it, so that
`Fetch` does not overwrite one, and that only bytes that were sent are
dropped. The reserved place is what makes `Commit` always append.

**The serial port** (`LineProofs`).

* `TransmitInv`: an enabled transmit interrupt has a cause now or will have one when
  the register is empty. The wait for the buffer to drain looks at the ring first and at
  the line status then, and nothing can be queued between.
* `FlowInv` bounds what the ring holds, and what may still come, while RTS goes up and down.
  `ODComGetByte` raises RTS after it has enabled interrupts again, on a count that may be stale,
  so RTS may be raised once although the ring is above its high-water mark;
  the modem then sends the byte that lowers it and its skid a second time. Hence the
  hypothesis of the property, that a quarter of the ring holds twice a byte and a skid.
* `PortTypes` and `PortPlaces`: for each place in `ODComOpen` and `ODComClose`, which
  registers are still as the BBS left them and which are already saved. With
  interrupts that the BBS left open, the interrupt routine may change the two bits that
  `PortIsReturned` leaves open.
* `TxRing` and `RxRing`: bytes sit between the out index and the in index, which is the out index
  plus the count. The interrupt routine only takes from the ring the door fills and only
  fills the ring the door takes from, so a door that has seen room, or a byte, still finds it
  two steps later. With lemmas about places modulo the size (`Around`, `Apart`,
  `TakenFromFront`, `PutAtEnd`), each ring implements `ByteStream`.
* `KeysInv`: a call that looks at bytes holds some, unless a zero byte is being
  completed, and one that waits for its first byte holds none. `Owed` says what,
  until something is written past the buffer, the history of bytes not yet returned must be. A call that has looked at some of the bytes stands
  to return what the longest sequence at their start stands for, and bytes that arrive behind
  them change that only when a longer sequence goes on with them (`MoreIsTheSame`); from
  this follows what a call without a deadline returns. The buffer may have any size that
  takes every key of the table (`KeysAssumption`) and the bytes any number; a run in which
  the held bytes outgrow the buffer is part of every theorem, and `BytesAccounted` and
  `TranslatesLongest` promise nothing from there on. It takes
  bytes that begin with no key (`OnlyUnknownOverruns`): a call that waits for more holds
  nothing it could return (`Waits`), so that a key at the start of too long a sequence, being
  shorter than the buffer, would have been returned before its last byte came
  (`TooLongForKeys`).
* `ReaderInv`: each machine of `TelnetInput` has read the bytes that arrived, and when it goes on
  with the bytes still on their way it will have told the keys pressed. `SenderInv`: the bytes
  that are built but not handed over take the caller's terminal from what it shows to the text
  that was sent. Both machines are runs of a recursive function over the bytes (`Run`): a
  run over two pieces is the second one's from where the first ended (`RunOn`), so that
  it does not matter where the stream is cut.
* `LineTypeOK`. Nothing grows but by a step that looked for room: a byte that
  `od_get_input` adds to those held fits the buffer, or `overrun` records that it did not
  (`KeysTypeStep`); the rings' indices stay in the rings because they are what
  `TxRing` and `RxRing` say (`InIndex`).

**The session** (`SessionProofs`). `SessionInv` has three parts. *Stack*: the frames of
`flow` are in order (`Orderly`: `od_init` only innermost, a single `od_exit`, which
carries the first request's code, no command in two batches), and the level is the number of
calls above the last wait that released it, as was the level that each wait saved
(`Counted`). *Ending*: which codes may be pending, deferred or given back in which
state of the life cycle, and when the FIFO exists. *Numbering*: the FIFO, the
batches of the stack and what was applied are disjoint, and while the session is
active they are all that was asked. A step pushes a frame, turns the top frame, or pops
it; `Stack` is proved once for each of the three kinds, and every action
is shown to be one of them or two in a row.

`ShownInv` adds what the operator's side sees: until the session is active the cache is
a copy of the settings; while it is active, and no activation but one that has made its last
dispatch is on the stack (`Settled`), the cache is what the settings become when the
FIFO has been applied (`OperatorRequests.After`). A settings snapshot is taken only when the
outermost activation ends, which is a public call or `od_init` (`Rooted`); a command that
comes in between that call's last dispatch and its refresh is still in the FIFO then, so
the refresh shows the settings with it applied. `AfterNothing` and `AfterOneMore`
say what one command more does to what is foretold.

`SessionTyped` adds what these leave out: flags, names, and `KeptBelow`, that a wait has kept
no more of the level than the depth at which it waits (`LevelBound`), so that no wait ends with
a level that the stack does not have.

**Recursive definitions** (`Recursion`). `After`, `Encode`, `Shown` and the machines' runs
are recursive functions, and TLA+ makes such a function a CHOICE among the functions
that satisfy the equation. `OneAtLeast` and `OnlyOne` show that there is exactly one over `0..N`,
by induction. The library's induction theorems cannot be used here; `Recursion` takes the
least element of the set of counterexamples instead, which needs no parameter that is an operator.
`RunOnce`, `RunOn`, `RunApart` and `RunWithin` then say that a machine's run is determined by
what it reads, that runs can be joined and cut, and that a run stays in a set that is closed
under its steps.

**The application** (`ApplicationProofs`). Each part has an invariant of its own,
since no two parts move in one step.

* `ChargeInv`, `AnnounceInv`: minutes charged plus the time that is due are the time online;
  until somebody changes the limit the caller was last told of the minutes that
  are left. Both theorems assume `SpawnModes \subseteq {"frozen"}`: with children whose
  time is charged they are false, as `spawn_time` shows, and a child's minutes may
  take the limit past zero between two passes.
* `InactivityInv`: while `od_inactivity` is set and the kernel has looked at the port, it
  counts no more idle time than the caller was silent, whether `od_disable_inactivity`
  suspends the limit or not; what puts the caller out looks at the flag itself.
* `TimerInv`: what the counter advanced since the timer's first tick began is ahead of
  the timer's age by less than a tick, which is how far into that tick it was started.
* `ScreenInv`: the session screen differs from the local one only where it is
  dirty, the local screen from what was published only within a call, the window from
  what was published only where it is to be painted.
* `EditInv`: the string is shown, with blanks or permanent literals behind it, and the cursor
  is where the next character goes, except that it waits while permanent literals are taken
  out at the end; before them is a character that is not literal, at which this ends
  (`Retreat`). The lemmas `ShowsAppended` to `ShowsDeleted` say what each way of
  writing to the screen does to this, `QuietStep`, `CursorStep` and `TextStep` what a label has
  to keep.
* What a caller is given (`AnswerFits`) is the recursive function `Normal`, whose value at a
  position depends on its value before it. No induction is needed: a conversion depends
  only on whether the character before is a "-", and leaves that as it is, so `Normal` is the
  character by character conversion of what was typed (`ConvertedByItself`), which is idempotent.
* `FileInv`: the number of the line that is read or written is its position in the format's
  table, each value read is that of the line's entry, and what is written so far are the first
  lines of the table with what was kept of them.

* `ApplicationTypeCorrect` rests on all of these. `TimeTyped`: the limit sinks below zero only
  with minutes that are over and with a child's, so the limit and the time that is due are bounded
  together. `FieldTyped`: what a field holds can be entered in it, which for the characters
  typed by the program itself (literals, conversions, a character held back) needs
  what each label promises (`Handled`). `ScreenTyped`: what is drawn, and the dirty rectangle,
  stay on the screen. `FileTyped`: no more lines are printed than are written, but for the
  password's in `TRIBBS.SYS`.

`SessionIsPart` says that a run of `Application` is a run of `Session`, so that the theorems
of `SessionProofs` hold of it.

**Model-checked only.** Liveness, which is out of the prover's reach: `EveryTurnComes`,
`OldestLeaves` and the violated `ClearedCallerMaySend` and `KeysFinish`.

## Not modelled

The components table of `PROJECT.json` gives the reason for each part. About two
thirds of the lines under `src/` are vendored or generated code, examples and
utilities; of the library itself most lines draw (menus, windows, boxes, status
lines), parse or print text formats (configuration, the binary drop files,
ANSI and AVATAR codes, format strings), or call one operating system among
several. They keep little state that outlives a call and take no part in the
interleavings above. The share of the whole that the models cover is therefore
small, and much larger for the files where the hard behaviour is (`ODRsv.c`,
`ODInQue.c`, `ODSync.c`, `ODGetIn.c`, `ODEdStr.c`, the kernel's passes and the
two built-in transports of `ODCom.c`).

The multi-line editor (`ODEdit.c`) is a sequential program over one text buffer.
Reading it for a model met so many states in which it leaves its own invariants
(below) that a module would have had to stop at every second key; it is left
until these are settled.

Two hazards have no property: chat mode's loop reaches no dispatch point, so an
operator's request to end chat waits until chat ends by other means; and
`od_reserve_wait` goes on after a callback ended the reservation (see below).

### Met while reading

Divergences seen in the code that no run shows, most of them because they are
in the data the models abstract from.

* Timers. DOS times are rounded up to ticks, but a wait begins anywhere in a tick, so
  it can elapse up to a tick early, while `ODPlat.c` says it cannot elapse before
  the interval; `TimersKeepTime` allows for the tick. 32-bit DOS timers of more
  than a day never elapse.
* Reservations. After a callback ended the reservation, `od_reserve_wait` scans
  for the empty name with ticket zero and answers ACQUIRED (`ODRsv.c:929-930`). A
  creator that dies before the commit leaves the registry shut for good.
* Serial port. `ODComClose` restores the modem control register first, "to their original
  values". If the BBS left the UART's interrupts open to the line, the interrupt routine may run
  once more and lower RTS, or, after the next write, turn the transmit interrupt on or
  off; `PortIsReturned` says exactly what can differ. `od_spawn` ignores the result of
  reopening the port, whose buffers are allocated anew each time and never freed; when
  that fails the session goes on with a port that is not open: a debugging build
  aborts at the next `VERIFY_CALL` (`ODCom.c:104-110`), in a release it expands to nothing.
* Keys. The bytes that `od_get_input` holds survive `od_clear_keybuffer`
  (`ODCore.c:462`).
* Key sequence buffer. "A terminal which sends an unknown sequence may produce ordinary
  Escape and character events instead" (`input.md:93-94`); the loop that waits for more
  bytes gives up on a sequence only after 250 milliseconds without one. It compares what is
  held with whole keys, not with the starts of keys, and adds each byte to
  `szCurrentSequence` without a look at its ten bytes (`ODGetIn.c:163, 399-447`). When bytes
  that match nothing follow an Escape closely enough, the terminator of the tenth and what
  comes after it are written behind the array. The model has this (`Extend`, `overrun`);
  what the program does from then on is not modelled.
* Inactivity. A limit that `od_disable_inactivity` suspends goes on counting: a caller who
  was silent meanwhile can be put out, without a warning, by the first pass after it is let
  go on. `customization.md:967-972` says so; only `od_inactivity` set from zero starts
  the count anew (`ODKrnl.c:824-834`).
* Line editor. Delete in password mode displays the stored characters. Literals
  that PERMALITERAL keeps visible are blanked by ^Y and AUTO_DELETE. A literal that
  is typed automatically counts as the first key of AUTO_DELETE and erases the
  value. A literal held back stays held after an insertion that filled the field. An
  existing string that does not match the permanent literals leaves stale cells.
* Drop files. `TRIBBS.SYS`'s password keeps its newline, which adds a line;
  lines 33 to 35 of `SFDOORS.DAT` are written one line off; `DOOR.SYS`'s "RIP" and
  `CHAIN.TXT`'s "KB" are compared with text that still has its newline; the suffix of
  `COM0:SOCKET` and its like is lost; a local `DOOR.SYS`'s speed is rewritten as 0,
  a local Doorway "-1" is read as port -4, and a locked speed of 0 in `TRIBBS.SYS` is
  rewritten as the speed; a `DOOR.SYS` of 32 to 51 lines is written with 31; the
  user's name is written in upper case; an extra line with commas before line 24 of the
  conference list is dropped.
* Screen. `od_disp_emu`'s pause (`ODEmu.c:1371`) waits while nothing is
  presented, so the operator does not see the text the caller is shown, although
  `docs/guides/terminal-screen.md` says the local display shows the part that
  fits. While `ODEmulateFromBuffer` runs, all calls of `ODScrn.c` go to the session screen,
  against the same guide; a status line that the kernel updates meanwhile is
  drawn there. A nested `ODEmulateFromBuffer` ends the outer one's bracket. `od_scroll` returns
  without presenting when it cannot allocate (`ODBlock.c:627-634`). The cursor of the local
  screen ignores the boundary's offset, which the console's publication adds.
  Turning the status line off and on with the cursor in the bottom rows scrolls the
  local screen but not the session's (`ODCore.c:1114-1128`), and the rows stay blank after
  it is turned off. In a console session longer than the local
  screen, a cursor that moves below it makes nothing dirty and is not published.
* Multi-line editor. A two-column area, which `od_multiline_edit.md` allows, makes
  `ODEditBufferFormatAndIndex` loop on any character but a space until memory is
  exhausted. A word longer than the line minus two leaves the cursor past the end of its line,
  and the next character comes before the wrapped one ("abcd" becomes
  "ab dc"). Overwriting at a line's end overwrites the break or the terminating
  NUL; Delete at the end of the text removes the NUL and brings deleted text
  back. A deletion that pulls the last word up leaves the current line past the
  index's end. A space typed in the first word of a wrapped line pulls the line up
  without the cursor. Delete past a line's end compares with line starts that have
  moved, so old text stays on the screen, and can move the cursor below the area
  without scrolling.

## Plan

Done: reservations with their registry, the session, the kernel's limits, the input
queue, the built-in transports, key sequences, timers, the line editor, drop files and the
screen.

Proved: every safety invariant and action property of the passing runs, and the three
refinements.

Next, if the code settles: the multi-line editor, a callback's `od_reserve_end` inside
`od_reserve_wait`, the console's publication, the emulator's parser.
