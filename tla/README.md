# tvd in TLA+

tvd (`README` of the repository) is a small daemon between Android's TV driver
and one client. It opens a sequenced-packet socket to the client, takes
commands from it, runs them against the TV HAL or a vendor's DTV library, sends
answers, and forwards events as notifications. This directory holds a model of
its control: the connection and its callbacks, the send queue, the dispatch of
commands, the registration of services, the commands of the DTV service step by
step, the table of tuners behind them, and what the HAL's and the vendor's
threads do meanwhile. TLC checks the model on small instances; TLAPS proves its
main safety properties for all values of the constants.

Paths below are the repository's: `io.c` is `src/src/io.c`, the protocol
document is `src/doc/ipc.txt`.

## 1. Inventory

| Component | State it keeps | Operations | Modelled in |
|---|---|---|---|
| I/O framework, `io.c` | `io_state`: `fd`, `epoll_events`, `epoll_funcs` (callbacks), `rbuf`, `sendq` | `init_io`, `fd_con_out/err`, `fd_io_in/out/err/hup`, `io_state_send`, `send_pdu`, `send_error_reply`, `uninit_io` | `IoState` |
| Start and shut-down, `main.c` | the Android wake lock | `main`, `init`, `uninit`, option parser | `Tvd` |
| PDU dispatch, `pdu.c`, `service.c` | `g_service_handler`, constant tables of register / unregister functions | `handle_pdu_by_service`, `handle_pdu_by_opcode` | `Tvd` |
| Registry service, `registry.c` | `g_send_pdu` | `init_registry`, `register_module`, `unregister_module`, `uninit_registry` | `Tvd` |
| DTV service, `dtv_io.c` | its `send_pdu`, queued notification buffers | `register_dtv`, `unregister_dtv`, eight commands, four notifications, `send_ntf_pdu` | `Tvd` (registration, notifications), `DtvHandlers` (commands), `DtvCommands` (the contract between them) |
| DTV library, `dtv.c` | registered callbacks | `get_int_length`, `dtv_get_tuner_num`, `dtv_get_tuners`, `dtv_set_source`; the rest is a stub | `TunerId`, `DtvHandlers` |
| TV HAL wrapper, `tv_hal.c` | `device_list`, `device_num`, the `acting_stream_id`s, `module`, `device` | `device_init_notify` (HAL thread), `init`, `uninit`, look-ups, `get_stream` | `TvHal`; `TunerTable` is what it promises |
| DTV PDUs, `dtv_pdu.c`, `memptr.c` | none | sizes and appends of nested records, the ancillary data | `DtvPdu` |
| TV structures, `tv_utils.c` | none | release functions | `DtvHandlers`, only where they go wrong |
| `log.h`, `compiler.h`, `wakelock.h`, makefiles | none | none | not modelled |

libfdio (epoll loop, task queue), libpdu (buffers), the kernel's socket, the
Android HAL and a vendor's DTV library are not in the repository. They are
modelled from how this code uses them and marked external in `PROJECT.json`.

**How the parts interact.** Everything in `io.c`, `registry.c` and the command
handlers of `dtv_io.c` runs on the thread of the epoll loop, one callback at a
time. A callback's result (`IO_OK`, `IO_POLL`, `IO_EXIT`, `IO_ABORT`) tells the
loop whether to go on. `io_state_in` calls `handle_pdu_by_service`, which finds
the handler in `g_service_handler`; a handler answers by the `send_pdu` pointer
it got when it was registered, and its status decides whether the framework
adds an error reply. The Registry changes `g_service_handler`, the table the
dispatch reads. The handlers of the DTV service call `dtv.c`, which asks
`tv_hal.c` for the tuners and their streams. Two more threads enter from below:
callbacks of the vendor's DTV library build a notification and hand it to the
loop by `run_task`, so that it is sent later, on the I/O thread, when the
service may be gone; and the HAL calls `device_init_notify`, which changes the
table of tuners that the I/O thread is reading.

**What is hard.**

- *Connection life cycle.* Error, hang-up, input and output callbacks arrive in
  any order, each may close, leave the loop or end the process, and each call
  in them can fail half way.
- *Two flushes of one queue.* The queue is drained from a handler and from the
  writeability callback into a socket that may fill up in the middle. Whether
  EPOLLOUT is watched must agree with whether the queue is empty.
- *Half-closed client.* Shutting down the sending side must stop input
  polling, and nothing else. An empty packet looks the same to `recvmsg`.
- *Deferred notifications.* A task queued while DTV is registered runs after
  it was unregistered, or after it was registered again.
- *Partial failure.* Results are positive in one place and negative in another;
  some are dropped. A stream is closed before its successor fails to open.
- *Wake lock.* Taken in `main` and around every input callback, and it outlives
  a process that ends without releasing it.
- *Unlocked tuner table.* An array with a length, shifted when a device leaves,
  shared by two threads. The number of tuners and the tuners are read in two
  calls; an index is looked up before a call into the HAL and used after it.
- *Sizes computed before the data is appended*, for nested variable-length
  records and for ancillary data at an unaligned address.

**What makes each component correct.**

- I/O framework: a callback finds the state it asserts; PDUs leave once and in
  order; the queue never waits for a wake-up nobody asked for; input is read
  until the client hangs up; a connection is closed, and only once; a client that
  is gone ends the daemon.
- Dispatch and Registry: a reachable handler has its send callback; every
  command has exactly one answer, in order; registrations change with
  successful answers only.
- DTV service: silent when it is not registered; a handler reports success
  exactly if it sent an answer.
- DTV library: the ids given to the client name the HAL's tuners.
- TV HAL wrapper: the table holds each announced tuner once; the stream that is
  open is the one recorded, so that it is closed in the end; no access beyond
  the table.
- DTV PDUs: what is appended fits the buffer that was created for it.
- Start and shut-down: `uninit` cleans up; the wake lock is not held while the
  daemon waits, nor when it is gone (it is when `init` fails or the process
  aborts, see the end of section 3).

Every hazard found is listed with its line in `PROJECT.json`, with the
properties that cover it or the reason why none does.

## 2. Modules

| Module | What it is |
|---|---|
| `Outbox` | abstract: a FIFO channel that may lose a suffix when the connection ends |
| `IoState` | `io.c` with an open command handler; its properties and inductive invariant |
| `TvdProtocol` | abstract: the protocol as its client sees it, without sockets, queues, callbacks |
| `DtvCommands` | the contract of the DTV commands: which outcomes each may have |
| `Tvd` | EXTENDS `IoState` with `main.c`, dispatch, Registry, DTV front end, task queue |
| `TunerTable` | abstract: a map from the announced tuners to their selected streams |
| `TvHal` | `tv_hal.c` under the registration of the DTV service; its inductive invariant |
| `TunerId` | tuner ids as strings, and back |
| `DtvPdu` | fields and sizes of the DTV service's PDUs |
| `DtvHandlers` | EXTENDS `TvHal`, `TunerId`, `DtvPdu`, `DtvCommands` with the command handlers |
| `MCIoState`, `MCTvd`, `MCDtv` | instances for TLC |
| `IoStateProofs`, `OutboxProofs`, `TvdProofs`, `SilenceProofs`, `ProtocolProofs`, `TvHalProofs`, `DtvProofs` | theorems about the state machines |
| `PayloadProofs` | theorems about `TunerId` and `DtvPdu`, and the induction they need |

`IoState` implements `Outbox`; `Tvd` implements `IoState` and `TvdProtocol`;
`TvHal` implements `TunerTable`; `DtvHandlers` implements `TvHal`.

The daemon is cut in two at `DtvCommands`, an assume-guarantee contract. `Tvd`
takes a DTV command to be one step that ends in any way the contract allows.
`DtvHandlers` has neither sockets nor queues, runs the same command in up to
four steps over the real table, and is shown to end only in ways the contract
allows (`HandlersKeepContract`). The product of the two would be too large to
check and would show nothing more about either: the handlers read no state of
the connection, and the connection sees of a command its status only.

### State of `IoState` and `Tvd`

| Variable | Code |
|---|---|
| `loop` | where the process is: before `init_io`, in the loop, left with `IO_EXIT` or `IO_ABORT`, after `uninit`, failed to start, or killed (`abort()`, undefined behaviour) |
| `fd`, `epoll_events`, `sendq`, `rbuf`, `funcs` | the fields of `io_state`; `rbuf` and `funcs` distinguish NULL, allocated, and freed but still stored |
| `watched` | the events registered with libfdio, which is what really wakes the daemon; `epoll_events` is what `io_state` believes |
| `sock`, `peer`, `sockerr`, `wire`, `inq` | the kernel's socket: its two ends, a pending error, PDUs not yet read by the client, packets not yet read by the daemon |
| `wakelock` | the wake lock of `main` and `io_state_in`; followed for what it shows at a failed start or an abort, no property is stated of it |
| `handler` | `g_service_handler` |
| `g_send_pdu`, `dtv_send_pdu` | whether the services' send pointers are set |
| `tasks` | notifications handed to `run_task` and not yet run |

### Actions of `IoState` and `Tvd`

One action is one epoll callback, task, vendor-thread callback or client step.
Everything a callback does, its system calls, the dispatch, the handler, the
answer and the change of watched events, is one step, as the loop runs
callbacks to completion. Actions of the client and the kernel (`ClientSend`,
`ClientRecv`, `ClientShutWr`, `ClientClose`, `ConnectError`) interleave freely.

- `InitIo`, `InitIoFails`, `NotStarted`; in `Tvd` `StartDaemon`, `StartFails`,
  `OptionsExit`, `InitTaskQueueFails`: start-up.
- `FdConOut` (`ConnectedSocket`, `start_main_loop`), `FdConErr`: the pending
  connection. `Tvd!Connected` adds `init_registry`.
- `FdIoIn…`: one `recvmsg` and its outcome: whole PDU with answer, error
  reply or undefined behaviour, incomplete packet, packet that fills the buffer,
  empty packet (`FdIoInEmpty`), end of input, error. `Tvd` puts the handlers
  in: `CommandSucceeds`, `CommandFails`, `CommandCrashes`.
- `FdIoOut`, `FdIoErr`, `FdIoHup`; `UninitIo`, `Tvd!Uninit`.
- `VendorNotify` and `SendNtf` are the two halves of a notification;
  `VendorCrashes` is the missing argument of `append_channel`
  (`dtv_pdu.c:137`) on the vendor's thread.

Calls that may fail are enabled by `Faults`: `connect`, `memory`, `epoll`
(registration of events), `send`, `recv`. `HalFails`, `DtvStatus`,
`NtfOpcode`, `UninitFails` say what the libraries below the DTV service do:
the stub in `dtv.c` returns `TV_STATUS_NOT_SUPPORTED` mostly and never
notifies, a vendor's library may do more.

### State and actions of `TvHal`

| Variable | Code |
|---|---|
| `device`, `device_num`, `device_list` | the globals of `tv_hal.c`; `device_list` is the array with `MAX_DEVICE_NUM` entries and keeps what is left behind its end |
| `opening` | the locals of `tv_input_hal_get_stream` while `open_stream` is under way: device, stream, the index found before |
| `registered` | whether the Registry has the DTV service registered |
| `running` | FALSE after a use of a NULL `device` or an access behind the array |
| `notifying`, `available`, `config`, `opened` | the HAL and its hardware: initialized once, devices announced, the stream each offers, the streams that are open |

`DeviceAvailable`, `DeviceUnavailable`, `StreamConfigurationsChanged` and
`NotifiedWithoutDevice` are `device_init_notify`; `Reconfigure` is the
hardware. `Register`, `RegisterFails`, `RegisterFailsInHal` and `Unregister`
are `tv_input_hal_init` and `tv_input_hal_uninit` as the service's registration
calls them; `dtv_init` may fail after the HAL was initialized, and the HAL then
goes on notifying. `tv_input_hal_get_stream` is `NoConfig`, `AlreadyActing`,
`StreamStays`, or `SelectStream` followed by `OpenStream`, `OpenStreamFails` or
`OpenStreamOverrun`. `OpenFails` and `HalFaults` say which calls into the HAL
may fail.

### State and actions of `DtvHandlers`

`step` is where the I/O thread is in the `command` it serves. `tuner_num`,
`tuners` and `handle` are locals of `get_tuners` and `set_source`; `wbuf` is
what was given to `create_pdu_wbuf` and appended, once it was sent; `status` is
the handler's result. `BeginCommand` is `dtv_handler` with the handler's
reading of its payload, `EndCommand` the return to `io.c`. `CountTuners` and
`FetchTuners` are the two calls of `get_tuners`; `SelectSource`, `OpenSource`,
`UseOldHandle`, `SourceFails` are `dtv_set_source`; `LibraryFails`,
`LibrarySucceeds` and `ChannelFails` are a call of the vendor's library; the
`Answer…` actions build, send and release. Reads of uninitialised memory either
go on with any value that could be there or end in the step `dead`.

Definitions marked *variant* in the modules are plausible mistakes. Nothing
uses them; each replaces a definition to see that a property notices.

### Abstractions

- A PDU is its service, opcode and, for errors, code. A command carries the
  service a Registry command names, or `NoArg` when its payload is unreadable.
- `Short`, `Oversize` and `Empty` are packets that are not PDUs: fewer bytes
  than their header says, as many as the buffer holds, none.
- Several readiness conditions of one `epoll_wait` are callbacks in any order;
  libfdio's own order is one of them. Two consequences are kept: after a
  callback has left the loop no other one runs, and one that closed the
  descriptor removes it from the loop.
- A reset connection is a pending error that `recvmsg`, `sendmsg` or the error
  callback can consume.
- The vendor's thread runs between callbacks. Its only shared state with the
  I/O thread in `Tvd` is the task queue, which libfdio locks. A notification is
  queued only while the service's send pointer is set: the library has been
  started by `dtv_init` and not stopped by `dtv_uninit`.
- The HAL's thread: if `HotPlug`, it runs between any two steps of a command,
  so between `dtv_get_tuner_num` and `dtv_get_tuners`, and between the look-ups
  of `tv_input_hal_get_stream` and its `open_stream`. It does not run inside a
  loop over the table nor inside `tv_input_hal_init`. If not `HotPlug`, the
  properties call it `Serial`: the HAL notifies between commands.
- Of a payload in `DtvPdu` each field's name and number of bytes are kept, of a
  string its length. A tuner id is its characters as distances from `'0'`; the
  number it is read as is a `uint32_t` and wraps round. `UINT_RANGE` is how many
  numbers that type holds, 64 for TLC.

## 3. Runs

`SockCap` is how many PDUs the socket buffer holds: 1 makes every second PDU
block, 2 lets a flush stop in the middle. `MaxOutstanding` bounds the PDUs under
way in both directions (client packets, send queue, socket, tasks). It appears
in the guards of `ClientSend`, `RunTask` and `VendorNotify`, which are the
sources of PDUs; a handler's answer takes the place of its command. With 3
there can be a blocked PDU behind a full socket and a command behind it, which
is enough for each interaction of the queue, the socket and a pending command.
`TvHal` and `DtvHandlers` are finite without a bound of the model's:
`MAX_DEVICE_NUM` is the length of the table, 100 in `tv_hal.c:21`, smaller here
so that it fills up.

| Run | Instance | Shows |
|---|---|---|
| `iostate_safety` | one command, two PDUs, empty packets, `SockCap` 2, `MaxOutstanding` 4, all faults | `TypeOK`, `CallbacksFindTheirState`, `ClosedOnce` whatever fails |
| `iostate_service` | `SockCap` 1, 3 outstanding, no `send`, `recv` or `epoll` faults, no empty packets, a client that reads | `OutboxSpec` (refinement), `NoLostWakeup`, `InputWatched`, `QueueMoves`, `HalfCloseServed`, `HangupEndsDaemon` |
| `tvd_safety` | a command for every branch of the dispatch and the handlers (13), empty packets, service 2 for every id without a service, all faults, failing HAL and `dtv_uninit` | `TvdTypeOK`, `DispatchReady` |
| `tvd_service` | register, unregister, clear cache, one kind of notification, 3 outstanding | `ProtocolSpec` (refinement), `SilentAfterUnregister`, `RequestsMove` |
| `dtv_serial` | tuners 1 and 2, another input 3, an id that names nothing, one that wraps round to tuner 1, two streams, `MAX_DEVICE_NUM` 3, tuner 2's `open_stream` may fail, the HAL may fail to open at first; no notification inside a command | `TableSpec` (refinement), `TableMatchesHal`, `StreamsTracked`, `WithinBounds`, `TunersAnswered`, `SourceOpened` |
| `dtv_hotplug` | two tuners in a table of one, notifications inside commands, every opcode and one unknown, every HAL fault, no memory, a vendor's library that succeeds or returns `TV_STATUS_NOT_SUPPORTED`, handles with and without descriptors, programs with as many, fewer and more languages than subtitles | `DtvTypeOK`, `HandlersKeepContract`, `FitsBuffer` |

The commands of `tvd_safety` need not be under way together, so two outstanding
PDUs suffice: what one command does depends on the tables left by earlier ones,
not on those behind it. The third conjunct of `DispatchReady` is about a
`dtv_uninit` that works, which is not so in this run: TLC checks the first two,
the theorem `DispatchIsReady` has all three.

Two tuners are enough for the table: removing the first of two shifts an entry with its stream, removing the second does not, and each
needs the loops to find an entry that is not the first. In `dtv_serial` the
table has an entry to spare, so that an input outside the table has an entry
behind the last one to be written to (`tv_hal.c:265`); in `dtv_hotplug` it has
one too few, so that a tuner is left out and that write overruns.

Of a half-closed connection `HalfCloseServed` says that it is read to its end,
no longer polled, and kept until the client closes it: only undefined behaviour,
or an error reply that cannot be built, may end the process before. It needs `recvmsg` and the registration of events to work, which is why the run has
neither fault. `ClosedOnce` says of a descriptor that `io_state` still has that
it is open, so that no callback or `uninit_io` closes one twice.

`CHECK_DEADLOCK FALSE` everywhere, because the process really stops: after
`uninit`, after a failed start, or killed.

The conditions in front of the `TvHal` properties (`Serial`, `RoomForTuners`,
`RoomForAll`, no `close_stream` or `reopen` fault) say what the code needs for
them. `dtv_serial` meets all of them and `dtv_hotplug` none: there a HAL that
fails to close a stream really leaks it.

Six runs are expected to be violated. Each states what a comment of the
repository says and is an entry of `findings` in `PROJECT.json`:

| Run | Statement | What the code does |
|---|---|---|
| `iostate_broken` | "If the I/O to the client is broken, we exit the daemon process" (`io.c:355`) | `fd_io_err` closes and returns `IO_POLL`: the daemon stays, without a connection |
| `iostate_empty` | "stop watching if peer hung up" (`io.c:181`) | an empty packet stops the watching as well |
| `tvd_uninit` | "the callback to `uninit` will clean up the resources" (`main.c:180`) | DTV stays registered, its streams open |
| `dtv_race` | `get_tuners` passes back "the input sources which type is TV tuner" (`dtv_io.c:280`) | a tuner withdrawn between the count and the list leaves an id from uninitialised memory |
| `dtv_source` | `set_source` passes "the TV stream back" (`dtv_io.c:336`) | for a stream that is open already it passes back what the stack held |
| `dtv_tuner_id` | as in `dtv_race`; `get_int_length` is "the number character for a string to show the target number" (`dtv.c:30`) | 10 is counted as one character: tuner 10 is given as "1" |

Smaller disagreements, seen in the code and not run: Digital TV has service id
0x64 in `ipc.txt:83` and 0x01 in `pdu.h:42`; unregistering a service that is
not registered succeeds (`registry.c:66`, `153`); a failing `dtv_uninit`
(`dtv_io.h:33`) counts as a success, so that notifications may go on
(`UninitFails` in `Tvd`); `main` returns with the wake lock held when `init`
fails (`main.c:271`, `289`), although it was taken to "guarantee progress until
we opened a connection, or exit", and the `abort()` of `send_error_reply` leaves
the one of `io_state_in` held (`wakelock` in `Tvd`); `epoll_funcs` is "free'd in
`uninit_io`" (`io.c:682`), which is not so once the error or the HUP handler has
closed the descriptor (`funcs` in `IoState`); `registry.c:44` calls its `send_pdu`
safe without a send callback, and it logs and then calls NULL (`registry.c:51`;
`DispatchReady` says that this is not reached); `MAX_DEVICE_NUM` is 100 in
`tv_hal.c:21` and 32 in `dtv_io.h:40`, which `tv_hal.c` does not include; a program's size counts its title, which is not
appended, and its `lang_num` counts the subtitle languages (`dtv_pdu.c`); the
integers of a native handle are sent without the last `numFds` of them; the
`set_channel` answer is documented as empty.

**Fairness.** libfdio's loop is level-triggered: a descriptor that stays ready
has its callback run in the end. So each kind of callback is weakly fair
(`LoopFairness`, `TvdFairness`), and so are the start, `uninit` and, in `Tvd`,
the queued tasks (`SendNtf`). The client and the vendor's library are never
obliged to do anything, except in `IoReaderSpec`, where the client keeps reading
what it is sent: without that a send queue has no reason to empty. `tvd_service`
needs no such assumption: the daemon reads packets even when nobody reads its
answers, because `sendq` has no limit. (In the code memory bounds it; the model
bounds what the client sends.) The DTV runs need no fairness: a command is a
few steps without a loop or a wait, so nothing but safety is in question.

**The three refinements.** `OutboxSpec` maps the channel to `wire \o sendq` while
the connection is up, what is in the socket after the daemon closed it, and
nothing after the client closed. `ProtocolSpec` maps the open requests to the
commands in the socket, the messages to the same channel, and the registration
to the DTV handler's slot; a packet that is no command is consumed by its
`Ignore`, the end of the connection is its `Close`. Both need `send` not in
`Faults`: `io.c` removes a PDU whose `sendmsg` failed like one that was sent.
`Outbox` does not see who hands over a PDU, so it would accept one that is
dropped before it enters the queue; `ProtocolSpec` would not, as the command
would stay without an answer. `TableSpec` maps the array to the function from
the listed devices to their streams. Its content is that an operation on one
tuner never changes, drops or doubles another, though removing one moves the
others: with `RemoveDeviceOnly`, which moves the ids and leaves the streams, it
fails.

## 4. Proofs

All are checked from scratch by `tlapm IoStateProofs.tla` and so on.

| Theorem | For every value of the constants |
|---|---|
| `IoStateProofs!TypeCorrect`, `CallbacksSafe`, `ConnectionClosedOnce`, `QueueIsWatched` | `IoSpec => []…` for the safety properties of `IoState` |
| `IoStateProofs!InputIsWatched` | `IoSpec => []InputWatched`, with `Empty = {}` |
| `IoStateProofs!FlushKeepsOrder` | a flush loses, adds and reorders nothing and stays within the socket's capacity |
| `OutboxProofs!ImplementsOutbox` | `"send" \notin Faults` implies `IoSpec => OutboxSpec` |
| `TvdProofs!TvdImplementsIo`, `TvdImplementsOutbox` | `TvdSpec => IoSpec`, so all of the above holds of the daemon |
| `TvdProofs!TvdTypeCorrect`, `DispatchIsReady` | the safety properties of `Tvd` |
| `SilenceProofs!UnregisteredIsSilent` | `TvdSpec => []SilentAfterUnregister`, with `"send" \notin Faults` and `~UninitFails` |
| `ProtocolProofs!TvdImplementsProtocol` | `TvdSpec => ProtocolSpec`, under the same two assumptions |
| `TvHalProofs!TvInvInvariant`, `TableIsFaithful`, `NoStreamIsLost`, `NoStreamIsStale`, `NoOverrun` | `TvSpec => []…` for the inductive invariant of `TvHal` and the properties it contains |
| `TvHalProofs!ImplementsTable` | `TvSpec => TableSpec`, with `Serial` |
| `DtvProofs!DtvUsesTv` | `DtvSpec => TvSpec`, so the table's properties hold under the handlers |
| `DtvProofs!ContractKept` | `DtvSpec => []HandlersKeepContract`, with notifications anywhere |
| `DtvProofs!SourceIsOpened` | `DtvSpec => []SourceOpened` |
| `DtvProofs!TunersAreAnswered` | `DtvSpec => []TunersAnswered`, with `Serial` and no tuner whose number begins with 10 |
| `DtvProofs!DtvTypeCorrect` | `DtvSpec => []DtvTypeOK` |
| `DtvProofs!BuffersFit` | `DtvSpec => []FitsBuffer`, for answers of every length |
| `DtvProofs!AncillaryDataFits` | the ancillary data fits the buffer's tail at every address and for every number of descriptors |
| `PayloadProofs!TunerIdRoundTrip` | which numbers survive `dtv_get_tuners` and `dtv_set_source`, and what becomes of the others |
| `PayloadProofs!TunerSizeExact`, `HandleFits`, `ProgramFits` | the sizes computed beforehand against the bytes appended, for one tuner, handle or program |

The assumptions are those of the modules: `SockCap` is positive, `Faults` are
of the known kinds, the kinds of packets are distinct; commands are records
over byte opcodes and the chosen services, PDUs are exactly the answers to them
and the notifications; device and stream ids are numbers, a device id is a non-negative `int`, tuners
are finitely many and are not other inputs; the vendor's library returns lists
of programs and statuses in the range of its enumeration. None bounds
`MaxOutstanding`, `Cmd`, `Pdu`, `Stream`, `Programs`, `Handle`, `UINT_RANGE` or
`MAX_DEVICE_NUM`.

**`IoInv`.** The safety properties are not inductive: that `rbuf` is allocated
when a callback runs follows from which callbacks are installed, not from the
property itself. `IoInv` says what belongs together in each phase:
`Unconnected` (before `init_io`), `Connecting` (callbacks `con`: no descriptor,
no buffer, empty queue), `Attached` and `Watching` (callbacks `io` with a
descriptor: open socket, buffer, `epoll_events` is what is watched),
`Disconnected` (callbacks `io` without one: everything dropped, nothing
watched), `Released` (after `uninit_io`). `NotConnected`, `Running` and `Exited`
tie the phase to `loop`, `SocketBound` bounds `wire`. `NoLostWakeup` is
inductive together with `Watching`, and so is `InputWatched`. The proof has one
lemma per action; those of input share `SendStep`, the effect of
`io_state_send`.

**`TvdInv`.** `IoInv` with the tables: each handler is in its own slot
(`HandlersPlaced`), a served connection has the Registry installed with its send
pointer, the DTV slot and DTV's send pointer agree. `IoInv` itself comes from the step refinement
`StepIsIoStep`, so nothing of `IoState` is proved again.

**Silence.** `SilentAfterUnregister` speaks of PDUs already sent, so the
invariant has to connect them with the present: if, of the registration answers
under way, an unregister answer is the last, then DTV's slot is empty
(`UnregisteredIsLast`). A notification is sent only if the send pointer is set,
hence (`DispatchReady`) the slot is full, hence no unregister answer is last.
Where `send` may fail, a lost register answer breaks the argument, and where
`dtv_uninit` may fail, the send pointer survives the slot.

**The protocol.** `TvdImplementsProtocol` takes each action of `Tvd` to one of
`TvdProtocol` or to a stutter. `SendRefines` is the common part: whatever a
flush moves between queue and socket, the channel grows by the PDU handed over,
or, when the process is killed, keeps a prefix of it (`PrefixOfAppend`).
`EffectOfSuccess` relates a command's effect on the handler table to the
registration the client may assume. That a notification is only sent while the
service is registered is `DispatchReady` again.

**`TvInv`.** That the table and the HAL agree needs more than itself. A device
is listed once (`ListedOnce`) and only while announced (`ListedAnnounced`), or
else announcing it again would list it twice. By both there is an entry left
for one more tuner if `RoomForTuners`, so that all announced tuners are listed
while the service is registered (`AllListed`). For the streams, the invariant says what the
locals of a pending `open_stream` are worth: with `Serial` the index is still
that of the device (`OpeningCurrent`) and no stream of it is open
(`OpeningClosed`); then the new stream is recorded in the right entry.
`ActingIsOpen` is the converse, by which a second `set_source` may take a
recorded stream for an open one; it has to except devices whose `open_stream`
may fail, as the code does not clear the entry before it. With notifications
inside a command these parts fail, and `TvInv` is proved under `Serial` inside
its conjuncts: what is left without it is the type correctness, `ListedOnce` and
`ListedAnnounced`.

**The contract.** `HandlersKeepContract` is proved with `CmdInv`, which says
which commands can be at which step; it does not need `Serial`, so the races in
the table change which tuners an answer names and never whether there is an
answer. `SourceIsOpened` uses `SourceInv` with `TvInv`.

**Tuner ids.** `TunerIdRoundTrip` says exactly what is wrong with
`get_int_length` (`dtv.c:33`), which stops at 10 instead of 9. A number keeps
its id unless its decimal digits begin with 1 and 0 (`BeginsWithTen`: 10, 100 to
109, 1000 to 1099, ...); then the last digit is cut off, and the id is that of
another number. `LengthKnown` is the induction hypothesis: the computed length
is the number of digits, or one less for those numbers. `TunersAreAnswered`
rests on it and on `TunersInv`, which follows the table from the count to the
answer; both of its hypotheses are needed, as the runs `dtv_race` (without
`Serial`) and `dtv_tuner_id` (tuner 10) show.

**Buffers.** `BuffersFit` compares, for each answer, the sum that was given to
`create_pdu_wbuf` with the bytes of the fields appended. `BytesConcat` and
`BytesFlatten` take the bytes of a nested record apart, `SumAtMost` compares
the sums entry by entry. For tuners the two are equal, for a handle and a
program the size is larger by what the code counts and does not append.
`BufferHolds` is the invariant: a buffer that is there holds its fields.
`DtvTypeCorrect` is needed on the way, for the lengths to be numbers at all.

**Induction.** What a recursive function computes is proved by induction over
data. The library states induction for an operator as its parameter, and the
provers cannot instantiate one, so `PayloadProofs` states it for a set
(`Induction`: a set that contains a number as soon as it contains all smaller
ones contains all) from the well-ordering of the natural numbers, and
derives from it that recursive equations over numbers and along a sequence have
one solution (`RecursionUnique`, `Recursion`, `SequenceRecursion`). That is what
turns the recursive definitions of `TunerId` and `Sum` into equations.

**Model-checked only.** The liveness properties `QueueMoves`, `HalfCloseServed`,
`HangupEndsDaemon` and `RequestsMove`: liveness under fairness needs ENABLED,
which the prover does not handle. Every other property of a passing run is also
a theorem.

## 5. Not modelled

- The HAL's thread inside a loop over `device_list` or inside
  `tv_input_hal_init`, and torn reads of an entry. The model has the races
  between calls, which already falsify what the comments say (`dtv_race`); the
  finer ones have no statement left to hold.
- Payload bytes other than tuner ids. `calculate_ch_size` and the fields of a
  channel: `append_channel` (`dtv_pdu.c:137`) runs out of arguments, so what it
  appends has no meaning, only an outcome (`AnswerChannel`).
- Who owns which allocation, in `tv_utils.c` and the notification buffers. The
  release functions that free uninitialised or freed pointers are kept as
  possible crashes of a command.
- The option parser beyond "asks to exit", `make_daemon`, logging.
- Wording of `ipc.txt` beyond ids, codes and sequence.

## 6. What could follow

1. A theorem that composes the two halves: `Tvd` with the constants that
   `DtvHandlers` guarantees, instead of the contract being written once and
   used twice.
2. Ownership of the tuner, program and notification buffers, with the release
   functions as actions.
3. The HAL's thread at the grain of single reads and writes of the table, to
   find which lock would be enough for `TableMatchesHal` without `Serial`.
