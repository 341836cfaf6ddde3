# A verification of macron_base

macron_base (`src/src`) is the server of a small SCADA system: it reads and
writes field devices over Modbus, turns what it reads into channels, watches
the channels with alarms, logs both, and serves an HMI and a command line.
This directory holds TLA+ models of its core, the TLC configurations that check
them on small instances, and TLAPS proofs about them for every value of their
constants. `PROJECT.json` lists the runs, the theorems, the source lines behind
every definition, and the hazards in the code that the properties are aimed at.
Paths below are relative to `src/src` unless they begin with `README.md`, which
is the repository's.

Contents

1. Inventory of the system
2. The modules and how they correspond to the code
3. What the runs check, with which bounds
4. Fairness
5. What is proved, and how
6. Disagreements between the code and what it says
7. What is only model-checked and what is not modelled
8. Plan

## 1. Inventory of the system

### Threads

`main.c:66-83` starts everything from the main thread. A thread with a libev
loop (`utils/evloop_thread.c`) runs one callback to its end before the next; the
two threads of the web server run mongoose's loop and do the same with requests.

| thread | runs | started by |
|---|---|---|
| `app_core` | the scan and the logging round, on timers | `core_driver_init` |
| Modbus slaves | all TCP and RTU slaves | `modbus_slave_driver_init` |
| Modbus masters | all masters with their schedules | `modbus_master_driver_init` |
| logger | the database | `logger_init` |
| web | the web API: values, acknowledgements, configurations (`webserver_driver.c:78-112`) | `webserver_driver_init` |
| loggerif | the web API of the log: queries, the set of traced channels (`webserver_driver.c:165-200`) | `webserver_driver_init` |
| main | the command line, which can do most of what the web API can (`cli_driver.c`) | `main` |

### Shared state and locks

- `_chnl_mgr_lock`, one for all channels: held by `channel_manager_chnl_get` up
  to `chnl_put`, and by the scan for one channel at a time, over its observers.
- the alarm manager's lock, one for all alarms: taken inside an observer, so
  channel before alarm. `set_eng_value` notifies without the channel lock.
- `_chnl_mgr_trace_lock`: held by the core thread over a whole logging round,
  with the channel lock and the pool and queue locks inside; and by the logger
  when it hands over a new set of traced channels.
- the pool's and the queue's locks: innermost, a few assignments each.
- `_jroot_lock`, the rwlock of the configuration: outermost; held for writing
  over a whole update, the save of the file included.

### Components

**Alarms** (`core/alarm.c`, `core/alarm_manager.c`).
State: for each alarm its state (inactive, active pending, inactive pending,
active), a delay state with the time at which the condition last changed, the
set point and delay of its configuration, and a variable for the application.
Operations: a sample of the watched channel, an acknowledgement, a change of
delay and set point, reading the state.
Interactions: called by the publisher of a channel; calls `logger_alarm_log`
with the alarm locked.
Hard: the order of events, a condition that flickers around the delay, a delay
that is changed while it is being measured.
Correct if: the log is a faithful account of the alarm; the alarm changes only
after its condition has lasted; a condition that lasts gets through.

**Channels and the scan** (`core/channel.c`, `core/channel_manager.c`,
`main/core_driver.c`, `app/app.c`).
State: for each channel its engineering and raw value, a raw value queued
between a Modbus thread and the scan with its "available" flag, the bound
application variable, observers, and the configuration.
Operations: the scan of inputs, `app_run`, the scan of outputs; setting a raw
value (Modbus), an engineering value (web API), a new configuration or lookup
table (web API, command line); the sensor fault flag.
Hard: three threads on one channel, a value that is notified after the lock was
released, the hand-over through `raw_value_queued`.
Correct if: the newest raw value of an input is shown and none is lost; what an
output is set to reaches Modbus; alarms follow the values of their channels.

**Logger** (`main/logger.c`, `main/logger_sql3_common.c`,
`utils/thread_queue.c`, `utils/completion.h`).
State: a pool of 1024 request buffers, a queue with an async signal, the set of
traced channels in the channel manager, the logger and the database, the tables
of the database.
Operations: log a channel, log an alarm event, ask for a new set of traced
channels and wait for it, periodic cleanup.
Hard: five threads, a pool that runs out, lost wake-ups, waiting on each other,
a transaction that fails half way, restarts.
Correct if: no buffer is lost or used twice; every request is served and the
waiting thread released; events are stored in order; the set in force is the
same everywhere; only traced channels have rows.

**Modbus master** (`main/modbus_master_driver.c`, `modbus/modbus_tcp_master.c`,
`modbus/modbus_master.c`, `modbus/modbus_rtu_response_handler.c`,
`utils/tcp_auto_connector.c`).
State: the position in the schedule, a transaction timer and a wait timer, the
transaction identifier, the state of the connection and of the connector.
Operations: send the next request, use an answer, the two timeouts, connect,
lose the connection, try again.
Hard: late, lost, invalid answers; answers that race timeouts; a write that
fails inside a request; identifiers that wrap around.
Correct if: an answer is used only for the request it belongs to; polling never
stops; the schedule is followed entry by entry and for ever.

**Stream and ring buffer** (`utils/stream.c`, `utils/circ_buffer.c`).
State: the queue of bytes that the socket did not take, the tx watcher.
Operations: write, the tx event, errors and the end of the connection.
Hard: partial writes, wrap-around, what the result of a write means.
Correct if: bytes go out in order and none twice, a caller that minds the result
loses none, and what is queued will be sent.

**Configuration manager** (`main/cfg_mgr.c`, `utils/atomic_file_update.c`) and
its clients (`src/hmi_base`).
State: the configuration as a JSON tree, as the printed string that clients get,
as the running alarms and channels, and as a file; its revision; for each client
a configuration with its revision.
Operations: an update of an alarm, a channel or a lookup table, which changes
all of these one after the other; the start from the file; a client loads the
string, polls the revision and loads again.
Hard: each step of the save may fail, the process or the power may end between
any two, the result of the save is ignored, and a client looks at several things
at several times.
Correct if: the file is always whole; a restart brings back a configuration that
was in force; a save that succeeds leaves nothing out; a client that has the
server's revision has its configuration.

**Modbus slaves** (`main/modbus_slave_driver.c`, `modbus/modbus_tcp_slave.c`,
`modbus_rtu_slave.c`, `modbus_rtu_request_handler.c`, `modbus_func_*.c`) and
**framing** (`modbus/mbap_reader.c`).
State: a reader for each connection, a buffer and a silence timer for each line,
the request in hand; the channels are the core's.
Operations: bytes arrive, silence ends a frame on a line, a request is checked,
its registers are read or written one by one, it is answered, a connection ends.
Hard: the scan runs between two registers of a request; a request fails half
way; 16 bit arithmetic at the end of the address space; frames in pieces, for
other units, with a wrong length.
Correct if: answers match the requests, one each and in order; a write sets the
registers it answers for and no others; a flag does not overtake its data.

**PLC library** (`app/app_stdlib`).
State: for each block its outputs and timers; a motor starter and a valve with
their state, feedback, outputs and alerts.
Operations: one call per scan, `generic_starter_run`, `valve_control_run`, `ton`,
`toff`, `tp`, `blink`, latches and edge triggers.
Hard: requests, interlocks and feedback in any combination and order while a
response is being timed; timers that are started while they run.
Correct if: outputs are taken back on every way out of a move; nothing moves for
ever; a failure is reported when its time is over, and not before.

**TCP connector** (`utils/tcp_connector.c`): one attempt, with a timeout.
**Lookup table and indexer** (`utils/lookup_table.c`, `utils/indexer.c`): sorted
points, interpolation and search. **Web API and command line**
(`main/webserver_*.c`, `main/cli_driver.c`, `utils/cli*.c`): parse, call the
managers above, format. **Start-up** (`main/main.c`). **HMI**, **vendored
libraries**, containers and diagnostics.

## 2. The modules and how they correspond to the code

| module | what it is |
|---|---|
| `AlarmMachine` | the two state machines of `alarm.c` as operators on an alarm record |
| `AlarmJournal` | abstract: what the log of one alarm promises |
| `Alarm` | one alarm under samples, acknowledgements and reconfigurations |
| `Core` | channels, alarms, the scan, the Modbus and the web thread |
| `Logger` | pool, queue, signal, logger thread, database, restarts |
| `ModbusMaster` | a TCP master with its connection |
| `ModbusSlave` | the slaves' thread with its links, against the scan |
| `CircBuffer` | the ring buffer as operators |
| `Stream` | the sending side of a stream over it |
| `ConfigStore` | abstract: what a restart may bring back |
| `CfgMgr` | updates of the configuration, the file, crashes, clients |
| `ControlLib` | timers and the blocks that keep time, as operators |
| `GenericStarter`, `ValveControl` | one call of a motor starter, of a valve |
| `Application` | the blocks above, called once a scan while time passes |
| `AlarmProofs`, `CoreProofs`, `LoggerProofs`, `ModbusMasterProofs`, `ModbusSlaveProofs`, `StreamProofs`, `CfgMgrProofs`, `ApplicationProofs` | theorems |
| `MCAlarm`, `MCCore`, `MCLogger`, `MCModbusMaster`, `MCModbusSlave`, `MCStream`, `MCCfgMgr`, `MCApplication` | values of the constants for TLC |

`Alarm` and `Core` compose `AlarmMachine`, `Stream` composes `CircBuffer`,
`Application` composes `GenericStarter`, `ValveControl` and `ControlLib`.
`ModbusSlave` composes the slaves with the scan of the channels, as far as
Modbus sees it. `Alarm` is shown to implement `AlarmJournal`, and `CfgMgr` to
implement `ConfigStore`. Operators named as a mutant in their comment are
deliberate errors; no specification uses them.

**Steps.** Where the code holds a lock, or runs a callback on the only loop that
touches the state, one action is the whole of it. Where it lets go of a lock,
the action ends.

**`Alarm`.** `alarm` is the `alarm_t`, `log` the event the latest step queued.
`start_time` is kept as the time that has passed since (`elapsed`), since the
code uses only the difference; `Tick` lets time pass. `cond` and `held` are
history: the condition the latest sample showed and for how long.
`Sample` is `__on_channel_update`, `Ack` `alarm_manager_ack_alarm`,
`UpdateConfig` `alarm_manager_update_alarm_config`.

**`Core`.** `chnl` is each `channel_t` with its io variable, `chnl_lock` the
channel lock as far as it is held over several steps, `core` where the scan
stands, `web` the notification that `set_eng_value` has still to give after it
released the lock. `InputTurn`, `InputConvert`, `CoreNotify` and `EndTurn` are
one turn of `channel_manager_update_input`; it is cut into steps so that a
thread that did not take the lock could come in between. `OutputTurn` begins a
turn of `update_output`. `AppRun` lets the application write any value to one of
its outputs. `SetRawValue` is what either Modbus driver does with a register,
`SetEngValue` and `WebNotify` are the two halves of `set_eng_value`. Scan order
within a direction is left open. Conversions are the constants `EngOf` and
`RawOf`; raw values that convert alike and values that do not convert back to
the same raw value are both allowed. `consumed` is history: the inputs whose
value came from a raw value.

**`Logger`.** One alarm is followed, with its events numbered. `at` and `hand`
say where each thread stands and which buffer it has. A request takes the way of
the code: `Take` (pool), `Add` (queue), `Send` (signal), `Wake`, `Cut`
(`list_cut_position`), `NextRequest`, the handler, `PutBack`. A new set goes
through `HandleSet` (database), `Publish` (channel manager, needs the trace
lock), `Copy` (logger) and `Signal` (completion), as in
`logger_signal_trace_set_chnls_handler`. The database is `saved`, what is on
disk, and `work`, what the connection sees: they differ while a transaction is
open, which it stays after a failed statement or a failed END, because the code
ignores the results of BEGIN and END and has no ROLLBACK. `Failures` chooses
what may go wrong: a statement, a commit, an allocation. `Restart` may happen at
any moment.

**`ModbusMaster`.** One event loop, so a handler is one step. `current`,
`transaction`, `wait` and `tid` are the fields of the driver and the connection.
`flights` are the answers that may still come, each with its age in requests;
the slave may answer in any order, late or never, and `Receive` takes a frame
that fits the request or one that does not. `Asks` is
`modbus_master_driver_request` with all its outcomes: sent, not sent because the
register has no channel or there is no connection, or failed, in which case the
disconnected callback runs inside it and the timer is started all the same.
`asked` and `taken` are history.

**`ModbusSlave`.** A peer sends the requests of a `Menu`, whole frames in any
number ahead of the answers; the slave takes them in pieces of any size. `pos`
is how far it has read, `reader` the `mbap_reader_t` of a connection or the
buffer of a line. Bytes are units: a head, then the PDU; `FeedHeader`,
`FeedPdu` are the two states of the MBAP reader, `RxRtu` and `Silence` the line's
receive handler and its t3.5 timer. What a reader that is out of step with the
frames makes of the bytes is left open. `Checked` is what the handler of each
function looks at before its registers; `fits` says whether a frame is long
enough for the fields of its function and agrees with itself (`Fits`). `ReadRegister`, `WriteRegister` and
`Unmapped` are one turn of the loops in `modbus_slave_driver.c`, each under its
own taking of the channel lock, with `Scan` in between; `RangeOver` goes on to
the second range of a read/write request or to the answer. A register has data
bits and a status bit (`DataMod`). `by`, `taken`, `serial` and `wrote` are
history.

**`Stream`.** Bytes are numbered in the order of the writes. `WriteNow` and
`WriteBehind` are the two branches of `stream_write`; the result of
`circ_buffer_put` is compared as the code compares it. `IgnoresFailure` tells
the two kinds of callers apart: the command line and the slaves only trace a
failed write, the TCP master closes the stream (`Returns`).

**`CfgMgr`.** A version is a configuration with its revision. `root` is `_jroot`,
`json_str` the printed string, `running` what the alarm and channel managers
have. `Update` is an update up to the call of `atomic_file_update`: all of it
happens under the write lock, which every reader of these variables takes too,
so it is one step. `Open`, `Write`, `Sync`, `Rename` are the steps of the save,
`Fails` is the failure of any of them, `Return` the release of the lock. A file
is the version meant for it and whether it is whole and on disk. `Kill` keeps
what the operating system has; `PowerFails` loses what was not synced and lets
the directory show any entry it had since it was last written (`entries`).
`ServeConfig`, `Populate`, `ServeStatus`, `LoadFails` and `Retry` are the client
of `SystemLoadingView.vue` and `server_poller/index.js`.

**`Application`.** One action of `GenericStarter` and `ValveControl` is one call
of the run function, with any inputs, followed by its alert handling
(`StarterAlerted`, `ValveAlerted`); the disjuncts are the branches of its switch.
Timers are kept as the time since their start (`Aged`). The inputs are read once
per scan: a block that reads a channel twice in one call gets the same value,
since the application runs between the two halves of the scan. The starter,
the valve and the blocks share nothing, so a `program` has one of them.
`moved`, `crossed`, `input` and `span` are history: how long a move has taken,
whether the close output is left over from a scan that granted both requests of
an indeterminate valve (`BothGranted`), how long the input of `ton` and `toff`
has lasted, and how long the outputs of `tp` and `blink` have.

## 3. What the runs check, with which bounds

| run | properties | what it shows |
|---|---|---|
| `alarm` | `DelayHonoured`, `JournalSpec`, `FollowsCondition` | an alarm changes only after the samples have shown the condition for its delay, whatever is reconfigured meanwhile; its log is faithful (refinement of `AlarmJournal`); a condition that lasts gets through |
| `core_scan` | `InputShowsNewestRaw`, `RawValuesAreTaken`, `RawValueArrives`, `OutputReachesModbus`, `ScannedAlarmsFollow` | values pass from Modbus to channels, alarms and back through the threads |
| `logger_trace` | `TracedRowsOnly`, `AlarmLogInOrder`, `SetInForce` | rows, events and the traced set are right across failed commits and restarts, with two threads that ask for sets |
| `logger_live` | `EveryBufferInOnePlace`, `NobodyWaitsInVain`, `EveryRequestIsServed`, `RequestersAreReleased` | no buffer is lost, every request is served and both waiting threads are released, across failed statements and allocations |
| `logger_atomic` | `SetIsAllOrNothing`, violated | a set of traced channels is half-replaced (section 6) |
| `master_poll` | `AnswersAreCurrent`, `KeepsPolling`, `NoEntrySkipped`, `ScheduleGoesRound` | the master uses the right answers and polls on |
| `slave` | `AnswersInOrder`, `WriteSetsThePrefix`, `FlagFollowsData`, `ReadKeepsOrder`, `WritesInRange`, `RequestsAnswered` | a slave stays in step with its peers, does what it answers and nothing that its range does not lead to, and keeps data and flags in order against the scan |
| `stream_send` | `NothingLost`, `WireInOrder` | order on the wire for every caller; no gap for the TCP master |
| `stream_stall` | `QueuedIsWatched`, violated | a stream stalls after a partial write (section 6) |
| `cfg_update` | `FileIsWhole`, `StoredIsComplete`, `RevisionIdentifies`, `StoreSpec`, `ClientsCatchUp` | the file, the running system and the clients agree as far as the code keeps it, across failures, crashes and power failures (refinement of `ConfigStore`) |
| `plc` | `DrivesOneWay`, `TimersKeepTime`, `PulsesKeepTime`, `MovesEnd`, `ValveFailsInTime` | starter, valve and timer blocks under any inputs |
| `plc_starter` | `StarterFailsInTime`, violated | a motor is reported as failed at once (section 6) |

The first runs of `Logger`, `ModbusMaster` and `ModbusSlave` also check the type
invariant. That of every module is proved (section 5).

Bounds, and why they are enough:

- *Alarm*: values 0..2 and set points 1 and 2, so that every trigger sees both
  conditions and a change of set point can turn one into the other; delays of 0,
  1 and 2 ticks and elapsed times up to 3 (`MaxElapsed`), one more than any
  delay, so that "not yet", "just" and "long since" are told apart. Longer
  delays only repeat the middle case.
- *Core*: one input and one output, each with an alarm, one of which has a delay
  of one tick (`MaxElapsed` 1); raw values 0..2 of which two convert to the same
  value. The channels interact only through the lock, the scan and the one
  pending notification of the web thread, so one of each kind, with two alarms,
  shows all orders of the threads on it. The input is writable by Modbus and
  both are bound to the application.
- *Logger*: two interchangeable buffers, so that two requests use up the pool,
  each of the places on the way can be filled, and one request can be queued
  behind another. `logger_trace` has the core and the main thread report alarms
  and the main and the loggerif thread ask for sets (in the code the web thread
  reports alarms too; it would do what main does); two channels and the sets
  {c1} and {c2}, interchangeable too, so that a change always drops a channel;
  two events (`MaxEvents`), the fewest that have an order. `logger_live` has no
  symmetry, since it checks liveness, one set, since only the way of the
  requests matters, and no alarm event, whose way is that of any other request.
- *Modbus master*: a schedule of three entries, so that "the next", "the one
  after" and "the first again" differ; one of them sends nothing. Five
  identifiers (`TidMod`) that wrap, and answers up to three requests old
  (`MaxAge`): `MaxAge + 1 < TidMod`, as 65536 identifiers are far more than the
  requests that can be unanswered. Without that inequality the property is false
  and the code does not promise it.
- *Modbus slaves*: one connection and one serial line at once, with menus of
  four and four requests: data and flag together, a read and write at once that
  sets the data alone, a frame whose length field is one too small, a range that
  goes past the last mapped register, one at the last address, requests for
  other units and for all, a frame that is too long, a count above its low byte.
  Addresses 0 and 7, the last, are mapped, so that a write to the last address
  does come round; the register at 7 names a channel that does not exist, the
  one at 0 only the status of a channel.
  `AddrSpace` 8 for 65536, `LowByte` 4 for 256, `MaxFrame` 4 units. Two inputs
  and two outputs, the fewest that have an order. The run ends when all is sent
  and answered and the application's value has reached its bound (`MaxVersion`),
  so deadlock is not checked.
- *Stream*: a queue of 3 or 4 bytes, writes of up to its size (the TCP master) or
  longer (others), tx events of up to 2 bytes; `Total` bytes altogether, enough
  for the indices to go round several times. These runs end when all bytes are
  written, so deadlock is not checked.
- *Configuration*: an alarm and a channel with two settings each, both threads
  that update, one client (clients do not interact), revisions up to 2, so that
  an update follows one that failed or was undone.
- *PLC*: a response time of 1 tick, alerts and programmed times of 2, elapsed
  times up to 3, so that each time can be short of, at and past its limit, and
  the two timers of a block can end in either order.

## 4. Fairness

Only what the code's own scheduling provides is assumed, and nowhere that
somebody sets a value, acknowledges, answers or connects.

- *Alarm*: a channel is sampled again and again and time passes.
  `app_core_udpate` restarts its timer at the end of every scan
  (`core_driver.c:65`), and every scan notifies. Which value a sample shows is
  not constrained.
- *Core*: the core thread goes on (the same timer), the web thread finishes a
  notification it began, time passes. The lock is a pthread mutex held for a
  bounded number of steps.
- *Logger*: each thread goes on with a request it began; the logger's loop goes
  on while it has work. `Publish` needs strong fairness: the trace lock is free
  between two ticks of the logging timer, and the logger, which is blocked on
  it, gets it then. New rounds, requests, cleanups and restarts are not forced.
- *Modbus master*: the two timers expire. Answers and connections need not come;
  `ScheduleGoesRound` therefore speaks of a connection that lasts.
- *Modbus slaves*: a request in hand is carried on with, and a connection with
  data is called back again and again. That is strong fairness, since the
  connection is not served while another link's request is in hand, but libev
  serves every descriptor that is ready in each turn of its loop. Peers need
  not send, lines need not fall silent, and the scan need not run.
- *Configuration*: a thread that has begun an update goes on with it, and the
  requests of a client that waits are served. Nobody has to start the server
  again, and a failed load need not be tried again: `ClientsCatchUp` speaks of a
  server that stays up and of requests that stop failing.
- *PLC*: the scan comes again and again, and time passes.
- *Stream*: no fairness; its runs check safety. `QueuedIsWatched` is the safety
  property behind "queued data are sent".

## 5. What is proved, and how

All theorems are for every value of the constants that satisfies the
assumption named in the module (`AlarmAssumption`, `CoreAssumption`,
`LoggerAssumption`, `MasterAssumption`, `SlaveAssumption`, `SizeAssumption`,
`StreamAssumption`, `CfgMgrAssumption`, `TimesAssumption`).
Each proof shows that an invariant holds initially and is preserved by every
action, with one step for each action, and draws the theorem from it.

| theorem | property | argument |
|---|---|---|
| `Typing` (AlarmProofs) | `TypeOK` (not in a run) | inductive as it stands |
| `LogIsFaithful` | `JournalSpec` | refinement: each step of an alarm is a step of the journal or leaves it; uses `TypeOK` |
| `DelayStateAgrees` | `DelayInv` (not in a run) | inductive with `TypeOK` |
| `DelayIsHonoured` | `DelayHonoured` | from `DelayInv`: a settled delay state agrees with the alarm, so only a condition whose time is just up can change it |
| `CoreTyping` (CoreProofs) | `TypeOK` (not in a run) | part of `CoreInv` |
| `NewestRawIsShown` | `InputShowsNewestRaw` | part of `CoreInv` |
| `ScanTellsCurrentValue` | `ScanNotifiesCurrentValue` (not in a run) | part of `CoreInv` |
| `RawValuesTaken` | `RawValuesAreTaken` | from `CoreInv`: only the second half of an input's turn empties a queue, and the lock keeps its value from the first half on |
| `LoggerTyping` (LoggerProofs) | `TypeOK` | part of `LoggerInv` |
| `NoBufferIsLost` | `EveryBufferInOnePlace` | part of `LoggerInv` |
| `AlarmEventsInOrder` | `AlarmLogInOrder` | `OrderInv` over `LoggerInv` |
| `OnlyTracedRows` | `TracedRowsOnly` | `SetInv`, if only commits fail |
| `RequestedSetInForce` | `SetInForce` | `SetInv`, if only commits fail |
| `NoVainWait` | `NobodyWaitsInVain` | `SignalInv` and `WaitInv` over `LoggerInv`, whatever fails |
| `SetReplacedWhole` | `SetIsAllOrNothing`, which `logger_atomic` refutes in general | `WholeSets`, if only commits fail |
| `MasterTyping` (ModbusMasterProofs) | `TypeOK` | inductive |
| `OnlyCurrentAnswers` | `AnswersAreCurrent` | the identifier of an answer is the next one less its age, modulo `TidMod`; ages stay below `TidMod` |
| `PollingGoesOn` | `KeepsPolling` | inductive with `TypeOK` |
| `NeverTwoTimers` | `OneTimer` (not in a run) | if the delay does not exceed the timeout: an answer is accepted only while the transaction timer runs |
| `ScheduleInOrder` | `NoEntrySkipped` | from the same invariant: the position moves only from an entry that was asked for |
| `SlaveTyping` (ModbusSlaveProofs) | `TypeOK` | part of `TypeInv` |
| `WritesSetThePrefix` | `WriteSetsThePrefix` | `PrefixInv`: while a write goes on, `wrote` is the range up to the current address and all of it is mapped |
| `AnswersStayInOrder` | `AnswersInOrder` | `OrderInv`: on a link in step the reader's counts are those of the frame it is in |
| `WritesStayInRange` | `WritesInRange` | from `PhaseInv` and `BehindInv`: only a write's own turn changes a channel, at an address of its range or, if the range ends on the last address, behind registers that are mapped without a gap from 0 |
| `FlagsFollowData` | `FlagFollowsData` | `PairInv`, for each pair that is announced, over `TakenInv` and `BehindInv` |
| `ReadsKeepOrder` | `ReadKeepsOrder` | `OutputInv` and `ReadInv` |
| `PutAppends` (StreamProofs) | | `circ_buffer_put` appends, wherever the indices stand: the lemma under all others |
| `StreamTyping` | `TypeOK` (not in a run) | with the bytes of the buffer older than `next` |
| `QueueIsInOrder` | `QueueFollowsWire` (not in a run) | inductive with the types; `PutAppends`, and what `Peek` and `Advance` leave |
| `WireIsInOrder` | `WireInOrder` | from `QueueFollowsWire` |
| `NothingIsLost` | `NothingLost` | for a caller that closes on FALSE and never writes more than the queue holds; needs that the queue is the last bytes written |
| `CfgMgrTyping` (CfgMgrProofs) | `TypeOK` (not in a run) | part of `Inv` |
| `FileStaysWhole` | `FileIsWhole` | `FileInv` |
| `SaveIsComplete` | `StoredIsComplete` | `FileInv` and `MemoryInv` |
| `RevisionsIdentify` | `RevisionIdentifies` | `ClientInv` over `MemoryInv` |
| `RestartsBringBackOne` | `StoreSpec` | refinement: an update, a rename, the writing of the directory and a start are the four steps of the store, the others leave it |
| `ApplicationTyping` (ApplicationProofs) | `TypeOK` (not in a run) | part of `Inv` |
| `DrivenOneWay` | `DrivesOneWay` | part of `Inv`; only `BothGranted` raises `crossed`, so every other way into `opening` or out of `closing` has to turn the close output off |
| `TimersAreRight` | `TimersKeepTime` | `Inv` ties each timer to how long its input has lasted |
| `PulsesAreRight` | `PulsesKeepTime` | `Inv` ties each timer to how long its output has lasted (`span`) |
| `ValveHasItsTime` | `ValveFailsInTime` | `Inv`: the response timer of a valve that moves runs and has not run longer than the move |

The inductive invariants that are more than their parts:

- `CoreInv` adds to the two properties that the lock is held during a turn, that
  what is being converted is the newest raw value, and that a channel keeps its
  binding. Without the first, a value could be set between taking and
  converting.
- `LoggerInv` adds where each thread must be to have a buffer in its hands
  (`Places`): a buffer is put back once only because the logger's hand is empty
  before it takes the next.
- `OrderInv` of the logger orders the whole way of an event: those in the
  logger's hand, in its list, in the queue and in a caller's hand are in order
  and newer than anything stored, and at most one caller reports at a time. This
  is where it matters that the alarm stays locked until its event is queued.
- `SetInv` follows a set from the request through the database, the manager and
  the logger, for any number of threads that ask: each has at most one request
  under way and waits for it, and the places that have not been changed yet
  still agree. Its assumption, that no statement fails and memory lasts
  (`NothingFails`), is needed: `logger_atomic` shows what a failing statement
  does.
- `OrderInv` of the slaves relates three things at each link whose frames are
  well formed: where the reader is in a frame and what it still expects, the
  frame in the thread's hands, and the answers given so far. It is needed
  because a reader that expects one unit too many would still look right until
  the next frame.
- `SignalInv` and `WaitInv` of the logger are the safety part of
  `EveryRequestIsServed` and `RequestersAreReleased`. The second keeps a waiting
  thread's request in sight (`Asked`) from its buffer to the completion; it needs
  that the request a thread has in its hands is its own.
- `PairInv` of the slaves says that the newest value of a flag is not newer than
  that of its data, and that this is so for what the scan took as well, once it
  is past both. A write goes through its range upwards, so what is behind it has
  its number already (`BehindInv`): a flag that gets a number finds its data with
  the same one. A write that comes round at the last address has left its range
  by then; `BehindInv` keeps that every register up to there was mapped, and a
  pair is announced only if no request comes round to its flag (`Announced`). The scan takes whatever is newest (`TakenInv`), the flag first.
- `ReadInv` goes with a read register by register. `OutputInv` keeps the outputs
  behind each other in the order of the scan; `WordInv`, part of `ReadInv`,
  compares the words read so far with the outputs they can be followed by, since
  the scan may go on between two words.
- `Inv` of the configuration adds what is true in the middle of an update: the
  tree, the string and the running system agree as soon as the lock is held, the
  temporary file has the latest version from its opening on, and every entry the
  directory may show is whole; a client's configuration goes with its revision
  as long as no revision was given out twice (`lost`).

The proofs showed where the statements about the slaves had been right only on
the small instance, and the model now says what they rest on: a channel is in
one of the two lists, and once (`channel_manager.c:86-126`, in
`SlaveAssumption`); a register stands for a channel's value only if it has data
bits (`Holds`); and `ReadKeepsOrder` speaks of outputs that no request of the
menus sets, and of values that fit their registers.

## 6. Disagreements between the code and what it says

The runs marked "violated" check one property each, and TLC finds the behaviour:

1. `logger_atomic`: `logger_db_set_trace_channels` returns on an error without a
   ROLLBACK, and the END of the next log entry commits what it had done by then.
   After a restart the set of traced channels is one that nobody asked for.
2. `stream_stall`: `circ_buffer_put` returns 0 for success, and `stream.c:156`
   compares it with FALSE. A rest that was queued is reported as a failure and
   the tx watcher stays off; a caller that goes on waits for ever.
3. `plc_starter`: when a motor runs, `generic_starter.c:210` starts its response
   timer instead of stopping it, and starting a timer that runs does nothing.
   The next stop request finds the time since the last start, and the motor is
   reported at once as one that failed to stop.

Met while modelling, and part of the models, without a run of their own:

- *Alarm*: while the delay is 0 the delay state is left alone (`alarm.c:104-108`).
  After the delay is changed back to a positive value the left-over state can
  agree with the next condition, which then reaches the alarm at once;
  `DelayHonoured` speaks of the time from the first condition measured since
  (`timed`).
- *Core*: a virtual channel tells its alarms of a value only when it is set
  (`channel_manager.c:215`), and an alarm with a delay needs one more sample after
  the delay: set once, it never raises such an alarm. `ScannedAlarmsFollow`
  speaks of inputs and outputs.
- *Modbus master*: `NoEntrySkipped` needs a delay between requests below the
  transaction timeout (20 ms and 2000 ms as shipped): above it, an answer that
  comes while the master already waits for the next request moves the schedule
  on twice (`modbus_master_driver.c:470`). The RTU master never uses an answer
  (`modbus_rtu_master.c:44-50`), although README.md:102 lists it.
- *Modbus slaves*: a range that ends at address 65535 is followed at 0
  (`ComesRoundTo`; `WritesInRange` says what it can set there), and a
  range that goes past 65535 is answered as if it had been carried out, with
  nothing done (`modbus_slave_driver.c:161-180`). A write to a register that is
  mapped to an alarm sets the raw value of the channel with the alarm's number.
  A read of holding registers uses only the low byte of the count
  (`modbus_func_holding.c:137-138`); the limits of the other reads are exclusive.
  A read/write request that is too short is answered with itself. A frame of
  exactly 256 bytes on a line is dropped.
- *Configuration*: the result of the save is ignored (`cfg_mgr.c:538`), and the
  directory is not synced after the rename. An update that was answered with
  success can be gone after a restart, and its revision is then given out again
  for another configuration, which a client cannot tell (`lost` in
  `RevisionIdentifies`). The file is whole in any case.
- *PLC*: a motor that is starting turns to stopping, and back, without a look
  at the interlock, and the two share one response time. A close request during
  the opening of a valve leaves the close output off (`valve_control.c:269`):
  the valve is then reported as one that failed to close. Two requests granted
  at once to an indeterminate valve turn both outputs on, and the close output
  stays on while the valve opens and even when it is open (`crossed`). All
  alerts share one timer, so that a later one may be cleared early. `toff` is
  on before its input ever was.

## 7. What is only model-checked and what is not modelled

Only model-checked: all liveness (`FollowsCondition`, `RawValueArrives`,
`OutputReachesModbus`, `ScannedAlarmsFollow`, `EveryRequestIsServed`,
`RequestersAreReleased`, `ScheduleGoesRound`, `RequestsAnswered`,
`ClientsCatchUp`, `MovesEnd`), which the prover does not handle under fairness, and the three violations. The
safety part of four of them is proved: `RawValuesTaken` for `RawValueArrives`,
`NoVainWait` for `EveryRequestIsServed` and `RequestersAreReleased`,
`PollingGoesOn` for `ScheduleGoesRound`.

Left out of the modelled components:

- time stamps, statistics, traces, formatting and JSON;
- io variables of an integer type, which cut the engineering value short
  (`channel.c:4-58`): in `Core` an io variable is a copy of the value, and no
  property depends on the difference;
- the failure of `circ_buffer_init`, which `stream_init_with_fd` ignores
  (`stream.c:94-95`): the queue then has no room, a write the socket takes only
  in part answers TRUE, and the rest is lost. `NothingLost` speaks of streams
  that have their memory;
- the coding of registers and PDUs in the Modbus master: an answer fits or does
  not; in the slaves, mask and shift are abstracted to data and status bits, and
  the checksum to whether a buffer holds one whole frame;
- the conversions of channels and the sensor fault flag of the core
  (`set_sensor_fault_status`), which is marked unfinished in the code and which
  nothing reads but Modbus (where it is in `ModbusSlave`) and the web API; the
  swap of a lookup table in a running channel;
- the migration of an old configuration's schema (`config_migration.c`), which
  runs once before anything else;
- latches, edge triggers and the inputs of a block that change within one scan
  (the application runs between reading inputs and writing outputs);
- the order of start-up: all models begin when the system runs.

Not modelled at all, with the reason in `PROJECT.json`: the lookup table and the
indexer (arithmetic on doubles), the TCP connector, the web API and the command
line, which keep no state and whose calls are actions of the models, the TCP
servers, the RTU master (an empty receive handler), start-up, containers and
diagnostics, and the vendored libraries, mongoose, sqlite, libev and cJSON. These
four and the parts of the repository's own code that parse and format are most
of its lines.

## 8. Plan

Done, most important first: alarms; channels and the scan; the logger; the
Modbus master; the stream; the configuration; the Modbus slaves; the PLC
library. To come, in this order:

1. `Connector`: one attempt with descriptor, watcher and timer, under the
   automatic connector. Theorem: a descriptor is owned by one side at a time.
2. `Startup`: the order of `main.c:66-83` against the first scan and the first
   logging round.
3. `LookupTable` and `Indexer` as functions, against reference definitions over
   bounded inputs; the register codecs the same way, shared by master and slave.
4. `Core` with lookup tables and the sensor fault flag, and a module that
   composes `Core` with `Logger` for the lock order of the whole server.
5. Proofs: the safety part of `RequestsAnswered` and of `ClientsCatchUp`, as for
   the logger.
