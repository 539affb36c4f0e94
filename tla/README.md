# A verification model of the Redox service monitor

The repository holds a service monitor for Redox OS (`source/service-monitor`), the wrapper
that makes a service manageable (`source/service-base`), two example services (`source/gtrand`,
`source/gtrand2`), two clients (`source/services`, `source/services-gui`) and the types they
share (`source/shared`). This directory models in TLA+ how the monitor supervises its services
and what a service tells about itself, checks the models with TLC and proves their main
invariants with TLAPS. Paths below are relative to `src/source` unless they begin with `src/`.

## Inventory

### The monitor: `service-monitor/src/main.rs`
* State: the map of `ServiceEntry` values in `main()`, the pending command in `SMScheme.cmd`,
  and the descriptors a helper has open. One thread.
* Operations: boot (start every registered service), then for ever one request on the
  monitor's own scheme and one `eval_cmd`. Commands: start, stop, clear, info, list, and
  view, add, remove and edit of the registry.
* Interaction: blocking system calls on the schemes of the services, `kill`, process spawns,
  the registry file.
* Hard: each call finds a service that answers, is gone, or hangs. Only the read or write in the
  middle of `read_helper` and `write_helper` runs under a timeout (50 ms), after which
  `recover()` kills the process, starts another, reads its pid twice and the helper starts over.
* Correct when: no process is lost or run twice, only the service's own process is killed, the
  file and the map stay in step, and every command is answered.

### The registry: `service-monitor/src/registry.rs`
* State: `smregistry.toml`, and the map above.
* Operations: on the file read, write, view, add, remove, edit; on the map add, remove, edit.
* Hard: a command changes the file first and the map second, each with conditions of its own;
  `write_registry` truncates the file before it writes it.
* Correct when: an "ok" holds for both, the two differ only for running services, and a change
  that was made outlives the monitor.

### The command channel: `service-monitor/src/scheme.rs` and the clients
* State: one pending command, one response buffer, one read index for all clients.
* Hard: two clients that overlap share all three; a response that cannot be encoded leaves the
  former one in the buffer; the graphical client never reads the answers to start and stop, and
  panics on a response it cannot parse.
* Correct when: a client that has the channel to itself shows the answer to its own command, nobody
  shows an older one, and no reader is kept for ever. Two clients that overlap may both
  fail (`src/README.md:32`).

### Statistics: `update_service_info`, `clear`, `info`
* State: the short-term counts and totals of an entry.
* Hard: the counts are read, added and cleared in three calls between which clients use the
  service; errors of the helpers are ignored and the buffer is used again; the monitor's own
  calls are counted, too; a recovered service starts from zero.
* Correct when: `info` tells each request once, as "since last clear" and in the totals, and it is
  known which requests are missing.

### BaseScheme: `service-base/src/lib.rs`
* State: handlers (id to scheme), the next management id, the counters, a snapshot of them that
  readers see, the control flags, the message.
* Operations: xopen, dup, read, write, close; `update()` runs before most of them.
* Hard: two allocators of ids in one map; a clear is only noted and carried out by a later
  request; requests are counted after the snapshot was taken; `?` leaves early.
* Correct when: the tables of the service and of its clients agree, no two descriptors share an
  id, and a reader is told every counted request.

### gtrand and gtrand2
* State: the table of open files, the next file number, the generator. gtrand2 adds two flags
  that tests set, one of which makes it hang.
* Correct when: a file is used only with the permission its mode grants, and its number is its own.

`PROJECT.json` lists the components with what is and is not modelled of them, and the hazards
above, each at its line, with the properties that cover it.

## Modules

| module | models | extends |
|---|---|---|
| `Registry` | registry.rs: configurations, the file, the map, each operation and its condition | |
| `ServiceMonitor` | main.rs: boot, eval_cmd, start, stop, the helpers, recover; the processes | `Registry` |
| `RandScheme` | gtrand: permissions, open files, the next number | |
| `BaseScheme` | lib.rs: the managed service and its clients' descriptors | `RandScheme` |
| `StatsLedger` | the counts and totals: the calls of update_service_info, clear, start and recover as requests to a `BaseScheme`, with another client in between | `BaseScheme` |
| `CommandAnswers` | abstract: what the channel promises its clients | |
| `CommandChannel` | scheme.rs, `get_response` and the two clients | instantiates `CommandAnswers` |
| `DurableRegistry` | abstract: a change of the registry is one step and lasts | `Registry` |
| `RegistryFile` | the reads and writes of smregistry.toml with crashes | `Registry`, instantiates `DurableRegistry` |
| `MCServiceMonitor`, `MCBaseScheme`, `MCStatsLedger`, `MCCommandChannel`, `MCRegistryFile` | the instances TLC checks | |
| `ServiceMonitor_proofs`, `MonitorProcesses_proofs` over it, `BaseScheme_proofs`, over it `StatsLedger_proofs`, then `LedgerCalls_proofs`, then `LedgerTold_proofs`; `CommandChannel_proofs`, `RegistryFile_proofs` | the theorems | |

### ServiceMonitor
`pc` is the call the monitor makes next, `cur` the service it handles, `calls` the helper calls
the command has still to make (info: message, request_count, time_stamp; stop and clear: read
request_count, write control; the timeout test of gtrand2: five calls). Every blocking system call is
one action, so that a service can crash or hang between any two of them: `HelperOpen`,
`HelperDup`, `HelperCloseMain`, `HelperIO`, `HelperClose`, `HelperRetry` are the body of both
helpers, `StartSpawn` .. `StartRead` that of `start()`, `RecoverSpawn` .. `RecoverSet` that of
`recover()`. What `eval_cmd` does without a call is one `Eval...` action per command. A call on a
process that hangs is a disabled action: it never returns. A descriptor is the pid of the
process behind it.

A process is `up`, `armed` (gtrand2 after the write "timeout": its next read or write on the
main scheme never returns), `hung` or `dead`. Two processes never serve one scheme: a second one
fails in `Socket::create` and exits at once (`Spawned`). A new process takes the lowest pid that the
monitor does not note or, a fault of its own ("reuse", `NewPid`), one it still notes though the process is dead.

The environment is `Crash`, `Hang`, the "slow" answer and the failed spawn, `Stranger`, a process of somebody
else that takes the pid of a dead one the monitor still notes, and `Restart`, a
monitor killed and started again while its services live on. `FaultKinds` says which happen,
`MaxFaults` how often. An Add or Edit without one of its lists panics the monitor (`EvalUnwrap`).

`Killed` is an idealisation: the process is dead, and its scheme free, in the same step. In the code `kill` may return
before the process has exited, and the process spawned next may then still meet the old scheme in `Socket::create`.
`NoOrphans`, `NoPanic` and `SpawnsAfterDeath`, and the theorems `NothingOrphaned`, `RecoveryNeverPanics` and
`SpawnsFollowDeath`, hold under it.

### BaseScheme
The daemon answers one request before it takes the next, so a request is one action: `Open`,
`DupMgmt` (a management name), `DupFails` (the empty or an unknown name, for neither gtrand nor
a management scheme has a `dup`), `Read`, `Write`, `Close`, and `Panic` for a buffer the code
does not expect. Clients hold descriptors in `Slots`, each of which remembers its id and the
scheme it was asked for. `due` counts what the clients have been answered since a clear was
written and `late` those of these requests that the pending clear will throw away; both are kept
beside the code's state and no action depends on them. The counters are modelled as numbers of
which `update()` copies `% Low7`, 2^56 in the code.

### StatsLedger
`ServiceMonitor` says which calls a command makes and what becomes of them; here they are made on
a service that counts. What a command does is a list in `calls`: requests, each of which is the
action of `BaseScheme` of that name, on the slots of the helper (`Main`, `Sub`) or of start and recover (`ChildScheme`,
`PidScheme`, which they never close), and steps on the entry (`Take`, `AddUp`, `SetZero`, `Tell`, `Run`, `Spawn`,
`Kill`). Between any two calls another client may open, dup, read, write or close (`Ask`), and a read or write of
a helper may time out (`TimedOut`): the process is replaced and the calls of `recover()` come before the helper's.
The books beside the code's state follow each counted request: `since` counts towards what info tells
next, `lost` takes those that no read will find, `strayed` those of them another client sent.

### CommandChannel
The monitor evaluates a command before it takes the next request, so write and read are enabled
only without a pending command, and `EvalCmd` is one step that gives a response of some size or, for
some commands, none (`Unencodable`). A response is known by the number of its command. `got` is the part of it a
client holds: a first part of one response, or `Garbled`, a mixture that may or may not parse. A command line client
writes one command and reads; the graphical one runs the list of commands its event sends, reading
none of the answers to start and stop. `told` is the response a client showed.
`CommandAnswers` knows neither buffer nor index; `waiting` maps a client that is reading to its exchange, which is
`alone` until any other client writes. A step of `ReadSome` or `EvalCmd` stutters.

### RegistryFile
A registry command is read, create, write, and then the change of the map, which may read the
file again. A write may end anywhere: the file then holds some of the entries, in the order of a
hash map, or cannot be parsed, as the empty file cannot. `Crash` is a kill or panic of the monitor at any
point, `Boot` a start, which needs a file that parses. In the refinement the registry changes when the file is
truncated (`saved` is the table in memory while it is written), and the change is done when the text is written.
`DurableRegistry` thereby states the cost: a crash in the middle of a change may take other services'
entries or the whole registry, and then the monitor never starts again.

## Runs

| run | instance | shows |
|---|---|---|
| `monitor_recover` | both services of smregistry.toml; start, stop, info, list; two late answers or pids given away again, and the hang of gtrand2's test | `NoOrphans`, `NoPanic`, `SpawnsAfterDeath`, that no stranger is killed (`KillsOwn`), and that every command is answered (`Serves`) |
| `monitor_faults` | the same services; two of crash, hang, failed spawn, pid given away again, at any point | `TypeInv`, `NoOrphans`, `SpawnsAfterDeath`; that the pid 0 a failed read leaves is never killed (`NeverKillsZero`); that what a failed helper left in a buffer is never told (`FailedHelperIsFinal`) |
| `monitor_registry` | a managed service, an old-style daemon, a name without a program; all registry commands; one late answer or restart of the monitor; an Edit without a list | `NamesAgree`, `OkMeansBoth` |
| `base_tables` | three descriptors, root and another user, mode 0644, seven requests | `TypeInv`, `TablesAgree`, `IdsUnique`, `StatsAccount` |
| `channel` | two command line clients, the graphical one; four commands, responses of one or two reads, one that does not decode, one that may not encode, one that parses without its end | `TypeInv`, `OneReader`, `ImplementsAnswers` (a refinement with its fairness) |
| `ledger` | one service, one client beside the monitor, root; three commands, two requests of the client, one timeout, at any point | `LedgerTypeInv`, `CountsTold`, `TotalsTold`, `LossIsOwn` |
| `file` | three names, two registered; every command on each, crashes without bound | `TypeInv`, `ReadsWhole`, `ImplementsDurable` (a refinement) |
| `crash_answer` | one service that crashes | **violated**: `Serves`. The helper opens the path for ever, against `src/README.md:28` |
| `recover_kill` | one service whose answers come late twice | **violated**: `TimedOutIsKilled`. When the second pid read of recover times out, the pid of the former process is killed, against the comment main.rs:787 |
| `edit_running` | as `monitor_registry`, no faults | **violated**: `LaunchConfigKept`. An edit takes effect at once, against `src/service-monitor-RFC.md:167` |
| `new_id` | management ids from 2 | **violated**: `NewIdIsNew`. The two allocators meet, against RFC line 209 |
| `dup_error` | as `base_tables` | **violated**: `ErrorsCounted`. A failed dup is not counted, against RFC line 189 |

Each property of a passing run has a mutant of the code in `PROJECT.json` that breaks it.

### Bounds
* `Pids`: five. No state of the runs refers to more than three of them at once, and a free
  pid is used again, so a spawn is never held up for want of one. A pid that a variable of the monitor still notes
  is given away only as a fault ("reuse"), to a new process of a service or to a stranger; strangers elsewhere make no difference.
  A descriptor stands for its process, not for the pid.
* `KillsOwn` is checked and proved without crashes: clear, or the helper that timed out, has had an open answered just before
  the kill. A service that crashes after that open, and whose pid is given away before the kill, does get a stranger killed, as may
  the last kill of recover, which the property leaves out.
* `MaxFaults`: two where one failure meets the handling of another (a late answer of the process
  recover has just started; a crash during recover); one for the registry, where a restart is long.
* `MaxRequests` seven: an open, a dup to control, a write of "clear", an open while it is pending,
  a dup to request_count, a read of it and a close fit. `FirstMgmt` nine keeps the allocators apart for
  that many requests, as 9999 does for the first 9999; `new_id` shows what happens after. `IdMod` is larger
  than all of them. `Low7` is three in `base_tables`, so that the counts go beyond it.
* `MaxCommands` four: two clients overlap, a third command overwrites what they read, and a fourth is
  answered after that. `Chunk` two and responses of one, two and three give a read that fills
  the buffer, one that does not, and a second one. Without a bound two readers can keep each other
  from the end; see Fairness.
* `MaxJobs` three and the first start: an info, a clear and an info, or a clear, a stop and a start.
  `MaxAsked` two puts one request of the client into the window of a clear and one out of it. `MaxTimeouts` one:
  `LossIsOwn` speaks of behaviours without, the other properties of all. There `Low7`, `IdMod`, `FirstMgmt` and `MaxRequests` are out of reach
  (their edges are the subject of `base_tables` and `new_id`); `FirstMgmt` and `MaxRequests` are equal, as the theorems about the
  ledger ask.
* `base_tables` uses symmetry in the descriptors, which only safety properties are checked under.
* `CHECK_DEADLOCK FALSE`: in `monitor_faults` and `crash_answer`, where a call on a service that
  hangs never returns and a monitor that panicked stays so; in `monitor_registry`, where an Edit without a list panics it; in `channel` and `ledger`, which end
  with their bounds; in `file`, where a monitor whose registry is lost stays down; and in the runs of `BaseScheme`, which end with
  `MaxRequests` requests or a panic.

### Fairness
`Spec` of the monitor assumes `WF_vars(Monitor)`: the monitor's only thread runs whenever the call it
is in can return. Nothing obliges a client to send a command or a service to fail, so `Receive` and
the faults have no fairness. A choice of the next service to visit is made from a finite set, so
no strong fairness is needed. `BaseScheme` states no liveness: a daemon that answers one request at a time
owes nothing between requests.

`CommandChannel` assumes `WF_vars(EvalCmd)`, since eval_cmd returns (that is `Serves`), and `WF_vars(Read(c))` of each client
that reads, since the monitor's loop takes requests from one queue. A client that is waiting is in a loop of reads and
nothing else, so it does ask. Writes have no fairness. Under it every exchange ends once commands stop
coming, which `MaxCommands` makes them do.

## Proofs

All theorems hold for every value of the constants that meets the modules' `ASSUME`s.

`ServiceMonitor_proofs` (about 1180 lines):
* `TypeCorrect`: `Spec => []TypeInv`. The types alone are not inductive: an action reads
  `services[cur]`, `Head(calls)` or `proc[fd]`, which exist only because of where the monitor is.
  `TypeInv` therefore adds `Control`, which says for each group of labels that the service is
  registered, a command pending, the descriptor open and a call left.
* `ZeroIsNotKilled`, `FailedHelpersAreFinal`, `OwnIsKilled`: one induction (`OwnAlways`) over `OwnInv`, for services that are
  registered, added and edited with their own path (`OwnPaths`). `OwnInv` says that a service has at most one process, which is
  the one of its running entry or the one that the descriptor or the buffer of `start` and `recover` stands for, and that a helper's
  descriptor is of the process in the entry. It holds through all faults: crashes, given away pids, restarts. Hence
  * `[]NeverKillsZero`: an entry with pid 0 has no process, so the helper call before each kill finds none to open;
  * `FailedHelperIsFinal`, if all services have a BaseScheme: a helper fails only on a process that is gone, and that was the only one;
  * `KillsOwn`, without crashes (`AliveInv`): the process a helper has opened is alive until the kill the helper leads to.

  The assumption on paths is needed: with another service's path in the registry the monitor reads, and later kills, that
  service's pid.
* `NamesStayAgreed`: without failing spawns, `[]NamesAgree`. The failing spawn is excluded because it leaves a service
  that was removed from the file in the map, not running.

`MonitorProcesses_proofs` (about 480 lines). The first three assume `Supervised`: every service has a
BaseScheme (`Managed`), is registered, added and edited with the path of its own scheme, which no other has,
and the monitor is not restarted. The last one assumes nothing.
* `NothingOrphaned`, `SpawnsFollowDeath`: one induction (`ProcessesAlways`) over `ProcessInv`. `NoOrphans` speaks of an idle
  monitor only; `ProcessInv` says at every step that each live process is the
  running process of its entry (`Known`) or the one `start` or `recover` is at work on. To bring that one home it must be
  the process behind the descriptor and, after the first pid read of `recover`, the number in the buffer, which `OwnInv` says; then
  `StartRead` and `RecoverSet` record it, or find that it died. All faults but the restart of the monitor
  are allowed. A restart is excluded because it really loses them: the new map knows no pid.
* `RecoveryNeverPanics`: without crashes, and when every add and edit gives its lists (`ListsGiven`), `[]NoPanic`. From `ropen` to `rdup2` the current service has a live process
  (`PanicInv`): the new one comes up because, by `ProcessInv`, killing the pid of the entry left no process of the service, so its
  scheme is free. A crash at any of these points does panic the monitor (`expect`).
* `OkIsForBoth`: `Spec => OkMeansBoth`. Only `EvalAdd` and `EvalRemove` answer ok to an Add or a Remove (`OpInv` says which
  command is in `start` and in the loop of `list`), and the two operations on the map agree with a new reading of the file
  (`AddedAlike`, `RemovedAlike`).

`BaseScheme_proofs` (about 750 lines), for at most `FirstMgmt` requests (`FewRequests`) but for the last:
* `TablesCorrect`, `IdsCorrect`: one induction (`TablesAlways`) over `Tables`, the conjunction of both with the
  types and `IdsApart`: the ids used so far lie below `next_fd` and above
  `next_mgmt_id`, and together the two have moved no further than there were requests. It gives that the
  next ids are free (`NextIds`), which is what each table needs of an open or a dup.
* `TypeCorrect`: the same with the types of the counters.
* `StatsCorrect`: `[]StatsAccount`, which is modulo what seven bytes hold. The induction is over `Account`:
  while a clear is pending all of `due` is `late`; otherwise the counters and `late` sum up to `due`.
* `FilesNotTaken`: `Spec => ([]SomeFree => []NextFree)`, for any number of requests. The number that gtrand's next
  open takes is in no use, however often `next_fd` has wrapped (main.rs:260 of gtrand), as long as some number is free; with none
  free the loop there never ends. The search takes the first free number after the last one, so the proof needs that a set of
  numbers has a least one (`Least`, from the well-foundedness of finite sets under inclusion) and that steps of one
  modulo `IdMod` reach every number (`Wraps`).

`StatsLedger_proofs` (about 1250 lines), for at most `FirstMgmt` requests to a process:
* `LossCorrect`: `LedgerSpec => []LossIsOwn`, for any number of commands and of requests of other clients. The induction is over
  `Clearing`, which holds until a call times out. While no clear is on its way (`window`), the next write of the monitor, if it
  has one left, comes six calls after the read whose counts are added to the totals (`WritesFollow`). While one is, the calls
  left begin with a known part of those of `clear()` (`GoesOn`), that part says which of the open, the dup and the close of the write are lost
  by now (`LossIs`), and the service has a clear pending exactly after the write. The first half of the module shows that
  every list of calls is in that order and stays so (`CommandsInOrder`, `TailInOrder`); `Tables` of
  `BaseScheme_proofs` says which scheme a request reaches: no client but the monitor can write a clear.

`LedgerCalls_proofs` (about 2150 lines), for at most `FirstMgmt` requests to a process and with any number of timeouts. Its
invariant `Shaped` says what the monitor holds between any two calls:
* every list of calls is `Ordered`: which call follows which (`Follows`), a helper reads or writes the scheme it opened (`Named`),
  counts are taken right after they are read (`Taken`), and how a command ends (`Ended`). `CommandsOrdered` shows it for the commands,
  `TailOrdered` for what is left after a call, `AgainOrdered` for the calls of `recover()` put before a helper that starts over;
* by that order the next call finds its descriptor open and of the right scheme (`ReadyAt`), a process that is there (`Lives`),
  and, if it takes counts, counts in the buffer (`BufferAt`).

The other clients of a service use slots of their own, and what they do to its tables `Tables` of `BaseScheme_proofs` keeps. It follows that
* `LedgerTyped`: `LedgerSpec => []LedgerTypeInv`. The types alone are not inductive: a `take` is safe only
  because of the read two calls before it;
* `LedgerRunsBase`: each step of `StatsLedger` is for the service a step of `BaseScheme`, its replacement by a new process,
  its end, or none. `LedgerTablesCorrect` and `LedgerStatsCorrect` carry the invariants of
  `BaseScheme` over to a service that the monitor supervises.

`LedgerTold_proofs` (about 1480 lines), for `FewRequests` and counts that seven bytes hold (`SmallCounts`), with any number of commands, other clients and timeouts:
* `CountsToldCorrect`, `TotalsToldCorrect`: one induction (`BooksAlways`) over `LedgerBooks`, four parts beside `Shaped`.
  `WindowInv` says where a clear that is on its way is: its write is the w-th call to come, or made, and then the service has
  the clear pending; no other client can write one. `InService`: outside a clear the counters of
  the process are exactly `since`, and inside one `since` is zero, for what is counted then is lost. `Sums`: the
  totals and `since`, or between the read of `clear()` and its `add` the buffer, sum up to `answered` less `lost`.
  `Told`: once `info` has taken the counts, its entry keeps what was true at that moment until it tells it.
  None of them is inductive alone: a timeout inside a clear starts its helper over, by when `InService` must know whether the
  read for the totals is still to come. Fewer than 2^56 requests (`SmallCounts`) are needed since a larger count is told modulo that.

`CommandChannel_proofs`:
* `TypeCorrect`, `OneReaderCorrect`: one induction over `ChannelInv`. `OneReader` alone is not inductive: whoever holds
  the first part of the response in the buffer must be the only one to hold it (`HeldInv`), and nothing may be told of it while it is not
  read to its end.
* `ChannelImplementsAnswers`: `Spec => Answers!SafeSpec`. `AloneInv` carries it: the client that is alone holds exactly
  what has been read of its own response. `WriteAsks`, `ReadEndTells` and `InterruptLeaves` map the steps.
  The fairness of `Answers!Spec` is left to the run `channel`.

`RegistryFile_proofs`:
* `TypeCorrect`, and `ReadsCorrect` by induction over the types and `ReadsWhole`: the file is whole unless a write is under
  way or the monitor is down.
* `FileImplementsDurable`: `Spec => Durable!Spec`, one step of the abstract module, or none, for each step of the file. The case that
  needs the invariant is the crash in a write, whose file must be a part of the table being written.

Only model-checked are the liveness of `ImplementsAnswers` and `Serves`: TLAPS does no liveness under fairness, nor `ENABLED`. Every
other property of a passing run is stated by a theorem. No recursive definition is used; the induction theorems of
the library are out of the provers' reach, and where a least number is needed `Least` gives it.

## Not modelled
* The time between a `kill` and the end of the process, see `Killed` above.
* What a reader of the counts should see after a "stop" on control, of which the repository says nothing: `StatsAccount` leaves it out.
* An old-style daemon that `start` leaves behind, alive and unknown: no property says what should become of it.
* The message of a service, its time and the times of its start; the wrap of the totals at 2^64.
* Descriptors of the monitor as a resource: the leaked ones of start and recover are never closed in
  `StatsLedger`, but nothing runs out of them.
* What the file system keeps of a write when the machine stops.
* The random generator of gtrand, texts, times, the logger, the layout of tables.
* Requests that BaseScheme only forwards and that change no state: fcntl, fsize, ftruncate, fpath, fsync, fstat.
* The GUI's widgets and the argument parser of the CLI: no state that outlives a command.
* `dup` of a main scheme that has one: no service of the repository does.
* A leftover thread of a timed-out read or write: it holds a descriptor that the helper closes.

## Plan
1. *Done*: `Registry`, `ServiceMonitor`, `RandScheme`, `BaseScheme`, their runs and theorems.
2. *Done*: `CommandChannel` over `CommandAnswers`, `StatsLedger` over `BaseScheme`, `RegistryFile` over
   `DurableRegistry`, their runs, and the theorems about the channel, the file and the processes of the monitor.
3. *Done*: the theorems about the ledger: `LossIsOwn`, the order of the calls through timeouts, `CountsTold` and `TotalsTold`; the numbers of
   gtrand's files for any number of opens.
4. Next: more of what the abstract modules promise as theorems about them (what a client that is alone is shown, what a crash may cost the registry),
   so that the refinements carry it to the code.
