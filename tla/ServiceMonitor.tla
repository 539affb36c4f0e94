--------------------------- MODULE ServiceMonitor ---------------------------
(***************************************************************************)
(* The service-monitor daemon and the service processes it supervises.     *)
(*                                                                         *)
(* The monitor is one thread: it starts the registered services, then      *)
(* alternates between one request on its own scheme and eval_cmd.  While   *)
(* it evaluates a command it calls the services through their schemes, one *)
(* blocking system call at a time, and between two of those calls a        *)
(* service may crash or stop answering.  Every system call of the monitor  *)
(* on a service is therefore an action here, and `pc` is the call the      *)
(* monitor makes next.                                                     *)
(*                                                                         *)
(* A call finds the process that owns the scheme in one of three           *)
(* conditions: it answers, it is gone (the call fails), or it hangs (the   *)
(* call never returns: the action is disabled).  Only the read or write in *)
(* the middle of a helper runs under the 50 ms timeout.                    *)
(***************************************************************************)
EXTENDS Registry, FiniteSets, Sequences

CONSTANTS
    Pids,           \* process ids
    Registry0,      \* the registry file at boot
    Commands,       \* the commands clients send
    Installed,      \* names whose executable exists
    Managed,        \* names whose program wraps its scheme in a BaseScheme
    TimeoutTested,  \* the name start() runs test_timeout on: "gtrand2"
    FaultKinds,     \* which of "crash", "hang", "slow", "spawn", "reuse", "restart" happen
    MaxFaults,      \* at most this many of them in a behaviour
    NoCmd,          \* SMScheme.cmd is None
    NoName          \* no service

\* `given` is FALSE when one of the two lists is None.
Command ==
    [op: {"start", "stop", "clear", "info", "view", "remove"}, name: Names]
      \cup [op: {"list"}]
      \cup [op: {"add", "edit"}, name: Names, old: BOOLEAN, given: BOOLEAN,
            args: ArgLists, depends: SUBSET Names, path: Paths \cup {NoPath}]

ASSUME MonitorAssumption ==
    /\ Pids \subseteq Nat \ {0}
    /\ Registry0 \in Disk
    /\ Commands \subseteq Command
    /\ MaxFaults \in Nat
    /\ NoCmd \notin Command
    /\ NoName \notin Names

VARIABLES
    disk,       \* smregistry.toml
    services,   \* the HashMap of main()
    proc,       \* the process table of the system
    cmd,        \* SMScheme.cmd
    reply,      \* whether the last response said ok or err
    pc,         \* the monitor's next step
    cur,        \* the service being handled
    visit,      \* services the loop of main() or of list() has still to visit
    calls,      \* helper calls the command has still to make, the current one first
    fd,         \* process behind the descriptor of read_helper / write_helper, or 0
    rfd,        \* process behind the descriptor of start / recover, or 0
    buf,        \* recover's pid buffer
    faults      \* faults so far (a bound of the model)

vars == <<disk, services, proc, cmd, reply, pc, cur, visit, calls, fd, rfd, buf, faults>>

-----------------------------------------------------------------------------
(* Processes.  "armed" is gtrand2 after the write "timeout": its next read *)
(* or write on the main scheme never returns.  NoName owns the processes    *)
(* the monitor knows nothing of.                                           *)

Process == [svc: Names \cup {NoName}, st: {"dead", "up", "armed", "hung"}]

Live(p) == proc[p].st # "dead"
Answers(p) == proc[p].st \in {"up", "armed"}
Gone(p) == proc[p].st = "dead"

\* The live processes of service n.
ProcessesOf(n) == {p \in Pids : Live(p) /\ proc[p].svc = n}

\* Descriptor 0 stands for "none": closing it does not block.
Closable(p) == p # 0 => proc[p].st # "hung"

\* The process that serves a scheme path.
Serving(path) == UNION {ProcessesOf(n) : n \in {m \in Names : SchemeOf[m] = path}}

Registered == {n \in Names : services[n] # NoEntry}

\* The pids the monitor has written down.
Noted == {services[n].pid : n \in Registered} \cup {buf}

\* Pids that no process has and no variable of the monitor refers to.
FreePids == {p \in Pids : Gone(p) /\ p \notin Noted \cup {fd, rfd}}

Fault(kind) == kind \in FaultKinds /\ faults < MaxFaults /\ faults' = faults + 1

\* The pid p of a new process: the lowest of the free ones, so that a bounded set of
\* pids is enough, or one that its former process has left and the monitor still notes.
NewPid(p) ==
    \/ p \in FreePids /\ (\A q \in FreePids : p <= q) /\ UNCHANGED faults
    \/ p \in Noted \ {fd, rfd} /\ Gone(p) /\ Fault("reuse")

\* The program of n starts and creates its scheme; while another process owns
\* that scheme, the new one fails to create it and exits at once.
Spawned(table, p, n) ==
    [table EXCEPT ![p] =
        [svc |-> n,
         st  |-> IF \E q \in Pids : table[q].st # "dead" /\ table[q].svc = n
                 THEN "dead" ELSE "up"]]

\* Mutant of Killed: the signal is never sent.
KilledNobody(table, pid) == table

\* kill(): the process is dead at once.  (In the code the call may return before the
\* process has exited and its scheme is free.)
Killed(table, pid) ==
    [p \in Pids |-> IF p = pid THEN [table[p] EXCEPT !.st = "dead"] ELSE table[p]]

\* Mutant of ServerOfCur: the path of the scheme is not looked at.
ServerOfAny == {p \in Pids : Live(p)}

ServerOfCur == Serving(services[cur].config.path)

-----------------------------------------------------------------------------
(* Boot and the request loop.                                              *)

Init ==
    /\ disk = Registry0
    /\ services = ReadRegistry(disk)
    /\ proc = [p \in Pids |-> [svc |-> NoName, st |-> "dead"]]
    /\ cmd = NoCmd /\ reply = "none"
    /\ pc = "boot" /\ cur = NoName /\ visit = Registered /\ calls = <<>>
    /\ fd = 0 /\ rfd = 0 /\ buf = 0
    /\ faults = 0

\* main() starts every registered service, in the order of the hash map.
BootNext ==
    /\ pc = "boot"
    /\ \E n \in visit : cur' = n /\ visit' = visit \ {n}
    /\ pc' = "spawn"
    /\ UNCHANGED <<disk, services, proc, cmd, reply, calls, fd, rfd, buf, faults>>

BootDone ==
    /\ pc = "boot" /\ visit = {}
    /\ pc' = "idle" /\ cur' = NoName
    /\ UNCHANGED <<disk, services, proc, cmd, reply, visit, calls, fd, rfd, buf, faults>>

\* A client writes a command; the handler stores it and the loop calls eval_cmd.
Receive ==
    /\ pc = "idle"
    /\ cmd' \in Commands
    /\ pc' = "eval"
    /\ UNCHANGED <<disk, services, proc, reply, cur, visit, calls, fd, rfd, buf, faults>>

\* The end of eval_cmd: write the response, reset the command.
Respond(ok) ==
    /\ reply' = IF ok THEN "ok" ELSE "err"
    /\ cmd' = NoCmd /\ pc' = "idle" /\ cur' = NoName

Goto(label) == pc' = label /\ UNCHANGED <<cmd, reply>>

\* start() returns to the loop of main() at boot, else to eval_cmd.
StartReturns(ok) ==
    IF cmd = NoCmd THEN Goto("boot") /\ cur' = NoName ELSE Respond(ok)

-----------------------------------------------------------------------------
(* eval_cmd: what it decides before it calls any service.                  *)

UpdateCalls == <<"message", "request_count", "time_stamp">>
ClearCalls == <<"request_count", "clear">>
TimeoutCalls == <<"main_read", "arm", "main_write", "arm", "main_read">>
MainCalls == {"main_read", "main_write", "arm"}

Call(n, list) ==
    cur' = n /\ calls' = list /\ Goto("open")

EvalStart ==
    /\ pc = "eval" /\ cmd.op = "start"
    /\ LET n == cmd.name IN
         \/ services[n] = NoEntry /\ Respond(FALSE) /\ UNCHANGED calls
         \/ /\ services[n] # NoEntry /\ ~services[n].running
            /\ cur' = n /\ Goto("spawn") /\ UNCHANGED calls
         \/ /\ services[n] # NoEntry /\ services[n].running
            /\ IF n = TimeoutTested THEN Call(n, TimeoutCalls)
                                    ELSE Respond(FALSE) /\ UNCHANGED calls
    /\ UNCHANGED <<disk, services, proc, visit, fd, rfd, buf, faults>>

\* stop() begins with clear(); both refuse a service that is not running.
EvalStopOrClear ==
    /\ pc = "eval" /\ cmd.op \in {"stop", "clear"}
    /\ IF services[cmd.name] # NoEntry /\ services[cmd.name].running
       THEN Call(cmd.name, ClearCalls)
       ELSE Respond(FALSE) /\ UNCHANGED calls
    /\ UNCHANGED <<disk, services, proc, visit, fd, rfd, buf, faults>>

EvalInfo ==
    /\ pc = "eval" /\ cmd.op = "info"
    /\ IF services[cmd.name] # NoEntry /\ services[cmd.name].running
       THEN Call(cmd.name, UpdateCalls)
       ELSE Respond(services[cmd.name] # NoEntry) /\ UNCHANGED calls
    /\ UNCHANGED <<disk, services, proc, visit, fd, rfd, buf, faults>>

EvalList ==
    /\ pc = "eval" /\ cmd.op = "list"
    /\ visit' = Registered
    /\ Goto("list")
    /\ UNCHANGED <<disk, services, proc, cur, calls, fd, rfd, buf, faults>>

ListNext ==
    /\ pc = "list"
    /\ \E n \in visit :
         /\ visit' = visit \ {n}
         /\ IF services[n].running THEN Call(n, UpdateCalls)
                                   ELSE Goto("list") /\ UNCHANGED <<cur, calls>>
    /\ UNCHANGED <<disk, services, proc, fd, rfd, buf, faults>>

ListDone ==
    /\ pc = "list" /\ visit = {}
    /\ Respond(TRUE)
    /\ UNCHANGED <<disk, services, proc, visit, calls, fd, rfd, buf, faults>>

EvalView ==
    /\ pc = "eval" /\ cmd.op = "view"
    /\ Respond(ViewEntryOk(disk, cmd.name))
    /\ UNCHANGED <<disk, services, proc, visit, calls, fd, rfd, buf, faults>>

\* A list that was left out is unwrapped, which panics the monitor before it has changed
\* anything.
EvalUnwrap ==
    /\ pc = "eval" /\ cmd.op \in {"add", "edit"} /\ ~cmd.given
    /\ Goto("panicked")
    /\ UNCHANGED <<disk, services, proc, cur, visit, calls, fd, rfd, buf, faults>>

\* The file changes first; only when that succeeds is the map changed, and the
\* answer is the map's, whatever happened to the file.
EvalAdd ==
    /\ pc = "eval" /\ cmd.op = "add" /\ cmd.given
    /\ disk' = AddEntry(disk, cmd)
    /\ services' = IF AddHashEntryOk(services, cmd.name)
                   THEN AddHashEntry(services, cmd) ELSE services
    /\ Respond(AddHashEntryOk(services, cmd.name))
    /\ UNCHANGED <<proc, visit, calls, fd, rfd, buf, faults>>

EvalRemove ==
    /\ pc = "eval" /\ cmd.op = "remove"
    /\ LET n    == cmd.name
           left == IF RmEntryOk(disk, n) THEN RmEntry(disk, n) ELSE disk
           ok   == RmEntryOk(disk, n) /\ RmHashEntryOk(left, services, n)
       IN /\ disk' = left
          /\ services' = IF ok THEN RmHashEntry(services, n) ELSE services
          /\ Respond(ok)
    /\ UNCHANGED <<proc, visit, calls, fd, rfd, buf, faults>>

EvalEdit ==
    /\ pc = "eval" /\ cmd.op = "edit" /\ cmd.given
    /\ LET n  == cmd.name
           ok == EditEntryOk(disk, n) /\ EditHashEntryOk(services, n)
       IN /\ disk' = IF EditEntryOk(disk, n) THEN EditEntry(disk, cmd) ELSE disk
          /\ services' = IF ok THEN EditHashEntry(services, cmd) ELSE services
          /\ Respond(ok)
    /\ UNCHANGED <<proc, visit, calls, fd, rfd, buf, faults>>

-----------------------------------------------------------------------------
(* eval_cmd: what it does when the helper calls are over.                  *)

\* Mutant of AfterStop: the entry is kept as it was.
AfterStopKept == [services EXCEPT ![cur].running = FALSE]

\* stop() kills the process; eval_cmd then takes the entry afresh from the file,
\* or drops it when the file no longer has it.
AfterStop == [services EXCEPT ![cur] = ReadRegistry(disk)[cur]]

StopDone ==
    /\ pc = "done" /\ cmd.op = "stop"
    /\ proc' = Killed(proc, services[cur].pid)
    /\ services' = AfterStop
    /\ Respond(TRUE)
    /\ UNCHANGED <<disk, visit, calls, fd, rfd, buf, faults>>

ClearOrInfoDone ==
    /\ pc = "done" /\ cmd.op \in {"clear", "info"}
    /\ Respond(TRUE)
    /\ UNCHANGED <<disk, services, proc, visit, calls, fd, rfd, buf, faults>>

\* start() of a running gtrand2: the test is over, the answer is "already running".
TestDone ==
    /\ pc = "done" /\ cmd.op = "start"
    /\ Respond(FALSE)
    /\ UNCHANGED <<disk, services, proc, visit, calls, fd, rfd, buf, faults>>

ListedOne ==
    /\ pc = "done" /\ cmd.op = "list"
    /\ cur' = NoName
    /\ Goto("list")
    /\ UNCHANGED <<disk, services, proc, visit, calls, fd, rfd, buf, faults>>

-----------------------------------------------------------------------------
(* start() of a service that is not running.  None of its calls runs under *)
(* a timeout, and it never closes the two descriptors it opens.            *)

\* The executable is spawned and its loader waited for.
StartSpawn ==
    /\ pc = "spawn"
    /\ \/ /\ cur \in Installed
          /\ \E p \in Pids : NewPid(p) /\ proc' = Spawned(proc, p, cur)
          /\ Goto("sopen") /\ UNCHANGED cur
       \/ /\ cur \notin Installed
          /\ StartReturns(FALSE) /\ UNCHANGED <<proc, faults>>
       \/ /\ cur \in Installed /\ Fault("spawn")
          /\ StartReturns(FALSE) /\ UNCHANGED proc
    /\ UNCHANGED <<disk, services, visit, calls, fd, rfd, buf>>

StartOpen ==
    /\ pc = "sopen"
    /\ \/ /\ ServerOfCur = {}
          /\ StartReturns(FALSE) /\ UNCHANGED rfd
       \/ /\ \E p \in ServerOfCur : Answers(p) /\ rfd' = p
          /\ Goto("sdup") /\ UNCHANGED cur
    /\ UNCHANGED <<disk, services, proc, visit, calls, fd, buf, faults>>

\* Only a BaseScheme knows the name "pid".
StartDup ==
    /\ pc = "sdup"
    /\ \/ /\ Answers(rfd) /\ proc[rfd].svc \in Managed
          /\ Goto("sread") /\ UNCHANGED <<cur, rfd>>
       \/ /\ Gone(rfd) \/ (Answers(rfd) /\ proc[rfd].svc \notin Managed)
          /\ StartReturns(FALSE) /\ rfd' = 0
    /\ UNCHANGED <<disk, services, proc, visit, calls, fd, buf, faults>>

StartRead ==
    /\ pc = "sread"
    /\ \/ /\ Answers(rfd)
          /\ services' = [services EXCEPT ![cur].pid = rfd, ![cur].running = TRUE]
          /\ StartReturns(TRUE)
       \/ /\ Gone(rfd)
          /\ StartReturns(FALSE) /\ UNCHANGED services
    /\ rfd' = 0
    /\ UNCHANGED <<disk, proc, visit, calls, fd, buf, faults>>

-----------------------------------------------------------------------------
(* read_helper and write_helper.  Both loop until the call in the middle    *)
(* has returned, with a result or an error, within the timeout.             *)

\* Any failure of open is tried again, for ever: `try_again` is still true.
HelperOpen ==
    /\ pc = "open"
    /\ \/ /\ ServerOfCur = {}
          /\ UNCHANGED <<cmd, reply, pc, fd>>
       \/ /\ \E p \in ServerOfCur : Answers(p) /\ fd' = p
          /\ Goto(IF Head(calls) \in MainCalls THEN "io" ELSE "dup")
    /\ UNCHANGED <<disk, services, proc, cur, visit, calls, rfd, buf, faults>>

\* Mutant of HelperReturns: the loop is not left.
HelperLoops == calls' = calls /\ Goto("open") /\ fd' = 0

\* The helper returns to its caller, which ignores the result.
HelperReturns ==
    /\ calls' = Tail(calls)
    /\ Goto(IF Len(calls) = 1 THEN "done" ELSE "open")
    /\ fd' = 0

\* A failed dup returns from the helper (the descriptor of the main scheme leaks).
HelperDup ==
    /\ pc = "dup"
    /\ \/ Answers(fd) /\ proc[fd].svc \in Managed /\ Goto("closemain") /\ UNCHANGED <<calls, fd>>
       \/ (Gone(fd) \/ (Answers(fd) /\ proc[fd].svc \notin Managed)) /\ HelperReturns
    /\ UNCHANGED <<disk, services, proc, cur, visit, rfd, buf, faults>>

HelperCloseMain ==
    /\ pc = "closemain" /\ Closable(fd)
    /\ Goto("io")
    /\ UNCHANGED <<disk, services, proc, cur, visit, calls, fd, rfd, buf, faults>>

\* The read or write runs on a thread of its own for 50 ms.  It returns (an error
\* when the process is gone); or it does not, because the process hangs, or because
\* an armed gtrand2 starts to; or the answer comes too late and is dropped.
HelperIO ==
    /\ pc = "io"
    /\ LET main == Head(calls) \in MainCalls
           arms == [proc EXCEPT ![fd].st = IF Head(calls) = "arm" THEN "armed" ELSE @]
       IN \/ Gone(fd) /\ Goto("close") /\ UNCHANGED <<proc, faults>>
          \/ /\ Answers(fd) /\ ~(proc[fd].st = "armed" /\ main)
             /\ proc' = arms
             /\ \/ Goto("close") /\ UNCHANGED faults
                \/ Fault("slow") /\ Goto("recover")
          \/ /\ proc[fd].st = "armed" /\ main
             /\ proc' = [proc EXCEPT ![fd].st = "hung"]
             /\ Goto("recover") /\ UNCHANGED faults
          \/ proc[fd].st = "hung" /\ Goto("recover") /\ UNCHANGED <<proc, faults>>
    /\ UNCHANGED <<disk, services, cur, visit, calls, fd, rfd, buf>>

HelperClose ==
    /\ pc = "close" /\ Closable(fd)
    /\ HelperReturns
    /\ UNCHANGED <<disk, services, proc, cur, visit, rfd, buf, faults>>

\* Mutant of HelperRetry: the descriptor is not opened anew.
HelperRetryStale ==
    /\ pc = "retry" /\ Closable(fd)
    /\ Goto("dup")
    /\ UNCHANGED <<disk, services, proc, cur, visit, calls, fd, rfd, buf, faults>>

\* After a timeout the descriptor is closed and the call tried again, whether
\* recover() succeeded or not.
HelperRetry ==
    /\ pc = "retry" /\ Closable(fd)
    /\ Goto("open") /\ fd' = 0
    /\ UNCHANGED <<disk, services, proc, cur, visit, calls, rfd, buf, faults>>

-----------------------------------------------------------------------------
(* recover(): kill the process, start another, read its pid twice (only the *)
(* second read runs under the timeout).  A failure of a call under expect() *)
(* panics the monitor.                                                      *)

Panic == Goto("panicked") /\ UNCHANGED <<rfd, buf>>

\* Mutant of Replaced: the new process is spawned before the old one is killed.
ReplacedLate(p) == Killed(Spawned(proc, p, cur), services[cur].pid)

\* The old process is killed, then the new one spawned as process p.
Replaced(p) == Spawned(Killed(proc, services[cur].pid), p, cur)

RecoverSpawn ==
    /\ pc = "recover"
    /\ services' = [services EXCEPT ![cur].running = FALSE]
    /\ \/ /\ cur \in Installed
          /\ \E p \in Pids : NewPid(p) /\ proc' = Replaced(p)
          /\ Goto("ropen")
       \/ /\ IF cur \in Installed THEN Fault("spawn") ELSE UNCHANGED faults
          /\ proc' = Killed(proc, services[cur].pid)
          /\ Goto("retry")
    /\ UNCHANGED <<disk, cur, visit, calls, fd, rfd, buf>>

RecoverOpen ==
    /\ pc = "ropen"
    /\ \/ ServerOfCur = {} /\ Panic
       \/ /\ \E p \in ServerOfCur : Answers(p) /\ rfd' = p
          /\ Goto("rdup") /\ UNCHANGED buf
    /\ UNCHANGED <<disk, services, proc, cur, visit, calls, fd, faults>>

RecoverDup ==
    /\ pc = "rdup"
    /\ \/ Gone(rfd) /\ Panic
       \/ Answers(rfd) /\ proc[rfd].svc \notin Managed /\ Panic
       \/ Answers(rfd) /\ proc[rfd].svc \in Managed /\ Goto("rread") /\ UNCHANGED <<rfd, buf>>
    /\ UNCHANGED <<disk, services, proc, cur, visit, calls, fd, faults>>

\* The pid read first; its two descriptors are never closed.
RecoverRead ==
    /\ pc = "rread"
    /\ \/ Gone(rfd) /\ Panic
       \/ Answers(rfd) /\ buf' = rfd /\ rfd' = 0 /\ Goto("ropen2")
    /\ UNCHANGED <<disk, services, proc, cur, visit, calls, fd, faults>>

RecoverReopen ==
    /\ pc = "ropen2"
    /\ \/ ServerOfCur = {} /\ Goto("rset") /\ UNCHANGED rfd
       \/ /\ \E p \in ServerOfCur : Answers(p) /\ rfd' = p
          /\ Goto("rdup2")
    /\ UNCHANGED <<disk, services, proc, cur, visit, calls, fd, buf, faults>>

RecoverRedup ==
    /\ pc = "rdup2"
    /\ \/ Gone(rfd) /\ Panic
       \/ Answers(rfd) /\ Goto("rclosemain") /\ UNCHANGED <<rfd, buf>>
    /\ UNCHANGED <<disk, services, proc, cur, visit, calls, fd, faults>>

RecoverCloseMain ==
    /\ pc = "rclosemain" /\ Closable(rfd)
    /\ Goto("rio")
    /\ UNCHANGED <<disk, services, proc, cur, visit, calls, fd, rfd, buf, faults>>

\* Mutant of FailedRead: the buffer keeps the b'0' bytes it was made of.
FailedReadKeeps == 48

\* What a failed read leaves in the first bytes of the buffer: zeros.
FailedRead == 0

\* The pid read again, under the timeout.  A read that times out kills the pid of
\* the entry, which is still the old one, and leaves the buffer alone.
RecoverReread ==
    /\ pc = "rio"
    /\ \/ Gone(rfd) /\ buf' = FailedRead /\ UNCHANGED <<proc, faults>>
       \/ Answers(rfd) /\ buf' = rfd /\ UNCHANGED <<proc, faults>>
       \/ /\ \/ proc[rfd].st = "hung" /\ UNCHANGED faults
             \/ Answers(rfd) /\ Fault("slow")
          /\ proc' = Killed(proc, services[cur].pid)
          /\ UNCHANGED buf
    /\ Goto("rset")
    /\ UNCHANGED <<disk, services, cur, visit, calls, fd, rfd>>

\* Mutant of Recovered: the pid of the new process is not recorded.
RecoveredOldPid(e) == [e EXCEPT !.running = TRUE]

Recovered(e) == [e EXCEPT !.pid = buf, !.running = TRUE]

\* Close the descriptor; the entry is running, with the pid in the buffer, whatever
\* became of the second read.
RecoverSet ==
    /\ pc = "rset" /\ Closable(rfd)
    /\ services' = [services EXCEPT ![cur] = Recovered(@)]
    /\ rfd' = 0 /\ buf' = 0
    /\ Goto("retry")
    /\ UNCHANGED <<disk, proc, cur, visit, calls, fd, faults>>

-----------------------------------------------------------------------------
(* The environment.                                                        *)

Crash ==
    /\ Fault("crash")
    /\ \E p \in Pids : Live(p) /\ proc' = [proc EXCEPT ![p].st = "dead"]
    /\ UNCHANGED <<disk, services, cmd, reply, pc, cur, visit, calls, fd, rfd, buf>>

Hang ==
    /\ Fault("hang")
    /\ \E p \in Pids : Answers(p) /\ proc' = [proc EXCEPT ![p].st = "hung"]
    /\ UNCHANGED <<disk, services, cmd, reply, pc, cur, visit, calls, fd, rfd, buf>>

\* A process the monitor knows nothing of takes a pid that the monitor still notes,
\* though its process is gone.  A descriptor in use stands for that process and not for
\* its pid; one that recover's caller has only to close becomes 0.
Stranger ==
    /\ Fault("reuse")
    /\ \E p \in Pids :
         /\ p \in Noted \ {rfd} /\ Gone(p)
         /\ p = fd => pc \notin {"dup", "closemain", "io", "close"}
         /\ proc' = [proc EXCEPT ![p] = [svc |-> NoName, st |-> "up"]]
         /\ fd' = IF p = fd THEN 0 ELSE fd
    /\ UNCHANGED <<disk, services, cmd, reply, pc, cur, visit, calls, rfd, buf>>

\* The monitor is killed, or has panicked, and is started again: main() reads the
\* registry, and the services of its former life are still there.
Restart ==
    /\ Fault("restart")
    /\ services' = ReadRegistry(disk)
    /\ visit' = {n \in Names : disk[n] # NoConfig}
    /\ pc' = "boot" /\ cmd' = NoCmd /\ reply' = "none"
    /\ cur' = NoName /\ calls' = <<>> /\ fd' = 0 /\ rfd' = 0 /\ buf' = 0
    /\ UNCHANGED <<disk, proc>>

-----------------------------------------------------------------------------
Boot == BootNext \/ BootDone
Eval == EvalStart \/ EvalStopOrClear \/ EvalInfo \/ EvalList \/ ListNext \/ ListDone
          \/ EvalView \/ EvalUnwrap \/ EvalAdd \/ EvalRemove \/ EvalEdit
          \/ StopDone \/ ClearOrInfoDone \/ TestDone \/ ListedOne
Start == StartSpawn \/ StartOpen \/ StartDup \/ StartRead
Helper == HelperOpen \/ HelperDup \/ HelperCloseMain \/ HelperIO \/ HelperClose
            \/ HelperRetry
Recover == RecoverSpawn \/ RecoverOpen \/ RecoverDup \/ RecoverRead \/ RecoverReopen
             \/ RecoverRedup \/ RecoverCloseMain \/ RecoverReread \/ RecoverSet

\* The steps of the monitor's only thread after a request has arrived.
Monitor == Boot \/ Eval \/ Start \/ Helper \/ Recover

Next == Receive \/ Monitor \/ Crash \/ Hang \/ Stranger \/ Restart

\* The monitor's thread runs whenever it can; nothing obliges a client to send a
\* command or a service to fail.
Spec == Init /\ [][Next]_vars /\ WF_vars(Monitor)

-----------------------------------------------------------------------------
(* Properties.                                                             *)

Labels == {"boot", "idle", "eval", "list", "done", "spawn", "sopen", "sdup", "sread",
           "open", "dup", "closemain", "io", "close", "retry", "recover", "ropen", "rdup",
           "rread", "ropen2", "rdup2", "rclosemain", "rio", "rset", "panicked"}
CallNames == {"message", "request_count", "time_stamp", "clear"} \cup MainCalls

\* Every variable has its type.
TypeOK ==
    /\ disk \in Disk
    /\ services \in Services
    /\ proc \in [Pids -> Process]
    /\ cmd \in Command \cup {NoCmd}
    /\ reply \in {"none", "ok", "err"}
    /\ pc \in Labels
    /\ cur \in Names \cup {NoName}
    /\ visit \subseteq Names
    /\ calls \in Seq(CallNames)
    /\ fd \in Pids \cup {0}
    /\ rfd \in Pids \cup {0}
    /\ buf \in Pids \cup {0}
    /\ faults \in 0..MaxFaults

StartLabels == {"spawn", "sopen", "sdup", "sread"}
RecoverLabels == {"ropen", "rdup", "rread", "ropen2", "rdup2", "rclosemain", "rio", "rset"}
HelperLabels ==
    {"open", "dup", "closemain", "io", "close", "retry", "recover"} \cup RecoverLabels

\* What the control state implies: which service is being handled, that a command
\* is being evaluated, which loop variables are registered services, and which
\* descriptors are open.
Control ==
    /\ pc \in StartLabels \cup HelperLabels \cup {"done"} =>
         cur \in Names /\ services[cur] # NoEntry
    /\ pc \in HelperLabels \cup {"eval", "list", "done"} => cmd \in Command
    /\ pc = "boot" \/ (pc \in StartLabels /\ cmd = NoCmd) => visit \subseteq Registered
    /\ pc = "list" \/ (pc \in HelperLabels \cup {"done"} /\ cmd.op = "list") =>
         visit \subseteq Registered
    /\ pc \in {"sdup", "sread", "rdup", "rread", "rdup2", "rclosemain", "rio"} => rfd \in Pids
    /\ pc \in {"dup", "closemain", "io", "close"} => fd \in Pids
    /\ pc \in HelperLabels => calls # <<>>

\* Every step of the code finds what it takes for granted: the entry it unwraps,
\* the descriptor it uses, a call to make.
TypeInv == TypeOK /\ Control

\* The file and the map have the same services, except that a running service
\* stays in the map after it was removed from the file, until it is stopped
\* (rm_hash_entry, and the refresh of the map after stop()).  While recover() is at
\* work the service it restarts is not running.
Recovering == RecoverLabels \cup {"panicked"}

NamesAgree ==
    \A n \in Names :
        /\ disk[n] # NoConfig => services[n] # NoEntry
        /\ disk[n] = NoConfig /\ services[n] # NoEntry =>
             services[n].running \/ (n = cur /\ pc \in Recovering)

\* stop(), and recover() when it begins, kill a process of the service they are called
\* for, or nobody: the pid in the entry was not left behind by a process that is gone
\* and is not somebody else's by now.  It can be when a service crashes after it has
\* answered the last open of the command, and in the last kill of recover(), which
\* uses the pid of the process that the first one killed.
KillsOwn ==
    [][pc' # pc /\ pc \in {"recover", "done"} =>
         \A p \in Pids : Live(p) /\ proc'[p].st = "dead" => proc[p].svc = cur]_vars

\* No kill is sent to pid 0, the pid of an entry that recover() left running after its
\* second read had failed: the helper call before the kill finds no process to open.
NeverKillsZero ==
    pc \in {"recover", "rio"} \/ (pc = "done" /\ cmd.op = "stop") => services[cur].pid # 0

\* A helper that comes back without an answer leaves no live process of the service
\* behind, so that the next open is tried for ever and what the caller takes from its
\* buffer (of another call, or the zeros of a failed read) is never told.
FailedHelperIsFinal ==
    [][pc' \in {"open", "done"} /\ (pc = "dup" \/ (pc = "close" /\ Gone(fd))) =>
         ProcessesOf(cur) = {}]_vars

\* When the monitor waits for a request it has lost no process: each one alive is
\* the running process of an entry (and so one a stop can reach).
NoOrphans ==
    pc = "idle" => \A n \in Names : \A p \in ProcessesOf(n) :
        services[n] # NoEntry /\ services[n].running /\ services[n].pid = p

\* A service is spawned only when no process of it is alive any more: start() is for
\* services that do not run, and recover() kills before it spawns.
SpawnsAfterDeath ==
    [][pc' # pc /\ pc' \in {"sopen", "ropen"} =>
         \A p \in ProcessesOf(cur) : proc'[p].st = "dead"]_vars

\* A restart after a timeout never makes the monitor panic: what the expect() calls
\* of recover() rely on.
NoPanic == pc # "panicked"

\* When an Add or a Remove is answered ok, the file and the map hold the same
\* configuration of the service, and its entry in the map is not running.
OkMeansBoth ==
    [][cmd # NoCmd /\ cmd.op \in {"add", "remove"} /\ cmd' = NoCmd /\ reply' = "ok" =>
         services'[cmd.name] = ReadRegistry(disk')[cmd.name]]_vars

\* The monitor comes back to its loop: each command is answered, and boot ends.
Serves == []<>(pc = "idle")

\* "for now just kill the service that timed out": when the second pid read of
\* recover() times out, the process that did not answer in time is killed.
TimedOutIsKilled ==
    [][pc = "rio" /\ pc' = "rset" /\ (proc[rfd].st = "hung" \/ faults' # faults) =>
         proc'[rfd].st = "dead"]_vars

\* "If running, the service will not be affected until restarted": the map keeps
\* the configuration a running service was launched with.
LaunchConfigKept ==
    [][\A n \in Names :
          services[n] # NoEntry /\ services'[n] # NoEntry =>
            (services[n].running /\ services'[n].running =>
               services'[n].config = services[n].config)]_vars
=============================================================================
