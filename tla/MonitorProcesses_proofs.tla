----------------------- MODULE MonitorProcesses_proofs -----------------------
(***************************************************************************)
(* Theorems about the processes of ServiceMonitor: none is lost, none runs *)
(* twice, and a restart after a timeout does not panic, for any managed    *)
(* services, each with the path of its own scheme, as long as the monitor  *)
(* itself is not restarted.  The last one is about the registry commands.  *)
(***************************************************************************)
EXTENDS ServiceMonitor_proofs

\* Each service is registered and added with the path of its own scheme, and no two
\* services have the same.
OwnSchemes ==
    /\ \A n \in Names : Registry0[n] # NoConfig => Registry0[n].path = SchemeOf[n]
    /\ \A c \in Commands : /\ c.op = "add" => c.path = SchemeOf[c.name]
                           /\ c.op = "edit" => c.path \in {NoPath, SchemeOf[c.name]}
    /\ \A m, n \in Names : SchemeOf[m] = SchemeOf[n] => m = n

\* Services that can be managed, and a monitor that is not restarted.
Supervised == OwnSchemes /\ Names \subseteq Managed /\ "restart" \notin FaultKinds

-----------------------------------------------------------------------------
(* The invariant.                                                          *)

PathsExact ==
    \A n \in Names : /\ disk[n] # NoConfig => disk[n].path = SchemeOf[n]
                     /\ services[n] # NoEntry => services[n].config.path = SchemeOf[n]

\* Between the spawn and the end of start() or recover(), the entry does not yet know
\* the process.
Handed == {"sopen", "sdup", "sread", "panicked"} \cup RecoverLabels

\* Process p is the running process of the entry of n.
Known(n, p) == services[n] # NoEntry /\ services[n].running /\ services[n].pid = p

ProcessInv ==
    /\ PathsExact
    /\ \A n \in Names : \A p \in ProcessesOf(n) : Known(n, p) \/ (n = cur /\ pc \in Handed)

-----------------------------------------------------------------------------
(* The path of the current service leads to its process.                   *)

LEMMA ServersOfCur ==
    ASSUME OwnSchemes, TypeInv, ProcessInv, cur \in Names, services[cur] # NoEntry
    PROVE  ServerOfCur = ProcessesOf(cur)
BY DEF OwnSchemes, ProcessInv, PathsExact, ServerOfCur, Serving

LEMMA OwnSchemesArePaths == ASSUME OwnSchemes PROVE OwnPaths
BY MonitorAssumption DEF OwnSchemes, OwnPaths, Command

\* Each live process of a service is the running process of its entry, but for the one
\* start() or recover() is at work on.
THEOREM ProcessesAlways ==
    ASSUME Supervised PROVE Spec => []ProcessInv
<1>1. Init => ProcessInv
  <2> SUFFICES ASSUME Init PROVE ProcessInv
    OBVIOUS
  <2>1. \A n \in Names : ProcessesOf(n) = {} BY DEF Init, ProcessesOf, Live
  <2>2. \A n \in Names : disk[n] # NoConfig => disk[n].path = SchemeOf[n]
    BY DEF Init, Supervised, OwnSchemes
  <2>3. \A n \in Names : services[n] # NoEntry =>
          disk[n] # NoConfig /\ services[n].config = disk[n]
    BY ReadRegistryNames, MonitorAssumption DEF Init, ReadRegistry, FreshEntry
  <2> QED BY <2>1, <2>2, <2>3 DEF ProcessInv, PathsExact
<1>2. TypeInv /\ PathInv /\ OwnInv /\ ProcessInv /\ [Next]_vars => ProcessInv'
  <2> SUFFICES ASSUME TypeInv, PathInv, OwnInv, ProcessInv, [Next]_vars PROVE ProcessInv'
    OBVIOUS
  <2>1. UNCHANGED proc => Shrinks BY NoNewProcess DEF Live
  <2>2. UNCHANGED <<disk, services>> => PathsExact' BY DEF PathsExact, ProcessInv
  <2> USE DEF ProcessInv, Known, Shrinks, Handed, Goto, Respond, RecoverLabels
  <2>3. CASE Boot \/ Receive
    BY <2>1, <2>2, <2>3 DEF Boot, BootNext, BootDone, Receive
  <2>4. CASE EvalStart \/ EvalStopOrClear \/ EvalInfo
    BY <2>1, <2>2, <2>4 DEF EvalStart, EvalStopOrClear, EvalInfo, Call
  <2>5. CASE EvalList \/ ListNext \/ ListDone \/ EvalView \/ EvalUnwrap
    BY <2>1, <2>2, <2>5 DEF EvalList, ListNext, ListDone, EvalView, EvalUnwrap, Call
  <2>6. CASE EvalAdd
    <3>1. /\ cmd.name \in Names
          /\ AddedConfig(cmd).path = SchemeOf[cmd.name]
          /\ FreshEntry(AddedConfig(cmd)).config = AddedConfig(cmd)
          /\ disk \in Disk /\ services \in Services
      BY <2>6, CommandName, MonitorAssumption
         DEF EvalAdd, AddedConfig, FreshEntry, Supervised, OwnSchemes, TypeInv, TypeOK, Control,
             HelperLabels, PathInv
    <3>2. \A n \in Names : disk'[n] = IF n = cmd.name THEN AddedConfig(cmd) ELSE disk[n]
      BY <2>6, <3>1 DEF EvalAdd, AddEntry, Disk
    <3>3. \A n \in Names :
            \/ services'[n] = services[n]
            \/ n = cmd.name /\ services[n] = NoEntry /\ services'[n] = FreshEntry(AddedConfig(cmd))
      BY <2>6, <3>1 DEF EvalAdd, AddHashEntry, AddHashEntryOk, Services
    <3>4. PathsExact' BY <3>1, <3>2, <3>3 DEF PathsExact
    <3> QED BY <2>1, <2>6, <3>3, <3>4 DEF EvalAdd
  <2>7. CASE EvalRemove
    <3>1. \A n \in Names : /\ disk'[n] \in {disk[n], NoConfig}
                           /\ \/ services'[n] = services[n]
                              \/ services'[n] = NoEntry /\ ~services[n].running
      BY <2>7 DEF EvalRemove, RmEntry, RmHashEntry, RmHashEntryOk, Disk, Services, TypeInv, TypeOK
    <3>2. PathsExact' BY <3>1 DEF PathsExact
    <3> QED BY <2>1, <2>7, <3>1, <3>2 DEF EvalRemove
  <2>8. CASE EvalEdit
    <3>1. cmd.name \in Names /\ cmd \in Command /\ disk \in Disk /\ services \in Services
      BY <2>8, CommandName DEF EvalEdit, TypeInv, TypeOK, Control, HelperLabels
    <3>2. \A old \in Config : old.path = SchemeOf[cmd.name] =>
            EditedConfig(old, cmd).path = SchemeOf[cmd.name]
      BY <2>8, <3>1, MonitorAssumption DEF EvalEdit, EditedConfig, Supervised, OwnSchemes, PathInv
    <3>3. \A n \in Names : disk'[n] # NoConfig => disk'[n].path = SchemeOf[n]
      BY <2>8, <3>1, <3>2 DEF EvalEdit, EditEntryOk, EditEntry, Disk, PathsExact
    <3>4. \A n \in Names :
            /\ services[n] # NoEntry <=> services'[n] # NoEntry
            /\ services'[n] # NoEntry =>
                 /\ services'[n].pid = services[n].pid
                 /\ services'[n].running = services[n].running
                 /\ services'[n].config.path = SchemeOf[n]
      <4>1. CASE UNCHANGED services BY <4>1 DEF PathsExact
      <4>2. CASE EditHashEntryOk(services, cmd.name) /\ services' = EditHashEntry(services, cmd)
        <5> DEFINE c == EditedConfig(services[cmd.name].config, cmd)
                   e == [services[cmd.name] EXCEPT !.config = c]
        <5>1. services[cmd.name] \in ServiceEntry BY <3>1, <4>2 DEF EditHashEntryOk, Services
        <5>2. services[cmd.name].config \in Config /\ c \in Config
          BY <2>8, <3>1, <5>1, EditedConfigType DEF EvalEdit, ServiceEntry
        <5>3. /\ e \in ServiceEntry /\ e.config = c
              /\ e.pid = services[cmd.name].pid /\ e.running = services[cmd.name].running
          BY <5>1, <5>2, ConfigValues
        <5>4. c.path = SchemeOf[cmd.name]
          BY <3>1, <3>2, <4>2, <5>2 DEF EditHashEntryOk, PathsExact
        <5>5. \A n \in Names : services'[n] = IF n = cmd.name THEN e ELSE services[n]
          BY <3>1, <4>2 DEF EditHashEntry, Services
        <5> HIDE DEF e, c
        <5> QED BY <4>2, <5>3, <5>4, <5>5, NoValueAssumption DEF EditHashEntryOk, PathsExact
      <4> QED BY <2>8, <4>1, <4>2 DEF EvalEdit
    <3>5. PathsExact' BY <3>3, <3>4 DEF PathsExact
    <3> QED BY <2>1, <2>8, <3>4, <3>5 DEF EvalEdit
  <2>9. CASE StopDone
    <3>1. cur \in Names /\ pc = "done" /\ UNCHANGED disk
      BY <2>9 DEF StopDone, TypeInv, Control
    <3>2. /\ Shrinks
          /\ services[cur].pid \notin ProcessesOf(cur)
             \/ services[cur].pid \notin {p \in Pids : proc'[p].st # "dead"}
      BY <2>9, KilledOwners, KilledValues, NoNewProcess DEF StopDone, Live, TypeInv, TypeOK
    <3>3. \A n \in Names :
            IF n = cur THEN services'[n] # NoEntry => services'[n].config.path = SchemeOf[n]
            ELSE services'[n] = services[n]
      BY <2>9, <3>1, FreshEntries DEF StopDone, AfterStop, Services, PathsExact, TypeInv, TypeOK
    <3>4. PathsExact' BY <3>1, <3>3 DEF PathsExact
    <3>5. \A n \in Names : \A p \in ProcessesOf(n)' : n # cur /\ Known(n, p)
      BY <3>1, <3>2 DEF ProcessesOf, Live
    <3> QED BY <2>9, <3>3, <3>4, <3>5 DEF StopDone
  <2>10. CASE ClearOrInfoDone \/ TestDone \/ ListedOne
    BY <2>1, <2>2, <2>10 DEF ClearOrInfoDone, TestDone, ListedOne
  <2>11. CASE StartSpawn
    <3>1. /\ cur \in Names /\ pc = "spawn" /\ UNCHANGED <<disk, services>>
          /\ ProcessesOf(cur) = {} /\ PathsExact'
      BY <2>2, <2>11
         DEF StartSpawn, OwnInv, ProcessesOf, TypeInv, Control, StartLabels
    <3>2. CASE UNCHANGED proc /\ StartReturns(FALSE)
      BY <2>1, <3>1, <3>2 DEF StartReturns
    <3>3. CASE Goto("sopen") /\ cur' = cur /\ \E p \in Pids : NewPid(p) /\ proc' = Spawned(proc, p, cur)
      <4>1. \A n \in Names \ {cur} : ProcessesOf(n)' \subseteq ProcessesOf(n)
        BY <3>1, <3>3, NewProcess DEF Live, TypeInv, TypeOK
      <4> QED BY <3>1, <3>3, <4>1
    <3> QED BY <2>11, <3>2, <3>3 DEF StartSpawn
  <2>12. CASE StartOpen
    <3>1. ServerOfCur = ProcessesOf(cur)
      BY <2>12, ServersOfCur DEF StartOpen, Supervised, TypeInv, Control, StartLabels
    <3> QED BY <2>1, <2>2, <2>12, <3>1 DEF StartOpen, StartReturns
  <2>13. CASE StartDup
    <3>1. StartReturns(FALSE) => ProcessesOf(cur) = {}
      <4>1. pc = "sdup" /\ cur \in Managed /\ Sole(cur, rfd) /\ proc[rfd].svc = cur
        BY <2>13 DEF StartDup, Supervised, OwnInv, TypeInv, Control, StartLabels
      <4>2. StartReturns(FALSE) => Gone(rfd)
        BY <2>13, <4>1, MonitorAssumption DEF StartDup, StartReturns, Answers
      <4> QED BY <4>1, <4>2 DEF Sole, ProcessesOf, Live, Gone
    <3> QED BY <2>1, <2>2, <2>13, <3>1 DEF StartDup, StartReturns
  <2>14. CASE StartRead
    <3>1. cur \in Names /\ Sole(cur, rfd) /\ UNCHANGED <<disk, proc>>
      BY <2>14 DEF StartRead, OwnInv, TypeInv, Control, StartLabels
    <3>2. CASE UNCHANGED services /\ Gone(rfd)
      <4>1. ProcessesOf(cur) = {} BY <3>1, <3>2 DEF Sole, ProcessesOf, Live, Gone
      <4> QED BY <2>1, <2>2, <2>14, <3>1, <3>2, <4>1 DEF StartRead, StartReturns
    <3>3. CASE services' = [services EXCEPT ![cur].pid = rfd, ![cur].running = TRUE]
      <4> DEFINE e == [services[cur] EXCEPT !.pid = rfd, !.running = TRUE]
      <4>1. services[cur] \in ServiceEntry /\ services[cur] # NoEntry /\ rfd \in Nat
        BY <2>14, MonitorAssumption DEF StartRead, Services, TypeInv, TypeOK, Control, StartLabels
      <4>2. /\ e \in ServiceEntry /\ e.running = TRUE /\ e.pid = rfd
            /\ e.config = services[cur].config
        BY ONLY <4>1 DEF ServiceEntry
      <4>3. \A n \in Names : services'[n] = IF n = cur THEN e ELSE services[n]
        BY <3>1, <3>3, <4>1 DEF Services, TypeInv, TypeOK
      <4> HIDE DEF e
      <4>4. e # NoEntry BY <4>2, NoValueAssumption
      <4>5. PathsExact' BY <3>1, <4>1, <4>2, <4>3 DEF PathsExact
      <4>6. \A n \in Names : \A p \in ProcessesOf(n)' : Known(n, p)'
        BY <2>1, <3>1, <4>2, <4>3, <4>4 DEF Sole
      <4> QED BY <4>5, <4>6
    <3> QED BY <2>14, <3>2, <3>3 DEF StartRead
  <2>15. CASE HelperOpen \/ HelperDup \/ HelperCloseMain \/ HelperClose \/ HelperRetry
    BY <2>1, <2>2, <2>15
       DEF HelperOpen, HelperDup, HelperCloseMain, HelperClose, HelperRetry, HelperReturns
  <2>16. CASE HelperIO \/ Crash \/ Hang
    <3>1. Shrinks BY <2>16, StatesOnly, NoNewProcess
    <3> QED BY <2>2, <2>16, <3>1 DEF HelperIO, Crash, Hang
  <2>17. CASE RecoverSpawn
    <3> DEFINE e == [services[cur] EXCEPT !.running = FALSE]
    <3>1. cur \in Names /\ services[cur] \in ServiceEntry /\ pc = "recover" /\ UNCHANGED <<disk, cur>>
      BY <2>17 DEF RecoverSpawn, Services, TypeInv, TypeOK, Control, HelperLabels
    <3>2. e.config = services[cur].config BY <3>1, FieldValues
    <3>3. \A n \in Names : services'[n] = IF n = cur THEN e ELSE services[n]
      BY <2>17, <3>1 DEF RecoverSpawn, Services, TypeInv, TypeOK
    <3> HIDE DEF e
    <3>4. PathsExact' BY <3>1, <3>2, <3>3, NoValueAssumption DEF PathsExact
    <3>5. /\ \A n \in Names \ {cur} : ProcessesOf(n)' \subseteq ProcessesOf(n)
          /\ pc' # "ropen" => ProcessesOf(cur)' = {}
      BY <2>17, RecoverReplaces
    <3>6. pc' \in {"ropen", "retry"} BY <2>17 DEF RecoverSpawn
    <3> QED BY <3>1, <3>3, <3>4, <3>5, <3>6
  <2>18. CASE RecoverOpen \/ RecoverDup \/ RecoverRead \/ RecoverReopen \/ RecoverRedup
                \/ RecoverCloseMain
    BY <2>1, <2>2, <2>18
       DEF RecoverOpen, RecoverDup, RecoverRead, RecoverReopen, RecoverRedup, RecoverCloseMain, Panic
  <2>19. CASE RecoverReread
    <3>1. Shrinks
      <4>1. CASE proc' = Killed(proc, services[cur].pid)
        BY <4>1, KilledOwners, NoNewProcess DEF Live, TypeInv, TypeOK
      <4> QED BY <2>1, <2>19, <4>1 DEF RecoverReread
    <3> QED BY <2>2, <2>19, <3>1 DEF RecoverReread
  <2>20. CASE RecoverSet
    <3> DEFINE e == [services[cur] EXCEPT !.pid = buf, !.running = TRUE]
    <3>1. /\ cur \in Names /\ services[cur] \in ServiceEntry /\ services[cur] # NoEntry
          /\ buf \in Nat
      BY <2>20, MonitorAssumption
         DEF RecoverSet, Services, TypeInv, TypeOK, Control, HelperLabels
    <3>2. Sole(cur, buf) /\ UNCHANGED <<disk, proc, cur>> BY <2>20 DEF RecoverSet, OwnInv
    <3>3. /\ e \in ServiceEntry /\ e.running = TRUE /\ e.pid = buf
          /\ e.config = services[cur].config
      BY ONLY <3>1 DEF ServiceEntry
    <3>4. \A n \in Names : services'[n] = IF n = cur THEN e ELSE services[n]
      BY <2>20, <3>1 DEF RecoverSet, Recovered, Services, TypeInv, TypeOK
    <3> HIDE DEF e
    <3>5. e # NoEntry BY <3>3, NoValueAssumption
    <3>6. PathsExact' BY <3>1, <3>2, <3>3, <3>4 DEF PathsExact
    <3>7. \A n \in Names : \A p \in ProcessesOf(n)' : IF n = cur THEN Known(n, p)' ELSE Known(n, p)
      BY <2>1, <3>1, <3>2, <3>3, <3>4, <3>5 DEF Sole
    <3> QED BY <3>2, <3>4, <3>6, <3>7
  <2>21. CASE Stranger
    <3>1. PICK p \in Pids : proc' = [proc EXCEPT ![p] = [svc |-> NoName, st |-> "up"]]
      BY <2>21 DEF Stranger
    <3>2. /\ \A r \in Pids : r # p => proc'[r] = proc[r]
          /\ proc'[p].svc \notin Names
      BY <3>1, MonitorAssumption DEF TypeInv, TypeOK
    <3>3. Shrinks BY <3>2 DEF ProcessesOf, Live
    <3> QED BY <2>2, <2>21, <3>3 DEF Stranger
  <2>22. ~Restart BY DEF Restart, Fault, Supervised
  <2>23. CASE UNCHANGED vars
    BY <2>1, <2>2, <2>23 DEF vars
  <2> QED
    BY <2>3, <2>4, <2>5, <2>6, <2>7, <2>8, <2>9, <2>10, <2>11, <2>12, <2>13, <2>14, <2>15, <2>16,
       <2>17, <2>18, <2>19, <2>20, <2>21, <2>22, <2>23
       DEF Next, Monitor, Eval, Start, Helper, Recover
<1>3. OwnPaths BY OwnSchemesArePaths DEF Supervised
<1> QED BY <1>1, <1>2, <1>3, TypeCorrect, PathsAlways, OwnAlways, PTL DEF Spec

\* The monitor never waits for a request with a process that it has lost: whatever
\* fails while a command is evaluated, a stop can still reach each live process.
THEOREM NothingOrphaned ==
    ASSUME Supervised PROVE Spec => []NoOrphans
<1>1. ProcessInv => NoOrphans
  BY DEF ProcessInv, NoOrphans, Known, Handed, RecoverLabels
<1> QED BY <1>1, ProcessesAlways, PTL

\* Only start() and recover() spawn.
LEMMA WhoSpawns ==
    ASSUME [Next]_vars, pc' # pc, pc' \in {"sopen", "ropen"}
    PROVE  (StartSpawn /\ pc' = "sopen") \/ (RecoverSpawn /\ pc' = "ropen")
<1> USE DEF Goto, Respond, Call, StartReturns, HelperReturns, Panic
<1>1. CASE Boot BY <1>1 DEF Boot, BootNext, BootDone
<1>2. CASE Receive BY <1>2 DEF Receive
<1>3. CASE Eval
  BY <1>3 DEF Eval, EvalStart, EvalStopOrClear, EvalInfo, EvalList, ListNext, ListDone, EvalView,
     EvalUnwrap, EvalAdd, EvalRemove, EvalEdit, StopDone, ClearOrInfoDone, TestDone, ListedOne
<1>4. CASE Start BY <1>4 DEF Start, StartSpawn, StartOpen, StartDup, StartRead
<1>5. CASE Helper
  BY <1>5 DEF Helper, HelperOpen, HelperDup, HelperCloseMain, HelperIO, HelperClose, HelperRetry
<1>6. CASE Recover
  BY <1>6 DEF Recover, RecoverSpawn, RecoverOpen, RecoverDup, RecoverRead, RecoverReopen,
     RecoverRedup, RecoverCloseMain, RecoverReread, RecoverSet
<1>7. CASE Crash \/ Hang \/ Stranger \/ Restart BY <1>7 DEF Crash, Hang, Stranger, Restart
<1>8. CASE UNCHANGED vars BY <1>8 DEF vars
<1> QED BY <1>1, <1>2, <1>3, <1>4, <1>5, <1>6, <1>7, <1>8 DEF Next, Monitor

\* No second process of a service: start() finds none alive, and recover() has killed
\* the one there was, which is the one of the entry.
THEOREM SpawnsFollowDeath ==
    ASSUME Supervised PROVE Spec => SpawnsAfterDeath
<1>1. TypeInv /\ OwnInv /\ ProcessInv /\ [Next]_vars =>
        (pc' # pc /\ pc' \in {"sopen", "ropen"} =>
           \A p \in ProcessesOf(cur) : proc'[p].st = "dead")
  <2> SUFFICES ASSUME TypeInv, OwnInv, ProcessInv, [Next]_vars, pc' # pc,
                      pc' \in {"sopen", "ropen"}, NEW p \in ProcessesOf(cur)
               PROVE  proc'[p].st = "dead"
    OBVIOUS
  <2>1. (StartSpawn /\ pc' = "sopen") \/ (RecoverSpawn /\ pc' = "ropen") BY WhoSpawns
  <2>2. p \in Pids /\ Live(p) BY DEF ProcessesOf
  <2>3. CASE StartSpawn
    <3>1. pc = "spawn" /\ cur \in Names BY <2>3 DEF StartSpawn, TypeInv, Control, StartLabels
    <3>2. Known(cur, p) /\ ~services[cur].running
      BY <3>1 DEF ProcessInv, OwnInv, Handed, RecoverLabels
    <3> QED BY <3>2 DEF Known
  <2>4. CASE RecoverSpawn /\ pc' = "ropen"
    <3>1. /\ pc = "recover" /\ cur \in Names /\ p = services[cur].pid
          /\ proc \in [Pids -> Process]
      BY <2>4 DEF RecoverSpawn, OwnInv, Sole, InHelper, TypeInv, TypeOK, Control, HelperLabels
    <3>2. PICK q \in Pids : NewPid(q) /\ proc' = Replaced(q) BY <2>4 DEF RecoverSpawn, Goto
    <3>3. q # p BY <2>2, <3>2, NewPids DEF Gone, Live
    <3>4. proc'[p] = Killed(proc, services[cur].pid)[p]
      BY <2>2, <3>1, <3>2, <3>3, KilledType, SpawnedOwners DEF Replaced
    <3> QED BY <2>2, <3>1, <3>4, KilledValues
  <2> QED BY <2>1, <2>3, <2>4
<1>2. OwnPaths BY OwnSchemesArePaths DEF Supervised
<1> QED BY <1>1, <1>2, TypeCorrect, OwnAlways, ProcessesAlways, PTL DEF Spec, SpawnsAfterDeath

-----------------------------------------------------------------------------
(* A restart after a timeout, when no service dies by itself.              *)

\* While recover() is about to use the new process, there is one.
Expecting == {"ropen", "rdup", "rread", "ropen2", "rdup2"}
PanicInv == pc # "panicked" /\ (pc \in Expecting => ProcessesOf(cur) # {})

\* Each command gives the lists that eval_cmd unwraps.
ListsGiven == \A c \in Commands : c.op \in {"add", "edit"} => c.given

\* Only recover() uses the new process, and can panic.
LEMMA WhoExpects ==
    ASSUME [Next]_vars, pc' \in Expecting \cup {"panicked"}
    PROVE  \/ RecoverSpawn \/ RecoverOpen \/ RecoverDup \/ RecoverRead \/ RecoverReopen
           \/ RecoverRedup \/ EvalUnwrap \/ Crash \/ Hang \/ Stranger \/ Restart
           \/ UNCHANGED vars
<1> USE DEF Goto, Respond, Call, StartReturns, HelperReturns, Panic, Expecting
<1>1. CASE Boot BY <1>1 DEF Boot, BootNext, BootDone
<1>2. CASE Receive BY <1>2 DEF Receive
<1>3. CASE Eval
  BY <1>3 DEF Eval, EvalStart, EvalStopOrClear, EvalInfo, EvalList, ListNext, ListDone, EvalView,
     EvalAdd, EvalRemove, EvalEdit, StopDone, ClearOrInfoDone, TestDone, ListedOne
<1>4. CASE Start BY <1>4 DEF Start, StartSpawn, StartOpen, StartDup, StartRead
<1>5. CASE Helper
  BY <1>5 DEF Helper, HelperOpen, HelperDup, HelperCloseMain, HelperIO, HelperClose, HelperRetry
<1>6. CASE Recover
  BY <1>6 DEF Recover, RecoverCloseMain, RecoverReread, RecoverSet
<1> QED BY <1>1, <1>2, <1>3, <1>4, <1>5, <1>6 DEF Next, Monitor

\* The process recover() spawns creates its scheme, for the old one is dead; it answers
\* the open, the dup and the read that are under expect().
THEOREM RecoveryNeverPanics ==
    ASSUME Supervised, ListsGiven, "crash" \notin FaultKinds PROVE Spec => []NoPanic
<1>1. Init => PanicInv
  BY DEF Init, PanicInv, Expecting
<1>2. TypeInv /\ PathInv /\ OwnInv /\ ProcessInv /\ PanicInv /\ [Next]_vars => PanicInv'
  <2> SUFFICES ASSUME TypeInv, PathInv, OwnInv, ProcessInv, PanicInv, [Next]_vars,
                      pc' \in Expecting \cup {"panicked"}
               PROVE  pc' # "panicked" /\ ProcessesOf(cur)' # {}
    BY DEF PanicInv
  <2>1. CASE RecoverSpawn
    BY <2>1, RecoverReplaces DEF Expecting
  <2>2. CASE RecoverOpen
    <3>1. pc = "ropen" /\ ProcessesOf(cur) # {} BY <2>2 DEF RecoverOpen, PanicInv, Expecting
    <3>2. ServerOfCur = ProcessesOf(cur)
      BY <3>1, ServersOfCur DEF Supervised, TypeInv, Control, HelperLabels, RecoverLabels
    <3> QED BY <2>2, <3>1, <3>2 DEF RecoverOpen, Goto, ProcessesOf, Live
  <2>3. CASE RecoverDup \/ RecoverRead \/ RecoverRedup
    <3>1. pc \in {"rdup", "rread", "rdup2"} /\ ProcessesOf(cur) # {}
      BY <2>3 DEF RecoverDup, RecoverRead, RecoverRedup, PanicInv, Expecting
    <3>2. Live(rfd) /\ proc[rfd].svc = cur BY <3>1 DEF OwnInv, Sole, ProcessesOf
    <3>3. cur \in Managed
      BY <3>1 DEF Supervised, TypeInv, Control, HelperLabels, RecoverLabels
    <3>4. pc' # "panicked" /\ UNCHANGED <<proc, cur>>
      BY <2>3, <3>2, <3>3 DEF RecoverDup, RecoverRead, RecoverRedup, Goto, Gone, Live
    <3> QED BY <3>1, <3>4 DEF ProcessesOf, Live
  <2>4. CASE RecoverReopen
    BY <2>4 DEF RecoverReopen, PanicInv, Expecting, Goto, ProcessesOf, Live
  <2>5. CASE Hang \/ Stranger
    <3>1. PICK q \in Pids :
            \/ proc' = [proc EXCEPT ![q].st = "hung"]
            \/ Gone(q) /\ proc' = [proc EXCEPT ![q] = [svc |-> NoName, st |-> "up"]]
      BY <2>5 DEF Hang, Stranger
    <3>2. UNCHANGED <<pc, cur>> BY <2>5 DEF Hang, Stranger
    <3>3. PICK p \in ProcessesOf(cur) : TRUE BY <3>2 DEF PanicInv, Expecting
    <3> DEFINE h == [proc[p] EXCEPT !.st = "hung"]
    <3>4. p \in Pids /\ Live(p) /\ proc[p].svc = cur /\ proc[p] \in Process
      BY <3>3 DEF ProcessesOf, TypeInv, TypeOK
    <3>5. proc'[p] \in {proc[p], h} BY <3>1, <3>4 DEF Gone, Live, TypeInv, TypeOK
    <3>6. h.svc = cur /\ h.st # "dead" BY <3>4, ProcessValues
    <3> HIDE DEF h
    <3>7. p \in ProcessesOf(cur)' BY <3>2, <3>4, <3>5, <3>6 DEF ProcessesOf, Live
    <3> QED BY <3>2, <3>7 DEF PanicInv
  <2>6. CASE UNCHANGED vars
    BY <2>6 DEF vars, PanicInv, ProcessesOf, Live
  <2>7. ~Crash /\ ~Restart /\ ~EvalUnwrap
    BY MonitorAssumption DEF Crash, Restart, Fault, Supervised, EvalUnwrap, ListsGiven, PathInv,
       TypeInv, Control, HelperLabels
  <2> QED BY <2>1, <2>2, <2>3, <2>4, <2>5, <2>6, <2>7, WhoExpects
<1>3. PanicInv => NoPanic BY DEF PanicInv, NoPanic
<1>4. OwnPaths BY OwnSchemesArePaths DEF Supervised
<1> QED BY <1>1, <1>2, <1>3, <1>4, TypeCorrect, PathsAlways, OwnAlways, ProcessesAlways, PTL DEF Spec

-----------------------------------------------------------------------------
(* Answers to the registry commands.                                       *)

\* Which command is evaluated in start(), none at boot, and in the loop of list().
OpInv ==
    /\ pc = "boot" => cmd = NoCmd
    /\ pc \in StartLabels /\ cmd # NoCmd => cmd.op = "start"
    /\ pc = "list" => cmd.op = "list"

\* The two operations on the map do what reading the file again would do.
LEMMA AddedAlike ==
    ASSUME NEW d \in Disk, NEW s \in Services, NEW c \in Command, c.op = "add"
    PROVE  AddHashEntry(s, c)[c.name] = ReadRegistry(AddEntry(d, c))[c.name]
<1>1. c.name \in Names BY CommandName
<1>2. AddedConfig(c) # NoConfig BY AddedConfigType, NoValueAssumption
<1>3. AddEntry(d, c)[c.name] = AddedConfig(c) BY <1>1 DEF AddEntry, Disk
<1> QED BY <1>1, <1>2, <1>3 DEF AddHashEntry, ReadRegistry, Services

LEMMA RemovedAlike ==
    ASSUME NEW d \in Disk, NEW s \in Services, NEW n \in Names
    PROVE  RmHashEntry(s, n)[n] = ReadRegistry(RmEntry(d, n))[n]
BY DEF RmHashEntry, RmEntry, ReadRegistry, Disk, Services

\* An Add or a Remove that is answered ok has changed the file and the map alike.
THEOREM OkIsForBoth == Spec => OkMeansBoth
<1>1. Init => OpInv
  BY DEF Init, OpInv, StartLabels
<1>2. TypeInv /\ OpInv /\ [Next]_vars => OpInv'
  <2> SUFFICES ASSUME TypeInv, OpInv, [Next]_vars PROVE OpInv'
    OBVIOUS
  <2> USE DEF OpInv, StartLabels, Goto, Respond, Call, StartReturns, HelperReturns, Panic
  <2>1. CASE Boot BY <2>1 DEF Boot, BootNext, BootDone
  <2>2. CASE Receive BY <2>2 DEF Receive
  <2>3. CASE Eval
    BY <2>3 DEF Eval, EvalStart, EvalStopOrClear, EvalInfo, EvalList, ListNext, ListDone, EvalView,
       EvalUnwrap, EvalAdd, EvalRemove, EvalEdit, StopDone, ClearOrInfoDone, TestDone, ListedOne
  <2>4. CASE Start BY <2>4 DEF Start, StartSpawn, StartOpen, StartDup, StartRead
  <2>5. CASE Helper
    BY <2>5 DEF Helper, HelperOpen, HelperDup, HelperCloseMain, HelperIO, HelperClose, HelperRetry
  <2>6. CASE Recover
    BY <2>6 DEF Recover, RecoverSpawn, RecoverOpen, RecoverDup, RecoverRead, RecoverReopen,
       RecoverRedup, RecoverCloseMain, RecoverReread, RecoverSet
  <2>7. CASE Crash \/ Hang \/ Stranger \/ Restart BY <2>7 DEF Crash, Hang, Stranger, Restart
  <2>8. CASE UNCHANGED vars BY <2>8 DEF vars
  <2> QED BY <2>1, <2>2, <2>3, <2>4, <2>5, <2>6, <2>7, <2>8 DEF Next, Monitor
<1>3. TypeInv /\ OpInv /\ [Next]_vars =>
        (cmd # NoCmd /\ cmd.op \in {"add", "remove"} /\ cmd' = NoCmd /\ reply' = "ok" =>
           services'[cmd.name] = ReadRegistry(disk')[cmd.name])
  <2> SUFFICES ASSUME TypeInv, OpInv, [Next]_vars, cmd # NoCmd, cmd.op \in {"add", "remove"},
                      cmd' = NoCmd, reply' = "ok"
               PROVE  services'[cmd.name] = ReadRegistry(disk')[cmd.name]
    OBVIOUS
  <2>1. cmd \in Command /\ disk \in Disk /\ services \in Services
    BY DEF TypeInv, TypeOK
  <2>2. cmd.name \in Names BY <2>1, CommandName
  <2>3. CASE EvalAdd
    BY <2>1, <2>3, AddedAlike DEF EvalAdd, Respond
  <2>4. CASE EvalRemove
    <3>1. RmEntryOk(disk, cmd.name) /\ disk' = RmEntry(disk, cmd.name)
          /\ services' = RmHashEntry(services, cmd.name)
      BY <2>4 DEF EvalRemove, Respond
    <3> QED BY <2>1, <2>2, <3>1, RemovedAlike
  <2>5. EvalAdd \/ EvalRemove
    <3> USE DEF Goto, Respond, Call, StartReturns, HelperReturns, Panic
    <3>1. ~Boot BY DEF Boot, BootNext, BootDone
    <3>2. ~Receive BY MonitorAssumption DEF Receive
    <3>3. CASE Eval
      BY <3>3 DEF Eval, EvalStart, EvalStopOrClear, EvalInfo, EvalList, ListNext, ListDone, EvalView,
         EvalUnwrap, EvalEdit, StopDone, ClearOrInfoDone, TestDone, ListedOne, OpInv
    <3>4. ~Start BY DEF Start, StartSpawn, StartOpen, StartDup, StartRead, OpInv, StartLabels
    <3>5. ~Helper
      BY DEF Helper, HelperOpen, HelperDup, HelperCloseMain, HelperIO, HelperClose, HelperRetry
    <3>6. ~Recover
      BY DEF Recover, RecoverSpawn, RecoverOpen, RecoverDup, RecoverRead, RecoverReopen,
         RecoverRedup, RecoverCloseMain, RecoverReread, RecoverSet
    <3>7. ~(Crash \/ Hang \/ Stranger \/ Restart) BY DEF Crash, Hang, Stranger, Restart
    <3>8. ~UNCHANGED vars BY DEF vars
    <3> QED BY <3>1, <3>2, <3>3, <3>4, <3>5, <3>6, <3>7, <3>8 DEF Next, Monitor
  <2> QED BY <2>3, <2>4, <2>5
<1> QED BY <1>1, <1>2, <1>3, TypeCorrect, PTL DEF Spec, OkMeansBoth
=============================================================================
