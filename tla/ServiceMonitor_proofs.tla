------------------------ MODULE ServiceMonitor_proofs ------------------------
(***************************************************************************)
(* Theorems about ServiceMonitor, for every set of services, commands and  *)
(* processes and every number of faults.                                   *)
(***************************************************************************)
EXTENDS ServiceMonitor, SequenceTheorems, TLAPS

-----------------------------------------------------------------------------
(* Commands, configurations and the tables they change.                    *)

\* A command that names a service names one of Names.
LEMMA CommandName ==
    ASSUME NEW c \in Command, c.op # "list" PROVE c.name \in Names
BY DEF Command

\* What a registry command describes is a configuration.
LEMMA AddedConfigType ==
    ASSUME NEW c \in Command, c.op = "add" PROVE AddedConfig(c) \in Config
BY DEF Command, AddedConfig, Config

LEMMA EditedConfigType ==
    ASSUME NEW c \in Command, c.op = "edit", NEW old \in Config
    PROVE  EditedConfig(old, c) \in Config
BY RegistryAssumption DEF Command, EditedConfig, Config

\* Reading the file gives a map of fresh entries.
LEMMA ReadRegistryType ==
    ASSUME NEW d \in Disk PROVE ReadRegistry(d) \in Services
BY DEF ReadRegistry, Disk, Services, FreshEntry, ServiceEntry

\* ... with an entry for exactly the services in the file.
LEMMA ReadRegistryNames ==
    ASSUME NEW d \in Disk, NEW n \in Names
    PROVE  ReadRegistry(d)[n] = NoEntry <=> d[n] = NoConfig
<1>1. d[n] # NoConfig => FreshEntry(d[n]) \in ServiceEntry
  BY DEF Disk, FreshEntry, ServiceEntry
<1> QED BY <1>1, NoValueAssumption DEF ReadRegistry

\* The file and the map stay well-typed under the operations on them.
LEMMA RegistryTypes ==
    ASSUME NEW d \in Disk, NEW s \in Services, NEW c \in Command
    PROVE  /\ c.op = "add" => AddEntry(d, c) \in Disk /\ AddHashEntry(s, c) \in Services
           /\ c.op = "remove" => RmEntry(d, c.name) \in Disk /\ RmHashEntry(s, c.name) \in Services
           /\ c.op = "edit" /\ d[c.name] # NoConfig => EditEntry(d, c) \in Disk
           /\ c.op = "edit" /\ s[c.name] # NoEntry => EditHashEntry(s, c) \in Services
<1>1. c.op = "add" => AddEntry(d, c) \in Disk /\ AddHashEntry(s, c) \in Services
  <2> SUFFICES ASSUME c.op = "add"
               PROVE  AddEntry(d, c) \in Disk /\ AddHashEntry(s, c) \in Services
    OBVIOUS
  <2>1. AddedConfig(c) \in Config BY AddedConfigType
  <2>2. FreshEntry(AddedConfig(c)) \in ServiceEntry
    BY <2>1 DEF FreshEntry, ServiceEntry
  <2> QED BY <2>1, <2>2 DEF AddEntry, AddHashEntry, Disk, Services
<1>2. c.op = "remove" => RmEntry(d, c.name) \in Disk /\ RmHashEntry(s, c.name) \in Services
  BY DEF RmEntry, RmHashEntry, Disk, Services
<1>3. c.op = "edit" /\ d[c.name] # NoConfig => EditEntry(d, c) \in Disk
  <2> SUFFICES ASSUME c.op = "edit", d[c.name] # NoConfig PROVE EditEntry(d, c) \in Disk
    OBVIOUS
  <2>1. d[c.name] \in Config BY CommandName DEF Disk
  <2>2. EditedConfig(d[c.name], c) \in Config BY <2>1, EditedConfigType
  <2> QED BY <2>2 DEF EditEntry, Disk
<1>4. c.op = "edit" /\ s[c.name] # NoEntry => EditHashEntry(s, c) \in Services
  <2> SUFFICES ASSUME c.op = "edit", s[c.name] # NoEntry PROVE EditHashEntry(s, c) \in Services
    OBVIOUS
  <2>1. s[c.name] \in ServiceEntry BY CommandName DEF Services
  <2>2. s[c.name].config \in Config BY <2>1 DEF ServiceEntry
  <2>3. EditedConfig(s[c.name].config, c) \in Config BY <2>2, EditedConfigType
  <2> QED BY <2>1, <2>3 DEF EditHashEntry, Services, ServiceEntry
<1> QED BY <1>1, <1>2, <1>3, <1>4

-----------------------------------------------------------------------------
(* Every variable keeps its type, and the control state means what it says. *)

\* The process table keeps its type when a process is killed or spawned.
LEMMA KilledType ==
    ASSUME NEW table \in [Pids -> Process], NEW q PROVE Killed(table, q) \in [Pids -> Process]
BY DEF Killed, Process

LEMMA SpawnedType ==
    ASSUME NEW table \in [Pids -> Process], NEW n \in Names, NEW p \in Pids
    PROVE  Spawned(table, p, n) \in [Pids -> Process]
BY DEF Spawned, Process

\* The pid of a new process is that of no process, and no open descriptor stands for it.
LEMMA NewPids ==
    ASSUME TypeInv, NEW p \in Pids, NewPid(p)
    PROVE  Gone(p) /\ p # fd /\ p # rfd /\ faults' \in 0..MaxFaults
BY MonitorAssumption DEF NewPid, FreePids, Fault, TypeInv, TypeOK

\* Whatever serves the current path is a process that is there.
LEMMA Servers ==
    ASSUME NEW p \in ServerOfCur PROVE p \in Pids /\ Live(p)
BY DEF ServerOfCur, Serving, ProcessesOf

\* Changing a field of an entry or of a process gives an entry or a process.
LEMMA FieldTypes ==
    /\ \A e \in ServiceEntry, b \in BOOLEAN, i \in Nat :
         /\ [e EXCEPT !.running = b] \in ServiceEntry
         /\ [e EXCEPT !.pid = i, !.running = b] \in ServiceEntry
    /\ \A p \in Process, st \in {"dead", "up", "armed", "hung"} :
         [p EXCEPT !.st = st] \in Process
<1>1. ASSUME NEW e \in ServiceEntry, NEW b \in BOOLEAN, NEW i \in Nat
      PROVE  /\ [e EXCEPT !.running = b] \in ServiceEntry
             /\ [e EXCEPT !.pid = i, !.running = b] \in ServiceEntry
  BY DEF ServiceEntry
<1>2. ASSUME NEW p \in Process, NEW st \in {"dead", "up", "armed", "hung"}
      PROVE  [p EXCEPT !.st = st] \in Process
  BY DEF Process
<1> QED BY <1>1, <1>2

\* The lists of helper calls, and what is left of one after a call.
LEMMA CallTypes ==
    /\ UpdateCalls \in Seq(CallNames) /\ UpdateCalls # <<>>
    /\ ClearCalls \in Seq(CallNames) /\ ClearCalls # <<>>
    /\ TimeoutCalls \in Seq(CallNames) /\ TimeoutCalls # <<>>
    /\ \A list \in Seq(CallNames) : list # <<>> =>
         /\ Tail(list) \in Seq(CallNames)
         /\ Len(list) # 1 => Tail(list) # <<>>
<1>1. UpdateCalls \in Seq(CallNames) /\ UpdateCalls # <<>>
  BY DEF UpdateCalls, CallNames
<1>2. ClearCalls \in Seq(CallNames) /\ ClearCalls # <<>>
  BY DEF ClearCalls, CallNames
<1>3. TimeoutCalls \in Seq(CallNames) /\ TimeoutCalls # <<>>
  BY DEF TimeoutCalls, CallNames, MainCalls
<1>4. ASSUME NEW list \in Seq(CallNames), list # <<>>
      PROVE  Tail(list) \in Seq(CallNames) /\ (Len(list) # 1 => Tail(list) # <<>>)
  <2>1. Len(list) \in Nat \ {0} BY <1>4, EmptySeq
  <2>2. Len(Tail(list)) = Len(list) - 1 /\ Tail(list) \in Seq(CallNames)
    BY <1>4, HeadTailProperties
  <2>3. Tail(list) = <<>> => Len(Tail(list)) = 0 BY EmptySeq
  <2> QED BY <2>1, <2>2, <2>3
<1> QED BY <1>1, <1>2, <1>3, <1>4

\* The types of all variables, on every reachable state.
THEOREM TypeCorrect == Spec => []TypeInv
<1>1. Init => TypeInv
  BY ReadRegistryType, MonitorAssumption, EmptySeq DEF Init, TypeInv, TypeOK, Control, StartLabels, HelperLabels, RecoverLabels, Labels, Process, Registered, Disk
<1>2. TypeInv /\ [Next]_vars => TypeInv'
  <2> SUFFICES ASSUME TypeInv, [Next]_vars PROVE TypeInv'
    OBVIOUS
  <2> USE MonitorAssumption DEF TypeInv, TypeOK, Control, Goto, Respond, StartLabels, HelperLabels, RecoverLabels, Labels
  <2>1. CASE BootNext
    BY <2>1 DEF BootNext, Registered
  <2>2. CASE BootDone
    BY <2>2 DEF BootDone
  <2>3. CASE Receive
    BY <2>3 DEF Receive, Registered
  <2>4. CASE EvalStart
    BY <2>4, CommandName, CallTypes DEF EvalStart, StartReturns, Call, Registered
  <2>5. CASE EvalStopOrClear
    BY <2>5, CommandName, CallTypes DEF EvalStopOrClear, Call, Registered
  <2>6. CASE EvalInfo
    BY <2>6, CommandName, CallTypes DEF EvalInfo, Call, Registered
  <2>7. CASE EvalList
    BY <2>7 DEF EvalList, Registered
  <2>8. CASE ListNext
    BY <2>8, CallTypes DEF ListNext, Call, Registered
  <2>9. CASE ListDone
    BY <2>9 DEF ListDone
  <2>10. CASE EvalView
    BY <2>10 DEF EvalView
  <2>11. CASE EvalAdd
    BY <2>11, RegistryTypes DEF EvalAdd
  <2>12. CASE EvalRemove
    BY <2>12, RegistryTypes DEF EvalRemove
  <2>13. CASE EvalEdit
    BY <2>13, RegistryTypes DEF EvalEdit, EditEntryOk, EditHashEntryOk
  <2>14. CASE StopDone
    <3>1. cur \in Names BY <2>14 DEF StopDone
    <3>2. proc' \in [Pids -> Process]
      BY <2>14, <3>1, KilledType DEF StopDone
    <3>3. services' \in Services
      BY <2>14, <3>1, ReadRegistryType DEF StopDone, AfterStop, Services
    <3> QED BY <2>14, <3>2, <3>3 DEF StopDone
  <2>15. CASE ClearOrInfoDone
    BY <2>15 DEF ClearOrInfoDone
  <2>16. CASE TestDone
    BY <2>16 DEF TestDone
  <2>17. CASE ListedOne
    BY <2>17 DEF ListedOne, Registered
  <2>18. CASE StartSpawn
    <3>1. cur \in Names BY <2>18 DEF StartSpawn
    <3>2. proc' \in [Pids -> Process] /\ faults' \in 0..MaxFaults
      <4>1. CASE \E p \in Pids : NewPid(p) /\ proc' = Spawned(proc, p, cur)
        BY <3>1, <4>1, NewPids, SpawnedType
      <4>2. CASE UNCHANGED proc /\ (UNCHANGED faults \/ Fault("spawn"))
        BY <4>2 DEF Fault
      <4> QED BY <2>18, <4>1, <4>2 DEF StartSpawn
    <3> QED BY <2>18, <3>2 DEF StartSpawn, StartReturns, Registered
  <2>19. CASE StartOpen
    BY <2>19, Servers DEF StartOpen, StartReturns, Registered
  <2>20. CASE StartDup
    BY <2>20 DEF StartDup, StartReturns, Registered
  <2>21. CASE StartRead
    <3>1. cur \in Names /\ services[cur] \in ServiceEntry BY <2>21 DEF StartRead, Services
    <3>2. rfd \in Nat BY <2>21 DEF StartRead
    <3>3. [services[cur] EXCEPT !.pid = rfd, !.running = TRUE] \in ServiceEntry
      BY <3>1, <3>2, FieldTypes
    <3>4. /\ services' \in Services
          /\ \A m \in Names : services[m] # NoEntry => services'[m] # NoEntry
      BY ZenonT(40), <2>21, <3>1, <3>3, NoValueAssumption DEF StartRead, Services
    <3> QED BY <2>21, <3>4 DEF StartRead, StartReturns, Registered
  <2>22. CASE HelperOpen
    BY <2>22, Servers DEF HelperOpen, Registered
  <2>23. CASE HelperDup
    BY <2>23, CallTypes DEF HelperDup, HelperReturns, Registered
  <2>24. CASE HelperCloseMain
    BY <2>24 DEF HelperCloseMain, Registered
  <2>25. CASE HelperIO
    <3>1. fd \in Pids /\ proc[fd] \in Process BY <2>25 DEF HelperIO
    <3>2. proc[fd].st \in {"dead", "up", "armed", "hung"} BY <3>1 DEF Process
    <3>3. \A st \in {"dead", "up", "armed", "hung"} : [proc EXCEPT ![fd].st = st] \in [Pids -> Process]
      BY <3>1, FieldTypes DEF TypeInv, TypeOK
    <3>4. UNCHANGED proc \/ \E st \in {"dead", "up", "armed", "hung"} : proc' = [proc EXCEPT ![fd].st = st]
      BY <2>25, <3>2 DEF HelperIO
    <3>5. proc' \in [Pids -> Process]
      <4>1. proc \in [Pids -> Process] OBVIOUS
      <4> QED BY ONLY <3>3, <3>4, <4>1
    <3> QED BY <2>25, <3>1, <3>5 DEF HelperIO, Fault, Registered
  <2>26. CASE HelperClose
    BY <2>26, CallTypes DEF HelperClose, HelperReturns, Registered
  <2>27. CASE HelperRetry
    BY <2>27 DEF HelperRetry, Registered
  <2>28. CASE RecoverSpawn
    <3>1. cur \in Names /\ services[cur] \in ServiceEntry BY <2>28 DEF RecoverSpawn, Services
    <3>2. [services[cur] EXCEPT !.running = FALSE] \in ServiceEntry BY <3>1, FieldTypes
    <3>3. /\ services' \in Services
          /\ \A m \in Names : services[m] # NoEntry => services'[m] # NoEntry
      BY <2>28, <3>1, <3>2, NoValueAssumption DEF RecoverSpawn, Services
    <3>4. proc' \in [Pids -> Process] /\ faults' \in 0..MaxFaults
      <4>1. CASE /\ proc' = Killed(proc, services[cur].pid)
                 /\ UNCHANGED faults \/ Fault("spawn")
        BY <4>1, KilledType DEF Fault
      <4>2. CASE \E p \in Pids : NewPid(p) /\ proc' = Replaced(p)
        <5>1. PICK p \in Pids : NewPid(p) /\ proc' = Replaced(p) BY <4>2
        <5>2. Killed(proc, services[cur].pid) \in [Pids -> Process] BY KilledType
        <5> QED BY <3>1, <5>1, <5>2, NewPids, SpawnedType DEF Replaced
      <4> QED BY <2>28, <4>1, <4>2 DEF RecoverSpawn
    <3> QED BY <2>28, <3>1, <3>3, <3>4 DEF RecoverSpawn, Registered
  <2>29. CASE RecoverOpen
    BY <2>29, Servers DEF RecoverOpen, Panic, Registered
  <2>30. CASE RecoverDup
    BY <2>30 DEF RecoverDup, Panic, Registered
  <2>31. CASE RecoverRead
    BY <2>31 DEF RecoverRead, Panic, Registered
  <2>32. CASE RecoverReopen
    BY <2>32, Servers DEF RecoverReopen, Registered
  <2>33. CASE RecoverRedup
    BY <2>33 DEF RecoverRedup, Panic, Registered
  <2>34. CASE RecoverCloseMain
    BY <2>34 DEF RecoverCloseMain, Registered
  <2>35. CASE RecoverReread
    BY <2>35, KilledType DEF RecoverReread, FailedRead, Fault, Registered
  <2>36. CASE RecoverSet
    <3>1. cur \in Names /\ services[cur] \in ServiceEntry BY <2>36 DEF RecoverSet, Services
    <3>2. buf \in Nat OBVIOUS
    <3>3. Recovered(services[cur]) \in ServiceEntry BY <3>1, <3>2, FieldTypes DEF Recovered
    <3>4. /\ services' \in Services
          /\ \A m \in Names : services[m] # NoEntry => services'[m] # NoEntry
      BY <2>36, <3>1, <3>3, NoValueAssumption DEF RecoverSet, Services
    <3> QED BY <2>36, <3>4 DEF RecoverSet, Registered
  <2>37. CASE Crash
    <3>1. PICK p \in Pids : proc' = [proc EXCEPT ![p].st = "dead"] BY <2>37 DEF Crash
    <3>2. [proc[p] EXCEPT !.st = "dead"] \in Process BY FieldTypes
    <3>3. proc' \in [Pids -> Process] BY <3>1, <3>2
    <3> QED BY <2>37, <3>3 DEF Crash, Fault, Registered
  <2>38. CASE Hang
    <3>1. PICK p \in Pids : proc' = [proc EXCEPT ![p].st = "hung"] BY <2>38 DEF Hang
    <3>2. [proc[p] EXCEPT !.st = "hung"] \in Process BY FieldTypes
    <3>3. proc' \in [Pids -> Process] BY <3>1, <3>2
    <3> QED BY <2>38, <3>3 DEF Hang, Fault, Registered
  <2>39. CASE Restart
    BY <2>39, ReadRegistryType, ReadRegistryNames DEF Restart, Fault, Registered
  <2>40. CASE UNCHANGED vars
    BY <2>40 DEF vars, Registered
  <2>41. CASE EvalUnwrap
    BY <2>41 DEF EvalUnwrap
  <2>42. CASE Stranger
    <3>1. PICK p \in Pids : /\ proc' = [proc EXCEPT ![p] = [svc |-> NoName, st |-> "up"]]
                            /\ fd' = IF p = fd THEN 0 ELSE fd
                            /\ p = fd => pc \notin {"dup", "closemain", "io", "close"}
      BY <2>42 DEF Stranger
    <3>2. proc' \in [Pids -> Process] /\ fd' \in Pids \cup {0} BY <3>1 DEF Process
    <3> QED BY <2>42, <3>1, <3>2 DEF Stranger, Fault, Registered
  <2> QED
    BY <2>1, <2>2, <2>3, <2>4, <2>5, <2>6, <2>7, <2>8, <2>9, <2>10, <2>11, <2>12, <2>13, <2>14, <2>15, <2>16, <2>17, <2>18, <2>19, <2>20, <2>21, <2>22, <2>23, <2>24, <2>25, <2>26, <2>27, <2>28, <2>29, <2>30, <2>31, <2>32, <2>33, <2>34, <2>35, <2>36, <2>37, <2>38, <2>39, <2>40, <2>41, <2>42
       DEF Next, Monitor, Boot, Eval, Start, Helper, Recover
<1> QED BY <1>1, <1>2, PTL DEF Spec

-----------------------------------------------------------------------------
(* Whose process a pid is.                                                 *)

\* Each service is registered, added and edited with the path of its own scheme, and
\* no two services have the same.
OwnPaths ==
    /\ \A n \in Names : Registry0[n] # NoConfig => Registry0[n].path \in {NoPath, SchemeOf[n]}
    /\ \A c \in Commands : c.op \in {"add", "edit"} => c.path \in {NoPath, SchemeOf[c.name]}
    /\ \A m, n \in Names : SchemeOf[m] = SchemeOf[n] => m = n

PathsOwn ==
    \A n \in Names :
        /\ disk[n] # NoConfig => disk[n].path \in {NoPath, SchemeOf[n]}
        /\ services[n] # NoEntry => services[n].config.path \in {NoPath, SchemeOf[n]}

PathInv == cmd \in Commands \cup {NoCmd} /\ PathsOwn

\* A process that serves the path of the current service is one of that service.
LEMMA ServerIsOwn ==
    ASSUME OwnPaths, TypeInv, PathInv, cur \in Names, services[cur] # NoEntry,
           NEW p \in ServerOfCur
    PROVE  p \in ProcessesOf(cur)
BY RegistryAssumption DEF OwnPaths, PathInv, PathsOwn, ServerOfCur, Serving

\* Killing changes no owner; spawning changes that of the new process only.
LEMMA KilledOwners ==
    ASSUME NEW table \in [Pids -> Process], NEW q, NEW r \in Pids
    PROVE  /\ Killed(table, q)[r].svc = table[r].svc
           /\ Killed(table, q)[r].st # "dead" => table[r].st # "dead"
BY DEF Killed, Process

LEMMA SpawnedOwners ==
    ASSUME NEW table \in [Pids -> Process], NEW p \in Pids, NEW n \in Names
    PROVE  /\ \A r \in Pids : r # p => Spawned(table, p, n)[r] = table[r]
           /\ Spawned(table, p, n)[p].svc = n
BY DEF Spawned, Process

\* A process that is killed is dead, and the others are as they were.
LEMMA KilledValues ==
    ASSUME NEW table \in [Pids -> Process], NEW q, NEW r \in Pids
    PROVE  /\ r # q => Killed(table, q)[r] = table[r]
           /\ r = q => Killed(table, q)[r].st = "dead"
BY DEF Killed, Process

\* A process that is spawned is up when its service has no other.
LEMMA SpawnedUp ==
    ASSUME NEW table \in [Pids -> Process], NEW p \in Pids, NEW n \in Names,
           \A q \in Pids : table[q].st # "dead" => table[q].svc # n
    PROVE  Spawned(table, p, n)[p].st = "up"
BY DEF Spawned, Process

\* Changing a field leaves the others alone.
LEMMA FieldValues ==
    ASSUME NEW e \in ServiceEntry, NEW b \in BOOLEAN, NEW i \in Nat
    PROVE  /\ [e EXCEPT !.running = b] \in ServiceEntry
           /\ [e EXCEPT !.running = b].config = e.config
           /\ [e EXCEPT !.running = b].pid = e.pid
           /\ [e EXCEPT !.running = b].running = b
           /\ [e EXCEPT !.pid = i, !.running = b] \in ServiceEntry
           /\ [e EXCEPT !.pid = i, !.running = b].config = e.config
           /\ [e EXCEPT !.pid = i, !.running = b].pid = i
           /\ [e EXCEPT !.pid = i, !.running = b].running = b
BY DEF ServiceEntry

LEMMA ConfigValues ==
    ASSUME NEW e \in ServiceEntry, NEW c \in Config
    PROVE  /\ [e EXCEPT !.config = c] \in ServiceEntry
           /\ [e EXCEPT !.config = c].config = c
           /\ [e EXCEPT !.config = c].pid = e.pid
           /\ [e EXCEPT !.config = c].running = e.running
BY DEF ServiceEntry

LEMMA ProcessValues ==
    ASSUME NEW p \in Process, NEW st \in {"dead", "up", "armed", "hung"}
    PROVE  /\ [p EXCEPT !.st = st] \in Process
           /\ [p EXCEPT !.st = st].svc = p.svc
           /\ [p EXCEPT !.st = st].st = st
BY DEF Process

\* An entry read from the file has no process yet, and the path in the file.
LEMMA FreshEntries ==
    ASSUME TypeInv, NEW n \in Names, ReadRegistry(disk)[n] # NoEntry
    PROVE  /\ disk[n] # NoConfig
           /\ ReadRegistry(disk)[n].pid = 0
           /\ ReadRegistry(disk)[n].running = FALSE
           /\ ReadRegistry(disk)[n].config = disk[n]
BY DEF ReadRegistry, FreshEntry

\* Every entry of the map is an old one with its configuration.
ConfigsKept ==
    \A n \in Names : services'[n] # NoEntry =>
        services[n] # NoEntry /\ services'[n].config = services[n].config

LEMMA PathsKept ==
    ASSUME PathInv, UNCHANGED disk, cmd' \in {cmd, NoCmd}, ConfigsKept PROVE PathInv'
BY DEF PathInv, PathsOwn, ConfigsKept

\* The paths in the file and in the map stay those of the services' own schemes.
LEMMA PathsAlways ==
    ASSUME OwnPaths PROVE Spec => []PathInv
<1>1. Init => PathInv
  BY OwnPaths, MonitorAssumption DEF Init, PathInv, PathsOwn, OwnPaths, ReadRegistry, FreshEntry, Disk
<1>2. TypeInv /\ PathInv /\ [Next]_vars => PathInv'
  <2> SUFFICES ASSUME TypeInv, PathInv, [Next]_vars PROVE PathInv'
    OBVIOUS
  <2> USE DEF Goto, Respond
  <2>1. CASE UNCHANGED <<disk, services>> /\ cmd' \in {cmd, NoCmd}
    BY <2>1, PathsKept DEF ConfigsKept
  <2>2. CASE Boot
    BY <2>1, <2>2 DEF Boot, BootNext, BootDone
  <2>3. CASE Receive
    BY <2>3 DEF Receive, PathInv, PathsOwn
  <2>4. CASE EvalStart \/ EvalStopOrClear \/ EvalInfo \/ EvalList \/ ListNext \/ ListDone
               \/ EvalView \/ EvalUnwrap
    BY <2>1, <2>4
       DEF EvalStart, EvalStopOrClear, EvalInfo, EvalList, ListNext, ListDone, EvalView, EvalUnwrap,
           Call, StartReturns
  <2>5. CASE EvalAdd
    <3>1. /\ cmd.name \in Names
          /\ AddedConfig(cmd).path \in {NoPath, SchemeOf[cmd.name]}
          /\ FreshEntry(AddedConfig(cmd)).config = AddedConfig(cmd)
      BY <2>5, CommandName, MonitorAssumption
         DEF EvalAdd, AddedConfig, FreshEntry, OwnPaths, PathInv, TypeInv, TypeOK, Control
    <3>2. \A n \in Names : disk'[n] = IF n = cmd.name THEN AddedConfig(cmd) ELSE disk[n]
      BY <2>5 DEF EvalAdd, AddEntry, Disk, TypeInv, TypeOK
    <3>3. \A n \in Names : services'[n] = services[n]
                           \/ (n = cmd.name /\ services'[n] = FreshEntry(AddedConfig(cmd)))
      BY <2>5, <3>1 DEF EvalAdd, AddHashEntry, Services, TypeInv, TypeOK
    <3> QED BY <2>5, <3>1, <3>2, <3>3 DEF EvalAdd, PathInv, PathsOwn
  <2>6. CASE EvalRemove
    <3>1. \A n \in Names : /\ disk'[n] \in {disk[n], NoConfig}
                           /\ services'[n] \in {services[n], NoEntry}
      BY <2>6 DEF EvalRemove, RmEntry, RmHashEntry, Disk, Services, TypeInv, TypeOK
    <3> QED BY <2>6, <3>1 DEF EvalRemove, PathInv, PathsOwn
  <2>7. CASE EvalEdit
    <3> USE MonitorAssumption DEF TypeInv, TypeOK, Control, PathInv, PathsOwn
    <3>1. cmd.name \in Names BY <2>7, CommandName DEF EvalEdit
    <3>2. \A old \in Config : old.path \in {NoPath, SchemeOf[cmd.name]} =>
            EditedConfig(old, cmd).path \in {NoPath, SchemeOf[cmd.name]}
      BY <2>7 DEF EvalEdit, EditedConfig, OwnPaths
    <3>3. \A n \in Names : disk'[n] # NoConfig => disk'[n].path \in {NoPath, SchemeOf[n]}
      BY <2>7, <3>1, <3>2 DEF EvalEdit, EditEntryOk, EditEntry, Disk
    <3>4. \A n \in Names : services'[n] # NoEntry =>
            services'[n].config.path \in {NoPath, SchemeOf[n]}
      <4>1. CASE UNCHANGED services BY <4>1
      <4>2. CASE EditHashEntryOk(services, cmd.name) /\ services' = EditHashEntry(services, cmd)
        <5> DEFINE c == EditedConfig(services[cmd.name].config, cmd)
        <5>1. services[cmd.name] \in ServiceEntry BY <3>1, <4>2 DEF EditHashEntryOk, Services
        <5>2. services[cmd.name].config \in Config /\ c \in Config
          BY <2>7, <5>1, EditedConfigType DEF EvalEdit, ServiceEntry
        <5>3. [services[cmd.name] EXCEPT !.config = c].config = c
          BY <5>1, <5>2, ConfigValues
        <5>4. services[cmd.name].config.path \in {NoPath, SchemeOf[cmd.name]}
          BY <3>1, <4>2 DEF EditHashEntryOk
        <5>5. c.path \in {NoPath, SchemeOf[cmd.name]} BY <3>2, <5>2, <5>4
        <5>6. \A n \in Names : services'[n] = IF n = cmd.name
                THEN [services[cmd.name] EXCEPT !.config = c] ELSE services[n]
          BY <4>2 DEF EditHashEntry, Services
        <5> QED BY <3>1, <5>3, <5>5, <5>6
      <4> QED BY <2>7, <4>1, <4>2 DEF EvalEdit
    <3> QED BY <2>7, <3>3, <3>4 DEF EvalEdit
  <2>8. CASE StopDone
    <3>1. cur \in Names BY <2>8 DEF StopDone, TypeInv, Control
    <3>2. \A n \in Names : services'[n] = services[n] \/ services'[n] = ReadRegistry(disk)[n]
      BY <2>8, <3>1 DEF StopDone, AfterStop, Services, TypeInv, TypeOK
    <3> QED BY <2>8, <3>2, FreshEntries DEF StopDone, PathInv, PathsOwn
  <2>9. CASE ClearOrInfoDone \/ TestDone \/ ListedOne
    BY <2>1, <2>9 DEF ClearOrInfoDone, TestDone, ListedOne
  <2>10. CASE StartSpawn \/ StartOpen \/ StartDup
    BY <2>1, <2>10 DEF StartSpawn, StartOpen, StartDup, StartReturns
  <2>11. CASE StartRead
    <3>1. CASE UNCHANGED services BY <2>1, <2>11, <3>1 DEF StartRead, StartReturns
    <3>2. CASE services' = [services EXCEPT ![cur].pid = rfd, ![cur].running = TRUE]
      <4> DEFINE e == [services[cur] EXCEPT !.pid = rfd, !.running = TRUE]
      <4>1. cur \in Names /\ services[cur] # NoEntry /\ services[cur] \in ServiceEntry /\ rfd \in Nat
        BY <2>11, MonitorAssumption DEF StartRead, TypeInv, TypeOK, Control, StartLabels, Services
      <4>2. e.config = services[cur].config BY ONLY <4>1 DEF ServiceEntry
      <4>3. \A n \in Names : services'[n] = services[n] \/ (n = cur /\ services'[n] = e)
        BY <3>2, <4>1 DEF Services, TypeInv, TypeOK
      <4>4. ConfigsKept BY <4>1, <4>2, <4>3 DEF ConfigsKept
      <4> QED BY <2>11, <4>4, PathsKept DEF StartRead, StartReturns
    <3> QED BY <2>11, <3>1, <3>2 DEF StartRead
  <2>12. CASE Helper
    BY <2>1, <2>12
       DEF Helper, HelperOpen, HelperDup, HelperCloseMain, HelperIO, HelperClose, HelperRetry,
           HelperReturns
  <2>13. CASE RecoverSpawn \/ RecoverSet
    <3>1. cur \in Names /\ services[cur] # NoEntry /\ services[cur] \in ServiceEntry /\ buf \in Nat
      BY <2>13, MonitorAssumption
         DEF RecoverSpawn, RecoverSet, TypeInv, TypeOK, Control, HelperLabels, RecoverLabels, Services
    <3> DEFINE stopped == [services[cur] EXCEPT !.running = FALSE]
               started == [services[cur] EXCEPT !.pid = buf, !.running = TRUE]
    <3>2. stopped.config = services[cur].config /\ started.config = services[cur].config
      BY <3>1, FieldValues
    <3>3. \A n \in Names : services'[n] = services[n] \/ (n = cur /\ services'[n] \in {stopped, started})
      BY <2>13, <3>1 DEF RecoverSpawn, RecoverSet, Recovered, Services, TypeInv, TypeOK
    <3>4. ConfigsKept BY <3>1, <3>2, <3>3 DEF ConfigsKept
    <3> QED BY <2>13, <3>4, PathsKept DEF RecoverSpawn, RecoverSet
  <2>14. CASE RecoverOpen \/ RecoverDup \/ RecoverRead \/ RecoverReopen \/ RecoverRedup
                \/ RecoverCloseMain \/ RecoverReread
    BY <2>1, <2>14
       DEF RecoverOpen, RecoverDup, RecoverRead, RecoverReopen, RecoverRedup, RecoverCloseMain,
           RecoverReread, Panic
  <2>15. CASE Crash \/ Hang \/ Stranger
    BY <2>1, <2>15 DEF Crash, Hang, Stranger
  <2>16. CASE Restart
    BY <2>16, FreshEntries DEF Restart, PathInv, PathsOwn
  <2>17. CASE UNCHANGED vars
    BY <2>1, <2>17 DEF vars
  <2> QED
    BY <2>2, <2>3, <2>4, <2>5, <2>6, <2>7, <2>8, <2>9, <2>10, <2>11, <2>12, <2>13, <2>14, <2>15,
       <2>16, <2>17
       DEF Next, Monitor, Eval, Start, Recover
<1> QED BY <1>1, <1>2, TypeCorrect, PTL DEF Spec

-----------------------------------------------------------------------------
(* Which process a service has.                                            *)

\* The steps of a command's helper calls, at which the entry may be not running
\* because its service could not be spawned again.
InHelper == {"open", "dup", "closemain", "io", "close", "retry", "recover", "done"}

\* Service n has no process but p.
Sole(n, p) == \A q \in ProcessesOf(n) : q = p

\* A service never has two processes, and the one it has is the one of its running
\* entry, or the one that the descriptor or the buffer of start() and recover() stands
\* for.  The helper descriptor is always one of the process in the entry.
OwnInv ==
    /\ \A n \in Names : \A p, q \in ProcessesOf(n) : p = q
    /\ \A n \in Names :
         services[n] # NoEntry /\ (services[n].running \/ (n = cur /\ pc \in InHelper)) =>
           Sole(n, services[n].pid)
    /\ pc = "spawn" \/ pc \in RecoverLabels => ~services[cur].running
    /\ pc \in {"sdup", "sread", "rdup", "rread", "rdup2", "rclosemain", "rio"} =>
         Sole(cur, rfd) /\ proc[rfd].svc = cur
    /\ pc \in {"ropen2", "rdup2", "rclosemain", "rio", "rset"} => Sole(cur, buf)
    /\ pc = "boot" => \A n \in visit : ~services[n].running
    /\ pc \in StartLabels /\ cmd = NoCmd => \A n \in visit : n # cur /\ ~services[n].running
    /\ pc \in {"dup", "closemain", "io", "close"} =>
         fd = services[cur].pid /\ proc[fd].svc = cur
    /\ pc \in {"recover", "done"} \cup RecoverLabels => services[cur].pid # 0

\* A step that gives no service a new process.
Shrinks == \A n \in Names : ProcessesOf(n)' \subseteq ProcessesOf(n)

\* No process is spawned, whichever process the step kills or changes the state of.
LEMMA NoNewProcess ==
    ASSUME TypeInv,
           \A p \in Pids : /\ proc'[p].st # "dead" => Live(p)
                           /\ proc'[p].svc = proc[p].svc
    PROVE  Shrinks
BY DEF Shrinks, ProcessesOf, Live

\* A new process is one of its service, and no other service gets one.
LEMMA NewProcess ==
    ASSUME TypeInv, NEW table \in [Pids -> Process], NEW p \in Pids, NEW m \in Names,
           proc' = Spawned(table, p, m),
           \A r \in Pids : /\ table[r].st # "dead" => Live(r)
                           /\ table[r].svc = proc[r].svc
    PROVE  /\ \A n \in Names \ {m} : ProcessesOf(n)' \subseteq ProcessesOf(n)
           /\ \A q \in ProcessesOf(m)' : q = p \/ (table[q].st # "dead" /\ table[q].svc = m)
           /\ (\E q \in Pids : table[q].st # "dead" /\ table[q].svc = m) => p \notin ProcessesOf(m)'
<1>1. /\ \A r \in Pids : r # p => proc'[r] = table[r]
      /\ proc'[p].svc = m
  BY SpawnedOwners
<1>2. (\E q \in Pids : table[q].st # "dead" /\ table[q].svc = m) => proc'[p].st = "dead"
  BY DEF Spawned
<1> QED BY <1>1, <1>2 DEF ProcessesOf, Live

\* A call of a helper, a crash or a hang changes the state of a process, not its owner.
LEMMA StatesOnly ==
    ASSUME TypeInv, HelperIO \/ Crash \/ Hang
    PROVE  \A p \in Pids : /\ proc'[p].st # "dead" => Live(p)
                          /\ proc'[p].svc = proc[p].svc
<1>1. PICK p \in Pids, st \in {"dead", "up", "armed", "hung"} :
        UNCHANGED proc \/ (Live(p) /\ proc' = [proc EXCEPT ![p].st = st])
  <2>1. CASE HelperIO
    <3>1. fd \in Pids /\ proc[fd].st \in {"dead", "up", "armed", "hung"}
      BY <2>1 DEF HelperIO, TypeInv, TypeOK, Control, Process
    <3> QED BY <2>1, <3>1 DEF HelperIO, Answers, Live
  <2>2. CASE Crash \/ Hang BY <2>2 DEF Crash, Hang, Answers, Live
  <2> QED BY <2>1, <2>2
<1> DEFINE h == [proc[p] EXCEPT !.st = st]
<1>2. proc \in [Pids -> Process] /\ proc[p] \in Process BY DEF TypeInv, TypeOK
<1>3. h.svc = proc[p].svc BY <1>2, ProcessValues
<1>4. UNCHANGED proc \/ (Live(p) /\ \A r \in Pids : proc'[r] = IF r = p THEN h ELSE proc[r])
  BY <1>1, <1>2
<1> HIDE DEF h
<1> QED BY <1>3, <1>4 DEF Live

\* recover() leaves its service with the process it spawned and no other, or with none.
LEMMA RecoverReplaces ==
    ASSUME TypeInv, OwnInv, RecoverSpawn
    PROVE  /\ \A n \in Names \ {cur} : ProcessesOf(n)' \subseteq ProcessesOf(n)
           /\ \/ pc' = "ropen" /\ \E p \in Pids : ProcessesOf(cur)' = {p}
              \/ pc' = "retry" /\ ProcessesOf(cur)' = {}
<1> DEFINE table == Killed(proc, services[cur].pid)
<1>1. /\ cur \in Names /\ services[cur] # NoEntry /\ pc = "recover" /\ cur' = cur
      /\ proc \in [Pids -> Process]
  BY DEF RecoverSpawn, TypeInv, TypeOK, Control, HelperLabels
<1>2. /\ table \in [Pids -> Process]
      /\ \A r \in Pids : /\ table[r].st # "dead" => Live(r) /\ r # services[cur].pid
                         /\ table[r].svc = proc[r].svc
  BY <1>1, KilledType, KilledOwners, KilledValues DEF Live
<1>3. \/ proc' = table /\ pc' = "retry"
      \/ pc' = "ropen" /\ \E p \in Pids : proc' = Spawned(table, p, cur)
  BY DEF RecoverSpawn, Replaced, Goto
<1> HIDE DEF table
<1>4. \A r \in Pids : table[r].st # "dead" => table[r].svc # cur
  BY <1>1, <1>2 DEF OwnInv, Sole, InHelper, ProcessesOf
<1>5. CASE proc' = table /\ pc' = "retry"
  BY <1>1, <1>2, <1>4, <1>5 DEF ProcessesOf, Live
<1>6. CASE pc' = "ropen" /\ \E p \in Pids : proc' = Spawned(table, p, cur)
  <2>1. PICK p \in Pids : proc' = Spawned(table, p, cur) BY <1>6
  <2>2. /\ \A r \in Pids : r # p => proc'[r] = table[r]
        /\ proc'[p].svc = cur
    BY <1>1, <1>2, <2>1, SpawnedOwners
  <2>3. proc'[p].st = "up" BY <1>1, <1>2, <1>4, <2>1, SpawnedUp
  <2>4. \A n \in Names \ {cur} : ProcessesOf(n)' \subseteq ProcessesOf(n)
    BY <1>1, <1>2, <2>2 DEF ProcessesOf, Live
  <2>5. ProcessesOf(cur)' = {p} BY <1>1, <1>4, <2>2, <2>3 DEF ProcessesOf, Live
  <2> QED BY <1>6, <2>4, <2>5
<1> QED BY <1>3, <1>5, <1>6

\* What OwnInv says of the processes, at every step of the monitor, the services and
\* the rest of the system, through every fault.
LEMMA OwnAlways ==
    ASSUME OwnPaths PROVE Spec => []OwnInv
<1>1. Init => OwnInv
  <2> SUFFICES ASSUME Init PROVE OwnInv
    OBVIOUS
  <2>1. \A n \in Names : ProcessesOf(n) = {} BY DEF Init, ProcessesOf, Live
  <2>2. \A n \in Names : services[n] # NoEntry => services[n].running = FALSE
    BY DEF Init, ReadRegistry, FreshEntry
  <2> QED BY <2>1, <2>2 DEF Init, OwnInv, Sole, InHelper, StartLabels, RecoverLabels, Registered
<1>2. TypeInv /\ PathInv /\ OwnInv /\ [Next]_vars => OwnInv'
  <2> SUFFICES ASSUME TypeInv, PathInv, OwnInv, [Next]_vars PROVE OwnInv'
    OBVIOUS
  <2>1. UNCHANGED proc => Shrinks BY NoNewProcess DEF Live
  <2> USE DEF OwnInv, Sole, Shrinks, InHelper, Goto, Respond, TypeInv, TypeOK, Control,
        StartLabels, HelperLabels, RecoverLabels
  <2>2. CASE BootNext \/ BootDone
    BY <2>1, <2>2 DEF BootNext, BootDone
  <2>3. CASE Receive
    BY <2>1, <2>3 DEF Receive
  <2>4. CASE EvalStart \/ EvalStopOrClear \/ EvalInfo
    <3>1. cmd \in Command /\ cmd # NoCmd /\ cmd.name \in Names /\ pc = "eval"
      BY <2>4, CommandName, MonitorAssumption DEF EvalStart, EvalStopOrClear, EvalInfo
    <3>2. UNCHANGED <<services, proc, visit, fd, rfd, buf>>
      BY <2>4 DEF EvalStart, EvalStopOrClear, EvalInfo
    <3>3. \/ pc' = "idle"
          \/ pc' = "spawn" /\ cur' = cmd.name /\ ~services[cmd.name].running /\ cmd' = cmd
          \/ /\ pc' = "open" /\ cur' = cmd.name
             /\ services[cmd.name] # NoEntry /\ services[cmd.name].running
      BY <2>4 DEF EvalStart, EvalStopOrClear, EvalInfo, Call
    <3> QED BY <2>1, <3>1, <3>2, <3>3
  <2>5. CASE EvalList \/ ListNext \/ ListDone \/ EvalView \/ EvalUnwrap
    BY <2>1, <2>5 DEF EvalList, ListNext, ListDone, EvalView, EvalUnwrap, Call
  <2>6. CASE EvalAdd \/ EvalRemove
    <3>1. \A n \in Names : services'[n] # NoEntry =>
            services'[n] = services[n] \/ services'[n].running = FALSE
      BY <2>6 DEF EvalAdd, EvalRemove, AddHashEntry, RmHashEntry, FreshEntry, Services
    <3> QED BY <2>1, <2>6, <3>1 DEF EvalAdd, EvalRemove
  <2>7. CASE EvalEdit
    <3>1. \A n \in Names : services'[n] # NoEntry /\ services'[n].running =>
            /\ services[n] # NoEntry /\ services[n].running
            /\ services'[n].pid = services[n].pid
      <4>1. CASE UNCHANGED services BY <4>1
      <4>2. CASE services[cmd.name] # NoEntry /\ services' = EditHashEntry(services, cmd)
        <5> DEFINE c == EditedConfig(services[cmd.name].config, cmd)
                   e == [services[cmd.name] EXCEPT !.config = c]
        <5>1. services[cmd.name] \in ServiceEntry
          BY <2>7, <4>2, CommandName DEF EvalEdit, Services
        <5>2. c \in Config BY <2>7, <5>1, EditedConfigType DEF EvalEdit, ServiceEntry
        <5>3. e.pid = services[cmd.name].pid /\ e.running = services[cmd.name].running
          BY <5>1, <5>2, ConfigValues
        <5>4. \A n \in Names : services'[n] = IF n = cmd.name THEN e ELSE services[n]
          BY <4>2 DEF EditHashEntry, Services
        <5> HIDE DEF e
        <5> QED BY <4>2, <5>3, <5>4
      <4> QED BY <2>7, <4>1, <4>2 DEF EvalEdit, EditHashEntryOk
    <3> QED BY <2>1, <2>7, <3>1 DEF EvalEdit
  <2>8. CASE StopDone
    <3>1. cur \in Names BY <2>8 DEF StopDone
    <3>2. Shrinks BY <2>8, KilledOwners, NoNewProcess DEF StopDone, Live
    <3>3. \A n \in Names : services'[n] # NoEntry =>
            services'[n] = services[n] \/ services'[n].running = FALSE
      BY <2>8, <3>1, FreshEntries DEF StopDone, AfterStop, Services
    <3> QED BY <2>8, <3>2, <3>3 DEF StopDone
  <2>9. CASE ClearOrInfoDone \/ TestDone \/ ListedOne
    BY <2>1, <2>9 DEF ClearOrInfoDone, TestDone, ListedOne
  <2>10. CASE StartSpawn
    <3>1. cur \in Names /\ pc = "spawn" /\ UNCHANGED <<services, visit>>
      BY <2>10 DEF StartSpawn
    <3>2. CASE UNCHANGED proc /\ StartReturns(FALSE)
      BY <2>1, <3>1, <3>2 DEF StartReturns
    <3>3. CASE Goto("sopen") /\ cur' = cur
               /\ \E p \in Pids : NewPid(p) /\ proc' = Spawned(proc, p, cur)
      <4>1. PICK p \in Pids : NewPid(p) /\ proc' = Spawned(proc, p, cur) BY <3>3
      <4>2. /\ \A n \in Names \ {cur} : ProcessesOf(n)' \subseteq ProcessesOf(n)
            /\ \A q \in ProcessesOf(cur)' : q = p \/ q \in ProcessesOf(cur)
            /\ ProcessesOf(cur) # {} => p \notin ProcessesOf(cur)'
        BY <3>1, <3>3, <4>1, NewProcess DEF Live, ProcessesOf
      <4>3. \A a, b \in ProcessesOf(cur)' : a = b
        BY <3>1, <4>2
      <4> QED BY <3>1, <3>3, <4>2, <4>3
    <3> QED BY <2>10, <3>2, <3>3 DEF StartSpawn
  <2>11. CASE StartOpen
    <3>1. \A p \in ServerOfCur : p \in ProcessesOf(cur) /\ proc[p].svc = cur
      BY <2>11, OwnPaths, ServerIsOwn DEF StartOpen, ProcessesOf
    <3> QED BY <2>1, <2>11, <3>1 DEF StartOpen, StartReturns
  <2>12. CASE StartDup
    BY <2>1, <2>12 DEF StartDup, StartReturns
  <2>13. CASE StartRead
    <3>1. CASE UNCHANGED services BY <2>1, <2>13, <3>1 DEF StartRead, StartReturns
    <3>2. CASE services' = [services EXCEPT ![cur].pid = rfd, ![cur].running = TRUE]
      <4> DEFINE e == [services[cur] EXCEPT !.pid = rfd, !.running = TRUE]
      <4>1. cur \in Names /\ services[cur] \in ServiceEntry /\ rfd \in Nat
        BY <2>13, MonitorAssumption DEF StartRead, Services
      <4>2. e.pid = rfd BY ONLY <4>1 DEF ServiceEntry
      <4>3. \A n \in Names : services'[n] = IF n = cur THEN e ELSE services[n]
        BY <3>2, <4>1 DEF Services
      <4> HIDE DEF e
      <4> QED BY <2>1, <2>13, <4>1, <4>2, <4>3 DEF StartRead, StartReturns
    <3> QED BY <2>13, <3>1, <3>2 DEF StartRead
  <2>14. CASE HelperOpen
    <3>1. \A p \in ServerOfCur : p \in ProcessesOf(cur) /\ proc[p].svc = cur
      BY <2>14, OwnPaths, ServerIsOwn DEF HelperOpen, ProcessesOf
    <3> QED BY <2>1, <2>14, <3>1 DEF HelperOpen
  <2>15. CASE HelperDup \/ HelperCloseMain \/ HelperClose \/ HelperRetry
    BY <2>1, <2>15, MonitorAssumption
       DEF HelperDup, HelperCloseMain, HelperClose, HelperRetry, HelperReturns
  <2>16. CASE HelperIO
    <3>1. fd \in Pids /\ proc'[fd].svc = proc[fd].svc BY <2>16, StatesOnly DEF HelperIO
    <3>2. fd # 0 BY <3>1, MonitorAssumption
    <3>3. Shrinks BY <2>16, StatesOnly, NoNewProcess
    <3>4. /\ pc' \in {"close", "recover"}
          /\ UNCHANGED <<services, cmd, cur, visit, fd>>
          /\ pc = "io"
      BY <2>16 DEF HelperIO
    <3> QED BY <3>1, <3>2, <3>3, <3>4
  <2>17. CASE RecoverSpawn
    <3> DEFINE e == [services[cur] EXCEPT !.running = FALSE]
    <3>1. cur \in Names /\ services[cur] \in ServiceEntry /\ pc = "recover"
      BY <2>17 DEF RecoverSpawn, Services
    <3>2. e.pid = services[cur].pid /\ e.running = FALSE BY <3>1, FieldValues
    <3>3. \A n \in Names : services'[n] = IF n = cur THEN e ELSE services[n]
      BY <2>17, <3>1 DEF RecoverSpawn, Services
    <3> HIDE DEF e
    <3>4. /\ \A n \in Names \ {cur} : ProcessesOf(n)' \subseteq ProcessesOf(n)
          /\ \A a, b \in ProcessesOf(cur)' : a = b
          /\ pc' = "ropen" \/ (pc' = "retry" /\ ProcessesOf(cur)' = {})
      BY <2>17, RecoverReplaces
    <3>5. UNCHANGED <<cur, visit, fd>> BY <2>17 DEF RecoverSpawn
    <3> QED BY <3>1, <3>2, <3>3, <3>4, <3>5
  <2>18. CASE RecoverOpen
    <3>1. \A p \in ServerOfCur : p \in ProcessesOf(cur) /\ proc[p].svc = cur
      BY <2>18, OwnPaths, ServerIsOwn DEF RecoverOpen, ProcessesOf
    <3> QED BY <2>1, <2>18, <3>1 DEF RecoverOpen, Panic
  <2>19. CASE RecoverDup \/ RecoverRead
    BY <2>1, <2>19 DEF RecoverDup, RecoverRead, Panic
  <2>20. CASE RecoverReopen
    <3>1. \A p \in ServerOfCur : p \in ProcessesOf(cur) /\ proc[p].svc = cur
      BY <2>20, OwnPaths, ServerIsOwn DEF RecoverReopen, ProcessesOf
    <3> QED BY <2>1, <2>20, <3>1 DEF RecoverReopen
  <2>21. CASE RecoverRedup \/ RecoverCloseMain
    BY <2>1, <2>21 DEF RecoverRedup, RecoverCloseMain, Panic
  <2>22. CASE RecoverReread
    <3>1. Shrinks
      <4>1. CASE proc' = Killed(proc, services[cur].pid)
        BY <4>1, KilledOwners, NoNewProcess DEF Live
      <4> QED BY <2>1, <2>22, <4>1 DEF RecoverReread
    <3>2. Gone(rfd) => rfd \notin ProcessesOf(cur) BY DEF Gone, ProcessesOf, Live
    <3>3. proc'[rfd].svc = proc[rfd].svc BY <2>22, KilledOwners DEF RecoverReread
    <3> QED BY <2>22, <3>1, <3>2, <3>3 DEF RecoverReread, FailedRead
  <2>23. CASE RecoverSet
    <3> DEFINE e == [services[cur] EXCEPT !.pid = buf, !.running = TRUE]
    <3>1. cur \in Names /\ services[cur] \in ServiceEntry /\ buf \in Nat
      BY <2>23, MonitorAssumption DEF RecoverSet, Services
    <3>2. e.pid = buf BY ONLY <3>1 DEF ServiceEntry
    <3>3. \A n \in Names : services'[n] = IF n = cur THEN e ELSE services[n]
      BY <2>23, <3>1 DEF RecoverSet, Recovered, Services
    <3> HIDE DEF e
    <3> QED BY <2>1, <2>23, <3>1, <3>2, <3>3 DEF RecoverSet
  <2>24. CASE Crash \/ Hang
    <3>1. Shrinks /\ \A p \in Pids : proc'[p].svc = proc[p].svc
      BY <2>24, StatesOnly, NoNewProcess
    <3> QED BY <2>24, <3>1 DEF Crash, Hang
  <2>25. CASE Stranger
    <3>1. PICK p \in Pids : /\ proc' = [proc EXCEPT ![p] = [svc |-> NoName, st |-> "up"]]
                            /\ fd' = IF p = fd THEN 0 ELSE fd
                            /\ p = fd => pc \notin {"dup", "closemain", "io", "close"}
      BY <2>25 DEF Stranger
    <3>2. \A r \in Pids : r # p => proc'[r] = proc[r] BY <3>1
    <3>3. proc'[p].svc \notin Names BY <3>1, MonitorAssumption
    <3>4. Shrinks BY <3>2, <3>3 DEF ProcessesOf, Live
    <3> QED BY <2>25, <3>1, <3>2, <3>4 DEF Stranger
  <2>26. CASE Restart
    <3>1. \A n \in Names : services'[n] # NoEntry => services'[n].running = FALSE
      BY <2>26, FreshEntries DEF Restart
    <3>2. \A n \in visit' : n \in Names /\ services'[n] # NoEntry
      BY <2>26, ReadRegistryNames DEF Restart
    <3>3. Shrinks BY <2>1, <2>26 DEF Restart
    <3> QED BY <2>26, <3>1, <3>2, <3>3 DEF Restart
  <2>27. CASE UNCHANGED vars
    BY <2>1, <2>27 DEF vars
  <2> QED
    BY <2>2, <2>3, <2>4, <2>5, <2>6, <2>7, <2>8, <2>9, <2>10, <2>11, <2>12, <2>13, <2>14, <2>15,
       <2>16, <2>17, <2>18, <2>19, <2>20, <2>21, <2>22, <2>23, <2>24, <2>25, <2>26, <2>27
       DEF Next, Monitor, Boot, Eval, Start, Helper, Recover
<1> QED BY <1>1, <1>2, TypeCorrect, PathsAlways, PTL DEF Spec

\* No kill is ever sent to pid 0, whichever faults happen.
THEOREM ZeroIsNotKilled ==
    ASSUME OwnPaths PROVE Spec => []NeverKillsZero
<1>1. OwnInv => NeverKillsZero
  BY DEF OwnInv, NeverKillsZero, RecoverLabels
<1> QED BY <1>1, OwnAlways, PTL

\* A helper that comes back without an answer leaves its service without a process:
\* every service is managed, so that the descriptor is refused only when the process
\* is gone, and the service has no other.
THEOREM FailedHelpersAreFinal ==
    ASSUME OwnPaths, Names \subseteq Managed PROVE Spec => FailedHelperIsFinal
<1>1. TypeInv /\ OwnInv /\ [Next]_vars =>
        (pc' \in {"open", "done"} /\ (pc = "dup" \/ (pc = "close" /\ Gone(fd))) =>
           ProcessesOf(cur) = {})
  <2> SUFFICES ASSUME TypeInv, OwnInv, [Next]_vars, pc' \in {"open", "done"},
                      pc = "dup" \/ (pc = "close" /\ Gone(fd))
               PROVE  ProcessesOf(cur) = {}
    OBVIOUS
  <2>1. /\ cur \in Names /\ fd \in Pids
        /\ Sole(cur, fd) /\ proc[fd].svc = cur
    BY NoValueAssumption DEF TypeInv, Control, OwnInv, HelperLabels, InHelper
  <2>2. Gone(fd)
    <3>1. CASE pc = "close" BY <3>1
    <3>2. CASE pc = "dup"
      <4>1. ~UNCHANGED vars BY <3>2 DEF vars
      <4>2. ~(Receive \/ Boot \/ Eval \/ Start \/ Recover)
        BY <3>2
           DEF Receive, Boot, BootNext, BootDone, Eval, EvalStart, EvalStopOrClear, EvalInfo, EvalList,
               ListNext, ListDone, EvalView, EvalUnwrap, EvalAdd, EvalRemove, EvalEdit, StopDone,
               ClearOrInfoDone, TestDone, ListedOne, Start, StartSpawn, StartOpen, StartDup,
               StartRead, Recover, RecoverSpawn, RecoverOpen, RecoverDup, RecoverRead,
               RecoverReopen, RecoverRedup, RecoverCloseMain, RecoverReread, RecoverSet
      <4>3. ~(Crash \/ Hang \/ Stranger \/ Restart) BY <3>2 DEF Crash, Hang, Stranger, Restart
      <4>4. HelperDup
        BY <3>2, <4>1, <4>2, <4>3
           DEF Next, Monitor, Helper, HelperOpen, HelperCloseMain, HelperIO, HelperClose, HelperRetry
      <4> QED BY <2>1, <4>4, Names \subseteq Managed DEF HelperDup, Goto
    <3> QED BY <3>1, <3>2
  <2> QED BY <2>1, <2>2 DEF Sole, ProcessesOf, Live, Gone
<1> QED BY <1>1, TypeCorrect, OwnAlways, PTL DEF Spec, FailedHelperIsFinal

\* Between the open of a helper and the kill it leads to, the process in the entry is
\* alive, unless a service crashes there.
AliveInv ==
    pc \in {"dup", "closemain", "io", "close", "recover", "done"} =>
      services[cur].pid \in ProcessesOf(cur)

\* As long as no service crashes, every process that stop() or recover() kills is one of
\* the service it is called for, whatever has taken the pids of dead ones.
THEOREM OwnIsKilled ==
    ASSUME OwnPaths, "crash" \notin FaultKinds PROVE Spec => KillsOwn
<1>1. Init => AliveInv
  BY DEF Init, AliveInv
<1>2. TypeInv /\ PathInv /\ OwnInv /\ AliveInv /\ [Next]_vars => AliveInv'
  <2> SUFFICES ASSUME TypeInv, PathInv, OwnInv, AliveInv, [Next]_vars PROVE AliveInv'
    OBVIOUS
  <2>1. UNCHANGED <<proc, cur>> => ProcessesOf(cur)' = ProcessesOf(cur) BY DEF ProcessesOf, Live
  <2> USE DEF AliveInv, Goto, Respond, Call, StartReturns, HelperReturns, Panic
  <2>2. CASE Boot BY <2>2 DEF Boot, BootNext, BootDone
  <2>3. CASE Receive BY <2>3 DEF Receive
  <2>4. CASE Eval
    BY <2>4
       DEF Eval, EvalStart, EvalStopOrClear, EvalInfo, EvalList, ListNext, ListDone, EvalView,
           EvalUnwrap, EvalAdd, EvalRemove, EvalEdit, StopDone, ClearOrInfoDone, TestDone, ListedOne
  <2>5. CASE Start BY <2>5 DEF Start, StartSpawn, StartOpen, StartDup, StartRead
  <2>6. CASE HelperOpen
    <3>1. \A p \in ServerOfCur : p \in ProcessesOf(cur)
      BY <2>6, OwnPaths, ServerIsOwn DEF HelperOpen, TypeInv, Control, HelperLabels
    <3>2. \A p \in ProcessesOf(cur) : p = services[cur].pid
      BY <2>6, <3>1 DEF HelperOpen, OwnInv, Sole, InHelper, TypeInv, Control, HelperLabels
    <3> QED BY <2>1, <2>6, <3>1, <3>2 DEF HelperOpen
  <2>7. CASE HelperDup \/ HelperCloseMain \/ HelperClose \/ HelperRetry
    BY <2>1, <2>7 DEF HelperDup, HelperCloseMain, HelperClose, HelperRetry
  <2>8. CASE HelperIO
    <3>1. /\ fd = services[cur].pid /\ fd \in ProcessesOf(cur) /\ UNCHANGED <<services, cur>>
          /\ fd \in Pids /\ Live(fd) /\ proc[fd] \in Process
      BY <2>8 DEF HelperIO, OwnInv, TypeInv, TypeOK, Control, ProcessesOf
    <3>2. \/ UNCHANGED proc
          \/ \E st \in {"up", "armed", "hung"} : proc' = [proc EXCEPT ![fd].st = st]
      BY <2>8, <3>1 DEF HelperIO, Answers, TypeInv, TypeOK
    <3>3. proc'[fd].svc = cur /\ proc'[fd].st # "dead"
      <4>1. CASE UNCHANGED proc BY <3>1, <4>1 DEF ProcessesOf, Live
      <4>2. ASSUME NEW st \in {"up", "armed", "hung"}, proc' = [proc EXCEPT ![fd].st = st]
            PROVE  proc'[fd].svc = cur /\ proc'[fd].st # "dead"
        <5>1. proc'[fd] = [proc[fd] EXCEPT !.st = st] BY <3>1, <4>2 DEF TypeInv, TypeOK
        <5>2. proc'[fd].svc = proc[fd].svc /\ proc'[fd].st = st BY <3>1, <5>1, ProcessValues
        <5> QED BY <3>1, <5>2 DEF ProcessesOf
      <4> QED BY <3>2, <4>1, <4>2
    <3> QED BY <3>1, <3>3 DEF ProcessesOf, Live
  <2>9. CASE Recover
    BY <2>9
       DEF Recover, RecoverSpawn, RecoverOpen, RecoverDup, RecoverRead, RecoverReopen,
           RecoverRedup, RecoverCloseMain, RecoverReread, RecoverSet
  <2>10. CASE Hang \/ Stranger
    <3>1. PICK p \in Pids :
            \/ proc' = [proc EXCEPT ![p].st = "hung"]
            \/ Gone(p) /\ proc' = [proc EXCEPT ![p] = [svc |-> NoName, st |-> "up"]]
      BY <2>10 DEF Hang, Stranger
    <3>2. \A r \in ProcessesOf(cur) : proc'[r].svc = cur /\ proc'[r].st # "dead"
      <4> SUFFICES ASSUME NEW r \in ProcessesOf(cur) PROVE proc'[r].svc = cur /\ proc'[r].st # "dead"
        OBVIOUS
      <4> DEFINE h == [proc[r] EXCEPT !.st = "hung"]
      <4>1. r \in Pids /\ Live(r) /\ proc[r].svc = cur /\ proc[r] \in Process
        BY DEF ProcessesOf, TypeInv, TypeOK
      <4>2. proc'[r] \in {proc[r], h} BY <3>1, <4>1 DEF Gone, Live, TypeInv, TypeOK
      <4>3. h.svc = cur /\ h.st # "dead" BY <4>1, ProcessValues
      <4> HIDE DEF h
      <4> QED BY <4>1, <4>2, <4>3 DEF Live
    <3>3. UNCHANGED <<services, pc, cur>> BY <2>10 DEF Hang, Stranger
    <3> QED BY <3>2, <3>3 DEF ProcessesOf, Live
  <2>11. CASE Restart BY <2>11 DEF Restart
  <2>12. CASE UNCHANGED vars BY <2>1, <2>12 DEF vars
  <2>13. ~Crash BY DEF Crash, Fault
  <2> QED BY <2>2, <2>3, <2>4, <2>5, <2>6, <2>7, <2>8, <2>9, <2>10, <2>11, <2>12, <2>13
          DEF Next, Monitor, Helper
<1>3. TypeInv /\ AliveInv /\ [Next]_vars =>
        (pc' # pc /\ pc \in {"recover", "done"} =>
           \A p \in Pids : Live(p) /\ proc'[p].st = "dead" => proc[p].svc = cur)
  <2> SUFFICES ASSUME TypeInv, AliveInv, [Next]_vars, pc' # pc, pc \in {"recover", "done"},
                      NEW p \in Pids, Live(p), proc'[p].st = "dead"
               PROVE  proc[p].svc = cur
    OBVIOUS
  <2>1. cur \in Names /\ proc \in [Pids -> Process]
    BY DEF TypeInv, TypeOK, Control, HelperLabels
  <2>2. p = services[cur].pid
    <3>1. CASE StopDone
      BY <2>1, <3>1, KilledValues DEF StopDone, Live
    <3>2. CASE RecoverSpawn
      <4>1. \/ proc' = Killed(proc, services[cur].pid)
            \/ \E q \in Pids : NewPid(q) /\ proc' = Replaced(q)
        BY <3>2 DEF RecoverSpawn
      <4>2. ASSUME NEW q \in Pids, NewPid(q), proc' = Replaced(q) PROVE p = services[cur].pid
        <5>1. q # p BY <4>2, NewPids DEF Gone, Live
        <5>2. proc'[p] = Killed(proc, services[cur].pid)[p]
          BY <2>1, <4>2, <5>1, KilledType, SpawnedOwners DEF Replaced
        <5> QED BY <2>1, <5>2, KilledValues DEF Live
      <4> QED BY <2>1, <4>1, <4>2, KilledValues DEF Live
    <3>3. CASE UNCHANGED proc BY <3>3 DEF Live
    <3>4. ~Crash BY DEF Crash, Fault
    <3>5. StopDone \/ RecoverSpawn \/ UNCHANGED proc
      <4>1. ~(Receive \/ Boot \/ Start \/ Helper)
        BY DEF Receive, Boot, BootNext, BootDone, Start, StartSpawn, StartOpen, StartDup, StartRead,
               Helper, HelperOpen, HelperDup, HelperCloseMain, HelperIO, HelperClose, HelperRetry
      <4>2. ~(Hang \/ Stranger \/ UNCHANGED vars) BY DEF Hang, Stranger, vars
      <4>3. Restart => UNCHANGED proc BY DEF Restart
      <4>4. Recover => RecoverSpawn
        BY DEF Recover, RecoverOpen, RecoverDup, RecoverRead, RecoverReopen, RecoverRedup,
               RecoverCloseMain, RecoverReread, RecoverSet
      <4>5. Eval => StopDone \/ UNCHANGED proc
        BY DEF Eval, EvalStart, EvalStopOrClear, EvalInfo, EvalList, ListNext, ListDone, EvalView,
               EvalUnwrap, EvalAdd, EvalRemove, EvalEdit, ClearOrInfoDone, TestDone, ListedOne
      <4> QED BY <3>4, <4>1, <4>2, <4>3, <4>4, <4>5 DEF Next, Monitor
    <3> QED BY <3>1, <3>2, <3>3, <3>5
  <2> QED BY <2>2 DEF AliveInv, ProcessesOf
<1> QED BY <1>1, <1>2, <1>3, TypeCorrect, PathsAlways, OwnAlways, PTL DEF Spec, KillsOwn

-----------------------------------------------------------------------------
(* The file and the map.                                                   *)

\* A service that runs, or that a helper calls, has an executable, so that only a
\* failed spawn can leave an entry of recover() without a process.
NamesInv ==
    /\ NamesAgree
    /\ \A n \in Names : services[n] # NoEntry /\ services[n].running => n \in Installed
    /\ pc \in {"sopen", "sdup", "sread"} \cup HelperLabels => cur \in Installed

\* As long as no spawn of an installed executable fails, the file and the map have
\* the same services, up to running services that were removed from the file.
THEOREM NamesStayAgreed ==
    ASSUME "spawn" \notin FaultKinds PROVE Spec => []NamesAgree
<1>1. Init => NamesInv
  BY ReadRegistryNames, MonitorAssumption DEF Init, NamesInv, NamesAgree, ReadRegistry, FreshEntry, HelperLabels, RecoverLabels, Disk
<1>2. TypeInv /\ NamesInv /\ [Next]_vars => NamesInv'
  <2> SUFFICES ASSUME TypeInv, NamesInv, [Next]_vars PROVE NamesInv'
    OBVIOUS
  <2> USE MonitorAssumption DEF NamesInv, NamesAgree, Recovering, Goto, Respond, TypeInv, TypeOK, Control,
        StartLabels, HelperLabels, RecoverLabels
  <2>1. CASE BootNext
    BY <2>1 DEF BootNext
  <2>2. CASE BootDone
    BY <2>2 DEF BootDone
  <2>3. CASE Receive
    BY <2>3 DEF Receive
  <2>4. CASE EvalStart
    BY <2>4, CommandName DEF EvalStart, Call, StartReturns
  <2>5. CASE EvalStopOrClear
    BY <2>5, CommandName DEF EvalStopOrClear, Call
  <2>6. CASE EvalInfo
    BY <2>6, CommandName DEF EvalInfo, Call
  <2>7. CASE EvalList
    BY <2>7 DEF EvalList
  <2>8. CASE ListNext
    BY <2>8 DEF ListNext, Call, Registered
  <2>9. CASE ListDone
    BY <2>9 DEF ListDone
  <2>10. CASE EvalView
    BY <2>10 DEF EvalView
  <2>11. CASE EvalAdd
    <3>1. /\ cmd.name \in Names
          /\ AddedConfig(cmd) \in Config
          /\ FreshEntry(AddedConfig(cmd)) \in ServiceEntry
      BY <2>11, CommandName, AddedConfigType DEF EvalAdd, FreshEntry, ServiceEntry
    <3>2. \A n \in Names : disk'[n] = IF n = cmd.name THEN AddedConfig(cmd) ELSE disk[n]
      BY <2>11 DEF EvalAdd, AddEntry, Disk
    <3>3. IF services[cmd.name] = NoEntry
          THEN services' = [services EXCEPT ![cmd.name] = FreshEntry(AddedConfig(cmd))]
          ELSE services' = services
      BY <2>11 DEF EvalAdd, AddHashEntryOk, AddHashEntry
    <3>4. \A n \in Names : services'[n] =
            IF n = cmd.name /\ services[n] = NoEntry THEN FreshEntry(AddedConfig(cmd)) ELSE services[n]
      BY <3>1, <3>3 DEF Services
    <3>5. FreshEntry(AddedConfig(cmd)) # NoEntry /\ ~FreshEntry(AddedConfig(cmd)).running
      BY <3>1, NoValueAssumption DEF FreshEntry
    <3>6. pc = "eval" /\ cmd' = NoCmd /\ pc' = "idle" BY <2>11 DEF EvalAdd
    <3>7. \A n \in Names : services[n] # NoEntry => services'[n] = services[n] BY <3>4
    <3>8. \A n \in Names : disk'[n] = NoConfig => disk[n] = NoConfig /\ services'[n] = services[n]
      BY <3>1, <3>2, <3>4, NoValueAssumption
    <3>9. \A n \in Names : disk'[n] # NoConfig => services'[n] # NoEntry
      BY <3>1, <3>2, <3>4, <3>5
    <3>10. \A n \in Names : services'[n] # NoEntry /\ services'[n].running =>
             services[n] # NoEntry /\ services[n].running
      BY <3>4, <3>5
    <3> QED BY <3>6, <3>8, <3>9, <3>10
  <2>12. CASE EvalRemove
    <3>1. cmd.name \in Names BY <2>12, CommandName DEF EvalRemove
    <3>2. CASE disk[cmd.name] = NoConfig
      BY <2>12, <3>2 DEF EvalRemove, RmEntryOk
    <3>3. CASE disk[cmd.name] # NoConfig
      <4>1. \A n \in Names : disk'[n] = IF n = cmd.name THEN NoConfig ELSE disk[n]
        BY <2>12, <3>3 DEF EvalRemove, RmEntryOk, RmEntry, Disk
      <4>2. services[cmd.name] # NoEntry BY <3>1, <3>3
      <4>3. \A n \in Names : services'[n] =
              IF n = cmd.name /\ ~services[n].running THEN NoEntry ELSE services[n]
        BY <2>12, <3>1, <3>3, <4>2 DEF EvalRemove, RmEntryOk, RmEntry, RmHashEntryOk, RmHashEntry, Disk, Services
      <4> QED BY <2>12, <3>1, <4>1, <4>2, <4>3 DEF EvalRemove
    <3> QED BY <3>2, <3>3
  <2>13. CASE EvalEdit
    <3>1. cmd.name \in Names BY <2>13, CommandName DEF EvalEdit
    <3>2. \A n \in Names : disk'[n] = NoConfig <=> disk[n] = NoConfig
      <4>1. CASE UNCHANGED disk BY <4>1
      <4>2. CASE disk[cmd.name] # NoConfig /\ disk' = EditEntry(disk, cmd)
        <5>1. EditedConfig(disk[cmd.name], cmd) \in Config
          BY <2>13, <3>1, <4>2, EditedConfigType DEF EvalEdit, Disk
        <5>2. \A n \in Names : disk'[n] =
                IF n = cmd.name THEN EditedConfig(disk[cmd.name], cmd) ELSE disk[n]
          BY <4>2 DEF EditEntry, Disk
        <5> QED BY <4>2, <5>1, <5>2, NoValueAssumption
      <4> QED BY <2>13, <4>1, <4>2 DEF EvalEdit, EditEntryOk
    <3>3. \A n \in Names :
            /\ services'[n] = NoEntry <=> services[n] = NoEntry
            /\ services[n] # NoEntry => services'[n].running = services[n].running
      <4>1. CASE UNCHANGED services BY <4>1
      <4>2. CASE services[cmd.name] # NoEntry /\ services' = EditHashEntry(services, cmd)
        <5> DEFINE c == EditedConfig(services[cmd.name].config, cmd)
                   e == [services[cmd.name] EXCEPT !.config = c]
        <5>1. services[cmd.name] \in ServiceEntry BY <3>1, <4>2 DEF Services
        <5>2. c \in Config
          BY <2>13, <5>1, EditedConfigType DEF EvalEdit, ServiceEntry
        <5>3. e \in ServiceEntry /\ e.running = services[cmd.name].running
          BY <5>1, <5>2, ConfigValues
        <5>4. \A n \in Names : services'[n] = IF n = cmd.name THEN e ELSE services[n]
          BY <4>2 DEF EditHashEntry, Services
        <5> HIDE DEF e
        <5> QED BY <4>2, <5>3, <5>4, NoValueAssumption
      <4> QED BY <2>13, <4>1, <4>2 DEF EvalEdit, EditHashEntryOk
    <3> QED BY <2>13, <3>2, <3>3 DEF EvalEdit
  <2>14. CASE StopDone
    <3>1. cur \in Names BY <2>14 DEF StopDone
    <3>2. \A n \in Names : services'[n] = IF n = cur THEN ReadRegistry(disk)[n] ELSE services[n]
      BY <2>14, <3>1 DEF StopDone, AfterStop, Services
    <3>3. \A n \in Names : /\ ReadRegistry(disk)[n] = NoEntry <=> disk[n] = NoConfig
                           /\ ReadRegistry(disk)[n] # NoEntry => ~ReadRegistry(disk)[n].running
      BY ReadRegistryNames, FreshEntries
    <3> QED BY <2>14, <3>1, <3>2, <3>3 DEF StopDone
  <2>15. CASE ClearOrInfoDone
    BY <2>15 DEF ClearOrInfoDone
  <2>16. CASE TestDone
    BY <2>16 DEF TestDone
  <2>17. CASE ListedOne
    BY <2>17 DEF ListedOne
  <2>18. CASE StartSpawn
    <3>1. UNCHANGED <<disk, services>> /\ (pc' = "sopen" => cur' = cur /\ cur \in Installed)
      BY <2>18 DEF StartSpawn, StartReturns
    <3> QED BY <2>18, <3>1 DEF StartSpawn, StartReturns
  <2>19. CASE StartOpen
    BY <2>19 DEF StartOpen, StartReturns
  <2>20. CASE StartDup
    BY <2>20 DEF StartDup, StartReturns
  <2>21. CASE StartRead
    <3>1. CASE UNCHANGED services BY <2>21, <3>1 DEF StartRead, StartReturns
    <3>2. CASE services' = [services EXCEPT ![cur].pid = rfd, ![cur].running = TRUE]
      <4> DEFINE e == [services[cur] EXCEPT !.pid = rfd, !.running = TRUE]
      <4>1. cur \in Names /\ cur \in Installed /\ services[cur] \in ServiceEntry /\ rfd \in Nat
        BY <2>21 DEF StartRead, Services
      <4>2. e \in ServiceEntry /\ e.running = TRUE BY <4>1, FieldValues
      <4>3. \A n \in Names : services'[n] = IF n = cur THEN e ELSE services[n]
        BY <3>2, <4>1 DEF Services
      <4> HIDE DEF e
      <4>4. /\ \A n \in Names : services'[n] = NoEntry <=> services[n] = NoEntry
            /\ \A n \in Names \ {cur} : services'[n] = services[n]
            /\ services'[cur].running = TRUE
        BY <4>1, <4>2, <4>3, NoValueAssumption
      <4> QED BY <2>21, <4>1, <4>4 DEF StartRead, StartReturns
    <3> QED BY <2>21, <3>1, <3>2 DEF StartRead
  <2>22. CASE HelperOpen
    BY <2>22 DEF HelperOpen
  <2>23. CASE HelperDup
    BY <2>23 DEF HelperDup, HelperReturns
  <2>24. CASE HelperCloseMain
    BY <2>24 DEF HelperCloseMain
  <2>25. CASE HelperIO
    BY <2>25 DEF HelperIO
  <2>26. CASE HelperClose
    BY <2>26 DEF HelperClose, HelperReturns
  <2>27. CASE HelperRetry
    BY <2>27 DEF HelperRetry
  <2>28. CASE RecoverSpawn
    <3> DEFINE e == [services[cur] EXCEPT !.running = FALSE]
    <3>1. cur \in Names /\ cur \in Installed /\ services[cur] \in ServiceEntry
      BY <2>28 DEF RecoverSpawn, Services
    <3>2. e \in ServiceEntry /\ e.running = FALSE BY <3>1, FieldValues
    <3>3. \A n \in Names : services'[n] = IF n = cur THEN e ELSE services[n]
      BY <2>28, <3>1 DEF RecoverSpawn, Services
    <3> HIDE DEF e
    <3>4. /\ \A n \in Names : services'[n] = NoEntry <=> services[n] = NoEntry
          /\ \A n \in Names \ {cur} : services'[n] = services[n]
          /\ services'[cur].running = FALSE
      BY <3>1, <3>2, <3>3, NoValueAssumption
    <3>5. UNCHANGED <<disk, cmd, cur>> /\ pc' = "ropen"
      BY <2>28, <3>1 DEF RecoverSpawn, Fault
    <3> QED BY <3>1, <3>4, <3>5
  <2>29. CASE RecoverOpen
    BY <2>29 DEF RecoverOpen, Panic
  <2>30. CASE RecoverDup
    BY <2>30 DEF RecoverDup, Panic
  <2>31. CASE RecoverRead
    BY <2>31 DEF RecoverRead, Panic
  <2>32. CASE RecoverReopen
    BY <2>32 DEF RecoverReopen, Panic
  <2>33. CASE RecoverRedup
    BY <2>33 DEF RecoverRedup, Panic
  <2>34. CASE RecoverCloseMain
    BY <2>34 DEF RecoverCloseMain
  <2>35. CASE RecoverReread
    BY <2>35 DEF RecoverReread
  <2>36. CASE RecoverSet
    <3> DEFINE e == [services[cur] EXCEPT !.pid = buf, !.running = TRUE]
    <3>1. cur \in Names /\ cur \in Installed /\ services[cur] \in ServiceEntry /\ buf \in Nat
      BY <2>36 DEF RecoverSet, Services
    <3>2. e \in ServiceEntry /\ e.running = TRUE BY <3>1, FieldValues
    <3>3. \A n \in Names : services'[n] = IF n = cur THEN e ELSE services[n]
      BY <2>36, <3>1 DEF RecoverSet, Recovered, Services
    <3> HIDE DEF e
    <3>4. /\ \A n \in Names : services'[n] = NoEntry <=> services[n] = NoEntry
          /\ \A n \in Names \ {cur} : services'[n] = services[n]
          /\ services'[cur].running = TRUE
      BY <3>1, <3>2, <3>3, NoValueAssumption
    <3> QED BY <2>36, <3>1, <3>4 DEF RecoverSet
  <2>37. CASE Crash
    BY <2>37 DEF Crash
  <2>38. CASE Hang
    BY <2>38 DEF Hang
  <2>39. CASE Restart
    BY <2>39, ReadRegistryNames, FreshEntries DEF Restart
  <2>40. CASE UNCHANGED vars
    BY <2>40 DEF vars
  <2>41. CASE EvalUnwrap
    BY <2>41 DEF EvalUnwrap
  <2>42. CASE Stranger
    BY <2>42 DEF Stranger
  <2> QED
    BY <2>1, <2>2, <2>3, <2>4, <2>5, <2>6, <2>7, <2>8, <2>9, <2>10, <2>11, <2>12, <2>13, <2>14, <2>15, <2>16, <2>17, <2>18, <2>19, <2>20, <2>21, <2>22, <2>23, <2>24, <2>25, <2>26, <2>27, <2>28, <2>29, <2>30, <2>31, <2>32, <2>33, <2>34, <2>35, <2>36, <2>37, <2>38, <2>39, <2>40, <2>41, <2>42
       DEF Next, Monitor, Boot, Eval, Start, Helper, Recover
<1>3. NamesInv => NamesAgree
  BY DEF NamesInv
<1> QED BY <1>1, <1>2, <1>3, TypeCorrect, PTL DEF Spec
=============================================================================
