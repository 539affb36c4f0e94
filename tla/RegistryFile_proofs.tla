------------------------- MODULE RegistryFile_proofs -------------------------
(***************************************************************************)
(* Proofs about RegistryFile: its type invariant, that a serving monitor   *)
(* finds a file it can parse, and that the file implements the registry of *)
(* DurableRegistry, for every set of names and commands.                   *)
(***************************************************************************)
EXTENDS RegistryFile, TLAPS

\* A command keeps the file a registry.
LEMMA ChangedType ==
    ASSUME NEW disk \in Disk, NEW c \in Changes, ChangeOk(disk, c)
    PROVE  Changed(disk, c) \in Disk
<1>1. c \in Command /\ c.op \in {"add", "remove", "edit"}
  BY FileAssumption DEF Changes
<1>2. CASE c.op = "add"
  <2>1. AddedConfig(c) \in Config BY <1>1, <1>2 DEF Command, AddedConfig, Config
  <2> QED BY <1>2, <2>1 DEF Changed, AddEntry, Disk
<1>3. CASE c.op = "remove"
  BY <1>3 DEF Changed, RmEntry, Disk
<1>4. CASE c.op = "edit"
  <2>1. c.name \in Names /\ c.args \in ArgLists /\ c.depends \in SUBSET Names
          /\ c.path \in Paths \cup {NoPath}
    BY <1>1, <1>4 DEF Command
  <2>2. disk[c.name] \in Config
    BY <1>4, <2>1 DEF ChangeOk, EditEntryOk, Disk
  <2>3. SchemeOf[c.name] \in Paths BY <2>1, RegistryAssumption
  <2>4. EditedConfig(disk[c.name], c) \in Config
    BY <2>1, <2>2, <2>3 DEF EditedConfig, Config
  <2> QED BY <1>4, <2>1, <2>4 DEF Changed, EditEntry, Disk
<1> QED BY <1>1, <1>2, <1>3, <1>4

\* What has been written of a table is a part of it, or unreadable.
LEMMA BegunType ==
    ASSUME NEW disk \in Disk
    PROVE  /\ Begun(disk) \subseteq Disk \cup {Unreadable}
           /\ Begun(disk) \subseteq Durable!Parts(disk) \cup {Unreadable}
<1> DEFINE Part(whole) == [n \in Names |-> IF n \in whole THEN disk[n] ELSE NoConfig]
<1>1. ASSUME NEW whole \in SUBSET Names
      PROVE  Part(whole) \in Disk /\ Part(whole) \in Durable!Parts(disk)
  BY DEF Durable!Parts, Disk
<1>2. \A part \in Begun(disk) \ {Unreadable} : \E whole \in SUBSET Names : part = Part(whole)
  BY DEF Begun
<1> HIDE DEF Part
<1> QED BY <1>1, <1>2

\* The copy is the table as the command changes it until the file is truncated; then the
\* file holds what has been written of the copy.
FileInv ==
    /\ TypeInv
    /\ ReadsWhole
    /\ pc = "create" => ChangeOk(file, cmd) /\ copy = Changed(file, cmd)
    /\ pc = "write" => file \in Begun(copy)

LEMMA FileAlways == Spec => []FileInv
<1>1. Init => FileInv
  BY FileAssumption DEF Init, FileInv, TypeInv, ReadsWhole
<1>2. FileInv /\ [Next]_vars => FileInv'
  <2> SUFFICES ASSUME FileInv, [Next]_vars PROVE FileInv'
    OBVIOUS
  <2> USE FileAssumption DEF FileInv, TypeInv, ReadsWhole
  <2>1. CASE Receive BY <2>1 DEF Receive
  <2>2. CASE Read
    <3>1. file \in Disk BY <2>2 DEF Read
    <3>2. CASE cmd \in Changes /\ ChangeOk(file, cmd)
      <4>1. Changed(file, cmd) \in Disk BY <3>1, <3>2, ChangedType
      <4> QED BY <2>2, <3>2, <4>1 DEF Read, Table
    <3>3. CASE ~(cmd \in Changes /\ ChangeOk(file, cmd))
      BY <2>2, <3>3 DEF Read, Table, Answer
    <3> QED BY <3>2, <3>3
  <2>3. CASE Create
    <3>1. Unreadable \in Begun(copy) BY DEF Begun
    <3> QED BY <2>3, <3>1 DEF Create
  <2>4. CASE WriteSome
    <3>1. Begun(copy) \subseteq Disk \cup {Unreadable} BY BegunType
    <3> QED BY <2>4, <3>1 DEF WriteSome
  <2>5. CASE WriteAll BY <2>5 DEF WriteAll, Written
  <2>6. CASE FollowMap BY <2>6 DEF FollowMap, Answer
  <2>7. CASE Crash BY <2>7 DEF Crash
  <2>8. CASE Boot BY <2>8 DEF Boot, Bootable
  <2>9. CASE UNCHANGED vars BY <2>9 DEF vars
  <2> QED BY <2>1, <2>2, <2>3, <2>4, <2>5, <2>6, <2>7, <2>8, <2>9 DEF Next
<1> QED BY <1>1, <1>2, PTL DEF Spec

\* Whatever commands come and wherever the monitor crashes, every variable keeps its
\* type, and a command is being handled exactly while the monitor works on it.
THEOREM TypeCorrect == Spec => []TypeInv
<1>1. FileInv => TypeInv BY DEF FileInv
<1> QED BY <1>1, FileAlways, PTL

\* The reads of a monitor that has started never find a file they cannot parse.
THEOREM ReadsCorrect == Spec => []ReadsWhole
<1>1. FileInv => ReadsWhole BY DEF FileInv
<1> QED BY <1>1, FileAlways, PTL

\* The steps on the file implement single changes, durable but for a crash in the middle.
THEOREM FileImplementsDurable == Spec => ImplementsDurable
<1> DEFINE saved == IF pc = "write" THEN copy ELSE file
           stage == IF pc = "down" THEN "down"
                    ELSE IF pc = "write" THEN "changing" ELSE "ready"
<1>0. \A disk, c : /\ Durable!ChangeOk(disk, c) <=> ChangeOk(disk, c)
                  /\ Durable!Changed(disk, c) = Changed(disk, c)
  BY DEF Durable!ChangeOk, ChangeOk, Durable!RmEntryOk, RmEntryOk, Durable!EditEntryOk,
         EditEntryOk, Durable!Changed, Changed, Durable!AddEntry, AddEntry,
         Durable!AddedConfig, AddedConfig, Durable!RmEntry, RmEntry, Durable!EditEntry,
         EditEntry, Durable!EditedConfig, EditedConfig
<1>1. Init => Durable!Init
  BY DEF Init, Durable!Init
<1>2. FileInv /\ [Next]_vars => [Durable!Next]_<<saved, stage>>
  <2> SUFFICES ASSUME FileInv, [Next]_vars PROVE [Durable!Next]_<<saved, stage>>
    OBVIOUS
  <2> USE DEF FileInv, TypeInv, ReadsWhole
  <2>1. CASE Receive BY <2>1 DEF Receive
  <2>2. CASE Read BY <2>2 DEF Read, Table, Answer
  <2>3. CASE Create
    <3>1. cmd \in Changes /\ ChangeOk(file, cmd) /\ copy = Changed(file, cmd)
      BY <2>3 DEF Create
    <3>2. Durable!Change BY <2>3, <3>1, <1>0 DEF Create, Durable!Change
    <3> QED BY <3>2 DEF Durable!Next
  <2>4. CASE WriteSome BY <2>4 DEF WriteSome
  <2>5. CASE WriteAll
    <3>1. Durable!Done BY <2>5 DEF WriteAll, Written, Durable!Done
    <3> QED BY <3>1 DEF Durable!Next
  <2>6. CASE FollowMap BY <2>6 DEF FollowMap, Answer
  <2>7. CASE Crash
    <3>1. Durable!Crash
      <4>1. pc = "write" => file \in Durable!Parts(copy) \cup {Unreadable}
        BY BegunType
      <4> QED BY <2>7, <4>1 DEF Crash, Durable!Crash
    <3> QED BY <3>1 DEF Durable!Next
  <2>8. CASE Boot
    <3>1. Durable!Boot BY <2>8 DEF Boot, Bootable, Durable!Boot
    <3> QED BY <3>1 DEF Durable!Next
  <2>9. CASE UNCHANGED vars BY <2>9 DEF vars
  <2> QED BY <2>1, <2>2, <2>3, <2>4, <2>5, <2>6, <2>7, <2>8, <2>9 DEF Next
<1> QED BY <1>1, <1>2, FileAlways, PTL DEF Spec, ImplementsDurable, Durable!Spec
=============================================================================
