---------------------------- MODULE RegistryFile ----------------------------
(***************************************************************************)
(* How the registry commands write smregistry.toml, and what a crash of    *)
(* the monitor leaves of it.                                               *)
(*                                                                         *)
(* A change reads the whole file, changes the table in memory, truncates   *)
(* the file and writes it again.  The monitor may end before any of these  *)
(* steps: killed, or by the panic of a call on the file that fails.  The   *)
(* map in memory is the subject of ServiceMonitor and left out here; what  *)
(* the file system keeps of a write when the machine stops is left out,    *)
(* too.                                                                    *)
(***************************************************************************)
EXTENDS Registry

CONSTANTS
    Registry0,      \* the file at first
    Commands,       \* the commands clients send
    NoCmd,          \* no command
    Unreadable      \* a file read_registry cannot parse

Command ==
    [op: {"view", "remove"}, name: Names]
      \cup [op: {"add", "edit"}, name: Names, old: BOOLEAN, args: ArgLists,
            depends: SUBSET Names, path: Paths \cup {NoPath}]

ASSUME FileAssumption ==
    /\ Registry0 \in Disk /\ Unreadable \notin Disk
    /\ Commands \subseteq Command /\ NoCmd \notin Command

VARIABLES
    file,       \* smregistry.toml, or Unreadable
    pc,         \* the monitor's next step
    cmd,        \* its command
    copy        \* the table it has changed in memory

vars == <<file, pc, cmd, copy>>

Changes == {c \in Commands : c.op \in {"add", "remove", "edit"}}

Init == file = Registry0 /\ pc = "idle" /\ cmd = NoCmd /\ copy = Registry0

Receive ==
    /\ pc = "idle"
    /\ cmd' \in Commands
    /\ pc' = "read"
    /\ UNCHANGED <<file, copy>>

\* Mutant of Answer: the command is not taken back.
AnswerKept == pc' = "idle" /\ UNCHANGED cmd

\* The end of eval_cmd.
Answer == pc' = "idle" /\ cmd' = NoCmd

\* Mutant of Table: the table of the last change is used again.
TableCached == copy

\* The table that read_registry gives.
Table == file

\* read_registry in add_entry, rm_entry, edit_entry and view_entry.  It panics on a file
\* that it cannot parse: see ReadsWhole.
Read ==
    /\ pc = "read" /\ file # Unreadable
    /\ \/ /\ cmd \in Changes /\ ChangeOk(Table, cmd)
          /\ copy' = Changed(Table, cmd)
          /\ pc' = "create" /\ UNCHANGED cmd
       \/ /\ ~(cmd \in Changes /\ ChangeOk(Table, cmd))
          /\ Answer /\ UNCHANGED copy
    /\ UNCHANGED file

\* File::create empties the file, and the empty text is no registry.
Create ==
    /\ pc = "create"
    /\ file' = Unreadable
    /\ pc' = "write" /\ UNCHANGED <<cmd, copy>>

\* A file with the first bytes of a table's text: a number of whole entries, in the order
\* of the hash map; or unreadable, because it ends inside an entry or before the first.
Begun(disk) ==
    {Unreadable} \cup
    {[n \in Names |-> IF n \in whole THEN disk[n] ELSE NoConfig] :
        whole \in SUBSET {n \in Names : disk[n] # NoConfig} \ {{}}}

\* write_all has written a part of the text.
WriteSome ==
    /\ pc = "write"
    /\ file' \in Begun(copy)
    /\ UNCHANGED <<pc, cmd, copy>>

\* Mutant of Written: the buffer is not flushed.
WrittenSome(disk) == Begun(disk)

Written(disk) == {disk}

WriteAll ==
    /\ pc = "write"
    /\ file' \in Written(copy)
    /\ pc' = "map" /\ UNCHANGED <<cmd, copy>>

\* The map in memory follows; rm_hash_entry reads the file again for that.
FollowMap ==
    /\ pc = "map"
    /\ cmd.op = "remove" => file # Unreadable
    /\ Answer /\ UNCHANGED <<file, copy>>

Crash ==
    /\ pc # "down"
    /\ pc' = "down" /\ cmd' = NoCmd
    /\ UNCHANGED <<file, copy>>

\* Mutant of Bootable: a monitor starts without a registry.
BootableAlways == TRUE

Bootable == file # Unreadable

\* main() reads the registry before it is ready.
Boot ==
    /\ pc = "down" /\ Bootable
    /\ pc' = "idle" /\ UNCHANGED <<file, cmd, copy>>

Next ==
    Receive \/ Read \/ Create \/ WriteSome \/ WriteAll \/ FollowMap \/ Crash \/ Boot

Spec == Init /\ [][Next]_vars

-----------------------------------------------------------------------------
(* Properties.                                                             *)

\* A command is being handled from its read on, and only a change writes.
TypeInv ==
    /\ file \in Disk \cup {Unreadable}
    /\ pc \in {"down", "idle", "read", "create", "write", "map"}
    /\ copy \in Disk
    /\ cmd \in Commands \cup {NoCmd}
    /\ cmd # NoCmd <=> pc \notin {"down", "idle"}
    /\ pc \in {"create", "write", "map"} => cmd \in Changes

\* A monitor that has started never panics on the registry: outside write_registry the
\* file is one that read_registry can parse, whatever crashes came before.
ReadsWhole == pc \notin {"down", "write"} => file # Unreadable

\* The registry is changed when the file is truncated, and the change is done when the
\* text is written.
Durable ==
    INSTANCE DurableRegistry
        WITH saved <- IF pc = "write" THEN copy ELSE file,
             stage <- IF pc = "down" THEN "down"
                      ELSE IF pc = "write" THEN "changing" ELSE "ready"

\* A crash costs entries only while write_registry is at work; what was written before
\* it lasts, and a change is seen as a whole or not at all by every later command.
ImplementsDurable == Durable!Spec
=============================================================================
