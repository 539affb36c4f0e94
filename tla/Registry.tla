------------------------------ MODULE Registry ------------------------------
(***************************************************************************)
(* The service registry: the configuration table kept on disk in           *)
(* smregistry.toml, the monitor's in-memory map of ServiceEntry values,    *)
(* and the operations of registry.rs on each of them.  An operation takes  *)
(* the old table and gives the new one; the condition under which it       *)
(* answers Ok is an operator of its own (...Ok).                           *)
(*                                                                         *)
(* A partial map is a total function with a value for "no entry".  A list  *)
(* of dependencies is the set of its members (its order has no effect);    *)
(* manual_override has no effect in the code and is left out; run-time     *)
(* statistics are left out here (see the README).                          *)
(***************************************************************************)
EXTENDS Integers

CONSTANTS
    Names,      \* names of services (also the names of their executables)
    Paths,      \* scheme paths
    NoPath,     \* the empty string in the place of a path
    SchemeOf,   \* SchemeOf[n]: "/scheme/<n>", the scheme the program n creates
    ArgLists,   \* argument vectors
    NoArgs,     \* the empty argument vector
    NoConfig,   \* no entry of that name in the file
    NoEntry     \* no entry of that name in the map

ASSUME RegistryAssumption ==
    /\ SchemeOf \in [Names -> Paths]
    /\ NoPath \notin Paths
    /\ NoArgs \in ArgLists

Config == [type: {"daemon", "unmanaged"}, args: ArgLists,
           depends: SUBSET Names, path: Paths \cup {NoPath}]

\* Process ids are numbers; 0 is the pid of an entry that was never started.
ServiceEntry == [config: Config, running: BOOLEAN, pid: Nat]

Disk == [Names -> Config \cup {NoConfig}]
Services == [Names -> ServiceEntry \cup {NoEntry}]

ASSUME NoValueAssumption ==
    /\ NoConfig \notin Config
    /\ NoEntry \notin ServiceEntry

-----------------------------------------------------------------------------
FreshEntry(c) == [config |-> c, running |-> FALSE, pid |-> 0]

ReadRegistry(disk) ==
    [n \in Names |-> IF disk[n] = NoConfig THEN NoEntry ELSE FreshEntry(disk[n])]

\* The configuration an Add command describes, and a configuration as an Edit
\* command changes it: `old` can only be set, an empty argument vector keeps the
\* old one, an empty path keeps the old one or gives the default one, and
\* dependencies are only ever added.
AddedConfig(c) ==
    [type |-> IF c.old THEN "unmanaged" ELSE "daemon", args |-> c.args,
     depends |-> c.depends, path |-> c.path]

EditedConfig(old, c) ==
    [type |-> IF c.old THEN "unmanaged" ELSE old.type,
     args |-> IF c.args # NoArgs THEN c.args ELSE old.args,
     depends |-> old.depends \cup c.depends,
     path |-> IF c.path # NoPath THEN c.path
              ELSE IF old.path # NoPath THEN old.path ELSE SchemeOf[c.name]]

-----------------------------------------------------------------------------
(* The file on disk. *)

ViewEntryOk(disk, n) == disk[n] # NoConfig

\* add_entry overwrites an entry of the same name and always answers Ok.
AddEntry(disk, c) == [disk EXCEPT ![c.name] = AddedConfig(c)]

RmEntryOk(disk, n) == disk[n] # NoConfig
RmEntry(disk, n) == [disk EXCEPT ![n] = NoConfig]

EditEntryOk(disk, n) == disk[n] # NoConfig
EditEntry(disk, c) == [disk EXCEPT ![c.name] = EditedConfig(@, c)]

\* What a command makes of the file, if it changes it.
ChangeOk(disk, c) ==
    /\ c.op = "remove" => RmEntryOk(disk, c.name)
    /\ c.op = "edit" => EditEntryOk(disk, c.name)

Changed(disk, c) ==
    IF c.op = "add" THEN AddEntry(disk, c)
    ELSE IF c.op = "remove" THEN RmEntry(disk, c.name) ELSE EditEntry(disk, c)

-----------------------------------------------------------------------------
(* The map in memory. *)

AddHashEntryOk(services, n) == services[n] = NoEntry

\* Mutant of AddHashEntry: the arguments of the command are not taken over.
AddHashEntryNoArgs(services, c) ==
    [services EXCEPT ![c.name] = FreshEntry([AddedConfig(c) EXCEPT !.args = NoArgs])]
AddHashEntry(services, c) == [services EXCEPT ![c.name] = FreshEntry(AddedConfig(c))]

\* rm_hash_entry re-reads the file: an entry still registered stays, and so does
\* one that is running.
RmHashEntryOk(disk, services, n) ==
    disk[n] = NoConfig /\ services[n] # NoEntry /\ ~services[n].running
RmHashEntry(services, n) == [services EXCEPT ![n] = NoEntry]

\* edit_hash_entry also edits an entry that is running.
EditHashEntryOk(services, n) == services[n] # NoEntry
EditHashEntry(services, c) == [services EXCEPT ![c.name].config = EditedConfig(@, c)]
=============================================================================
