-------------------------- MODULE MCServiceMonitor --------------------------
(***************************************************************************)
(* Instances of ServiceMonitor.  The runs on failures use the two services *)
(* of the repository's smregistry.toml; the run on the registry uses three *)
(* names: a managed service, an old-style daemon without a BaseScheme, and *)
(* a name without an executable.                                           *)
(***************************************************************************)
EXTENDS ServiceMonitor

CONSTANTS P1, P2, P3, A1

Random == {"gtrand", "gtrand2"}
Mixed == {"gtrand", "legacyd", "ghost"}
AllPaths == {P1, P2, P3}
SchemesOfRandom == [n \in Random |-> IF n = "gtrand" THEN P1 ELSE P2]
SchemesOfMixed == [n \in Mixed |-> CASE n = "gtrand" -> P1
                                     [] n = "legacyd" -> P2
                                     [] n = "ghost" -> P3]
Args == {NoArgs, A1}

Conf(n) == [type |-> "daemon", args |-> NoArgs, depends |-> {}, path |-> SchemeOf[n]]
AllRegistered == [n \in Names |-> Conf(n)]
GhostUnregistered == [n \in Names |-> IF n = "ghost" THEN NoConfig ELSE Conf(n)]

On(ops, names) == [op: ops, name: names]
Add(n) == [op |-> "add", name |-> n, old |-> TRUE, given |-> TRUE, args |-> A1, depends |-> {},
           path |-> SchemeOf[n]]
Edit(n) == [op |-> "edit", name |-> n, old |-> TRUE, given |-> TRUE, args |-> NoArgs, depends |-> {"gtrand"},
            path |-> NoPath]

\* The commands that call the services, on both of them.
RunCommands == On({"start", "stop", "info"}, Names) \cup [op: {"list"}]
\* Both services started and asked for their statistics, one of them stopped.
FaultCommands == On({"start", "info"}, Names) \cup On({"stop", "remove"}, {"gtrand"})
\* The registry commands, and what starts, stops and clears a service.
RegistryCommands ==
    On({"start", "remove", "view"}, Names) \cup On({"stop", "clear"}, {"gtrand"})
      \cup {Add("gtrand"), Add("ghost"), Edit("gtrand"), Edit("ghost")}
      \cup {[Edit("gtrand") EXCEPT !.given = FALSE]}
\* One running service is asked for its statistics.
InfoCommands == On({"info"}, {"gtrand"})
=============================================================================
