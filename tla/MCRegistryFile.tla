--------------------------- MODULE MCRegistryFile ---------------------------
(***************************************************************************)
(* An instance of RegistryFile: three names, each registered or not, with  *)
(* the configuration its Add describes or as an Edit leaves it.            *)
(***************************************************************************)
EXTENDS RegistryFile, TLC

CONSTANTS P1, A1, S1, S2, S3

ThreeNames == {S1, S2, S3}
OnePath == [n \in Names |-> P1]
Conf(n) == [type |-> "daemon", args |-> NoArgs, depends |-> {}, path |-> SchemeOf[n]]
TwoRegistered == [n \in Names |-> IF n = S3 THEN NoConfig ELSE Conf(n)]

Add(n) == [op |-> "add", name |-> n, old |-> FALSE, args |-> NoArgs, depends |-> {},
           path |-> SchemeOf[n]]
Edit(n) == [op |-> "edit", name |-> n, old |-> TRUE, args |-> A1, depends |-> {},
            path |-> NoPath]

AllCommands ==
    [op: {"view", "remove"}, name: Names] \cup {Add(n) : n \in Names} \cup {Edit(n) : n \in Names}
=============================================================================
