-------------------------- MODULE MCCommandChannel --------------------------
(***************************************************************************)
(* An instance of CommandChannel: two command line clients and the         *)
(* graphical one.  A list takes two reads, the second of them short; an    *)
(* info fills the client's buffer; the others fit in it.                   *)
(***************************************************************************)
EXTENDS CommandChannel, TLC

MCSizes == [op \in Ops |-> IF op = "list" THEN {3} ELSE IF op = "info" THEN {2} ELSE {1}]

=============================================================================
