--------------------------- MODULE CommandAnswers ---------------------------
(***************************************************************************)
(* What the command channel of the service monitor promises its clients.   *)
(*                                                                         *)
(* Commands are numbered in the order in which the monitor takes them.  A  *)
(* client that waits for an answer knows the number of its own command.    *)
(* It is told some number in the end: that of the command whose response   *)
(* it takes for its own, or 0 when what it read is not of one response.    *)
(* The client that has the channel to itself is told its own number; the   *)
(* others are told nothing older than their own command.                   *)
(***************************************************************************)
EXTENDS Integers

CONSTANT Clients

VARIABLES
    count,      \* commands so far
    waiting,    \* the exchange of each client
    told        \* the number each client was told last, or 0

vars == <<count, waiting, told>>

\* no: the number of the command; sure: the monitor has a response for such a
\* command; alone: no other client has used the channel since it was sent.
NotWaiting == [no |-> 0, sure |-> FALSE, alone |-> FALSE]

Init ==
    /\ count = 0
    /\ waiting = [c \in Clients |-> NotWaiting]
    /\ told = [c \in Clients |-> 0]

\* Those that wait are no longer alone when another client sends a command.
Disturbed(c) ==
    [d \in Clients |-> IF d # c /\ waiting[d] # NotWaiting
                       THEN [waiting[d] EXCEPT !.alone = FALSE] ELSE waiting[d]]

Quiet(c) == \A d \in Clients \ {c} : waiting[d] = NotWaiting

\* A client sends a command, and will read its response or will not.
Ask(c) ==
    /\ waiting[c] = NotWaiting
    /\ count' = count + 1
    /\ \E w \in [no : {count + 1}, sure : BOOLEAN, alone : {Quiet(c)}] \cup {NotWaiting} :
         waiting' = [Disturbed(c) EXCEPT ![c] = w]
    /\ UNCHANGED told

Possible(w) ==
    IF ~w.sure THEN 0 .. count
    ELSE IF w.alone THEN {w.no}
    ELSE {0} \cup w.no .. count

Tell(c) ==
    /\ waiting[c] # NotWaiting
    /\ \E n \in Possible(waiting[c]) : told' = [told EXCEPT ![c] = n]
    /\ waiting' = [waiting EXCEPT ![c] = NotWaiting]
    /\ UNCHANGED count

\* A client is interrupted.
Leave(c) ==
    /\ waiting[c] # NotWaiting
    /\ waiting' = [waiting EXCEPT ![c] = NotWaiting]
    /\ UNCHANGED <<count, told>>

Next == \E c \in Clients : Ask(c) \/ Tell(c) \/ Leave(c)

SafeSpec == Init /\ [][Next]_vars

\* Nobody waits for ever.
Spec == SafeSpec /\ \A c \in Clients : WF_vars(Tell(c) \/ Leave(c))
=============================================================================
