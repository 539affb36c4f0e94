-------------------------- MODULE DurableRegistry --------------------------
(***************************************************************************)
(* What the registry file promises: a change of the registry is a single   *)
(* step, and once it is done it lasts until the next one, through crashes  *)
(* and restarts of the monitor.  A crash in the middle of a change costs   *)
(* any number of entries, those of other services included, or the whole   *)
(* registry; a monitor whose registry is lost never starts again.          *)
(***************************************************************************)
EXTENDS Registry

CONSTANTS
    Registry0,      \* the registry at first
    Changes,        \* the commands that may change it
    Unreadable      \* a file read_registry cannot parse

VARIABLES
    saved,      \* the registry, or Unreadable
    stage       \* "ready", in the middle of a change, or "down"

Init == saved = Registry0 /\ stage = "ready"

Change ==
    /\ stage = "ready" /\ stage' = "changing"
    /\ \E c \in Changes : ChangeOk(saved, c) /\ saved' = Changed(saved, c)

Done == stage = "changing" /\ stage' = "ready" /\ UNCHANGED saved

Parts(disk) ==
    {[n \in Names |-> IF n \in kept THEN disk[n] ELSE NoConfig] : kept \in SUBSET Names}

Crash ==
    /\ stage # "down" /\ stage' = "down"
    /\ \/ UNCHANGED saved
       \/ stage = "changing" /\ saved' \in Parts(saved) \cup {Unreadable}

Boot == stage = "down" /\ saved # Unreadable /\ stage' = "ready" /\ UNCHANGED saved

Next == Change \/ Done \/ Crash \/ Boot

Spec == Init /\ [][Next]_<<saved, stage>>
=============================================================================
