--------------------------- MODULE MCStatsLedger ---------------------------
(***************************************************************************)
(* An instance of StatsLedger: one client of the service beside the        *)
(* monitor, both root.                                                     *)
(***************************************************************************)
EXTENDS StatsLedger, TLC

Root == {[uid |-> 0, gid |-> 0]}
Mode644 == [owner |-> {"read", "write"}, group |-> {"read"}, other |-> {"read"}]

\* Counts a client may write to request_count; nobody here does.
NinetyNine == [k \in Kinds |-> 99]
=============================================================================
