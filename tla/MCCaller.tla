------------------------------ MODULE MCCaller ------------------------------
(* Instances of Caller for TLC. *)
EXTENDS Caller

CONSTANTS home, other

TwoShards == {home, other}

\* Room for an instance that is compensated, and for one event of another.
FewEvents == [s \in TwoShards |-> IF s = home THEN 3 ELSE 1]
=============================================================================
