---------------------------- MODULE MCPointPath ----------------------------
(* PointPath for TLC: a point that is scaled, readable and writable and    *)
(* reported on change, a point that can only be written, and two callers   *)
(* who overlap.                                                            *)
EXTENDS PointPath, TLC

CONSTANTS temp, set, caller1, caller2

MCPoint      == {temp, set}
OnlyTemp     == {temp}
OnlySet      == {set}
TwoCallers   == {caller1, caller2}
CallersAlike == Permutations(TwoCallers)

\* A bound: the point that can only be written is asked for, which is refused, and not written.
SetIsOnlyRead == device[set] = 1 /\ writeValue[set] = NoValue /\ \A c \in Caller : set \notin Given(request[c].want)
=============================================================================
