-------------------------- MODULE MCMirrorHistory --------------------------
(***************************************************************************)
(* Two exports side by side: mirror devices (Mirror) and the history       *)
(* export (History).  A behaviour exercises one of them, part, and leaves  *)
(* the other where it starts.                                              *)
(*                                                                         *)
(* Mirror: no template, one whose points lead to the same raw point, one   *)
(* with a point that lacks its raw point.  The mirror of the second raw    *)
(* device may be there from the start, and take a point of each.           *)
(*                                                                         *)
(* History: two reporters, a queue that is full at two: three records, two *)
(* over a restart of the service, or one beside a snapshot of no, an odd   *)
(* and an even number of devices in pages of two.                          *)
(***************************************************************************)
EXTENDS Mirror, FiniteSets, TLC

CONSTANTS raw1, raw2, rawX, rawY, pointP, pointQ, mirror1, mirror2

CONSTANTS Reporter, WriteNum, PageSize, Bounds      \* of History

VARIABLES
    service, starts, historyReady, tasks, db, queue, rep, real, snap, bound, historyRunning, reported,
    snapshots, written, lost, raced,
    part

historyVars == <<service, starts, historyReady, tasks, db, queue, rep, real, snap, bound, historyRunning,
                 reported, snapshots, written, lost, raced>>

MCMirrorOf == (raw1 :> mirror1) @@ (raw2 :> mirror2)

From(point, raw) == [point |-> point, rawPoint |-> raw]

MCTemplates == {<<>>, <<From(pointP, rawX), From(pointQ, rawX)>>, <<From(pointQ, rawY), From(pointP, NoPoint)>>}

MCConfigs ==
    {<<>>, mirror2 :> <<[point |-> pointP, raw |-> raw1, rawPoint |-> rawX],
                        [point |-> pointQ, raw |-> raw2, rawPoint |-> rawX]>>}

B(d, r, n, k) == [devices |-> d, records |-> r, snapshots |-> n, starts |-> k]
MCBounds == {B(1, 3, 0, 1), B(1, 2, 0, 2), B(0, 1, 1, 2), B(3, 1, 1, 1), B(4, 1, 1, 2)}

\* There are finitely many reporters, and bounds that no other exceeds.
ASSUME HistoryAssumption ==
    /\ IsFiniteSet(Reporter)
    /\ WriteNum \in Nat \ {0} /\ PageSize \in Nat \ {0}
    /\ Bounds \subseteq [devices : Nat, records : Nat, snapshots : Nat, starts : Nat]
    /\ \E b \in Bounds : \A c \in Bounds : c.records <= b.records
    /\ \E b \in Bounds : \A c \in Bounds : c.starts <= b.starts

Hist == INSTANCE History WITH ready <- historyReady, running <- historyRunning

-----------------------------------------------------------------------------
\* The part that is left out has one state.
MCInit ==
    /\ part \in {"mirror", "history"} /\ Init /\ Hist!Init
    /\ part # "mirror" => devices = {} /\ \A r \in Raw : template[r] = <<>>
    /\ part # "history" => bound = CHOOSE b \in Bounds : TRUE

MCNext ==
    /\ UNCHANGED part
    /\ \/ part = "mirror" /\ Next /\ UNCHANGED historyVars
       \/ part = "history" /\ Hist!Next /\ UNCHANGED vars

\* The fairness of each module, where its part is exercised.
MCFairness ==
    /\ \A r \in Raw : WF_vars(part = "mirror" /\ running /\ MakeStep(r))
    /\ \A r \in Raw : WF_vars(part = "mirror" /\ running /\ (Report(r) \/ Deliver(r)))
    /\ WF_vars(part = "mirror" /\ running /\ ReloadStep)
    /\ WF_historyVars(part = "history" /\ Hist!Goes)

MCSpec == MCInit /\ [][MCNext]_<<vars, historyVars, part>> /\ MCFairness

-----------------------------------------------------------------------------
\* Every record is in one place, once, and every snapshot has every device once (History).
HistoryHolds == Hist!RecordsAreConserved /\ Hist!SnapshotsAreComplete

\* A record in the queue of a service that goes on is flushed (History).
QueueIsFlushed == Hist!QueueIsFlushed
=============================================================================
