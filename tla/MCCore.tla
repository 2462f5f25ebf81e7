------------------------------- MODULE MCCore -------------------------------
(***************************************************************************)
(* The device shadow for TLC and, beside it, what must eventually happen   *)
(* in the rest of the core: small instances of the core cache and of the   *)
(* way of a point's value.  A behaviour exercises one of them, part, and   *)
(* leaves the others where they start.                                     *)
(***************************************************************************)
EXTENDS DeviceShadow

CONSTANTS plugin, model, meter, line, site, note, temp, set, caller, collector

VARIABLES
    running, devices, models, conns, fileOf, unsaved, shadows, stray, toShadow, next, writing, disk, overlap, kept,
    driven, device, shadow, written, reachable, told, request, verify, export, asks, changes, misled,
    disturbed,
    part

cacheVars == <<running, devices, models, conns, fileOf, unsaved, shadows, stray, toShadow, next, writing, disk,
               overlap, kept>>
pathVars  == <<driven, device, shadow, written, reachable, told, request, verify, export, asks, changes,
               misled, disturbed>>

\* One ttl below the offline window, one above it.
MCTTLs == {1, 3}

\* One plugin with one directory, and no file in it.
Cache == INSTANCE CoreCache WITH
    Plugins <- {plugin}, Models <- {model}, Devices <- {meter}, Conns <- {line}, Props <- {site}, Descs <- {note},
    Dirs <- <<"alpha">>, DefaultDir <- [p \in {plugin} |-> "alpha"],
    InitDisks <- {[i \in {"alpha"} |-> [file |-> "none"]]},
    NoPlugin <- Nil, NoDevice <- Nil, NoDir <- Nil, NilMap <- Nil

\* A point that is scaled, readable and reported on change, and one that can only be written.
Path == INSTANCE PointPath WITH
    Point <- {temp, set}, RawValue <- {1, 2}, Scaled <- {temp}, Factor <- 2, ReadOnly <- {}, WriteOnly <- {set},
    OnChange <- {temp}, Caller <- {caller}, Collector <- collector, MaxTries <- 1, MaxAsks <- 1, MaxChanges <- 1,
    NoValue <- Nil, writeValue <- written, online <- reachable

-----------------------------------------------------------------------------
MCInit ==
    /\ part \in {"shadow", "cache", "points"}
    /\ Init /\ Cache!Init /\ Path!Init
    /\ device = [p \in {temp, set} |-> 1]
    /\ part # "points" => ~driven

MCNext ==
    /\ UNCHANGED part
    /\ \/ part = "shadow" /\ Next /\ UNCHANGED <<cacheVars, pathVars>>
       \/ part = "cache" /\ Cache!Next /\ UNCHANGED <<vars, pathVars>>
       \/ part = "points" /\ Path!Next /\ UNCHANGED <<vars, cacheVars>>

\* The fairness of each module, where its part is exercised.
MCFairness ==
    /\ WF_vars(part = "shadow" /\ Tick)
    /\ WF_vars(part = "shadow" /\ checkOffline)
    /\ \A d \in Devices, s \in Status : WF_vars(part = "shadow" /\ TriggerEvents(d, s))
    /\ SF_cacheVars(part = "cache" /\ Cache!AutoFlush(plugin)) /\ WF_cacheVars(part = "cache" /\ Cache!Settle(plugin))
    /\ SF_cacheVars(part = "cache" /\ Cache!FlushEnd)
    /\ WF_pathVars(part = "points" /\ Path!Collect)
    /\ \A w \in {caller, collector} : WF_pathVars(part = "points" /\ Path!ExportStep(w))
    /\ SF_pathVars(part = "points" /\ Path!Compare(collector))
    /\ WF_pathVars(part = "points" /\ Path!Answer(caller))
    /\ WF_pathVars(part = "points" /\ Path!VerifyStep(caller))

MCSpec == MCInit /\ [][MCNext]_<<vars, cacheVars, pathVars, part>> /\ MCFairness

\* Settled changes are saved in the end (CoreCache).
SettledIsSaved == Cache!SettledIsSaved

\* The shadow comes to hold what the device holds (PointPath).
ShadowFollowsDevice == part = "points" => Path!ShadowFollowsDevice
=============================================================================
