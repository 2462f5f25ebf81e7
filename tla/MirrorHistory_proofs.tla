------------------------ MODULE MirrorHistory_proofs ------------------------
(***************************************************************************)
(* Proofs about Mirror and about History, for any raw devices, templates,  *)
(* configurations, reporters, lengths of the queue and of a page, and      *)
(* bounds.                                                                 *)
(*                                                                         *)
(* Mirror: the type invariant, and that plugin and core cache hold the     *)
(* same of the mirrors.  A mirror's mapping is that of its model because a *)
(* goroutine that makes it carries both in made (MakeInv), and a reload    *)
(* that no making crosses reads what it later finds (ReloadInv).           *)
(*                                                                         *)
(* History: the type invariant, and that records are conserved and         *)
(* snapshots complete.  As long as nothing raced one goroutine at most is  *)
(* between reading and replacing the queue, and what it has read is what   *)
(* is in it (AloneInv); so a record that is appended has one place, and    *)
(* one that is not has none (CountInv).                                    *)
(***************************************************************************)
EXTENDS MCMirrorHistory, FiniteSetTheorems, SequenceTheorems, TLAPS

\* What models and goroutines hold of a mirror's points.
Points == {e \in Seq(Entry) : Clear(e)}

\* The types of what the proofs speak of.
Types ==
    /\ template \in [Raw -> Templates]
    /\ model \in [Mirror -> Points \union {NoModel}]
    /\ devices \in SUBSET Mirror /\ connection \in BOOLEAN
    /\ task \in [Raw -> {"none", "check", "model", "device", "connection", "mapping", "writing"}]
    /\ made \in [Raw -> Points]
    /\ reload \in {"none", "read", "destroyed", "writing"}
    /\ DOMAIN cfg \subseteq Mirror /\ \A m \in DOMAIN cfg : cfg[m] \in Points \union {NoModel}
    /\ ready \in BOOLEAN
    /\ mirrors \in [Mirror -> Mapping \union {NoModel}]
    /\ rawMapping \in [Mirror -> SUBSET (Raw \X RawPoint \X MirrorPoint)]
    /\ crossed \in SUBSET Mirror

\* What a goroutine that makes a mirror finds and leaves, if no reload meets it.
MakeInv ==
    \A r \in Raw : MirrorOf[r] \notin crossed =>
        /\ task[r] \notin {"none", "check"} => reload = "none"
        /\ task[r] \in {"model", "device"} => MirrorOf[r] \notin devices
        /\ task[r] \in {"device", "connection", "mapping"} => model[MirrorOf[r]] = made[r]
        /\ task[r] \in {"connection", "mapping"} => MirrorOf[r] \in devices /\ mirrors[MirrorOf[r]] = NoModel

\* What a reload has read is what it finds.
ReloadInv ==
    /\ ready <=> reload \notin {"destroyed", "writing"}
    /\ reload = "destroyed" => \A m \in Mirror : mirrors[m] = NoModel
    /\ reload \in {"read", "destroyed"} =>
           /\ \A m \in devices \ crossed : m \in DOMAIN cfg /\ cfg[m] = model[m]
           /\ \A m \in DOMAIN cfg : cfg[m] # NoModel => m \in devices \union crossed

\* Away from reloads a device that no making is about to map has its model's mapping; what is no device
\* and never was has none.
MappedInv ==
    /\ \A m \in Mirror \ (devices \union crossed) : mirrors[m] = NoModel
    /\ \A m \in devices \ crossed :
          model[m] # NoModel /\ (~Unmapped(m) /\ reload # "destroyed" => mirrors[m] = MappingOf(model[m]))

-----------------------------------------------------------------------------
(* Points of a mirror *)

\* UpdateMirrorMapping uses points that have their rawPoint.
LEMMA UsablePoints ==
    ASSUME NEW e \in Points, NEW i \in Usable(e)
    PROVE  i \in DOMAIN e /\ e[i].raw \in Raw /\ e[i].rawPoint \in RawPoint /\ e[i].point \in MirrorPoint
<1>1. e \in Seq(Entry) /\ i \in 1 .. Len(e) /\ e[i] \in Entry
  BY DEF Points, Usable
<1>2. e[i].rawPoint # NoPoint
  BY <1>1 DEF Usable
<1> QED BY <1>1, <1>2 DEF Entry

\* The mapping of a mirror leads to points of raw devices.
LEMMA MappingType ==
    ASSUME NEW e \in Points
    PROVE  MappingOf(e) \in Mapping /\ MappingOf(e) # NoModel
<1> DEFINE P     == {e[i].point : i \in Usable(e)}
           At(p) == CHOOSE k \in Usable(e) : e[k].point = p
<1>1. P \in SUBSET MirrorPoint
  BY UsablePoints
<1>2. \A p \in P : At(p) \in Usable(e)
  OBVIOUS
<1>3. \A p \in P : <<e[At(p)].raw, e[At(p)].rawPoint>> \in Raw \X RawPoint
  BY <1>2, UsablePoints
<1>4. MappingOf(e) = [p \in P |-> <<e[At(p)].raw, e[At(p)].rawPoint>>]
  BY DEF MappingOf
<1> HIDE DEF P, At
<1>5. MappingOf(e) \in [P -> Raw \X RawPoint]
  BY <1>3, <1>4
<1> QED BY <1>1, <1>5, MirrorAssumption DEF Mapping

\* What feeds a point of a mirror is what a write to the point goes to.
LEMMA FeedsAndMapping ==
    ASSUME NEW e \in Points, NEW f \in Feeds(e)
    PROVE  /\ f \in Raw \X RawPoint \X MirrorPoint
           /\ f[3] \in DOMAIN MappingOf(e) /\ MappingOf(e)[f[3]] = <<f[1], f[2]>>
<1> DEFINE At(p) == CHOOSE k \in Usable(e) : e[k].point = p
<1>1. PICK i \in Usable(e) : f = <<e[i].raw, e[i].rawPoint, e[i].point>>
  BY DEF Feeds
<1>2. At(f[3]) \in Usable(e) /\ e[At(f[3])].point = e[i].point
  BY <1>1
<1>3. At(f[3]) \in DOMAIN e /\ i \in DOMAIN e
  BY <1>2, UsablePoints
<1>4. e[At(f[3])] = e[i]
  BY <1>2, <1>3 DEF Points, Clear
<1>5. f[3] \in DOMAIN MappingOf(e) /\ MappingOf(e)[f[3]] = <<e[At(f[3])].raw, e[At(f[3])].rawPoint>>
  BY <1>1 DEF MappingOf
<1>6. f \in Raw \X RawPoint \X MirrorPoint
  BY <1>1, UsablePoints
<1> QED BY <1>1, <1>4, <1>5, <1>6

\* A template's points name the raw device.
LEMMA EntriesType ==
    ASSUME template \in [Raw -> Templates], NEW r \in Raw
    PROVE  EntriesOf(r) \in Points
<1> DEFINE t == template[r]
           R == [point : MirrorPoint, rawPoint : RawPoint \union {NoPoint}]
<1>1. t \in Seq(R) /\ Clear(t)
  BY MirrorAssumption
<1> HIDE DEF t, R
<1>2. Len(t) \in Nat /\ DOMAIN t = 1 .. Len(t) /\ \A i \in DOMAIN t : t[i] \in R
  BY <1>1
<1>3. Len(t) \in Nat /\ DOMAIN t = 1 .. Len(t)
      /\ \A i \in DOMAIN t : t[i].point \in MirrorPoint /\ t[i].rawPoint \in RawPoint \union {NoPoint}
  BY <1>2 DEF R
<1>4. EntriesOf(r) = [i \in 1 .. Len(t) |-> [point |-> t[i].point, raw |-> r, rawPoint |-> t[i].rawPoint]]
  BY <1>3 DEF EntriesOf, t
<1>5. \A i \in 1 .. Len(t) : [point |-> t[i].point, raw |-> r, rawPoint |-> t[i].rawPoint] \in Entry
  BY <1>3 DEF Entry
<1>6. EntriesOf(r) \in Seq(Entry)
  BY <1>3, <1>4, <1>5
<1>7. Clear(EntriesOf(r))
  BY <1>1, <1>3, <1>4 DEF Clear
<1> QED BY <1>6, <1>7 DEF Points

\* UpdateMirrorMapping maps mirrors that have no mapping, keeps the others', and both maps agree.
LEMMA MappingNews ==
    ASSUME NEW news, DOMAIN news \in SUBSET Mirror, \A m \in DOMAIN news : news[m] \in Points,
           mirrors \in [Mirror -> Mapping \union {NoModel}],
           rawMapping \in [Mirror -> SUBSET (Raw \X RawPoint \X MirrorPoint)],
           FeedsAgreeWithMirrors, MapAll(news)
    PROVE  /\ mirrors' \in [Mirror -> Mapping \union {NoModel}]
           /\ rawMapping' \in [Mirror -> SUBSET (Raw \X RawPoint \X MirrorPoint)]
           /\ \A m \in Mirror : mirrors'[m] = IF m \in DOMAIN news /\ mirrors[m] = NoModel
                                              THEN MappingOf(news[m]) ELSE mirrors[m]
           /\ FeedsAgreeWithMirrors'
<1> DEFINE new == {m \in DOMAIN news : mirrors[m] = NoModel}
<1>1. /\ mirrors' = [m \in Mirror |-> IF m \in new THEN MappingOf(news[m]) ELSE mirrors[m]]
      /\ rawMapping' = [m \in Mirror |-> rawMapping[m] \union IF m \in new THEN Feeds(news[m]) ELSE {}]
  BY DEF MapAll
<1>2. \A m \in new : /\ MappingOf(news[m]) \in Mapping /\ MappingOf(news[m]) # NoModel
                     /\ Feeds(news[m]) \in SUBSET (Raw \X RawPoint \X MirrorPoint)
  BY MappingType, FeedsAndMapping
<1>3. \A m \in new : rawMapping[m] = {}
  BY DEF FeedsAgreeWithMirrors
<1>4. ASSUME NEW m \in Mirror, NEW f \in rawMapping'[m]
      PROVE  mirrors'[m] # NoModel /\ f[3] \in DOMAIN mirrors'[m] /\ mirrors'[m][f[3]] = <<f[1], f[2]>>
  <2>1. CASE m \in new
    <3>1. f \in Feeds(news[m]) /\ mirrors'[m] = MappingOf(news[m])
      BY <1>1, <1>3, <1>4, <2>1
    <3> QED BY <1>2, <2>1, <3>1, FeedsAndMapping
  <2>2. CASE m \notin new
    <3>1. f \in rawMapping[m] /\ mirrors'[m] = mirrors[m]
      BY <1>1, <1>4, <2>2
    <3> QED BY <3>1 DEF FeedsAgreeWithMirrors
  <2> QED BY <2>1, <2>2
<1>5. FeedsAgreeWithMirrors'
  BY <1>4 DEF FeedsAgreeWithMirrors
<1>6. mirrors' \in [Mirror -> Mapping \union {NoModel}]
  BY <1>1, <1>2
<1>7. rawMapping' \in [Mirror -> SUBSET (Raw \X RawPoint \X MirrorPoint)]
  BY <1>1, <1>2
<1> QED BY <1>1, <1>5, <1>6, <1>7
-----------------------------------------------------------------------------
(* The invariant *)

Inv == Types /\ MakeInv /\ ReloadInv /\ MappedInv /\ MirrorsAreSaved /\ FeedsAgreeWithMirrors

\* Each raw device has a mirror of its own.
LEMMA OwnMirrors ==
    /\ MirrorOf \in [Raw -> Mirror]
    /\ \A r, s \in Raw : MirrorOf[r] = MirrorOf[s] => r = s
BY MirrorAssumption

\* What the invariant speaks of.
invVars == <<template, model, devices, connection, task, made, reload, cfg, ready, mirrors, rawMapping,
             crossed>>

LEMMA InvUnchanged == Inv /\ UNCHANGED invVars => Inv'
<1> SUFFICES ASSUME Inv, UNCHANGED invVars PROVE Inv'
  OBVIOUS
<1>1. Types' /\ ReloadInv'
  BY DEF Inv, invVars, Types, ReloadInv
<1>2. MakeInv' /\ MirrorsAreSaved' /\ FeedsAgreeWithMirrors'
  BY DEF Inv, invVars, MakeInv, MirrorsAreSaved, FeedsAgreeWithMirrors
<1>3. MappedInv'
  BY DEF Inv, invVars, MappedInv, Unmapped
<1> QED BY <1>1, <1>2, <1>3 DEF Inv

\* A raw device is added.
LEMMA AddRawInv ==
    ASSUME Inv, NEW r \in Raw, AddRaw(r)
    PROVE  Inv'
<1> USE OwnMirrors DEF Inv
<1>1. Types'
  BY DEF AddRaw, pluginVars, Types
<1>2. MakeInv'
  BY DEF AddRaw, pluginVars, Types, MakeInv
<1>3. ReloadInv'
  BY DEF AddRaw, pluginVars, Types, ReloadInv
<1>4. MappedInv'
  BY DEF AddRaw, pluginVars, Types, MakeInv, ReloadInv, MappedInv, Unmapped
<1>5. MirrorsAreSaved'
  BY DEF AddRaw, pluginVars, Types, MirrorsAreSaved
<1>6. FeedsAgreeWithMirrors'
  BY DEF AddRaw, pluginVars, FeedsAgreeWithMirrors
<1> QED BY <1>1, <1>2, <1>3, <1>4, <1>5, <1>6

\* A raw device's model names another template.
LEMMA ChangeTemplateInv ==
    ASSUME Inv, NEW r \in Raw, NEW t \in Templates, ChangeTemplate(r, t)
    PROVE  Inv'
<1> USE OwnMirrors DEF Inv
<1>1. Types'
  BY DEF ChangeTemplate, goVars, pluginVars, Types
<1>2. MakeInv'
  BY DEF ChangeTemplate, goVars, pluginVars, Types, MakeInv
<1>3. ReloadInv'
  BY DEF ChangeTemplate, goVars, pluginVars, Types, ReloadInv
<1>4. MappedInv'
  BY DEF ChangeTemplate, goVars, pluginVars, Types, MakeInv, ReloadInv, MappedInv, Unmapped
<1>5. MirrorsAreSaved'
  BY DEF ChangeTemplate, goVars, pluginVars, Types, MirrorsAreSaved
<1>6. FeedsAgreeWithMirrors'
  BY DEF ChangeTemplate, goVars, pluginVars, FeedsAgreeWithMirrors
<1> QED BY <1>1, <1>2, <1>3, <1>4, <1>5, <1>6

\* A mirror is removed: it is crossed from now on.
LEMMA RemoveMirrorInv ==
    ASSUME Inv, NEW m \in Mirror, RemoveMirror(m)
    PROVE  Inv'
<1> USE OwnMirrors DEF Inv
<1>1. Types'
  BY DEF RemoveMirror, goVars, pluginVars, Types
<1>2. MakeInv'
  BY DEF RemoveMirror, goVars, pluginVars, Types, MakeInv
<1>3. ReloadInv'
  BY DEF RemoveMirror, goVars, pluginVars, Types, ReloadInv
<1>4. MappedInv'
  BY DEF RemoveMirror, goVars, pluginVars, Types, MakeInv, ReloadInv, MappedInv, Unmapped
<1>5. MirrorsAreSaved'
  BY DEF RemoveMirror, goVars, pluginVars, Types, MirrorsAreSaved
<1>6. FeedsAgreeWithMirrors'
  BY DEF RemoveMirror, goVars, pluginVars, FeedsAgreeWithMirrors
<1> QED BY <1>1, <1>2, <1>3, <1>4, <1>5, <1>6

\* A goroutine looks whether there is a mirror to make.
LEMMA CheckInv ==
    ASSUME Inv, NEW r \in Raw, Check(r)
    PROVE  Inv'
<1> USE OwnMirrors DEF Inv
<1>1. Types'
  BY EntriesType DEF Check, Goes, cacheVars, pluginVars, Types
<1>2. MakeInv'
  BY EntriesType DEF Check, Goes, cacheVars, pluginVars, Types, MakeInv, ReloadInv, MappedInv
<1>3. ReloadInv'
  BY EntriesType DEF Check, Goes, cacheVars, pluginVars, Types, ReloadInv
<1>4. MappedInv'
  BY EntriesType DEF Check, Goes, cacheVars, pluginVars, Types, MakeInv, ReloadInv, MappedInv, Unmapped
<1>5. MirrorsAreSaved'
  BY EntriesType DEF Check, Goes, cacheVars, pluginVars, Types, MirrorsAreSaved
<1>6. FeedsAgreeWithMirrors'
  BY EntriesType DEF Check, Goes, cacheVars, pluginVars, FeedsAgreeWithMirrors
<1> QED BY <1>1, <1>2, <1>3, <1>4, <1>5, <1>6

\* The model is made; the mirror is no device yet.
LEMMA AddMirrorModelInv ==
    ASSUME Inv, NEW r \in Raw, AddMirrorModel(r)
    PROVE  Inv'
<1> USE OwnMirrors DEF Inv
<1>1. Types'
  BY DEF AddMirrorModel, Goes, pluginVars, Types
<1>2. MakeInv'
  <2>1. \A s \in Raw : s # r => task'[s] = task[s] /\ MirrorOf[s] # MirrorOf[r]
                               /\ model'[MirrorOf[s]] = model[MirrorOf[s]]
    BY DEF AddMirrorModel, Goes, Types
  <2>2. task[r] = "model" /\ task'[r] = "device" /\ model'[MirrorOf[r]] = made[r]
    BY DEF AddMirrorModel, Goes, Types
  <2> QED BY <2>1, <2>2 DEF AddMirrorModel, pluginVars, MakeInv
<1>3. ReloadInv'
  BY DEF AddMirrorModel, Goes, pluginVars, Types, MakeInv, ReloadInv
<1>4. MappedInv'
  BY DEF AddMirrorModel, Goes, pluginVars, Types, MakeInv, ReloadInv, MappedInv, Unmapped
<1>5. MirrorsAreSaved'
  BY DEF AddMirrorModel, Goes, pluginVars, Types, MirrorsAreSaved
<1>6. FeedsAgreeWithMirrors'
  BY DEF AddMirrorModel, Goes, pluginVars, FeedsAgreeWithMirrors
<1> QED BY <1>1, <1>2, <1>3, <1>4, <1>5, <1>6

\* The device is made, of the model the goroutine has made.
LEMMA AddMirrorDeviceInv ==
    ASSUME Inv, NEW r \in Raw, AddMirrorDevice(r)
    PROVE  Inv'
<1> USE OwnMirrors DEF Inv
<1>1. Types'
  BY DEF AddMirrorDevice, Goes, pluginVars, Types
<1>2. MakeInv'
  BY DEF AddMirrorDevice, Goes, pluginVars, Types, MakeInv, MappedInv
<1>3. ReloadInv'
  BY DEF AddMirrorDevice, Goes, pluginVars, Types, MakeInv, ReloadInv
<1>4. MappedInv'
  BY DEF AddMirrorDevice, Goes, pluginVars, Types, MakeInv, ReloadInv, MappedInv, Unmapped
<1>5. MirrorsAreSaved'
  BY DEF AddMirrorDevice, Goes, pluginVars, Types, MirrorsAreSaved
<1>6. FeedsAgreeWithMirrors'
  BY DEF AddMirrorDevice, Goes, pluginVars, FeedsAgreeWithMirrors
<1> QED BY <1>1, <1>2, <1>3, <1>4, <1>5, <1>6

\* The connection is there when the goroutine goes on.
LEMMA AddMirrorConnectionInv ==
    ASSUME Inv, NEW r \in Raw, AddMirrorConnection(r)
    PROVE  Inv'
<1> USE OwnMirrors DEF Inv
<1>1. Types'
  BY DEF AddMirrorConnection, Goes, pluginVars, Types
<1>2. MakeInv'
  BY DEF AddMirrorConnection, Goes, pluginVars, Types, MakeInv
<1>3. ReloadInv'
  BY DEF AddMirrorConnection, Goes, pluginVars, Types, ReloadInv
<1>4. MappedInv'
  BY DEF AddMirrorConnection, Goes, pluginVars, Types, MakeInv, ReloadInv, MappedInv, Unmapped
<1>5. MirrorsAreSaved'
  BY DEF AddMirrorConnection, Goes, pluginVars, Types, MirrorsAreSaved
<1>6. FeedsAgreeWithMirrors'
  BY DEF AddMirrorConnection, Goes, pluginVars, FeedsAgreeWithMirrors
<1> QED BY <1>1, <1>2, <1>3, <1>4, <1>5, <1>6

\* The mutex is given back.
LEMMA MappedStepInv ==
    ASSUME Inv, NEW r \in Raw, Mapped(r)
    PROVE  Inv'
<1> USE OwnMirrors DEF Inv
<1>1. Types'
  BY DEF Mapped, Goes, cacheVars, pluginVars, Types
<1>2. MakeInv'
  BY DEF Mapped, Goes, cacheVars, pluginVars, Types, MakeInv
<1>3. ReloadInv'
  BY DEF Mapped, Goes, cacheVars, pluginVars, Types, ReloadInv
<1>4. MappedInv'
  BY DEF Mapped, Goes, cacheVars, pluginVars, Types, MakeInv, ReloadInv, MappedInv, Unmapped
<1>5. MirrorsAreSaved'
  BY DEF Mapped, Goes, cacheVars, pluginVars, Types, MirrorsAreSaved
<1>6. FeedsAgreeWithMirrors'
  BY DEF Mapped, Goes, cacheVars, pluginVars, FeedsAgreeWithMirrors
<1> QED BY <1>1, <1>2, <1>3, <1>4, <1>5, <1>6

\* A reload reads the configuration.
LEMMA ReloadReadInv ==
    ASSUME Inv, ReloadRead
    PROVE  Inv'
<1> USE OwnMirrors DEF Inv
<1>1. Types'
  BY DEF ReloadRead, cacheVars, pluginVars, Making, Types
<1>2. MakeInv'
  BY DEF ReloadRead, cacheVars, pluginVars, Making, Types, MakeInv
<1>3. ReloadInv'
  BY DEF ReloadRead, cacheVars, pluginVars, Making, Types, ReloadInv, MappedInv
<1>4. MappedInv'
  BY DEF ReloadRead, cacheVars, pluginVars, Making, Types, MakeInv, ReloadInv, MappedInv, Unmapped
<1>5. MirrorsAreSaved'
  BY DEF ReloadRead, cacheVars, pluginVars, Making, Types, MirrorsAreSaved
<1>6. FeedsAgreeWithMirrors'
  BY DEF ReloadRead, cacheVars, pluginVars, Making, FeedsAgreeWithMirrors
<1> QED BY <1>1, <1>2, <1>3, <1>4, <1>5, <1>6

\* A reload clears the maps.
LEMMA DestroyInv ==
    ASSUME Inv, Destroy
    PROVE  Inv'
<1> USE OwnMirrors DEF Inv
<1>1. Types'
  <2>1. crossed' \in SUBSET Mirror
    BY DEF Destroy, Making, Types
  <2>2. mirrors' \in [Mirror -> Mapping \union {NoModel}]
    BY DEF Destroy
  <2>3. rawMapping' \in [Mirror -> SUBSET (Raw \X RawPoint \X MirrorPoint)]
    BY DEF Destroy
  <2> QED BY <2>1, <2>2, <2>3 DEF Destroy, cacheVars, Types
<1>2. MakeInv'
  BY DEF Destroy, cacheVars, Making, Types, MakeInv, Making
<1>3. ReloadInv'
  BY DEF Destroy, cacheVars, Making, Types, ReloadInv
<1>4. MappedInv'
  BY DEF Destroy, cacheVars, Making, Types, MakeInv, ReloadInv, MappedInv, Unmapped
<1>5. MirrorsAreSaved'
  BY DEF Destroy, cacheVars, Making, Types, MirrorsAreSaved
<1>6. FeedsAgreeWithMirrors'
  BY DEF Destroy, cacheVars, Making, FeedsAgreeWithMirrors
<1> QED BY <1>1, <1>2, <1>3, <1>4, <1>5, <1>6

\* A reload is over.
LEMMA InitializedInv ==
    ASSUME Inv, Initialized
    PROVE  Inv'
<1> USE OwnMirrors DEF Inv
<1>1. Types'
  BY DEF Initialized, cacheVars, Making, Types
<1>2. MakeInv'
  BY DEF Initialized, cacheVars, Making, Types, MakeInv
<1>3. ReloadInv'
  BY DEF Initialized, cacheVars, Making, Types, ReloadInv
<1>4. MappedInv'
  BY DEF Initialized, cacheVars, Making, Types, MakeInv, ReloadInv, MappedInv, Unmapped
<1>5. MirrorsAreSaved'
  BY DEF Initialized, cacheVars, Making, Types, MirrorsAreSaved
<1>6. FeedsAgreeWithMirrors'
  BY DEF Initialized, cacheVars, Making, FeedsAgreeWithMirrors
<1> QED BY <1>1, <1>2, <1>3, <1>4, <1>5, <1>6

\* A mirror gets the mapping of the points its goroutine has made.
LEMMA AutoMapInv ==
    ASSUME Inv, NEW r \in Raw, AutoMap(r)
    PROVE  Inv'
<1> USE OwnMirrors DEF Inv
<1>1. CASE ~ready
  <2>1. Types' /\ ReloadInv' /\ FeedsAgreeWithMirrors' /\ MirrorsAreSaved'
    BY <1>1 DEF AutoMap, Goes, cacheVars, Types, ReloadInv, FeedsAgreeWithMirrors, MirrorsAreSaved
  <2>2. MakeInv'
    BY <1>1 DEF AutoMap, Goes, cacheVars, Types, MakeInv
  <2>3. MappedInv'
    BY <1>1 DEF AutoMap, Goes, cacheVars, Types, MakeInv, ReloadInv, MappedInv, Unmapped
  <2> QED BY <2>1, <2>2, <2>3
<1>2. CASE ready
  <2> DEFINE m    == MirrorOf[r]
             news == [x \in {m} |-> made[r]]
  <2>1. /\ task[r] = "mapping" /\ task' = [task EXCEPT ![r] = "writing"] /\ MapAll(news)
        /\ UNCHANGED <<cacheVars, made, reload, cfg, ready, valueVars, running, moves, crossed>>
    BY <1>2 DEF AutoMap, Goes
  <2>2. DOMAIN news \in SUBSET Mirror /\ \A x \in DOMAIN news : news[x] \in Points
    BY DEF Types
  <2> HIDE DEF news
  <2>3. /\ mirrors' \in [Mirror -> Mapping \union {NoModel}]
        /\ rawMapping' \in [Mirror -> SUBSET (Raw \X RawPoint \X MirrorPoint)]
        /\ \A x \in Mirror : mirrors'[x] = IF x \in DOMAIN news /\ mirrors[x] = NoModel
                                           THEN MappingOf(news[x]) ELSE mirrors[x]
        /\ FeedsAgreeWithMirrors'
    BY <2>1, <2>2, MappingNews DEF Types
  <2>4. \A x \in Mirror : mirrors'[x] = IF x = m /\ mirrors[m] = NoModel
                                        THEN MappingOf(made[r]) ELSE mirrors[x]
    BY <2>3 DEF news
  <2>5. Types'
    BY <2>1, <2>3 DEF Types, cacheVars
  <2>6. \A s \in Raw : s # r => task'[s] = task[s] /\ MirrorOf[s] # m /\ mirrors'[MirrorOf[s]] = mirrors[MirrorOf[s]]
    BY <2>1, <2>4 DEF Types
  <2>7. task'[r] = "writing"
    BY <2>1 DEF Types
  <2>8. MakeInv'
    BY <2>1, <2>6, <2>7 DEF MakeInv, cacheVars
  <2>9. ReloadInv'
    BY <1>2, <2>1 DEF ReloadInv, cacheVars
  <2>10. MappedInv'
    <3>1. m \notin crossed => m \in devices /\ mirrors[m] = NoModel /\ model[m] = made[r]
      BY <2>1 DEF MakeInv, MappedInv, Types
    <3>2. \A x \in devices \ crossed : x # m => (Unmapped(x)' <=> Unmapped(x)) /\ mirrors'[x] = mirrors[x]
      <4> SUFFICES ASSUME NEW x \in devices \ crossed, x # m
                   PROVE  (Unmapped(x)' <=> Unmapped(x)) /\ mirrors'[x] = mirrors[x]
        OBVIOUS
      <4>1. \A s \in Raw : MirrorOf[s] = x => task'[s] = task[s]
        BY <2>6
      <4>2. mirrors'[x] = mirrors[x]
        BY <2>4 DEF Types
      <4> QED BY <4>1, <4>2 DEF Unmapped
    <3>3. \A x \in Mirror \ (devices \union crossed) : mirrors'[x] = NoModel
      BY <2>4, <3>1 DEF MappedInv
    <3>4. m \notin crossed => mirrors'[m] = MappingOf(model[m])
      BY <2>4, <3>1
    <3> QED BY <2>1, <3>2, <3>3, <3>4 DEF MappedInv, Types, cacheVars
  <2>11. MirrorsAreSaved'
    BY <2>1, <2>6 DEF MirrorsAreSaved, cacheVars
  <2> QED BY <2>3, <2>5, <2>8, <2>9, <2>10, <2>11
<1> QED BY <1>1, <1>2

\* A reload maps what it has read, and removes models without a device.
LEMMA InitializeInv ==
    ASSUME Inv, Initialize
    PROVE  Inv'
<1> USE OwnMirrors DEF Inv
<1> DEFINE news == [m \in {x \in DOMAIN cfg : cfg[x] # NoModel} |-> cfg[m]]
<1>1. /\ reload = "destroyed" /\ reload' = "writing" /\ MapAll(news)
      /\ UNCHANGED <<raws, template, devices, task, made, cfg, ready, valueVars, running, moves>>
  BY DEF Initialize
<1>2. DOMAIN news \in SUBSET Mirror /\ \A m \in DOMAIN news : news[m] \in Points
  BY DEF Types
<1>3. \A m \in Mirror : m \in DOMAIN news <=> m \in DOMAIN cfg /\ cfg[m] # NoModel
  OBVIOUS
<1>4. \A m \in DOMAIN news : news[m] = cfg[m]
  OBVIOUS
<1> HIDE DEF news
<1>5. /\ mirrors' \in [Mirror -> Mapping \union {NoModel}]
      /\ rawMapping' \in [Mirror -> SUBSET (Raw \X RawPoint \X MirrorPoint)]
      /\ \A m \in Mirror : mirrors'[m] = IF m \in DOMAIN news /\ mirrors[m] = NoModel
                                         THEN MappingOf(news[m]) ELSE mirrors[m]
      /\ FeedsAgreeWithMirrors'
  BY <1>1, <1>2, MappingNews DEF Types
<1>6. \A m \in Mirror : mirrors'[m] = IF m \in DOMAIN news THEN MappingOf(cfg[m]) ELSE NoModel
  BY <1>1, <1>4, <1>5 DEF ReloadInv
<1>7. model' \in [Mirror -> Points \union {NoModel}] /\ \A m \in devices : model'[m] = model[m]
  BY DEF Initialize, Types
<1>8. crossed' = crossed \union Making /\ connection' = (connection /\ (DOMAIN cfg # {} \/ devices # {}))
  BY DEF Initialize
<1>9. Making \in SUBSET Mirror /\ \A r \in Raw : task[r] # "none" => MirrorOf[r] \in Making
  BY DEF Making
<1>10. Types'
  BY <1>1, <1>5, <1>7, <1>8, <1>9 DEF Types
<1>11. MakeInv'
  BY <1>1, <1>8, <1>9 DEF MakeInv
<1>12. ReloadInv'
  BY <1>1 DEF ReloadInv
<1>13. MappedInv'
  <2>1. ASSUME NEW m \in devices \ crossed
        PROVE  m \in DOMAIN news /\ cfg[m] = model[m] /\ model[m] # NoModel /\ mirrors'[m] = MappingOf(model[m])
    <3>1. m \in DOMAIN cfg /\ cfg[m] = model[m] /\ model[m] # NoModel
      BY <1>1 DEF ReloadInv, MappedInv
    <3> QED BY <1>3, <1>6, <3>1 DEF Types
  <2>2. ASSUME NEW m \in Mirror \ (devices \union crossed)
        PROVE  mirrors'[m] = NoModel
    BY <1>1, <1>3, <1>6 DEF ReloadInv
  <2> QED BY <1>1, <1>7, <1>8, <2>1, <2>2 DEF MappedInv, Types
<1>14. MirrorsAreSaved'
  BY <1>1, <1>8 DEF MirrorsAreSaved
<1> QED BY <1>5, <1>10, <1>11, <1>12, <1>13, <1>14

LEMMA InvInit == Init => Inv
<1> SUFFICES ASSUME Init PROVE Inv
  OBVIOUS
<1> USE OwnMirrors
<1>1. PICK loaded \in Configs :
        /\ model = [m \in Mirror |-> IF m \in DOMAIN loaded THEN loaded[m] ELSE NoModel]
        /\ devices = DOMAIN loaded /\ connection = (DOMAIN loaded # {})
        /\ mirrors = [m \in Mirror |-> IF m \in DOMAIN loaded THEN MappingOf(loaded[m]) ELSE NoModel]
        /\ rawMapping = [m \in Mirror |-> IF m \in DOMAIN loaded THEN Feeds(loaded[m]) ELSE {}]
  BY DEF Init
<1>2. DOMAIN loaded \in SUBSET Mirror /\ \A m \in DOMAIN loaded : loaded[m] \in Points
  BY MirrorAssumption DEF Points
<1>3. \A m \in DOMAIN loaded : /\ MappingOf(loaded[m]) \in Mapping /\ MappingOf(loaded[m]) # NoModel
                               /\ loaded[m] # NoModel
                               /\ Feeds(loaded[m]) \in SUBSET (Raw \X RawPoint \X MirrorPoint)
  BY <1>2, MappingType, FeedsAndMapping, MirrorAssumption DEF Points
<1>4. <<>> \in Points
  BY DEF Points, Clear
<1>5. model \in [Mirror -> Points \union {NoModel}] /\ mirrors \in [Mirror -> Mapping \union {NoModel}]
  BY <1>1, <1>2, <1>3
<1>6. rawMapping \in [Mirror -> SUBSET (Raw \X RawPoint \X MirrorPoint)]
  BY <1>1, <1>2, <1>3
<1>7. Types
  BY <1>1, <1>2, <1>4, <1>5, <1>6 DEF Types, Init
<1>8. MakeInv /\ ReloadInv
  BY DEF Init, MakeInv, ReloadInv
<1>9. MappedInv /\ MirrorsAreSaved
  BY <1>1, <1>2, <1>3 DEF Init, MappedInv, MirrorsAreSaved
<1>10. FeedsAgreeWithMirrors
  BY <1>1, <1>2, <1>3, FeedsAndMapping DEF FeedsAgreeWithMirrors
<1> QED BY <1>7, <1>8, <1>9, <1>10 DEF Inv

LEMMA InvStep == Inv /\ [Next]_vars => Inv'
<1> SUFFICES ASSUME Inv, [Next]_vars PROVE Inv'
  OBVIOUS
<1>1. ASSUME NEW r \in Raw, AddRaw(r) \/ RemoveRaw(r) \/ Report(r) \/ Deliver(r)
      PROVE  Inv'
  BY <1>1, AddRawInv, InvUnchanged
     DEF RemoveRaw, Report, Deliver, invVars, cacheVars, pluginVars, goVars
<1>2. ASSUME NEW r \in Raw, MakeStep(r)
      PROVE  Inv'
  BY <1>2, CheckInv, AddMirrorModelInv, AddMirrorDeviceInv, AddMirrorConnectionInv, AutoMapInv,
     MappedStepInv DEF MakeStep
<1>3. ASSUME NEW r \in Raw, NEW t \in Templates, ChangeTemplate(r, t)
      PROVE  Inv'
  BY <1>3, ChangeTemplateInv
<1>4. ASSUME NEW r \in Raw, NEW p \in RawPoint, NEW v \in Value, RawChange(r, p, v)
      PROVE  Inv'
  BY <1>4, InvUnchanged DEF RawChange, invVars, cacheVars, pluginVars, goVars
<1>5. ASSUME NEW m \in Mirror, RemoveMirror(m)
      PROVE  Inv'
  BY <1>5, RemoveMirrorInv
<1>6. ASSUME NEW m \in Mirror, NEW p \in MirrorPoint, NEW v \in Value, Write(m, p, v)
      PROVE  Inv'
  BY <1>6, InvUnchanged DEF Write, invVars, cacheVars, pluginVars, goVars
<1>7. ASSUME ReloadRead \/ ReloadStep
      PROVE  Inv'
  BY <1>7, ReloadReadInv, DestroyInv, InitializeInv, InitializedInv DEF ReloadStep
<1>8. ASSUME ReadWhileWritten \/ UNCHANGED vars
      PROVE  Inv'
  BY <1>8, InvUnchanged DEF ReadWhileWritten, vars, invVars, cacheVars, pluginVars, goVars
<1> QED BY <1>1, <1>2, <1>3, <1>4, <1>5, <1>6, <1>7, <1>8 DEF Next

-----------------------------------------------------------------------------
\* The type invariant, for any raw devices, mirrors, templates and configurations.
THEOREM MirrorTypeCorrect == Spec => []Types
BY InvInit, InvStep, PTL DEF Spec, Inv

\* Plugin and core cache fit together whatever is added, removed and reloaded, in any order: mappings
\* are their models', mirrors are saved, and a value goes back where it came from (export.go:83-230,
\* plugin.go:40-135 of the mirror export).
THEOREM MirrorAlwaysHolds == Spec => []MirrorHolds
<1>1. Inv => MirrorHolds
  BY DEF Inv, MappedInv, MirrorHolds, MappingIsTheModels, Types
<1> QED BY <1>1, InvInit, InvStep, PTL DEF Spec

-----------------------------------------------------------------------------
(* Helpers of History, by those of this module *)

\* The module has the same sets and sequences.
LEMMA HistSets == \A s : Hist!Cardinality(s) = Cardinality(s) /\ Hist!ToSet(s) = ToSet(s)
BY DEF Hist!Cardinality, Cardinality, Hist!ToSet, ToSet

\* What the start of a behaviour bounds are records and starts of the model.
LEMMA BoundsAreCovered ==
    ASSUME NEW b \in Bounds
    PROVE  /\ 1 .. b.records \subseteq Hist!Record /\ 1 .. b.starts \subseteq Hist!Start
           /\ b.records \in Nat /\ b.starts \in Nat /\ b.devices \in Nat
           /\ IsFiniteSet(Hist!Start) /\ Hist!Start \subseteq Nat /\ Hist!Record \subseteq Nat
<1> b.records \in Nat /\ b.starts \in Nat /\ b.devices \in Nat
  BY HistoryAssumption
<1>1. PICK c \in Bounds : \A d \in Bounds : d.records <= c.records
  BY HistoryAssumption
<1>2. PICK e \in Bounds : \A d \in Bounds : d.starts <= e.starts
  BY HistoryAssumption
<1> DEFINE R == {d.records : d \in Bounds}
           S == {d.starts : d \in Bounds}
<1>3. R \subseteq Nat /\ S \subseteq Nat
  BY HistoryAssumption
<1>4. c.records \in R /\ \A n \in R : c.records >= n
  BY <1>1, <1>3
<1>5. e.starts \in S /\ \A n \in S : e.starts >= n
  BY <1>2, <1>3
<1>6. Hist!Max(R) \in R /\ \A n \in R : Hist!Max(R) >= n
  BY <1>4, Zenon DEF Hist!Max
<1>7. Hist!Max(S) \in S /\ \A n \in S : Hist!Max(S) >= n
  BY <1>5, Zenon DEF Hist!Max
<1>8. Hist!Record = 1 .. Hist!Max(R) /\ Hist!Start = 1 .. Hist!Max(S)
  BY Zenon DEF Hist!Record, Hist!Start
<1>9. b.records \in R /\ b.starts \in S
  OBVIOUS
<1>10. Hist!Max(R) >= b.records /\ Hist!Max(S) >= b.starts /\ Hist!Max(R) \in Nat /\ Hist!Max(S) \in Nat
  BY <1>3, <1>6, <1>7, <1>9, Zenon
<1>11. IsFiniteSet(Hist!Start)
  BY <1>8, <1>10, FS_Interval
<1> HIDE DEF R, S
<1> QED  BY <1>8, <1>10, <1>11

-----------------------------------------------------------------------------
(* How often a record is in a queue *)

LEMMA TimesInQueue ==
    ASSUME NEW s \in Seq(Nat), NEW k
    PROVE  /\ Hist!Times(s, k) \in Nat
           /\ k \in Hist!ToSet(s) <=> Hist!Times(s, k) # 0
<1> DEFINE I == {i \in DOMAIN s : s[i] = k}
<1>1. IsFiniteSet(1 .. Len(s)) /\ I \subseteq 1 .. Len(s)
  BY FS_Interval
<1>2. IsFiniteSet(I) /\ Cardinality(I) \in Nat
  BY <1>1, FS_Subset, FS_CardinalityType
<1>3. Cardinality(I) = 0 <=> I = {}
  BY <1>2, FS_EmptySet
<1>4. Hist!Times(s, k) = Cardinality(I)
  BY HistSets DEF Hist!Times
<1>5. k \in ToSet(s) <=> I # {}
  BY DEF ToSet
<1> QED  BY <1>2, <1>3, <1>4, <1>5, HistSets

LEMMA TimesInEmpty == ASSUME NEW k PROVE Hist!Times(<<>>, k) = 0
<1>1. {i \in DOMAIN <<>> : <<>>[i] = k} = {}
  OBVIOUS
<1>2. Hist!Times(<<>>, k) = Cardinality({})
  BY <1>1, HistSets DEF Hist!Times
<1> QED  BY <1>2, FS_EmptySet

LEMMA TimesInAppend ==
    ASSUME NEW s \in Seq(Nat), NEW e \in Nat, NEW k
    PROVE  Hist!Times(Append(s, e), k) = Hist!Times(s, k) + (IF e = k THEN 1 ELSE 0)
<1> DEFINE I == {i \in DOMAIN s : s[i] = k}
           J == {i \in DOMAIN Append(s, e) : Append(s, e)[i] = k}
<1>1. IsFiniteSet(1 .. Len(s)) /\ I \subseteq 1 .. Len(s) /\ Len(s) \in Nat
  BY FS_Interval
<1>2. IsFiniteSet(I) /\ Cardinality(I) \in Nat
  BY <1>1, FS_Subset, FS_CardinalityType
<1>3. Hist!Times(s, k) = Cardinality(I) /\ Hist!Times(Append(s, e), k) = Cardinality(J)
  BY HistSets DEF Hist!Times
<1> HIDE DEF I, J
<1>4. CASE e = k
  <2>1. J = I \union {Len(s) + 1} /\ Len(s) + 1 \notin I
    BY <1>1, <1>4 DEF I, J
  <2>2. Cardinality(J) = Cardinality(I) + 1
    BY <1>2, <2>1, FS_AddElement
  <2> QED  BY <1>3, <1>4, <2>2
<1>5. CASE e # k
  <2>1. J = I
    BY <1>1, <1>5 DEF I, J
  <2> QED  BY <1>2, <1>3, <1>5, <2>1
<1> QED  BY <1>4, <1>5

-----------------------------------------------------------------------------
(* The inductive invariant of History *)

ReporterAt == {"idle", "load", "store", "full", "replace", "write"}
FlushAt == {"none", "wait", "take", "replace", "write", "ended"}
SnapshotAt == {"none", "wait", "write", "ended"}

\* What goroutines hold.
ReporterState == [at : ReporterAt, rec : Nat, seen : Seq(Hist!Record)]
FlushState == [at : FlushAt, enable : BOOLEAN, seen : Seq(Hist!Record)]
SnapshotState == [at : SnapshotAt, enable : BOOLEAN, pages : Seq(SUBSET Nat), failed : BOOLEAN]

\* The types of History's variables.
HistTypes ==
    /\ bound \in Bounds /\ starts \in 0 .. bound.starts /\ reported \in 0 .. bound.records
    /\ service \in {"off", "up", "clear", "destroy"} /\ db \in {"none", "open", "closed"}
    /\ historyReady \in BOOLEAN /\ historyRunning \in BOOLEAN /\ raced \in BOOLEAN
    /\ tasks \in Nat /\ snapshots \in Nat
    /\ queue \in Seq(Hist!Record)
    /\ rep \in [Reporter -> ReporterState]
    /\ real \in [Hist!Start -> FlushState]
    /\ snap \in [Hist!Start -> SnapshotState]
    /\ written \in [Hist!Record -> Nat] /\ lost \in [Hist!Record -> Nat]

\* A reporter whose record is not in the queue yet.
Pending(g) == g.at \in {"load", "store"}

\* Each of them has a record of its own; a start that is to come has no jobs.
RecordInv ==
    /\ \A r \in Reporter : Pending(rep[r]) =>
          /\ rep[r].rec \in 1 .. reported
          /\ \A s \in Reporter : Pending(rep[s]) /\ rep[s].rec = rep[r].rec => s = r
    /\ \A n \in Hist!Start : n > starts => real[n].at = "none"

\* As long as nothing raced, one goroutine at most is between reading and replacing the queue, and has
\* read what is in it.
AloneInv ==
    /\ \A r \in Reporter : rep[r].at \in {"store", "replace"} =>
          /\ rep[r].seen = queue
          /\ \A s \in Reporter : rep[s].at \in {"store", "replace"} => s = r
          /\ \A n \in Hist!Start : real[n].at # "replace"
    /\ \A n \in Hist!Start : real[n].at = "replace" =>
          real[n].seen = queue /\ \A m \in Hist!Start : real[m].at = "replace" => m = n

\* Then every record is in one place, once, after it was appended, and nowhere before; no batch has one
\* twice.
Places(k) == Hist!Times(queue, k) + Hist!Batches(k) + written[k] + lost[k]

CountInv ==
    /\ \A k \in Hist!Record : Places(k) = IF k \in Hist!Appended THEN 1 ELSE 0
    /\ \A k \in Hist!Record, r \in Reporter : rep[r].at = "write" => Hist!Times(rep[r].seen, k) <= 1
    /\ \A k \in Hist!Record, n \in Hist!Start : real[n].at = "write" => Hist!Times(real[n].seen, k) <= 1

\* The pages of a snapshot are those of the devices, in order; a job that waits has written all of them.
SnapshotInv ==
    \A n \in Hist!Start :
        /\ snap[n].at = "write" => Len(snap[n].pages) < Hist!PageCount
        /\ snap[n].at = "wait" /\ snap[n].pages # <<>> => Len(snap[n].pages) = Hist!PageCount
        /\ ~snap[n].failed => \A i \in DOMAIN snap[n].pages : snap[n].pages[i] = Hist!Page(i)

QueueInv == HistTypes /\ RecordInv /\ (~raced => AloneInv /\ CountInv)

-----------------------------------------------------------------------------
(* Batches that are being written *)

\* Who writes a record.
Writers(k) == {r \in Reporter : rep[r].at = "write" /\ k \in Hist!ToSet(rep[r].seen)}
Flushes(k) == {n \in Hist!Start : real[n].at = "write" /\ k \in Hist!ToSet(real[n].seen)}

LEMMA BatchesOf ==
    ASSUME NEW k
    PROVE  /\ Hist!Batches(k) = Cardinality(Writers(k)) + Cardinality(Flushes(k))
           /\ Hist!Batches(k)' = Cardinality(Writers(k)') + Cardinality(Flushes(k)')
           /\ IsFiniteSet(Writers(k)) /\ Cardinality(Writers(k)) \in Nat
           /\ IsFiniteSet(Flushes(k)) /\ Cardinality(Flushes(k)) \in Nat
<1>1. PICK b \in Bounds : TRUE
  BY HistoryAssumption
<1>2. IsFiniteSet(Reporter) /\ IsFiniteSet(Hist!Start)
  BY BoundsAreCovered, HistoryAssumption
<1>3. Writers(k) \subseteq Reporter /\ Flushes(k) \subseteq Hist!Start
  BY DEF Writers, Flushes
<1>4. IsFiniteSet(Writers(k)) /\ IsFiniteSet(Flushes(k))
  BY <1>2, <1>3, FS_Subset
<1>5. /\ Hist!Batches(k) = Cardinality(Writers(k)) + Cardinality(Flushes(k))
      /\ Hist!Batches(k)' = Cardinality(Writers(k)') + Cardinality(Flushes(k)')
  BY HistSets DEF Hist!Batches, Writers, Flushes
<1> QED  BY <1>4, <1>5, FS_CardinalityType

\* A goroutine writes a record.
Writes(g, k) == g.at = "write" /\ k \in Hist!ToSet(g.seen)

\* What a step of one reporter changes of the batches.
LEMMA BatchesOfReporter ==
    ASSUME NEW r \in Reporter, NEW k, real' = real, \A s \in Reporter \ {r} : rep'[s] = rep[s]
    PROVE  /\ Hist!Batches(k) \in Nat /\ Hist!Batches(k)' \in Nat
           /\ Hist!Batches(k)' + (IF Writes(rep[r], k) THEN 1 ELSE 0)
                 = Hist!Batches(k) + (IF Writes(rep'[r], k) THEN 1 ELSE 0)
<1> DEFINE rest == Writers(k) \ {r}
<1>1. /\ Writers(k) = IF Writes(rep[r], k) THEN rest \union {r} ELSE rest
      /\ Writers(k)' = IF Writes(rep'[r], k) THEN rest \union {r} ELSE rest
      /\ r \notin rest
  BY DEF Writers, Writes
<1>2. Flushes(k)' = Flushes(k)
  BY DEF Flushes
<1>3. IsFiniteSet(rest)
  BY BatchesOf, FS_RemoveElement
<1> HIDE DEF rest
<1>4. Cardinality(rest) \in Nat /\ Cardinality(rest \union {r}) = Cardinality(rest) + 1
  BY <1>1, <1>3, FS_AddElement, FS_CardinalityType
<1>5. /\ Cardinality(Writers(k)) = Cardinality(rest) + (IF Writes(rep[r], k) THEN 1 ELSE 0)
      /\ Cardinality(Writers(k)') = Cardinality(rest) + (IF Writes(rep'[r], k) THEN 1 ELSE 0)
  BY <1>1, <1>4
<1> QED  BY <1>2, <1>4, <1>5, BatchesOf

\* What a step of one flush job changes of them.
LEMMA BatchesOfFlush ==
    ASSUME NEW n \in Hist!Start, NEW k, rep' = rep, \A m \in Hist!Start \ {n} : real'[m] = real[m]
    PROVE  /\ Hist!Batches(k) \in Nat /\ Hist!Batches(k)' \in Nat
           /\ Hist!Batches(k)' + (IF Writes(real[n], k) THEN 1 ELSE 0)
                 = Hist!Batches(k) + (IF Writes(real'[n], k) THEN 1 ELSE 0)
<1> DEFINE rest == Flushes(k) \ {n}
<1>1. /\ Flushes(k) = IF Writes(real[n], k) THEN rest \union {n} ELSE rest
      /\ Flushes(k)' = IF Writes(real'[n], k) THEN rest \union {n} ELSE rest
      /\ n \notin rest
  BY DEF Flushes, Writes
<1>2. Writers(k)' = Writers(k)
  BY DEF Writers
<1>3. IsFiniteSet(rest)
  BY BatchesOf, FS_RemoveElement
<1> HIDE DEF rest
<1>4. Cardinality(rest) \in Nat /\ Cardinality(rest \union {n}) = Cardinality(rest) + 1
  BY <1>1, <1>3, FS_AddElement, FS_CardinalityType
<1>5. /\ Cardinality(Flushes(k)) = Cardinality(rest) + (IF Writes(real[n], k) THEN 1 ELSE 0)
      /\ Cardinality(Flushes(k)') = Cardinality(rest) + (IF Writes(real'[n], k) THEN 1 ELSE 0)
  BY <1>1, <1>4
<1> QED  BY <1>2, <1>4, <1>5, BatchesOf

\* Where no goroutine begins or ends to write, the batches stay.
LEMMA BatchesStay ==
    ASSUME NEW k, rep' = rep, \A n \in Hist!Start : Writes(real'[n], k) <=> Writes(real[n], k)
    PROVE  Hist!Batches(k)' = Hist!Batches(k) /\ Hist!Batches(k) \in Nat
<1>1. Flushes(k)' = Flushes(k) /\ Writers(k)' = Writers(k)
  BY DEF Flushes, Writers, Writes
<1> QED  BY <1>1, BatchesOf

\* Records are appended by the reporter that has them pending.
LEMMA AppendedStays ==
    ASSUME NEW r \in Reporter, \A s \in Reporter \ {r} : rep'[s] = rep[s], reported' = reported,
           Pending(rep'[r]) <=> Pending(rep[r]), Pending(rep[r]) => rep'[r].rec = rep[r].rec
    PROVE  Hist!Appended' = Hist!Appended
BY DEF Hist!Appended, Pending

\* Every appended record is a record of the model.
LEMMA AppendedRecords == QueueInv => Hist!Appended \subseteq Hist!Record
BY BoundsAreCovered DEF QueueInv, HistTypes, Hist!Appended

\* Where nothing of the queue's changes, what holds of it stays.
LEMMA QueueInvStays ==
    ASSUME QueueInv, HistTypes', UNCHANGED <<queue, rep, written, lost, reported, raced>>,
           \A n \in Hist!Start :
               /\ real'[n].seen = real[n].seen \/ real'[n].at \notin {"replace", "write"}
               /\ real'[n].at = real[n].at \/ {real'[n].at, real[n].at} \cap {"replace", "write"} = {},
           \A n \in Hist!Start : n > starts' => real'[n].at = "none"
    PROVE  QueueInv'
<1>1. RecordInv'
  BY DEF QueueInv, RecordInv, HistTypes
<1>2. ASSUME ~raced PROVE AloneInv'
  BY <1>2, Zenon DEF QueueInv, AloneInv
<1>3. ASSUME ~raced PROVE CountInv'
  <2>1. \A n \in Hist!Start : real'[n].at = "write" => real[n].at = "write" /\ real'[n].seen = real[n].seen
    OBVIOUS
  <2>2. \A n \in Hist!Start : real[n].at = "write" => real'[n].at = "write"
    OBVIOUS
  <2>3. ASSUME NEW k \in Hist!Record PROVE Hist!Batches(k)' = Hist!Batches(k)
    BY <2>1, <2>2, BatchesStay, Zenon DEF Writes
  <2>4. ASSUME NEW k \in Hist!Record PROVE Places(k)' = Places(k)
    BY <2>3, Zenon DEF Places, Hist!Times
  <2>5. Hist!Appended' = Hist!Appended
    BY Zenon DEF Hist!Appended
  <2> QED  BY <1>3, <2>1, <2>4, <2>5 DEF QueueInv, CountInv
<1> QED  BY <1>1, <1>2, <1>3 DEF QueueInv

\* A reporter's step changes what it holds.
LEMMA ReporterStep ==
    ASSUME HistTypes, NEW r \in Reporter, NEW g \in ReporterState, rep' = [rep EXCEPT ![r] = g]
    PROVE  /\ rep' \in [Reporter -> ReporterState] /\ rep'[r] = g
           /\ \A s \in Reporter \ {r} : rep'[s] = rep[s]
BY DEF HistTypes

LEMMA ReporterTakes ==
    ASSUME HistTypes, NEW r \in Reporter, NEW a, NEW q
    PROVE  [rep EXCEPT ![r].at = a, ![r].seen = q] = [rep EXCEPT ![r] = [at |-> a, rec |-> rep[r].rec, seen |-> q]]
<1>1. rep \in [Reporter -> ReporterState]
  BY DEF HistTypes
<1>2. rep[r] = [at |-> rep[r].at, rec |-> rep[r].rec, seen |-> rep[r].seen]
  BY <1>1 DEF ReporterState
<1>3. [rep[r] EXCEPT !.at = a, !.seen = q] = [at |-> a, rec |-> rep[r].rec, seen |-> q]
  <2> DEFINE y == [rep[r] EXCEPT !.at = a]
  <2>1. y = [at |-> a, rec |-> rep[r].rec, seen |-> rep[r].seen]
    BY <1>2
  <2> HIDE DEF y
  <2>2. [y EXCEPT !.seen = q] = [at |-> a, rec |-> rep[r].rec, seen |-> q]
    BY <2>1
  <2> QED  BY <2>2 DEF y
<1>4. [rep EXCEPT ![r].at = a, ![r].seen = q] = [rep EXCEPT ![r] = [rep[r] EXCEPT !.at = a, !.seen = q]]
  BY <1>1
<1> QED  BY <1>3, <1>4, Zenon

\* Where a reporter takes or gives up nothing, the records stay where they are.
LEMMA CountOfReporter ==
    ASSUME QueueInv, ~raced, NEW r \in Reporter, \A s \in Reporter \ {r} : rep'[s] = rep[s],
           UNCHANGED <<queue, real, written, lost>>, Hist!Appended' = Hist!Appended,
           rep[r].at # "write", rep'[r].at # "write"
    PROVE  CountInv'
<1>1. ASSUME NEW k \in Hist!Record PROVE Places(k)' = Places(k)
  <2>1. ~Writes(rep[r], k) /\ ~Writes(rep'[r], k)
    BY DEF Writes
  <2>2. Hist!Batches(k)' = Hist!Batches(k)
    BY <2>1, BatchesOfReporter
  <2> QED  BY <2>2 DEF Places, Hist!Times
<1>2. ASSUME NEW s \in Reporter, rep'[s].at = "write" PROVE rep'[s] = rep[s]
  BY <1>2
<1> QED  BY <1>1, <1>2, Zenon DEF QueueInv, CountInv, Hist!Times

LEMMA ReportInv ==
    ASSUME QueueInv, ~raced, NEW r \in Reporter, Hist!Report(r)
    PROVE  QueueInv'
<1>1. /\ rep[r].at = "idle" /\ rep' = [rep EXCEPT ![r] = [at |-> "load", rec |-> reported + 1, seen |-> <<>>]]
      /\ reported' = reported + 1 /\ reported < bound.records
      /\ UNCHANGED <<service, starts, historyReady, tasks, historyRunning, real, snap, db, written, lost,
                     bound, queue,
                     snapshots, raced>>
  BY DEF Hist!Report, Hist!serviceVars, Hist!jobVars, Hist!dataVars
<1>2. HistTypes'
  BY <1>1, BoundsAreCovered DEF QueueInv, HistTypes, ReporterState, ReporterAt
<1>3. RecordInv'
  BY <1>1 DEF QueueInv, RecordInv, HistTypes, Pending
<1>4. AloneInv'
  BY <1>1 DEF QueueInv, AloneInv, HistTypes
<1>5. CountInv'
  <2>1. Hist!Appended' = Hist!Appended
    BY <1>1 DEF Hist!Appended, QueueInv, HistTypes
  <2> QED  BY <1>1, <2>1, CountOfReporter DEF QueueInv, HistTypes
<1> QED  BY <1>2, <1>3, <1>4, <1>5 DEF QueueInv

LEMMA LoadInv ==
    ASSUME QueueInv, ~raced, NEW r \in Reporter, Hist!Load(r)
    PROVE  QueueInv'
<1>1. /\ rep[r].at = "load" /\ rep' = [rep EXCEPT ![r] = [rep[r] EXCEPT !.at = "store", !.seen = queue]]
      /\ raced' = (raced \/ Hist!Inside # {})
      /\ UNCHANGED <<service, starts, historyReady, tasks, historyRunning, real, snap, db, written, lost,
                     bound, queue,
                     snapshots, reported>>
  BY DEF Hist!Load, Hist!serviceVars, Hist!jobVars, Hist!dataVars, QueueInv, HistTypes
<1>2. HistTypes'
  BY <1>1 DEF QueueInv, HistTypes, ReporterState, ReporterAt
<1>3. RecordInv'
  BY <1>1 DEF QueueInv, RecordInv, HistTypes, Pending
<1>4. ASSUME ~raced' PROVE AloneInv'
  <2>1. /\ \A s \in Reporter : rep[s].at \notin {"store", "replace"}
        /\ \A n \in Hist!Start : real[n].at # "replace"
    BY <1>1, <1>4 DEF Hist!Inside
  <2> QED  BY <1>1, <2>1 DEF QueueInv, AloneInv, HistTypes
<1>5. CountInv'
  <2>1. Hist!Appended' = Hist!Appended
    BY <1>1, AppendedStays DEF Pending, QueueInv, HistTypes
  <2> QED  BY <1>1, <2>1, CountOfReporter DEF QueueInv, HistTypes
<1> QED  BY <1>2, <1>3, <1>4, <1>5 DEF QueueInv

\* The queue holds records, which are numbers.
LEMMA QueuesAreOfNumbers == ASSUME HistTypes, NEW s \in Seq(Hist!Record) PROVE s \in Seq(Nat)
<1>1. Hist!Record \subseteq Nat
  BY BoundsAreCovered DEF HistTypes
<1> QED  BY <1>1, SeqMonotonic

LEMMA StoreInv ==
    ASSUME QueueInv, ~raced, NEW r \in Reporter, Hist!Store(r)
    PROVE  QueueInv'
<1> DEFINE e == rep[r].rec
           g == [at |-> "full", rec |-> e, seen |-> <<>>]
<1>1. /\ rep[r].at = "store" /\ queue' = Append(rep[r].seen, e) /\ rep' = [rep EXCEPT ![r] = g]
      /\ UNCHANGED <<service, starts, historyReady, tasks, historyRunning, real, snap, db, written, lost,
                     bound, raced,
                     snapshots, reported>>
  <2>1. [rep EXCEPT ![r].at = "full", ![r].seen = <<>>] = [rep EXCEPT ![r] = g]
    <3>1. HistTypes
      BY DEF QueueInv
    <3>2. \A a, q : [rep EXCEPT ![r].at = a, ![r].seen = q]
                       = [rep EXCEPT ![r] = [at |-> a, rec |-> rep[r].rec, seen |-> q]]
      BY <3>1, ReporterTakes, Zenon
    <3> QED  BY <3>2, Zenon
  <2> QED  BY <2>1 DEF Hist!Store, Hist!serviceVars, Hist!jobVars, Hist!dataVars
<1>2. e \in 1 .. reported /\ e \in Hist!Record /\ e \in Nat /\ rep[r].seen = queue
  BY <1>1, BoundsAreCovered DEF QueueInv, RecordInv, AloneInv, HistTypes, Pending
<1>3. queue \in Seq(Nat) /\ queue' \in Seq(Hist!Record)
  <2>1. queue \in Seq(Hist!Record)
    BY DEF QueueInv, HistTypes
  <2> QED  BY <1>1, <1>2, <2>1, QueuesAreOfNumbers DEF QueueInv
<1>4. g \in ReporterState /\ ~Pending(g) /\ \A k : ~Writes(g, k)
  BY <1>2 DEF ReporterState, ReporterAt, Pending, Writes
<1> HIDE DEF e, g
<1>5. rep' \in [Reporter -> ReporterState] /\ rep'[r] = g /\ \A s \in Reporter \ {r} : rep'[s] = rep[s]
  BY <1>1, <1>4, ReporterStep DEF QueueInv
<1>6. HistTypes'
  BY <1>1, <1>3, <1>5 DEF QueueInv, HistTypes
<1>7. RecordInv'
  BY <1>1, <1>4, <1>5 DEF QueueInv, RecordInv
<1>8. AloneInv'
  BY <1>1, <1>4, <1>5 DEF QueueInv, AloneInv, Pending, g
<1>9. CountInv'
  <2>1. ASSUME NEW k \in Hist!Record
        PROVE  Places(k)' = Places(k) + (IF e = k THEN 1 ELSE 0)
    <3>1. ~Writes(rep[r], k) /\ ~Writes(rep'[r], k)
      BY <1>1, <1>4, <1>5 DEF Writes
    <3>2. Hist!Batches(k)' = Hist!Batches(k) /\ Hist!Batches(k) \in Nat
      BY <1>1, <1>5, <3>1, BatchesOfReporter
    <3>3. Hist!Times(queue', k) = Hist!Times(queue, k) + (IF e = k THEN 1 ELSE 0) /\ Hist!Times(queue, k) \in Nat
      BY <1>1, <1>2, <1>3, TimesInAppend, TimesInQueue
    <3>4. Hist!Times(queue, k)' = Hist!Times(queue', k)
      BY DEF Hist!Times
    <3>5. written[k] \in Nat /\ lost[k] \in Nat /\ written' = written /\ lost' = lost
      BY <1>1 DEF QueueInv, HistTypes
    <3> QED  BY <3>2, <3>3, <3>4, <3>5 DEF Places
  <2>2. \A s \in Reporter \ {r} : Pending(rep[s]) => rep[s].rec # e
    BY <1>1 DEF QueueInv, RecordInv, Pending, e
  <2>3. Pending(rep[r]) /\ ~Pending(rep'[r])
    BY <1>1, <1>4, <1>5 DEF Pending
  <2>4. Hist!Appended' = Hist!Appended \union {e} /\ e \notin Hist!Appended
    BY <1>1, <1>2, <1>5, <2>2, <2>3 DEF Hist!Appended, Pending, e
  <2>5. ASSUME NEW k \in Hist!Record PROVE Places(k)' = IF k \in Hist!Appended' THEN 1 ELSE 0
    BY <2>1, <2>4 DEF QueueInv, CountInv
  <2>6. ASSUME NEW s \in Reporter, rep'[s].at = "write" PROVE rep'[s] = rep[s]
    BY <1>5, <2>6 DEF g
  <2>7. ASSUME NEW k \in Hist!Record, NEW s \in Reporter, rep'[s].at = "write"
        PROVE  Hist!Times(rep'[s].seen, k) <= 1
    BY <2>6, <2>7 DEF QueueInv, CountInv
  <2>8. ASSUME NEW k \in Hist!Record, NEW n \in Hist!Start, real'[n].at = "write"
        PROVE  Hist!Times(real'[n].seen, k) <= 1
    BY <1>1, <2>8 DEF QueueInv, CountInv
  <2> QED  BY <2>5, <2>7, <2>8 DEF CountInv, Hist!Times
<1> QED  BY <1>1, <1>6, <1>7, <1>8, <1>9 DEF QueueInv

LEMMA FullInv ==
    ASSUME QueueInv, ~raced, NEW r \in Reporter, Hist!Full(r)
    PROVE  QueueInv'
<1> DEFINE g == IF Len(queue) >= WriteNum
                THEN [at |-> "replace", rec |-> rep[r].rec, seen |-> queue]
                ELSE [at |-> "idle", rec |-> 0, seen |-> <<>>]
<1>1. /\ rep[r].at = "full" /\ rep' = [rep EXCEPT ![r] = g]
      /\ raced' = (raced \/ (g.at = "replace" /\ Hist!Inside # {}))
      /\ UNCHANGED <<service, starts, historyReady, tasks, historyRunning, real, snap, db, written, lost,
                     bound, queue,
                     snapshots, reported>>
  BY DEF Hist!Full, Hist!Idle, Hist!serviceVars, Hist!jobVars, Hist!dataVars, QueueInv, HistTypes, ReporterState
<1>2. /\ g \in ReporterState /\ ~Pending(g) /\ g.at \notin {"store", "write"}
      /\ (g.at = "replace" => g.seen = queue)
  BY DEF ReporterState, ReporterAt, Pending, QueueInv, HistTypes
<1> HIDE DEF g
<1>3. rep' \in [Reporter -> ReporterState] /\ rep'[r] = g /\ \A s \in Reporter \ {r} : rep'[s] = rep[s]
  BY <1>1, <1>2, ReporterStep DEF QueueInv
<1>4. HistTypes'
  BY <1>1, <1>3 DEF QueueInv, HistTypes
<1>5. RecordInv'
  BY <1>1, <1>2, <1>3 DEF QueueInv, RecordInv
<1>6. ASSUME ~raced' PROVE AloneInv'
  <2>1. CASE g.at = "replace"
    <3>1. /\ \A s \in Reporter : rep[s].at \notin {"store", "replace"}
          /\ \A n \in Hist!Start : real[n].at # "replace"
      BY <1>1, <1>6, <2>1 DEF Hist!Inside
    <3> QED  BY <1>1, <1>2, <1>3, <3>1 DEF AloneInv
  <2>2. CASE g.at # "replace"
    BY <1>1, <1>2, <1>3, <2>2 DEF QueueInv, AloneInv
  <2> QED  BY <2>1, <2>2
<1>7. CountInv'
  <2>1. Hist!Appended' = Hist!Appended
    BY <1>1, <1>2, <1>3, AppendedStays DEF Pending
  <2> QED  BY <1>1, <1>2, <1>3, <2>1, CountOfReporter
<1> QED  BY <1>4, <1>5, <1>6, <1>7 DEF QueueInv

\* A queue that nothing races with has no record twice.
LEMMA QueueHasNoRecordTwice ==
    ASSUME QueueInv, ~raced, NEW k \in Hist!Record
    PROVE  /\ Hist!Times(queue, k) \in {0, 1} /\ written[k] \in Nat /\ lost[k] \in Nat /\ Hist!Batches(k) \in Nat
           /\ k \in Hist!ToSet(queue) <=> Hist!Times(queue, k) = 1
<1>1. Hist!Times(queue, k) \in Nat /\ (k \in Hist!ToSet(queue) <=> Hist!Times(queue, k) # 0)
  BY QueuesAreOfNumbers, TimesInQueue DEF QueueInv, HistTypes
<1>2. written[k] \in Nat /\ lost[k] \in Nat /\ Hist!Batches(k) \in Nat
  BY BatchesOf DEF QueueInv, HistTypes
<1>3. Places(k) <= 1
  BY DEF QueueInv, CountInv
<1> QED  BY <1>1, <1>2, <1>3 DEF Places

LEMMA ReplaceInv ==
    ASSUME QueueInv, ~raced, NEW r \in Reporter, Hist!Replace(r)
    PROVE  QueueInv'
<1> DEFINE g == [rep[r] EXCEPT !.at = "write"]
<1>1. /\ rep[r].at = "replace" /\ queue' = <<>> /\ rep' = [rep EXCEPT ![r] = g]
      /\ UNCHANGED <<service, starts, historyReady, tasks, historyRunning, real, snap, db, written, lost,
                     bound, raced,
                     snapshots, reported>>
  BY DEF Hist!Replace, Hist!serviceVars, Hist!jobVars, Hist!dataVars
<1>2. rep[r].seen = queue
  BY <1>1 DEF QueueInv, AloneInv
<1>3. g \in ReporterState /\ g.at = "write" /\ g.seen = queue
  BY <1>2 DEF QueueInv, HistTypes, ReporterState, ReporterAt
<1> HIDE DEF g
<1>4. rep' \in [Reporter -> ReporterState] /\ rep'[r] = g /\ \A s \in Reporter \ {r} : rep'[s] = rep[s]
  BY <1>1, <1>3, ReporterStep DEF QueueInv
<1>5. HistTypes'
  BY <1>1, <1>4 DEF QueueInv, HistTypes
<1>6. RecordInv'
  BY <1>1, <1>3, <1>4 DEF QueueInv, RecordInv, Pending
<1>7. AloneInv'
  BY <1>1, <1>3, <1>4 DEF QueueInv, AloneInv
<1>8. CountInv'
  <2>1. ASSUME NEW k \in Hist!Record PROVE Places(k)' = Places(k)
    <3>1. ~Writes(rep[r], k) /\ (Writes(rep'[r], k) <=> Hist!Times(queue, k) = 1)
      BY <1>1, <1>3, <1>4, QueueHasNoRecordTwice DEF Writes
    <3>2. Hist!Batches(k)' = Hist!Batches(k) + Hist!Times(queue, k)
      BY <1>1, <1>4, <3>1, BatchesOfReporter, QueueHasNoRecordTwice
    <3>3. Hist!Times(queue, k)' = 0
      BY <1>1, TimesInEmpty DEF Hist!Times
    <3> QED  BY <1>1, <3>2, <3>3, QueueHasNoRecordTwice DEF Places
  <2>2. Hist!Appended' = Hist!Appended
    BY <1>1, <1>3, <1>4, AppendedStays DEF Pending
  <2>3. ASSUME NEW k \in Hist!Record, NEW s \in Reporter, rep'[s].at = "write"
        PROVE  Hist!Times(rep'[s].seen, k) <= 1
    <3>1. CASE s = r
      BY <1>3, <1>4, <3>1, QueueHasNoRecordTwice
    <3>2. CASE s # r
      BY <1>4, <2>3, <3>2 DEF QueueInv, CountInv
    <3> QED  BY <3>1, <3>2
  <2>4. ASSUME NEW k \in Hist!Record, NEW n \in Hist!Start, real'[n].at = "write"
        PROVE  Hist!Times(real'[n].seen, k) <= 1
    BY <1>1, <2>4 DEF QueueInv, CountInv
  <2>5. ASSUME NEW k \in Hist!Record PROVE Places(k)' = IF k \in Hist!Appended' THEN 1 ELSE 0
    BY <2>1, <2>2 DEF QueueInv, CountInv
  <2> QED  BY <2>3, <2>4, <2>5 DEF CountInv, Hist!Times
<1> QED  BY <1>1, <1>5, <1>6, <1>7, <1>8 DEF QueueInv

\* An insert puts every record of a batch into the database, or with those that are lost.
LEMMA InsertPuts ==
    ASSUME QueueInv, NEW s \in Seq(Hist!Record), \A k \in Hist!Record : Hist!Times(s, k) <= 1, Hist!Insert(s)
    PROVE  /\ written' \in [Hist!Record -> Nat] /\ lost' \in [Hist!Record -> Nat]
           /\ \A k \in Hist!Record :
                 /\ written'[k] + lost'[k] = written[k] + lost[k] + Hist!Times(s, k)
                 /\ Hist!Times(s, k) = IF k \in Hist!ToSet(s) THEN 1 ELSE 0
<1>1. \A k \in Hist!Record : Hist!Times(s, k) \in Nat /\ (k \in Hist!ToSet(s) <=> Hist!Times(s, k) # 0)
  BY QueuesAreOfNumbers, TimesInQueue DEF QueueInv
<1>2. written \in [Hist!Record -> Nat] /\ lost \in [Hist!Record -> Nat]
  BY DEF QueueInv, HistTypes
<1>3. \/ written' = [k \in Hist!Record |-> written[k] + Hist!Times(s, k)] /\ lost' = lost
      \/ lost' = [k \in Hist!Record |-> lost[k] + Hist!Times(s, k)] /\ written' = written
  BY DEF Hist!Insert, Hist!Add
<1>4. \A k \in Hist!Record : Hist!Times(s, k) = IF k \in Hist!ToSet(s) THEN 1 ELSE 0
  BY <1>1
<1>5. ASSUME NEW f \in [Hist!Record -> Nat]
      PROVE  [k \in Hist!Record |-> f[k] + Hist!Times(s, k)] \in [Hist!Record -> Nat]
  BY <1>1
<1>6. written' \in [Hist!Record -> Nat] /\ lost' \in [Hist!Record -> Nat]
  BY <1>2, <1>3, <1>5
<1>7. ASSUME NEW k \in Hist!Record
      PROVE  written'[k] + lost'[k] = written[k] + lost[k] + Hist!Times(s, k)
  <2>1. \/ written'[k] = written[k] + Hist!Times(s, k) /\ lost'[k] = lost[k]
        \/ lost'[k] = lost[k] + Hist!Times(s, k) /\ written'[k] = written[k]
    BY <1>3
  <2>2. written[k] \in Nat /\ lost[k] \in Nat /\ Hist!Times(s, k) \in Nat
    BY <1>1, <1>2
  <2> QED  BY <2>1, <2>2
<1> QED  BY <1>4, <1>6, <1>7

LEMMA WriteInv ==
    ASSUME QueueInv, ~raced, NEW r \in Reporter, Hist!Write(r)
    PROVE  QueueInv'
<1> DEFINE g == [at |-> "idle", rec |-> 0, seen |-> <<>>]
<1>1. /\ rep[r].at = "write" /\ Hist!Insert(rep[r].seen) /\ rep' = [rep EXCEPT ![r] = g]
      /\ UNCHANGED <<service, starts, historyReady, tasks, historyRunning, real, snap, db, queue, bound, raced,
                     snapshots, reported>>
  BY DEF Hist!Write, Hist!Idle, Hist!serviceVars, Hist!jobVars
<1>2. g \in ReporterState /\ g.at = "idle"
  BY DEF ReporterState, ReporterAt
<1> HIDE DEF g
<1>3. rep' \in [Reporter -> ReporterState] /\ rep'[r] = g /\ \A s \in Reporter \ {r} : rep'[s] = rep[s]
  BY <1>1, <1>2, ReporterStep DEF QueueInv
<1>4. rep[r].seen \in Seq(Hist!Record) /\ \A k \in Hist!Record : Hist!Times(rep[r].seen, k) <= 1
  BY <1>1 DEF QueueInv, CountInv, HistTypes, ReporterState
<1>5. /\ written' \in [Hist!Record -> Nat] /\ lost' \in [Hist!Record -> Nat]
      /\ \A k \in Hist!Record :
            /\ written'[k] + lost'[k] = written[k] + lost[k] + Hist!Times(rep[r].seen, k)
            /\ Hist!Times(rep[r].seen, k) = IF k \in Hist!ToSet(rep[r].seen) THEN 1 ELSE 0
  BY <1>1, <1>4, InsertPuts
<1>6. HistTypes'
  BY <1>1, <1>3, <1>5 DEF QueueInv, HistTypes
<1>7. RecordInv'
  BY <1>1, <1>2, <1>3 DEF QueueInv, RecordInv, Pending
<1>8. AloneInv'
  BY <1>1, <1>2, <1>3 DEF QueueInv, AloneInv
<1>9. CountInv'
  <2>1. ASSUME NEW k \in Hist!Record PROVE Places(k)' = Places(k)
    <3>1. ~Writes(rep'[r], k) /\ (Writes(rep[r], k) <=> k \in Hist!ToSet(rep[r].seen))
      BY <1>1, <1>2, <1>3 DEF Writes
    <3>2. Hist!Batches(k)' + Hist!Times(rep[r].seen, k) = Hist!Batches(k) /\ Hist!Batches(k)' \in Nat
      BY <1>1, <1>3, <1>5, <3>1, BatchesOfReporter
    <3>3. Hist!Times(queue, k)' = Hist!Times(queue, k)
      BY <1>1 DEF Hist!Times
    <3>4. written'[k] \in Nat /\ lost'[k] \in Nat /\ Hist!Times(rep[r].seen, k) \in Nat
      BY <1>5
    <3> QED  BY <1>5, <3>2, <3>3, <3>4, QueueHasNoRecordTwice DEF Places
  <2>2. Hist!Appended' = Hist!Appended
    BY <1>1, <1>2, <1>3, AppendedStays DEF Pending
  <2>3. ASSUME NEW k \in Hist!Record, NEW s \in Reporter, rep'[s].at = "write"
        PROVE  Hist!Times(rep'[s].seen, k) <= 1
    BY <1>2, <1>3, <2>3 DEF QueueInv, CountInv
  <2>4. ASSUME NEW k \in Hist!Record, NEW n \in Hist!Start, real'[n].at = "write"
        PROVE  Hist!Times(real'[n].seen, k) <= 1
    BY <1>1, <2>4 DEF QueueInv, CountInv
  <2>5. ASSUME NEW k \in Hist!Record PROVE Places(k)' = IF k \in Hist!Appended' THEN 1 ELSE 0
    BY <2>1, <2>2 DEF QueueInv, CountInv
  <2> QED  BY <2>3, <2>4, <2>5 DEF CountInv, Hist!Times
<1> QED  BY <1>1, <1>6, <1>7, <1>8, <1>9 DEF QueueInv

\* A step of the flush job changes what it holds.
LEMMA FlushStep ==
    ASSUME HistTypes, NEW n \in Hist!Start, NEW g \in FlushState, real' = [real EXCEPT ![n] = g]
    PROVE  /\ real' \in [Hist!Start -> FlushState] /\ real'[n] = g
           /\ \A m \in Hist!Start \ {n} : real'[m] = real[m]
BY DEF HistTypes

LEMMA FlushTakes ==
    ASSUME HistTypes, NEW n \in Hist!Start, NEW a, NEW q
    PROVE  [real EXCEPT ![n].at = a, ![n].seen = q]
             = [real EXCEPT ![n] = [at |-> a, enable |-> real[n].enable, seen |-> q]]
<1>1. real \in [Hist!Start -> FlushState]
  BY DEF HistTypes
<1>2. real[n] = [at |-> real[n].at, enable |-> real[n].enable, seen |-> real[n].seen]
  BY <1>1 DEF FlushState
<1>3. [real[n] EXCEPT !.at = a, !.seen = q] = [at |-> a, enable |-> real[n].enable, seen |-> q]
  <2> DEFINE y == [real[n] EXCEPT !.at = a]
  <2>1. y = [at |-> a, enable |-> real[n].enable, seen |-> real[n].seen]
    BY <1>2
  <2> HIDE DEF y
  <2>2. [y EXCEPT !.seen = q] = [at |-> a, enable |-> real[n].enable, seen |-> q]
    BY <2>1
  <2> QED  BY <2>2 DEF y
<1>4. [real EXCEPT ![n].at = a, ![n].seen = q] = [real EXCEPT ![n] = [real[n] EXCEPT !.at = a, !.seen = q]]
  BY <1>1
<1> QED  BY <1>3, <1>4, Zenon

LEMMA RealTickInv ==
    ASSUME QueueInv, NEW n \in Hist!Start, Hist!RealTick(n)
    PROVE  QueueInv'
<1> DEFINE g == [real[n] EXCEPT !.at = IF real[n].enable THEN "take" ELSE "ended"]
<1>1. /\ real[n].at = "wait" /\ real' = [real EXCEPT ![n] = g]
      /\ UNCHANGED <<service, starts, historyReady, tasks, historyRunning, rep, snap, db, queue, bound, raced,
                     written, lost, snapshots, reported>>
  BY DEF Hist!RealTick, Hist!serviceVars, Hist!dataVars
<1>2. g \in FlushState /\ g.at \in {"take", "ended"} /\ g.seen = real[n].seen
  BY DEF QueueInv, HistTypes, FlushState, FlushAt
<1> HIDE DEF g
<1>3. real' \in [Hist!Start -> FlushState] /\ real'[n] = g /\ \A m \in Hist!Start \ {n} : real'[m] = real[m]
  BY <1>1, <1>2, FlushStep DEF QueueInv
<1>4. HistTypes'
  BY <1>1, <1>3 DEF QueueInv, HistTypes
<1>5. \A m \in Hist!Start : m > starts => real'[m].at = "none"
  BY <1>1, <1>3 DEF QueueInv, RecordInv
<1> QED  BY <1>1, <1>2, <1>3, <1>4, <1>5, QueueInvStays

\* Where the job takes or gives up nothing, the records stay where they are.
LEMMA CountOfFlush ==
    ASSUME QueueInv, ~raced, NEW n \in Hist!Start, \A m \in Hist!Start \ {n} : real'[m] = real[m],
           UNCHANGED <<queue, rep, reported, written, lost>>, real[n].at # "write", real'[n].at # "write"
    PROVE  CountInv'
<1>1. ASSUME NEW k \in Hist!Record PROVE Places(k)' = Places(k)
  <2>1. ~Writes(real[n], k) /\ ~Writes(real'[n], k)
    BY DEF Writes
  <2>2. Hist!Batches(k)' = Hist!Batches(k)
    BY <2>1, BatchesOfFlush
  <2> QED  BY <2>2 DEF Places, Hist!Times
<1>2. Hist!Appended' = Hist!Appended
  BY DEF Hist!Appended
<1>3. ASSUME NEW m \in Hist!Start, real'[m].at = "write" PROVE real'[m] = real[m]
  BY <1>3
<1> QED  BY <1>1, <1>2, <1>3, Zenon DEF QueueInv, CountInv, Hist!Times

LEMMA RealTakeInv ==
    ASSUME QueueInv, ~raced, NEW n \in Hist!Start, Hist!RealTake(n)
    PROVE  QueueInv'
<1>1. CASE queue = <<>>
  <2> DEFINE g == [real[n] EXCEPT !.at = "wait"]
  <2>1. /\ real[n].at = "take" /\ real' = [real EXCEPT ![n] = g]
        /\ UNCHANGED <<service, starts, historyReady, tasks, historyRunning, rep, snap, db, queue, bound, raced,
                       written, lost, snapshots, reported>>
    BY <1>1 DEF Hist!RealTake, Hist!serviceVars, Hist!dataVars
  <2>2. g \in FlushState /\ g.at = "wait" /\ g.seen = real[n].seen
    BY DEF QueueInv, HistTypes, FlushState, FlushAt
  <2> HIDE DEF g
  <2>3. real' \in [Hist!Start -> FlushState] /\ real'[n] = g /\ \A m \in Hist!Start \ {n} : real'[m] = real[m]
    BY <2>1, <2>2, FlushStep DEF QueueInv
  <2>4. HistTypes'
    BY <2>1, <2>3 DEF QueueInv, HistTypes
  <2>5. \A m \in Hist!Start : m > starts => real'[m].at = "none"
    BY <2>1, <2>3 DEF QueueInv, RecordInv
  <2> QED  BY <2>1, <2>2, <2>3, <2>4, <2>5, QueueInvStays
<1>2. CASE queue # <<>>
  <2> DEFINE g == [[real[n] EXCEPT !.at = "replace"] EXCEPT !.seen = queue]
  <2>1. /\ real[n].at = "take" /\ real' = [real EXCEPT ![n] = g]
        /\ raced' = (raced \/ Hist!Inside # {})
        /\ UNCHANGED <<service, starts, historyReady, tasks, historyRunning, rep, snap, db, queue, bound,
                       written, lost, snapshots, reported>>
    BY <1>2 DEF Hist!RealTake, Hist!serviceVars, Hist!dataVars, QueueInv, HistTypes
  <2>2. g \in FlushState /\ g.at = "replace" /\ g.seen = queue
    BY DEF QueueInv, HistTypes, FlushState, FlushAt
  <2> HIDE DEF g
  <2>3. real' \in [Hist!Start -> FlushState] /\ real'[n] = g /\ \A m \in Hist!Start \ {n} : real'[m] = real[m]
    BY <2>1, <2>2, FlushStep DEF QueueInv
  <2>4. HistTypes'
    BY <2>1, <2>3 DEF QueueInv, HistTypes
  <2>5. RecordInv'
    BY <2>1, <2>3 DEF QueueInv, RecordInv
  <2>6. ASSUME ~raced' PROVE AloneInv'
    <3>1. /\ \A s \in Reporter : rep[s].at \notin {"store", "replace"}
          /\ \A m \in Hist!Start : real[m].at # "replace"
      BY <2>1, <2>6 DEF Hist!Inside
    <3> QED  BY <2>1, <2>2, <2>3, <3>1 DEF AloneInv
  <2>7. CountInv'
    BY <2>1, <2>2, <2>3, CountOfFlush
  <2> QED  BY <2>4, <2>5, <2>6, <2>7 DEF QueueInv
<1> QED  BY <1>1, <1>2

LEMMA RealReplaceInv ==
    ASSUME QueueInv, ~raced, NEW n \in Hist!Start, Hist!RealReplace(n)
    PROVE  QueueInv'
<1> DEFINE g == [real[n] EXCEPT !.at = "write"]
<1>1. /\ real[n].at = "replace" /\ queue' = <<>> /\ real' = [real EXCEPT ![n] = g]
      /\ UNCHANGED <<service, starts, historyReady, tasks, historyRunning, rep, snap, db, written, lost,
                     bound, raced,
                     snapshots, reported>>
  BY DEF Hist!RealReplace, Hist!serviceVars, Hist!dataVars
<1>2. real[n].seen = queue
  BY <1>1 DEF QueueInv, AloneInv
<1>3. g \in FlushState /\ g.at = "write" /\ g.seen = queue
  BY <1>2 DEF QueueInv, HistTypes, FlushState, FlushAt
<1> HIDE DEF g
<1>4. real' \in [Hist!Start -> FlushState] /\ real'[n] = g /\ \A m \in Hist!Start \ {n} : real'[m] = real[m]
  BY <1>1, <1>3, FlushStep DEF QueueInv
<1>5. HistTypes'
  BY <1>1, <1>4 DEF QueueInv, HistTypes
<1>6. RecordInv'
  BY <1>1, <1>4 DEF QueueInv, RecordInv
<1>7. AloneInv'
  BY <1>1, <1>3, <1>4 DEF QueueInv, AloneInv
<1>8. CountInv'
  <2>1. ASSUME NEW k \in Hist!Record PROVE Places(k)' = Places(k)
    <3>1. ~Writes(real[n], k) /\ (Writes(real'[n], k) <=> Hist!Times(queue, k) = 1)
      BY <1>1, <1>3, <1>4, QueueHasNoRecordTwice DEF Writes
    <3>2. Hist!Batches(k)' = Hist!Batches(k) + Hist!Times(queue, k)
      BY <1>1, <1>4, <3>1, BatchesOfFlush, QueueHasNoRecordTwice
    <3>3. Hist!Times(queue, k)' = 0
      BY <1>1, TimesInEmpty DEF Hist!Times
    <3> QED  BY <1>1, <3>2, <3>3, QueueHasNoRecordTwice DEF Places
  <2>2. Hist!Appended' = Hist!Appended
    BY <1>1 DEF Hist!Appended
  <2>3. ASSUME NEW k \in Hist!Record, NEW m \in Hist!Start, real'[m].at = "write"
        PROVE  Hist!Times(real'[m].seen, k) <= 1
    <3>1. CASE m = n
      BY <1>3, <1>4, <3>1, QueueHasNoRecordTwice
    <3>2. CASE m # n
      BY <1>4, <2>3, <3>2 DEF QueueInv, CountInv
    <3> QED  BY <3>1, <3>2
  <2>4. ASSUME NEW k \in Hist!Record, NEW s \in Reporter, rep'[s].at = "write"
        PROVE  Hist!Times(rep'[s].seen, k) <= 1
    BY <1>1, <2>4 DEF QueueInv, CountInv
  <2>5. ASSUME NEW k \in Hist!Record PROVE Places(k)' = IF k \in Hist!Appended' THEN 1 ELSE 0
    BY <2>1, <2>2 DEF QueueInv, CountInv
  <2> QED  BY <2>3, <2>4, <2>5 DEF CountInv, Hist!Times
<1> QED  BY <1>1, <1>5, <1>6, <1>7, <1>8 DEF QueueInv

LEMMA RealWriteInv ==
    ASSUME QueueInv, ~raced, NEW n \in Hist!Start, Hist!RealWrite(n)
    PROVE  QueueInv'
<1> DEFINE g == [at |-> "wait", enable |-> real[n].enable, seen |-> <<>>]
<1>1. /\ real[n].at = "write" /\ Hist!Insert(real[n].seen) /\ real' = [real EXCEPT ![n] = g]
      /\ UNCHANGED <<service, starts, historyReady, tasks, historyRunning, rep, snap, db, queue, bound, raced,
                     snapshots, reported>>
  <2>1. [real EXCEPT ![n].at = "wait", ![n].seen = <<>>] = [real EXCEPT ![n] = g]
    BY FlushTakes DEF QueueInv
  <2> QED  BY <2>1 DEF Hist!RealWrite, Hist!serviceVars
<1>2. g \in FlushState /\ g.at = "wait"
  BY DEF QueueInv, HistTypes, FlushState, FlushAt
<1> HIDE DEF g
<1>3. real' \in [Hist!Start -> FlushState] /\ real'[n] = g /\ \A m \in Hist!Start \ {n} : real'[m] = real[m]
  BY <1>1, <1>2, FlushStep DEF QueueInv
<1>4. real[n].seen \in Seq(Hist!Record) /\ \A k \in Hist!Record : Hist!Times(real[n].seen, k) <= 1
  BY <1>1 DEF QueueInv, CountInv, HistTypes, FlushState
<1>5. /\ written' \in [Hist!Record -> Nat] /\ lost' \in [Hist!Record -> Nat]
      /\ \A k \in Hist!Record :
            /\ written'[k] + lost'[k] = written[k] + lost[k] + Hist!Times(real[n].seen, k)
            /\ Hist!Times(real[n].seen, k) = IF k \in Hist!ToSet(real[n].seen) THEN 1 ELSE 0
  BY <1>1, <1>4, InsertPuts
<1>6. HistTypes'
  BY <1>1, <1>3, <1>5 DEF QueueInv, HistTypes
<1>7. RecordInv'
  BY <1>1, <1>3 DEF QueueInv, RecordInv
<1>8. AloneInv'
  BY <1>1, <1>2, <1>3 DEF QueueInv, AloneInv
<1>9. CountInv'
  <2>1. ASSUME NEW k \in Hist!Record PROVE Places(k)' = Places(k)
    <3>1. ~Writes(real'[n], k) /\ (Writes(real[n], k) <=> k \in Hist!ToSet(real[n].seen))
      BY <1>1, <1>2, <1>3 DEF Writes
    <3>2. Hist!Batches(k)' + Hist!Times(real[n].seen, k) = Hist!Batches(k) /\ Hist!Batches(k)' \in Nat
      BY <1>1, <1>3, <1>5, <3>1, BatchesOfFlush
    <3>3. Hist!Times(queue, k)' = Hist!Times(queue, k)
      BY <1>1 DEF Hist!Times
    <3>4. written'[k] \in Nat /\ lost'[k] \in Nat /\ Hist!Times(real[n].seen, k) \in Nat
      BY <1>5
    <3> QED  BY <1>5, <3>2, <3>3, <3>4, QueueHasNoRecordTwice DEF Places
  <2>2. Hist!Appended' = Hist!Appended
    BY <1>1 DEF Hist!Appended
  <2>3. ASSUME NEW k \in Hist!Record, NEW m \in Hist!Start, real'[m].at = "write"
        PROVE  Hist!Times(real'[m].seen, k) <= 1
    BY <1>2, <1>3, <2>3 DEF QueueInv, CountInv
  <2>4. ASSUME NEW k \in Hist!Record, NEW s \in Reporter, rep'[s].at = "write"
        PROVE  Hist!Times(rep'[s].seen, k) <= 1
    BY <1>1, <2>4 DEF QueueInv, CountInv
  <2>5. ASSUME NEW k \in Hist!Record PROVE Places(k)' = IF k \in Hist!Appended' THEN 1 ELSE 0
    BY <2>1, <2>2 DEF QueueInv, CountInv
  <2> QED  BY <2>3, <2>4, <2>5 DEF CountInv, Hist!Times
<1> QED  BY <1>1, <1>6, <1>7, <1>8, <1>9 DEF QueueInv

\* Destroy drops what is in the queue.
LEMMA HistoryDestroyInv ==
    ASSUME QueueInv, ~raced, Hist!Destroy
    PROVE  QueueInv'
<1>1. /\ lost' = [k \in Hist!Record |-> lost[k] + Hist!Times(queue, k)] /\ queue' = <<>>
      /\ raced' = (raced \/ Hist!Inside # {}) /\ db' = "closed" /\ service' = "off"
      /\ UNCHANGED <<starts, historyReady, tasks, historyRunning, rep, real, snap, written, bound, snapshots,
                     reported>>
  BY DEF Hist!Destroy, Hist!Add, Hist!jobVars
<1>2. \A k \in Hist!Record : Hist!Times(queue, k) \in Nat
  BY QueueHasNoRecordTwice
<1>3. HistTypes'
  BY <1>1, <1>2 DEF QueueInv, HistTypes
<1>4. RecordInv'
  BY <1>1 DEF QueueInv, RecordInv
<1>5. ASSUME ~raced' PROVE AloneInv'
  BY <1>1, <1>5 DEF Hist!Inside, AloneInv
<1>6. CountInv'
  <2>1. ASSUME NEW k \in Hist!Record PROVE Places(k)' = Places(k)
    <3>1. Hist!Batches(k)' = Hist!Batches(k) /\ Hist!Batches(k) \in Nat
      BY <1>1, BatchesStay DEF Writes
    <3>2. Hist!Times(queue, k)' = 0 /\ lost'[k] = lost[k] + Hist!Times(queue, k) /\ written'[k] = written[k]
      BY <1>1, TimesInEmpty DEF Hist!Times
    <3> QED  BY <3>1, <3>2, QueueHasNoRecordTwice DEF Places
  <2>2. Hist!Appended' = Hist!Appended
    BY <1>1 DEF Hist!Appended
  <2> QED  BY <1>1, <2>1, <2>2, Zenon DEF QueueInv, CountInv, Hist!Times
<1> QED  BY <1>3, <1>4, <1>5, <1>6 DEF QueueInv

LEMMA NewJobs ==
    /\ [Hist!NoJob EXCEPT !.at = "wait", !.enable = TRUE] \in FlushState
    /\ [Hist!NoJob EXCEPT !.at = "wait", !.enable = TRUE].at = "wait"
    /\ [Hist!NoSnap EXCEPT !.at = "wait", !.enable = TRUE] \in SnapshotState
    /\ [Hist!NoSnap EXCEPT !.at = "wait", !.enable = TRUE].at = "wait"
    /\ [Hist!NoSnap EXCEPT !.at = "wait", !.enable = TRUE].pages = <<>>
<1> DEFINE j == [Hist!NoJob EXCEPT !.at = "wait"]
           s == [Hist!NoSnap EXCEPT !.at = "wait"]
<1>1. Hist!NoJob \in FlushState /\ Hist!NoSnap \in SnapshotState /\ Hist!NoSnap.pages = <<>>
  BY DEF Hist!NoJob, Hist!NoSnap, FlushState, FlushAt, SnapshotState, SnapshotAt
<1>2. j \in FlushState /\ j.at = "wait"
  BY <1>1 DEF FlushState, FlushAt
<1>3. s \in SnapshotState /\ s.at = "wait" /\ s.pages = <<>>
  BY <1>1 DEF SnapshotState, SnapshotAt
<1> HIDE DEF j, s
<1>4. [j EXCEPT !.enable = TRUE] \in FlushState /\ [j EXCEPT !.enable = TRUE].at = "wait"
  BY <1>2 DEF FlushState
<1>5. /\ [s EXCEPT !.enable = TRUE] \in SnapshotState
      /\ [s EXCEPT !.enable = TRUE].at = "wait" /\ [s EXCEPT !.enable = TRUE].pages = <<>>
  BY <1>3 DEF SnapshotState
<1> QED  BY <1>4, <1>5 DEF j, s

\* Init of the export puts new jobs where none were.
LEMMA ServiceStartInv ==
    ASSUME QueueInv, Hist!ServiceStart
    PROVE  QueueInv'
<1> DEFINE job == [Hist!NoJob EXCEPT !.at = "wait", !.enable = TRUE]
           sweep == [Hist!NoSnap EXCEPT !.at = "wait", !.enable = TRUE]
<1>1. /\ starts < bound.starts /\ starts' = starts + 1 /\ service' = "up"
      /\ \/ /\ db' = "open" /\ historyReady' = TRUE /\ tasks' = starts'
            /\ real' = [real EXCEPT ![starts'] = job]
            /\ snap' = [snap EXCEPT ![starts'] = sweep]
         \/ UNCHANGED <<db, historyReady, tasks, real, snap>>
      /\ UNCHANGED <<historyRunning, written, lost, bound, queue, rep, reported, snapshots, raced>>
  BY DEF Hist!ServiceStart, Hist!jobVars
<1>2. starts' \in Hist!Start /\ starts' \in Nat /\ starts' \in 0 .. bound.starts /\ real[starts'].at = "none"
  <2>1. starts' \in 1 .. bound.starts /\ starts' \in 0 .. bound.starts /\ starts' \in Nat /\ starts' > starts
    BY <1>1, BoundsAreCovered DEF QueueInv, HistTypes
  <2>2. starts' \in Hist!Start
    BY <2>1, BoundsAreCovered DEF QueueInv, HistTypes
  <2> QED  BY <2>1, <2>2 DEF QueueInv, RecordInv
<1>3. /\ job \in FlushState /\ job.at = "wait"
      /\ sweep \in SnapshotState
  BY NewJobs
<1> HIDE DEF job, sweep
<1>4. HistTypes'
  <2>1. real' \in [Hist!Start -> FlushState] /\ snap' \in [Hist!Start -> SnapshotState]
    BY <1>1, <1>3 DEF QueueInv, HistTypes
  <2> QED  BY <1>1, <1>2, <2>1 DEF QueueInv, HistTypes
<1>5. /\ \A n \in Hist!Start \ {starts'} : real'[n] = real[n]
      /\ real'[starts'] = real[starts'] \/ real'[starts'].at = "wait"
  BY <1>1, <1>2, <1>3 DEF QueueInv, HistTypes
<1>6. \A n \in Hist!Start : n > starts' => real'[n].at = "none"
  BY <1>1, <1>2, <1>5, BoundsAreCovered DEF QueueInv, RecordInv, HistTypes
<1>7. ASSUME NEW n \in Hist!Start
      PROVE  /\ real'[n].seen = real[n].seen \/ real'[n].at \notin {"replace", "write"}
             /\ real'[n].at = real[n].at \/ {real'[n].at, real[n].at} \cap {"replace", "write"} = {}
  <2>1. CASE n = starts'
    BY <1>2, <1>5, <2>1
  <2>2. CASE n # starts'
    BY <1>5, <2>2
  <2> QED  BY <2>1, <2>2
<1> QED  BY <1>1, <1>4, <1>6, <1>7, QueueInvStays

LEMMA ClearInv ==
    ASSUME QueueInv, Hist!Clear
    PROVE  QueueInv'
<1>1. /\ service' = "clear"
      /\ real' = [n \in Hist!Start |-> [real[n] EXCEPT !.enable = FALSE]]
      /\ snap' = [n \in Hist!Start |-> [snap[n] EXCEPT !.enable = FALSE]]
      /\ UNCHANGED <<starts, historyReady, tasks, historyRunning, db, written, lost, bound, queue, rep,
                     reported,
                     snapshots, raced>>
  BY DEF Hist!Clear, Hist!dataVars
<1>2. ASSUME NEW n \in Hist!Start
      PROVE  real'[n] \in FlushState /\ real'[n].at = real[n].at /\ real'[n].seen = real[n].seen
  BY <1>1 DEF QueueInv, HistTypes, FlushState
<1>3. ASSUME NEW n \in Hist!Start
      PROVE  snap'[n] \in SnapshotState
  BY <1>1 DEF QueueInv, HistTypes, SnapshotState
<1>4. real' \in [Hist!Start -> FlushState] /\ snap' \in [Hist!Start -> SnapshotState]
  BY <1>1, <1>2, <1>3
<1>5. HistTypes'
  BY <1>1, <1>4 DEF QueueInv, HistTypes
<1>6. \A n \in Hist!Start : n > starts' => real'[n].at = "none"
  BY <1>1, <1>2 DEF QueueInv, RecordInv
<1> QED  BY <1>1, <1>2, <1>5, <1>6, QueueInvStays

LEMMA NotReadyInv ==
    ASSUME QueueInv, Hist!NotReady
    PROVE  QueueInv'
<1>1. /\ historyReady' = FALSE /\ service' = "destroy" /\ historyRunning' = (tasks # 0)
      /\ UNCHANGED <<starts, tasks, real, snap, db, written, lost, bound, queue, rep, reported, snapshots,
                     raced>>
  BY DEF Hist!NotReady, Hist!dataVars, Hist!jobVars
<1>2. HistTypes'
  BY <1>1 DEF QueueInv, HistTypes
<1> QED  BY <1>1, <1>2, QueueInvStays DEF QueueInv, RecordInv

-----------------------------------------------------------------------------
(* Snapshots *)

LEMMA TimesMonotonic ==
    ASSUME NEW a \in Int, NEW b \in Int, NEW s \in Nat, a <= b
    PROVE  a * s <= b * s
OBVIOUS

\* Division that rounds up.
LEMMA RoundedUp ==
    ASSUME NEW d \in Nat, NEW s \in Nat \ {0}
    PROVE  LET c == (d + s - 1) \div s IN c \in Nat /\ d <= c * s /\ (c - 1) * s < d
OBVIOUS

\* Every device is on one of the pages, and on no other.
LEMMA PagesAreOfDevices ==
    ASSUME bound \in Bounds, NEW d \in 1 .. bound.devices
    PROVE  \E i \in 1 .. Hist!PageCount : \A j \in 1 .. Hist!PageCount : d \in Hist!Page(j) <=> j = i
<1> DEFINE s == PageSize
           c == (bound.devices + s - 1) \div s
           i == (d + s - 1) \div s
<1>1. s \in Nat \ {0} /\ bound.devices \in Nat /\ d \in Nat /\ 1 <= d /\ d <= bound.devices
  BY BoundsAreCovered, HistoryAssumption
<1>2. c \in Nat /\ bound.devices <= c * s /\ Hist!PageCount = c
  BY <1>1, RoundedUp DEF Hist!PageCount
<1>3. i \in Nat /\ d <= i * s /\ (i - 1) * s < d
  BY <1>1, RoundedUp
<1>4. \A j \in 1 .. c : d \in Hist!Page(j) <=> d > (j - 1) * s /\ d <= j * s
  BY <1>1 DEF Hist!Page
<1> HIDE DEF s, c, i
<1>5. i <= c
  <2> SUFFICES ASSUME c <= i - 1 PROVE FALSE
    BY <1>2, <1>3
  <2>1. c * s <= (i - 1) * s
    BY <1>1, <1>2, <1>3, TimesMonotonic
  <2> QED  BY <1>1, <1>2, <1>3, <2>1
<1>6. i # 0
  BY <1>1, <1>3
<1>7. ASSUME NEW j \in 1 .. c, d \in Hist!Page(j) PROVE j = i
  <2>1. d > (j - 1) * s /\ d <= j * s
    BY <1>4, <1>7
  <2>2. ASSUME j <= i - 1 PROVE FALSE
    <3>1. j * s <= (i - 1) * s
      BY <1>1, <1>3, <2>2, TimesMonotonic
    <3> QED  BY <1>1, <1>3, <2>1, <3>1
  <2>3. ASSUME i <= j - 1 PROVE FALSE
    <3>1. i * s <= (j - 1) * s
      BY <1>1, <1>3, <2>3, TimesMonotonic
    <3> QED  BY <1>1, <1>3, <2>1, <3>1
  <2> QED  BY <1>3, <2>2, <2>3
<1>8. i \in 1 .. c /\ d \in Hist!Page(i)
  BY <1>2, <1>3, <1>4, <1>5, <1>6
<1> QED  BY <1>2, <1>7, <1>8

LEMMA PageCountType ==
    ASSUME bound \in Bounds
    PROVE  Hist!PageCount \in Nat /\ (bound.devices # 0 => Hist!PageCount > 0)
<1>1. PageSize \in Nat \ {0} /\ bound.devices \in Nat
  BY BoundsAreCovered, HistoryAssumption
<1> QED  BY <1>1, RoundedUp DEF Hist!PageCount

\* A snapshot job's step changes its own pages, and nothing of the queue's.
LEMMA SnapshotStep ==
    ASSUME QueueInv, SnapshotInv, NEW n \in Hist!Start, NEW g \in SnapshotState, snap' = [snap EXCEPT ![n] = g],
           UNCHANGED <<service, starts, historyReady, tasks, historyRunning, rep, real, db, queue, bound, raced,
                       written, lost, reported>>,
           snapshots' \in Nat,
           g.at = "write" => Len(g.pages) < Hist!PageCount,
           g.at = "wait" /\ g.pages # <<>> => Len(g.pages) = Hist!PageCount,
           ~g.failed => \A i \in DOMAIN g.pages : g.pages[i] = Hist!Page(i)
    PROVE  QueueInv' /\ SnapshotInv'
<1>1. snap' \in [Hist!Start -> SnapshotState] /\ snap'[n] = g /\ \A m \in Hist!Start \ {n} : snap'[m] = snap[m]
  BY DEF QueueInv, HistTypes
<1>2. HistTypes'
  BY <1>1 DEF QueueInv, HistTypes
<1>3. QueueInv'
  BY <1>2, QueueInvStays DEF QueueInv, RecordInv
<1>4. Hist!PageCount' = Hist!PageCount /\ \A i : Hist!Page(i)' = Hist!Page(i)
  BY DEF Hist!PageCount, Hist!Page
<1>5. SnapshotInv'
  BY <1>1, <1>4 DEF SnapshotInv
<1> QED  BY <1>3, <1>5

LEMMA SnapshotsStay == ASSUME SnapshotInv, UNCHANGED <<snap, bound>> PROVE SnapshotInv'
BY DEF SnapshotInv, Hist!PageCount, Hist!Page

LEMMA SnapTickInv ==
    ASSUME QueueInv, SnapshotInv, NEW n \in Hist!Start, Hist!SnapTick(n)
    PROVE  QueueInv' /\ SnapshotInv'
<1>1. /\ snap[n] \in SnapshotState /\ snap[n].at = "wait"
      /\ UNCHANGED <<service, starts, historyReady, tasks, historyRunning, rep, real, db, queue, bound, raced,
                     written, lost, reported>>
  BY DEF Hist!SnapTick, Hist!serviceVars, Hist!dataVars, QueueInv, HistTypes
<1>2. CASE ~snap[n].enable
  <2> DEFINE g == [snap[n] EXCEPT !.at = "ended"]
  <2>1. snap' = [snap EXCEPT ![n] = g] /\ snapshots' \in Nat
    BY <1>2 DEF Hist!SnapTick, QueueInv, HistTypes
  <2>2. g \in SnapshotState /\ g.at = "ended" /\ g.pages = snap[n].pages /\ g.failed = snap[n].failed
    BY <1>1 DEF SnapshotState, SnapshotAt
  <2> HIDE DEF g
  <2> QED  BY <1>1, <2>1, <2>2, SnapshotStep DEF SnapshotInv
<1>3. CASE snap[n].enable
  <2> DEFINE a == IF bound.devices = 0 THEN "wait" ELSE "write"
             f == [snap[n] EXCEPT !.at = a]
             h == [f EXCEPT !.pages = <<>>]
             g == [h EXCEPT !.failed = FALSE]
  <2>1. snap' = [snap EXCEPT ![n] = g] /\ snapshots' \in Nat
    BY <1>3 DEF Hist!SnapTick, QueueInv, HistTypes
  <2>2. a \in {"wait", "write"} /\ (a = "write" => Hist!PageCount > 0)
    BY PageCountType DEF QueueInv, HistTypes
  <2> HIDE DEF a
  <2>3. f \in SnapshotState /\ f.at = a
    BY <1>1, <2>2 DEF SnapshotState, SnapshotAt
  <2> HIDE DEF f
  <2>4. h \in SnapshotState /\ h.at = a /\ h.pages = <<>>
    <3>1. <<>> \in Seq(SUBSET Nat)
      OBVIOUS
    <3> QED  BY <2>3, <3>1 DEF SnapshotState
  <2> HIDE DEF h
  <2>5. g \in SnapshotState /\ g.at = a /\ g.pages = <<>>
    BY <2>4 DEF SnapshotState
  <2> HIDE DEF g
  <2>6. Len(g.pages) = 0 /\ DOMAIN g.pages = {}
    BY <2>5
  <2> QED  BY <1>1, <2>1, <2>2, <2>5, <2>6, SnapshotStep
<1> QED  BY <1>2, <1>3

LEMMA SnapWriteInv ==
    ASSUME QueueInv, SnapshotInv, NEW n \in Hist!Start, Hist!SnapWrite(n)
    PROVE  QueueInv' /\ SnapshotInv'
<1> DEFINE i == Len(snap[n].pages) + 1
           a == IF i = Hist!PageCount THEN "wait" ELSE "write"
<1>1. PICK good \in BOOLEAN :
          snap' = [snap EXCEPT ![n] = [snap[n] EXCEPT
                      !.pages = Append(snap[n].pages, IF good THEN Hist!Page(i) ELSE {}),
                      !.failed = snap[n].failed \/ ~good, !.at = a]]
  BY Zenon DEF Hist!SnapWrite
<1>2. /\ snap[n] \in SnapshotState /\ snap[n].at = "write" /\ snapshots' \in Nat
      /\ UNCHANGED <<service, starts, historyReady, tasks, historyRunning, rep, real, db, queue, bound, raced,
                     written, lost, reported>>
  BY DEF Hist!SnapWrite, Hist!serviceVars, Hist!dataVars, QueueInv, HistTypes
<1>3. i \in Nat /\ i <= Hist!PageCount /\ Hist!PageCount \in Nat
  BY <1>2, PageCountType DEF SnapshotInv, SnapshotState, QueueInv, HistTypes
<1>4. Hist!Page(i) \in SUBSET Nat
  BY DEF Hist!Page
<1> DEFINE pages == Append(snap[n].pages, IF good THEN Hist!Page(i) ELSE {})
           e == [snap[n] EXCEPT !.pages = pages]
           f == [e EXCEPT !.failed = snap[n].failed \/ ~good]
           g == [f EXCEPT !.at = a]
<1>5. snap' = [snap EXCEPT ![n] = g]
  BY <1>1
<1>6. /\ pages \in Seq(SUBSET Nat) /\ Len(pages) = i
      /\ \A j \in 1 .. i - 1 : pages[j] = snap[n].pages[j]
      /\ pages[i] = IF good THEN Hist!Page(i) ELSE {}
  BY <1>2, <1>4 DEF SnapshotState
<1>7. a \in {"wait", "write"} /\ (a = "wait" => i = Hist!PageCount) /\ (a = "write" => i # Hist!PageCount)
  OBVIOUS
<1>8. DOMAIN snap[n].pages = 1 .. i - 1
  BY <1>2 DEF SnapshotState
<1> HIDE DEF i, pages, a
<1>9. e \in SnapshotState /\ e.pages = pages
  BY <1>2, <1>6 DEF SnapshotState
<1> HIDE DEF e
<1>10. f \in SnapshotState /\ f.pages = pages /\ (f.failed <=> snap[n].failed \/ ~good)
  BY <1>2, <1>9 DEF SnapshotState
<1> HIDE DEF f
<1>11. g \in SnapshotState /\ g.at = a /\ g.pages = pages /\ (g.failed <=> snap[n].failed \/ ~good)
  BY <1>7, <1>10 DEF SnapshotState, SnapshotAt
<1> HIDE DEF g
<1>12. ASSUME ~g.failed, NEW j \in DOMAIN g.pages PROVE g.pages[j] = Hist!Page(j)
  <2>1. ~snap[n].failed /\ good /\ j \in 1 .. i
    BY <1>3, <1>6, <1>11, <1>12
  <2>2. CASE j = i
    BY <1>6, <1>11, <2>1, <2>2
  <2>3. CASE j # i
    <3>1. j \in 1 .. i - 1
      BY <1>3, <2>1, <2>3
    <3>2. snap[n].pages[j] = Hist!Page(j)
      BY <1>8, <2>1, <3>1 DEF SnapshotInv
    <3> QED  BY <1>6, <1>11, <3>1, <3>2
  <2> QED  BY <2>2, <2>3
<1>13. /\ g.at = "write" => Len(g.pages) < Hist!PageCount
       /\ g.at = "wait" /\ g.pages # <<>> => Len(g.pages) = Hist!PageCount
  BY <1>3, <1>6, <1>7, <1>11
<1> QED  BY <1>2, <1>5, <1>11, <1>12, <1>13, SnapshotStep

\* A new start's job has no pages yet, and Clear leaves the pages that are there.
LEMMA SnapshotsOfService ==
    ASSUME QueueInv, SnapshotInv, Hist!ServiceStart \/ Hist!Clear
    PROVE  SnapshotInv'
<1>1. Hist!PageCount' = Hist!PageCount /\ \A i : Hist!Page(i)' = Hist!Page(i)
  BY DEF Hist!ServiceStart, Hist!Clear, Hist!dataVars, Hist!PageCount, Hist!Page
<1>2. CASE Hist!ServiceStart
  <2> DEFINE sweep == [Hist!NoSnap EXCEPT !.at = "wait", !.enable = TRUE]
  <2>1. snap' = snap \/ snap' = [snap EXCEPT ![starts'] = sweep]
    BY <1>2 DEF Hist!ServiceStart, Hist!jobVars
  <2>2. sweep.at = "wait" /\ sweep.pages = <<>> /\ DOMAIN sweep.pages = {}
    BY NewJobs
  <2> HIDE DEF sweep
  <2>3. \A n \in Hist!Start : snap'[n] = snap[n] \/ snap'[n] = sweep
    BY <2>1 DEF QueueInv, HistTypes
  <2> QED  BY <1>1, <2>2, <2>3 DEF SnapshotInv
<1>3. CASE Hist!Clear
  <2>1. \A n \in Hist!Start : /\ snap'[n].at = snap[n].at /\ snap'[n].pages = snap[n].pages
                               /\ snap'[n].failed = snap[n].failed
    BY <1>3 DEF Hist!Clear, QueueInv, HistTypes, SnapshotState
  <2> QED  BY <1>1, <2>1 DEF SnapshotInv
<1> QED  BY <1>2, <1>3

-----------------------------------------------------------------------------
(* The invariant of History, and what follows from it *)

HistInv == QueueInv /\ SnapshotInv

LEMMA HistInvInit == Hist!Init => HistInv
<1> SUFFICES ASSUME Hist!Init PROVE HistInv
  OBVIOUS
<1>1. /\ service = "off" /\ starts = 0 /\ historyReady = FALSE /\ tasks = 0 /\ db = "none" /\ queue = <<>>
      /\ bound \in Bounds /\ historyRunning = TRUE /\ reported = 0 /\ snapshots = 0 /\ raced = FALSE
      /\ written = [k \in Hist!Record |-> 0] /\ lost = [k \in Hist!Record |-> 0]
      /\ rep = [r \in Reporter |-> Hist!Idle] /\ real = [n \in Hist!Start |-> Hist!NoJob]
      /\ snap = [n \in Hist!Start |-> Hist!NoSnap]
  BY DEF Hist!Init, Hist!NoTimes
<1>2. Hist!Idle \in ReporterState /\ Hist!Idle.at = "idle"
  BY DEF Hist!Idle, ReporterState, ReporterAt
<1>3. Hist!NoJob \in FlushState /\ Hist!NoJob.at = "none"
  BY DEF Hist!NoJob, FlushState, FlushAt
<1>4. /\ Hist!NoSnap \in SnapshotState /\ Hist!NoSnap.at = "none" /\ Hist!NoSnap.pages = <<>>
      /\ DOMAIN Hist!NoSnap.pages = {}
  BY DEF Hist!NoSnap, SnapshotState, SnapshotAt
<1>5. bound.starts \in Nat /\ bound.records \in Nat
  BY <1>1, BoundsAreCovered
<1>6. HistTypes
  <2>1. /\ rep \in [Reporter -> ReporterState] /\ real \in [Hist!Start -> FlushState]
        /\ snap \in [Hist!Start -> SnapshotState]
    BY <1>1, <1>2, <1>3, <1>4
  <2>2. written \in [Hist!Record -> Nat] /\ lost \in [Hist!Record -> Nat] /\ queue \in Seq(Hist!Record)
    BY <1>1
  <2>3. starts \in 0 .. bound.starts /\ reported \in 0 .. bound.records
    BY <1>1, <1>5
  <2> QED  BY <1>1, <2>1, <2>2, <2>3 DEF HistTypes
<1>7. RecordInv /\ AloneInv
  BY <1>1, <1>2, <1>3 DEF RecordInv, AloneInv, Pending
<1>8. CountInv
  <2>1. ASSUME NEW k \in Hist!Record PROVE Places(k) = 0
    <3>1. Writers(k) = {} /\ Flushes(k) = {}
      BY <1>1, <1>2, <1>3 DEF Writers, Flushes
    <3>2. Hist!Batches(k) = 0
      BY <3>1, BatchesOf, FS_EmptySet
    <3> QED  BY <1>1, <3>2, TimesInEmpty DEF Places
  <2>2. Hist!Appended = {}
    BY <1>1 DEF Hist!Appended
  <2> QED  BY <1>1, <1>2, <1>3, <2>1, <2>2 DEF CountInv
<1>9. SnapshotInv
  BY <1>1, <1>4 DEF SnapshotInv
<1> QED  BY <1>6, <1>7, <1>8, <1>9 DEF HistInv, QueueInv

LEMMA HistInvStep == HistInv /\ (Hist!Next \/ UNCHANGED historyVars) => HistInv'
<1> SUFFICES ASSUME HistInv, Hist!Next \/ UNCHANGED historyVars PROVE HistInv'
  OBVIOUS
<1>1. QueueInv /\ SnapshotInv
  BY DEF HistInv
<1>2. CASE UNCHANGED historyVars
  <2>1. QueueInv'
    <3>1. HistTypes'
      BY <1>1, <1>2 DEF QueueInv, HistTypes, historyVars
    <3> QED  BY <1>1, <1>2, <3>1, QueueInvStays DEF QueueInv, RecordInv, historyVars
  <2> QED  BY <1>1, <1>2, <2>1, SnapshotsStay DEF HistInv, historyVars
<1>3. CASE Hist!Next
  <2>1. ~raced
    BY <1>3 DEF Hist!Next
  <2>2. ASSUME NEW r \in Reporter,
               Hist!Report(r) \/ Hist!Load(r) \/ Hist!Store(r) \/ Hist!Full(r) \/ Hist!Replace(r) \/ Hist!Write(r)
        PROVE  HistInv'
    <3>1. QueueInv'
      BY <1>1, <2>1, <2>2, ReportInv, LoadInv, StoreInv, FullInv, ReplaceInv, WriteInv
    <3>2. UNCHANGED <<snap, bound>>
      BY <2>2 DEF Hist!Report, Hist!Load, Hist!Store, Hist!Full, Hist!Replace, Hist!Write, Hist!jobVars, Hist!dataVars
    <3> QED  BY <1>1, <3>1, <3>2, SnapshotsStay DEF HistInv
  <2>3. ASSUME NEW n \in Hist!Start,
               Hist!RealTick(n) \/ Hist!RealTake(n) \/ Hist!RealReplace(n) \/ Hist!RealWrite(n)
        PROVE  HistInv'
    <3>1. QueueInv'
      BY <1>1, <2>1, <2>3, RealTickInv, RealTakeInv, RealReplaceInv, RealWriteInv
    <3>2. UNCHANGED <<snap, bound>>
      BY <2>3 DEF Hist!RealTick, Hist!RealTake, Hist!RealReplace, Hist!RealWrite, Hist!dataVars
    <3> QED  BY <1>1, <3>1, <3>2, SnapshotsStay DEF HistInv
  <2>4. ASSUME NEW n \in Hist!Start, Hist!SnapTick(n) \/ Hist!SnapWrite(n)
        PROVE  HistInv'
    BY <1>1, <2>4, SnapTickInv, SnapWriteInv DEF HistInv
  <2>5. ASSUME Hist!ServiceStart \/ Hist!Clear
        PROVE  HistInv'
    BY <1>1, <2>5, ServiceStartInv, ClearInv, SnapshotsOfService DEF HistInv
  <2>6. ASSUME Hist!NotReady \/ Hist!Destroy
        PROVE  HistInv'
    <3>1. QueueInv'
      BY <1>1, <2>1, <2>6, NotReadyInv, HistoryDestroyInv
    <3>2. UNCHANGED <<snap, bound>>
      BY <2>6 DEF Hist!NotReady, Hist!Destroy, Hist!jobVars, Hist!dataVars
    <3> QED  BY <1>1, <3>1, <3>2, SnapshotsStay DEF HistInv
  <2> QED  BY <1>3, <2>2, <2>3, <2>4, <2>5, <2>6 DEF Hist!Next, Hist!Step
<1> QED  BY <1>2, <1>3

\* A snapshot whose inserts were all good has every device once.
LEMMA CompleteSnapshots == HistInv => Hist!SnapshotsAreComplete
<1> SUFFICES ASSUME HistInv, NEW n \in Hist!Start,
                    snap[n].at = "wait", snap[n].pages # <<>>, ~snap[n].failed, NEW d \in 1 .. bound.devices
             PROVE  Hist!Cardinality({j \in DOMAIN snap[n].pages : d \in snap[n].pages[j]}) = 1
  BY DEF Hist!SnapshotsAreComplete
<1> DEFINE P == snap[n].pages
<1>1. bound \in Bounds /\ P \in Seq(SUBSET Nat)
  BY DEF HistInv, QueueInv, HistTypes, SnapshotState
<1>2. DOMAIN P = 1 .. Hist!PageCount /\ \A j \in DOMAIN P : P[j] = Hist!Page(j)
  BY <1>1 DEF HistInv, SnapshotInv
<1>3. PICK i \in 1 .. Hist!PageCount : \A j \in 1 .. Hist!PageCount : d \in Hist!Page(j) <=> j = i
  BY <1>1, PagesAreOfDevices
<1>4. {j \in DOMAIN P : d \in P[j]} = {i}
  BY <1>2, <1>3
<1> QED  BY <1>4, HistSets, FS_Singleton

\* The types of the history export's state, for any reporters, queue and page size, and bounds.
THEOREM HistoryTypeCorrect == MCSpec => []HistTypes
<1>1. MCInit => HistInv
  BY HistInvInit DEF MCInit
<1>2. HistInv /\ [MCNext]_<<vars, historyVars, part>> => HistInv'
  BY HistInvStep DEF MCNext
<1>3. HistInv => HistTypes
  BY DEF HistInv, QueueInv
<1> QED  BY <1>1, <1>2, <1>3, PTL DEF MCSpec

\* Where no two goroutines met between reading and replacing the queue, every record is in one place,
\* once; and a snapshot whose inserts were good has every device once (export.go:78-150,
\* data_insert.go:62-121 of the history export).
THEOREM HistoryAlwaysHolds == MCSpec => []HistoryHolds
<1>1. MCInit => HistInv
  BY HistInvInit DEF MCInit
<1>2. HistInv /\ [MCNext]_<<vars, historyVars, part>> => HistInv'
  BY HistInvStep DEF MCNext
<1>3. HistInv => Hist!RecordsAreConserved
  <2> SUFFICES ASSUME HistInv, ~raced, NEW k \in Hist!Appended PROVE Places(k) = 1
    BY DEF Hist!RecordsAreConserved, Places
  <2> QED  BY AppendedRecords DEF HistInv, QueueInv, CountInv
<1>4. HistInv => HistoryHolds
  BY <1>3, CompleteSnapshots DEF HistoryHolds
<1> QED  BY <1>1, <1>2, <1>4, PTL DEF MCSpec

=============================================================================
