-------------------------- MODULE PointPath_proofs --------------------------
(***************************************************************************)
(* Proofs about PointPath, for any points, values and callers: the type    *)
(* invariant; that the exports know what the shadow holds unless exports   *)
(* of a point overlapped; and that WriteValue is in the device unless      *)
(* writes of the point overlapped or failed.                               *)
(***************************************************************************)
EXTENDS PointPath, TLAPS

\* What converting a value back and forth gives.
LEMMA Conversions ==
    /\ \A p \in Point, r \in RawValue : ToEng(p, r) \in PointValue /\ ToRaw(p, ToEng(p, r)) = r
    /\ NoValue \notin PointValue
    /\ \A p \in Point, v \in PointValue : v \in Nat
    /\ Nothing \in [Point -> {NoValue}]
<1>1. \A r \in Nat : (r * Factor) \div Factor = r
  BY ValuesAssumption, SMT
<1>2. \A p \in Point, r \in RawValue : ToEng(p, r) \in Nat
  BY ValuesAssumption DEF ToEng
<1>3. \A p \in Point, r \in RawValue : ToRaw(p, ToEng(p, r)) = r
  BY <1>1, ValuesAssumption DEF ToEng, ToRaw
<1>4. \A v \in PointValue : v \in Nat
  BY <1>2 DEF PointValue
<1> QED
  BY <1>2, <1>3, <1>4, ValuesAssumption DEF PointValue, Nothing

\* A reading of some points is an export about to begin.
LEMMA ReadingType ==
    ASSUME TypeOK, NEW S \in SUBSET Point
    PROVE  Reading(S) \in Exports
<1>1. [p \in Point |-> IF p \in S THEN ToEng(p, device[p]) ELSE NoValue] \in [Point -> Maybe(PointValue)]
  BY Conversions DEF TypeOK, Maybe
<1> QED BY <1>1 DEF Reading, NoExport, Exports

\* What it carries are values the points can have.
LEMMA ReadingFits ==
    ASSUME TypeOK, NEW S \in SUBSET Point
    PROVE  /\ Given(Reading(S).data) = S
           /\ \A p \in S : Reading(S).data[p] = ToEng(p, device[p])
           /\ \A p \in S : \E r \in RawValue : Reading(S).data[p] = ToEng(p, r)
BY Conversions DEF Reading, NoExport, Given, TypeOK

\* Recording a request changes WriteValue and the verifications under way.
LEMMA RecordType ==
    ASSUME TypeOK, NEW S \in SUBSET Point, NEW want \in [Point -> Maybe(PointValue)],
           Record(S, want)
    PROVE  /\ writeValue' \in [Point -> Maybe(PointValue)]
           /\ verify' \in [Caller -> Verifications]
<1>1. ASSUME NEW v \in Verifications, NEW T \in SUBSET Point
      PROVE  [v EXCEPT !.stale = T] \in Verifications
  BY DEF Verifications
<1>2. ASSUME NEW d \in Caller
      PROVE  /\ verify[d] \in Verifications
             /\ verify[d].stale \cup (S \cap Given(verify[d].want)) \in SUBSET Point
  BY DEF TypeOK, Verifications, Given
<1>3. ASSUME NEW d \in Caller
      PROVE  [verify[d] EXCEPT !.stale = @ \cup (S \cap Given(verify[d].want))] \in Verifications
  BY <1>1, <1>2
<1>4. verify' \in [Caller -> Verifications]
  BY <1>2, <1>3 DEF Record
<1>5. writeValue' \in [Point -> Maybe(PointValue)]
  BY DEF Record, TypeOK
<1> QED BY <1>4, <1>5

\* The empty records are of their types.
LEMMA NoneTypes ==
    /\ Nothing \in [Point -> Maybe(PointValue)]
    /\ NoRequest \in Requests
    /\ NoVerify \in Verifications
    /\ NoExport \in Exports
BY BoundsAssumption DEF Nothing, Maybe, NoRequest, Requests, NoVerify, Verifications, NoExport, Exports

\* They carry nothing.
LEMMA NonesAreEmpty ==
    /\ NoRequest.kind = "none"
    /\ Given(NoExport.data) = {}
BY DEF NoRequest, NoExport, Nothing, Given

LEMMA InitType == Init => TypeOK
<1> SUFFICES ASSUME Init PROVE TypeOK
  OBVIOUS
<1>1. ValuesFit
  BY NonesAreEmpty DEF Init, ValuesFit, Writing
<1>2. /\ misled \in [Point -> BOOLEAN] /\ disturbed \in [Point -> BOOLEAN]
      /\ driven \in BOOLEAN /\ online \in BOOLEAN
  BY Zenon DEF Init
<1>3. /\ shadow \in [Point -> Maybe(PointValue)]
      /\ writeValue \in [Point -> Maybe(PointValue)]
      /\ told \in [Point -> Maybe(PointValue \cup RawValue)]
  BY DEF Init, Nothing, Maybe
<1>4. /\ request \in [Caller -> Requests]
      /\ verify \in [Caller -> Verifications]
      /\ export \in [Worker -> Exports]
  BY NoneTypes DEF Init
<1>5. /\ device \in [Point -> RawValue]
      /\ asks \in 0 .. MaxAsks /\ changes \in 0 .. MaxChanges
  BY BoundsAssumption DEF Init
<1> QED BY <1>1, <1>2, <1>3, <1>4, <1>5 DEF TypeOK


\* A request that is made sends values its points can have.
LEMMA AskWriteTypes ==
    ASSUME TypeOK, NEW c \in Caller, AskWrite(c)
    PROVE  TypeOK'
<1>1. PICK kind \in {"write", "batch"}, S \in (SUBSET Point) \ {{}} :
         \E raw \in [S -> RawValue] :
            /\ request' = [request EXCEPT ![c] = [kind |-> kind, points |-> S, want |-> Wanted(S, raw)]]
            /\ Record(S, Wanted(S, raw))
            /\ disturbed' = [p \in Point |-> IF p \in S THEN Contended(c, p) ELSE disturbed[p]]
  BY DEF AskWrite
<1>2. PICK raw \in [S -> RawValue] :
         /\ request' = [request EXCEPT ![c] = [kind |-> kind, points |-> S, want |-> Wanted(S, raw)]]
         /\ Record(S, Wanted(S, raw))
         /\ disturbed' = [p \in Point |-> IF p \in S THEN Contended(c, p) ELSE disturbed[p]]
  BY <1>1
<1> DEFINE want == Wanted(S, raw)
<1>3. /\ want \in [Point -> Maybe(PointValue)]
      /\ \A p \in S : \E r \in RawValue : want[p] = ToEng(p, r)
  BY Conversions DEF Maybe, Wanted
<1>4. /\ Record(S, want)
      /\ request' = [request EXCEPT ![c] = [kind |-> kind, points |-> S, want |-> want]]
  BY <1>2
<1> HIDE DEF want
<1>5. writeValue' \in [Point -> Maybe(PointValue)] /\ verify' \in [Caller -> Verifications]
  BY <1>3, <1>4, RecordType
<1>6. request' \in [Caller -> Requests]
  BY <1>3, <1>4 DEF TypeOK, Requests
<1>7. disturbed' \in [Point -> BOOLEAN]
  BY <1>2, Zenon DEF TypeOK, Contended
<1>8. asks' \in 0 .. MaxAsks
  BY BoundsAssumption DEF AskWrite, TypeOK
<1>9. ValuesFit'
  BY <1>3, <1>4 DEF AskWrite, ValuesFit, TypeOK, Writing, Given
<1> QED BY <1>5, <1>6, <1>7, <1>8, <1>9 DEF AskWrite, TypeOK

\* Reads that are asked for keep the types.
LEMMA AskReadTypes ==
    ASSUME TypeOK, NEW c \in Caller, AskRead(c) \/ AskBatchRead(c)
    PROVE  TypeOK'
<1> USE BoundsAssumption
<1>1. CASE AskRead(c)
  <2>1. PICK p \in Point :
           /\ request' = [request EXCEPT ![c] = [kind |-> "read", points |-> {p}, want |-> Nothing]]
           /\ Record({p}, Nothing)
    BY <1>1 DEF AskRead
  <2>2. writeValue' \in [Point -> Maybe(PointValue)] /\ verify' \in [Caller -> Verifications]
    BY <2>1, NoneTypes, RecordType
  <2>3. request' \in [Caller -> Requests]
    BY <2>1, NoneTypes DEF TypeOK, Requests
  <2>4. asks' \in 0 .. MaxAsks
    BY <1>1 DEF AskRead, TypeOK
  <2>5. ValuesFit'
    BY <1>1, <2>1 DEF AskRead, ValuesFit, TypeOK, Writing, Given
  <2> QED BY <1>1, <2>2, <2>3, <2>4, <2>5 DEF AskRead, TypeOK
<1>2. CASE AskBatchRead(c)
  <2>1. PICK S \in SUBSET Point :
           request' = [request EXCEPT ![c] = [kind |-> "readBatch", points |-> S, want |-> Nothing]]
    BY <1>2 DEF AskBatchRead
  <2>2. request' \in [Caller -> Requests]
    BY <2>1, NoneTypes DEF TypeOK, Requests
  <2>3. asks' \in 0 .. MaxAsks
    BY <1>2 DEF AskBatchRead, TypeOK
  <2>4. ValuesFit'
    BY <1>2, <2>1 DEF AskBatchRead, ValuesFit, TypeOK, Writing, Given
  <2> QED BY <1>2, <2>2, <2>3, <2>4 DEF AskBatchRead, TypeOK
<1> QED BY <1>1, <1>2

\* What a write sends, the device can hold; what its verification expects is of its type.
LEMMA SentTypes ==
    ASSUME TypeOK, NEW c \in Caller, Writing(c)
    PROVE  /\ \A p \in request[c].points : ToRaw(p, request[c].want[p]) \in RawValue
           /\ Expected(request[c]) \in [Point -> Maybe(PointValue \cup RawValue)]
<1>1. request[c] \in Requests
  BY DEF TypeOK
<1>2. \A p \in request[c].points : ToRaw(p, request[c].want[p]) \in RawValue
  BY <1>1, Conversions DEF TypeOK, ValuesFit, Requests
<1>3. \A p \in Point : request[c].want[p] \in Maybe(PointValue)
  BY <1>1 DEF Requests
<1> QED BY <1>2, <1>3 DEF Expected, Maybe

\* Answers to requests keep the types.
LEMMA AnswerTypes ==
    ASSUME TypeOK, NEW c \in Caller, Answer(c)
    PROVE  TypeOK'
<1>1. request[c] \in Requests
  BY DEF TypeOK
<1>2. request' = [request EXCEPT ![c] = NoRequest]
  BY DEF Answer, Refuse, Fail, Write, Read
<1>3. request' \in [Caller -> Requests]
  BY <1>2, NoneTypes DEF TypeOK
<1>4. \A d \in Caller : Writing(d)' => Writing(d) /\ request'[d] = request[d]
  BY <1>2 DEF TypeOK, Writing, NoRequest
<1>5. ASSUME Spoil(c) PROVE disturbed' \in [Point -> BOOLEAN]
  BY <1>5, Zenon DEF Spoil, TypeOK
<1>6. CASE Refuse(c)
  <2>1. ValuesFit'
    BY <1>4, <1>6 DEF Refuse, TypeOK, ValuesFit
  <2>2. disturbed' \in [Point -> BOOLEAN]
    BY <1>5, <1>6 DEF Refuse
  <2> QED BY <1>3, <1>6, <2>1, <2>2 DEF Refuse, TypeOK
<1>7. CASE Fail(c)
  <2>1. PICK arrived \in SUBSET (IF Writing(c) THEN request[c].points ELSE {}) :
           device' = [p \in Point |-> IF p \in arrived THEN ToRaw(p, request[c].want[p]) ELSE device[p]]
    BY <1>7 DEF Fail
  <2>2. device' \in [Point -> RawValue]
    BY <2>1, SentTypes DEF TypeOK
  <2>3. ValuesFit'
    BY <1>4, <1>7 DEF Fail, TypeOK, ValuesFit
  <2>4. disturbed' \in [Point -> BOOLEAN]
    BY <1>5, <1>7 DEF Fail
  <2>5. online' \in BOOLEAN
    BY <1>7 DEF Fail, TypeOK
  <2> QED BY <1>3, <1>7, <2>2, <2>3, <2>4, <2>5 DEF Fail, TypeOK
<1>8. CASE Write(c)
  <2>1. device' \in [Point -> RawValue]
    BY <1>8, SentTypes DEF Write, TypeOK
  <2>2. [NoVerify EXCEPT !.stage = "new", !.want = Expected(request[c])] \in Verifications
    BY <1>8, SentTypes, NoneTypes DEF Write, Verifications, NoVerify
  <2>3. verify' \in [Caller -> Verifications]
    BY <1>8, <2>2 DEF Write, TypeOK
  <2>4. ValuesFit'
    BY <1>4, <1>8 DEF Write, TypeOK, ValuesFit
  <2> QED BY <1>3, <1>8, <2>1, <2>3, <2>4 DEF Write, TypeOK
<1>9. CASE Read(c)
  <2>1. Reading(request[c].points) \in Exports
    BY <1>1, ReadingType DEF Requests
  <2>2. export' \in [Worker -> Exports]
    BY <1>9, <2>1 DEF Read, TypeOK, Worker
  <2>3. ASSUME NEW w \in Worker, NEW p \in Given(export'[w].data)
        PROVE  \E r \in RawValue : export'[w].data[p] = ToEng(p, r)
    <3>1. CASE w = c
      <4>1. export'[w] = Reading(request[c].points)
        BY <1>9, <3>1 DEF Read, TypeOK, Worker
      <4> QED BY <1>1, <4>1, ReadingFits DEF Requests
    <3>2. CASE w # c
      <4>1. export'[w] = export[w]
        BY <1>9, <3>2 DEF Read, TypeOK, Worker
      <4> QED BY <4>1 DEF TypeOK, ValuesFit
    <3> QED BY <3>1, <3>2
  <2>4. ValuesFit'
    BY <1>4, <2>3 DEF TypeOK, ValuesFit
  <2> QED BY <1>3, <1>9, <2>2, <2>4 DEF Read, TypeOK
<1> QED BY <1>6, <1>7, <1>8, <1>9 DEF Answer

\* Replacing one export keeps the types when the new one is of its type and carries values
\* that fit.
LEMMA ExportReplaced ==
    ASSUME TypeOK, NEW w \in Worker, NEW e \in Exports,
           \A p \in Given(e.data) : \E r \in RawValue : e.data[p] = ToEng(p, r),
           export' = [export EXCEPT ![w] = e], UNCHANGED request
    PROVE  export' \in [Worker -> Exports] /\ ValuesFit'
<1>1. export' \in [Worker -> Exports]
  BY DEF TypeOK
<1>2. ASSUME NEW x \in Worker
      PROVE  \A p \in Given(export'[x].data) : \E r \in RawValue : export'[x].data[p] = ToEng(p, r)
  <2>1. CASE x = w
    BY <2>1 DEF TypeOK
  <2>2. CASE x # w
    BY <2>2 DEF TypeOK, ValuesFit
  <2> QED BY <2>1, <2>2
<1>3. \A c \in Caller : Writing(c)' <=> Writing(c)
  BY DEF Writing
<1> QED BY <1>1, <1>2, <1>3 DEF TypeOK, ValuesFit

\* Exports keep the types.
LEMMA ExportTypes ==
    ASSUME TypeOK, NEW w \in Worker, ExportStep(w)
    PROVE  TypeOK'
<1> DEFINE e == export[w]
<1>1. /\ e \in Exports
      /\ \A p \in Given(e.data) : \E r \in RawValue : e.data[p] = ToEng(p, r)
  BY DEF TypeOK, ValuesFit
<1>2. NoExport \in Exports /\ Given(NoExport.data) = {}
  BY NoneTypes, NonesAreEmpty
<1>3. CASE Compare(w)
  <2>1. PICK p \in e.left, seen \in Maybe(PointValue) :
           LET reported == p \notin OnChange \/ seen # e.data[p]
               overlap  == \E x \in Worker \ {w} : Holds(x, p)
           IN  /\ export' = [export EXCEPT ![w].stage = "store", ![w].now = {p},
                                           ![w].out = IF reported THEN @ \cup {p} ELSE @]
               /\ misled' = [misled EXCEPT ![p] = overlap \/ (@ /\ ~reported)]
    BY <1>3 DEF Compare
  <2> DEFINE new == [e EXCEPT !.stage = "store", !.now = {p},
                              !.out = IF p \notin OnChange \/ seen # e.data[p] THEN @ \cup {p} ELSE @]
  <2>2. p \in Point
    BY <1>1 DEF Exports
  <2>3. new \in Exports /\ new.data = e.data
    BY <1>1, <2>2 DEF Exports
  <2>4. export' = [export EXCEPT ![w] = new]
    BY <2>1 DEF TypeOK
  <2>5. export' \in [Worker -> Exports] /\ ValuesFit'
    <3> HIDE DEF new
    <3>1. \A q \in Given(new.data) : \E r \in RawValue : new.data[q] = ToEng(q, r)
      BY <1>1, <2>3
    <3>2. UNCHANGED request
      BY <1>3 DEF Compare
    <3> QED BY <2>3, <2>4, <3>1, <3>2, ExportReplaced
  <2>6. misled' \in [Point -> BOOLEAN]
    BY <2>1, <2>2, Zenon DEF TypeOK, Holds
  <2> QED BY <1>3, <2>5, <2>6 DEF Compare, TypeOK
<1>4. CASE Store(w)
  <2> DEFINE left == e.left \ e.now
             new  == [e EXCEPT !.left = left, !.now = {},
                               !.stage = IF left = {} THEN "deliver" ELSE "compare"]
  <2>1. new \in Exports /\ new.data = e.data
    BY <1>1 DEF Exports
  <2>2. export' = [export EXCEPT ![w] = new]
    BY <1>4 DEF Store, TypeOK
  <2>3. export' \in [Worker -> Exports] /\ ValuesFit'
    <3> HIDE DEF new
    <3>1. \A p \in Given(new.data) : \E r \in RawValue : new.data[p] = ToEng(p, r)
      BY <1>1, <2>1
    <3>2. UNCHANGED request
      BY <1>4 DEF Store
    <3> QED BY <2>1, <2>2, <3>1, <3>2, ExportReplaced
  <2>4. shadow' \in [Point -> Maybe(PointValue)]
    BY <1>1, <1>4 DEF Store, TypeOK, Exports
  <2> QED BY <1>4, <2>3, <2>4 DEF Store, TypeOK
<1>5. CASE Deliver(w)
  <2>1. export' \in [Worker -> Exports] /\ ValuesFit'
    BY <1>2, <1>5, ExportReplaced DEF Deliver
  <2>2. told' \in [Point -> Maybe(PointValue \cup RawValue)]
    BY <1>1, <1>5 DEF Deliver, TypeOK, Exports, Maybe
  <2> QED BY <1>5, <2>1, <2>2 DEF Deliver, TypeOK
<1>6. CASE ExportRaw(w)
  <2>1. export' \in [Worker -> Exports] /\ ValuesFit'
    BY <1>2, <1>6, ExportReplaced DEF ExportRaw
  <2>2. \A p \in e.left : p \in Point /\ ToRaw(p, e.data[p]) \in RawValue
    BY <1>1, <1>6, Conversions DEF ExportRaw, Given
  <2>3. told' \in [Point -> Maybe(PointValue \cup RawValue)]
    BY <1>6, <2>2 DEF ExportRaw, TypeOK, Maybe
  <2>4. misled' \in [Point -> BOOLEAN]
    BY <1>6, Zenon DEF ExportRaw, TypeOK
  <2> QED BY <1>6, <2>1, <2>3, <2>4 DEF ExportRaw, TypeOK
<1> QED BY <1>3, <1>4, <1>5, <1>6 DEF ExportStep

\* Verifications keep the types.
LEMMA VerifyTypes ==
    ASSUME TypeOK, NEW c \in Caller, VerifyStep(c)
    PROVE  TypeOK'
<1>1. verify[c] \in Verifications /\ c \in Worker
  BY DEF TypeOK, Worker
<1>2. CASE BeginVerify(c)
  <2>1. [verify[c] EXCEPT !.stage = "running"] \in Verifications
    BY <1>1 DEF Verifications
  <2>2. verify' \in [Caller -> Verifications]
    BY <1>2, <2>1 DEF BeginVerify, TypeOK
  <2> QED BY <1>2, <2>2 DEF BeginVerify, TypeOK, ValuesFit, Writing
<1>3. CASE VerifyRead(c)
  <2> DEFINE want == [p \in Point |-> IF p \in Unconfirmed(c) THEN verify[c].want[p] ELSE NoValue]
  <2>1. want \in [Point -> Maybe(PointValue \cup RawValue)]
    BY <1>1 DEF Verifications, Maybe
  <2>2. verify[c].tries + 1 \in 0 .. MaxTries
    BY <1>1, <1>3, BoundsAssumption DEF VerifyRead, Verifications
  <2>3. verify' = [verify EXCEPT ![c] = [verify[c] EXCEPT !.tries = @ + 1, !.stale = {}, !.want = want]]
    BY <1>3 DEF VerifyRead, TypeOK
  <2>4. verify' \in [Caller -> Verifications]
    <3> HIDE DEF want
    <3>1. [verify[c] EXCEPT !.tries = @ + 1, !.stale = {}, !.want = want] \in Verifications
      BY <1>1, <2>1, <2>2 DEF Verifications
    <3> QED BY <2>3, <3>1 DEF TypeOK
  <2>5. export' \in [Worker -> Exports] /\ ValuesFit'
    <3>1. Unconfirmed(c) \in SUBSET Point
      BY DEF Unconfirmed, Given
    <3>2. CASE export' = [export EXCEPT ![c] = Reading(Unconfirmed(c))]
      <4> DEFINE new == Reading(Unconfirmed(c))
      <4>1. new \in Exports
        BY <3>1, ReadingType
      <4>2. \A p \in Given(new.data) : \E r \in RawValue : new.data[p] = ToEng(p, r)
        BY <3>1, ReadingFits
      <4>3. UNCHANGED request
        BY <1>3 DEF VerifyRead
      <4>4. export' = [export EXCEPT ![c] = new]
        BY <3>2
      <4> HIDE DEF new
      <4> QED BY <1>1, <4>1, <4>2, <4>3, <4>4, ExportReplaced
    <3>3. CASE export' = export
      BY <1>3, <3>3 DEF VerifyRead, TypeOK, ValuesFit, Writing
    <3> QED BY <1>3, <3>2, <3>3 DEF VerifyRead
  <2> QED BY <1>3, <2>4, <2>5 DEF VerifyRead, TypeOK
<1>4. CASE VerifyFail(c)
  <2>1. verify' \in [Caller -> Verifications]
    BY <1>4, NoneTypes DEF VerifyFail, TypeOK
  <2>2. online' \in BOOLEAN
    BY <1>4 DEF VerifyFail, TypeOK
  <2> QED BY <1>4, <2>1, <2>2 DEF VerifyFail, TypeOK, ValuesFit, Writing
<1>5. CASE EndVerify(c)
  <2>1. verify' \in [Caller -> Verifications]
    BY <1>5, NoneTypes DEF EndVerify, TypeOK
  <2> QED BY <1>5, <2>1 DEF EndVerify, TypeOK, ValuesFit, Writing
<1> QED BY <1>2, <1>3, <1>4, <1>5 DEF VerifyStep

\* Every step keeps the type invariant.
LEMMA TypeStep == TypeOK /\ [Next]_vars => TypeOK'
<1> SUFFICES ASSUME TypeOK, [Next]_vars PROVE TypeOK'
  OBVIOUS
<1>1. CASE \E c \in Caller : AskWrite(c) \/ AskRead(c) \/ AskBatchRead(c) \/ Answer(c) \/ VerifyStep(c)
  BY <1>1, AskWriteTypes, AskReadTypes, AnswerTypes, VerifyTypes
<1>2. CASE \E w \in Worker : ExportStep(w)
  BY <1>2, ExportTypes
<1>3. CASE Collect
  <2>1. Readable \in SUBSET Point /\ Collector \in Worker
    BY DEF Readable, Worker
  <2>2. export' \in [Worker -> Exports] /\ ValuesFit'
    BY <1>3, <2>1, ReadingType, ReadingFits, ExportReplaced DEF Collect
  <2> QED BY <1>3, <2>2 DEF Collect, TypeOK
<1>4. CASE GoOffline
  BY <1>4 DEF GoOffline, TypeOK, ValuesFit, Writing
<1>5. CASE DeviceChanges
  <2>1. device' \in [Point -> RawValue] /\ changes' \in 0 .. MaxChanges
    BY <1>5, BoundsAssumption DEF DeviceChanges, TypeOK
  <2>2. disturbed' \in [Point -> BOOLEAN]
    BY <1>5 DEF DeviceChanges, TypeOK
  <2>3. ValuesFit'
    BY <1>5 DEF DeviceChanges, TypeOK, ValuesFit, Writing
  <2> QED BY <1>5, <2>1, <2>2, <2>3 DEF DeviceChanges, TypeOK
<1>6. CASE UNCHANGED vars
  BY <1>6 DEF vars, TypeOK, ValuesFit, Writing
<1> QED BY <1>1, <1>2, <1>3, <1>4, <1>5, <1>6 DEF Next

\* The type invariant, for any points, values, scale and callers.
THEOREM PathTypeCorrect == Spec => []TypeOK
<1> QED BY InitType, TypeStep, PTL DEF Spec
-----------------------------------------------------------------------------
(* What the exports know.  The invariant has to say what an export that is  *)
(* under way will deliver, and that only one holds a point that is not      *)
(* misled.                                                                  *)

\* A caller does one thing at a time.
OneThing == \A c \in Caller : Pending(c) => verify[c] = NoVerify /\ export[c] = NoExport

\* The fields of an export at each stage.
ExportShape ==
    \A w \in Worker : LET e == export[w] IN
        /\ e.left \subseteq Given(e.data) /\ e.now \subseteq e.left
        /\ e.out \subseteq (Given(e.data) \ e.left) \cup e.now
        /\ e.stage = "idle" => e = NoExport
        /\ e.stage = "compare" => e.now = {}
        /\ e.stage = "deliver" => e.left = {}

\* An export that holds a point will deliver what the shadow holds, or the exports know it.
WillTell(w, p) ==
    /\ p \in export[w].out \/ told[p] = shadow[p]
    /\ p \in export[w].now /\ p \notin export[w].out => shadow[p] = export[w].data[p]
    /\ p \notin export[w].now /\ p \in export[w].out => shadow[p] = export[w].data[p]

ToldInv ==
    \A p \in Point : ~misled[p] =>
        /\ \A w, x \in Worker : Holds(w, p) /\ Holds(x, p) => w = x
        /\ \A w \in Worker : Holds(w, p) => WillTell(w, p)
        /\ (\A w \in Worker : ~Holds(w, p)) => told[p] = shadow[p]

ToldIInv == OneThing /\ ExportShape /\ ToldInv

LEMMA ToldInit == Init => ToldIInv
<1> SUFFICES ASSUME Init PROVE ToldIInv
  OBVIOUS
<1>1. \A w \in Worker : export[w] = NoExport
  BY DEF Init
<1>2. OneThing
  BY DEF Init, OneThing, Pending, NoRequest
<1>3. ExportShape
  BY <1>1 DEF ExportShape, NoExport
<1>4. \A w \in Worker, p \in Point : ~Holds(w, p)
  BY <1>1 DEF Holds, NoExport
<1>5. ToldInv
  BY <1>4 DEF Init, ToldInv
<1> QED BY <1>2, <1>3, <1>5 DEF ToldIInv

\* A caller does one thing at a time, whatever happens.
LEMMA OneThingStep == TypeOK /\ OneThing /\ ExportShape /\ [Next]_vars => OneThing'
<1> SUFFICES ASSUME TypeOK, OneThing, ExportShape, [Next]_vars, NEW c \in Caller, Pending(c)'
             PROVE  verify'[c] = NoVerify /\ export'[c] = NoExport
  BY DEF OneThing
<1> USE DEF TypeOK, Pending
<1>1. ASSUME NEW d \in Caller, AskWrite(d) \/ AskRead(d) \/ AskBatchRead(d)
      PROVE  verify'[c] = NoVerify /\ export'[c] = NoExport
  <2>1. verify[c] = NoVerify /\ export[c] = NoExport
    BY <1>1 DEF AskWrite, AskRead, AskBatchRead, Free, OneThing
  <2>2. verify'[c] = verify[c]
    <3>1. verify[c].stage # "running"
      BY <2>1 DEF NoVerify
    <3>2. ASSUME NEW S, NEW want, Record(S, want) PROVE verify'[c] = verify[c]
      BY <3>1, <3>2 DEF Record
    <3>3. CASE AskWrite(d)
      BY <3>2, <3>3 DEF AskWrite
    <3>4. CASE AskRead(d)
      BY <3>2, <3>4 DEF AskRead
    <3>5. CASE AskBatchRead(d)
      BY <3>5 DEF AskBatchRead
    <3> QED BY <1>1, <3>3, <3>4, <3>5
  <2>3. export' = export
    BY <1>1 DEF AskWrite, AskRead, AskBatchRead
  <2> QED BY <2>1, <2>2, <2>3
<1>2. ASSUME NEW d \in Caller, Answer(d)
      PROVE  verify'[c] = NoVerify /\ export'[c] = NoExport
  <2>1. request' = [request EXCEPT ![d] = NoRequest]
    BY <1>2 DEF Answer, Refuse, Fail, Write, Read
  <2>2. c # d /\ Pending(c)
    BY <2>1 DEF NoRequest
  <2>3. verify'[c] = verify[c] /\ export'[c] = export[c]
    BY <1>2, <2>2 DEF Answer, Refuse, Fail, Write, Read, Worker
  <2> QED BY <2>2, <2>3 DEF OneThing
<1>3. ASSUME NEW d \in Caller, VerifyStep(d)
      PROVE  verify'[c] = NoVerify /\ export'[c] = NoExport
  <2>1. request' = request /\ verify[d].stage # "none"
    BY <1>3 DEF VerifyStep, BeginVerify, VerifyRead, VerifyFail, EndVerify, Checking
  <2>2. verify[c] = NoVerify /\ export[c] = NoExport /\ c # d
    BY <2>1 DEF OneThing, NoVerify
  <2>3. verify'[c] = verify[c] /\ export'[c] = export[c]
    BY <1>3, <2>2 DEF VerifyStep, BeginVerify, VerifyRead, VerifyFail, EndVerify, Worker
  <2> QED BY <2>2, <2>3
<1>4. ASSUME NEW w \in Worker, ExportStep(w)
      PROVE  verify'[c] = NoVerify /\ export'[c] = NoExport
  <2>1. request' = request /\ verify' = verify /\ export[w].stage # "idle"
    BY <1>4 DEF ExportStep, Compare, Store, Deliver, ExportRaw
  <2>2. verify[c] = NoVerify /\ export[c] = NoExport
    BY <2>1 DEF OneThing
  <2>3. c # w
    BY <2>1, <2>2 DEF NoExport
  <2>4. export'[c] = export[c]
    BY <1>4, <2>3 DEF ExportStep, Compare, Store, Deliver, ExportRaw, Worker
  <2> QED BY <2>1, <2>2, <2>4
<1>5. CASE Collect
  <2>1. c # Collector
    BY ProcessesAssumption
  <2> QED BY <1>5, <2>1 DEF Collect, OneThing, Worker
<1>6. CASE GoOffline \/ DeviceChanges \/ UNCHANGED vars
  BY <1>6 DEF GoOffline, DeviceChanges, vars, OneThing
<1> QED BY <1>1, <1>2, <1>3, <1>4, <1>5, <1>6 DEF Next

\* Only exports change what exports hold; a new reading holds nothing yet.
LEMMA StartKeepsTold ==
    ASSUME TypeOK, ToldIInv, NEW w \in Worker, export[w] = NoExport, NEW S \in SUBSET Point,
           export' = [export EXCEPT ![w] = Reading(S)], UNCHANGED <<told, shadow, misled>>
    PROVE  ExportShape' /\ ToldInv'
<1>1. export'[w] = Reading(S) /\ \A x \in Worker \ {w} : export'[x] = export[x]
  BY DEF TypeOK
<1>2. /\ Reading(S).stage = "compare" /\ Reading(S).left = S
      /\ Reading(S).now = {} /\ Reading(S).out = {} /\ Given(Reading(S).data) = S
  BY ReadingFits DEF Reading, NoExport
<1>3. ExportShape'
  <2> SUFFICES ASSUME NEW x \in Worker
               PROVE  LET e == export'[x] IN
                        /\ e.left \subseteq Given(e.data) /\ e.now \subseteq e.left
                        /\ e.out \subseteq (Given(e.data) \ e.left) \cup e.now
                        /\ e.stage = "idle" => e = NoExport
                        /\ e.stage = "compare" => e.now = {}
                        /\ e.stage = "deliver" => e.left = {}
    BY DEF ExportShape
  <2>1. CASE x = w
    BY <1>1, <1>2, <2>1
  <2>2. CASE x # w
    BY <1>1, <2>2 DEF ToldIInv, ExportShape
  <2> QED BY <2>1, <2>2
<1>4. \A p \in Point : ~Holds(w, p)' /\ ~Holds(w, p)
  BY <1>1, <1>2 DEF Holds, NoExport
<1>5. \A x \in Worker, p \in Point : Holds(x, p)' <=> Holds(x, p)
  BY <1>1, <1>4 DEF Holds
<1>6. \A x \in Worker, p \in Point : Holds(x, p) /\ WillTell(x, p) => WillTell(x, p)'
  BY <1>1, <1>4 DEF WillTell
<1> QED BY <1>3, <1>5, <1>6 DEF ToldIInv, ToldInv

\* An export's own steps.  In each the points it does not touch are as before, and those it
\* holds are what it will deliver.
LEMMA ExportKeepsTold ==
    ASSUME TypeOK, ToldIInv, NEW w \in Worker, ExportStep(w)
    PROVE  ExportShape' /\ ToldInv'
<1> DEFINE e  == export[w]
           e2 == export'[w]
           Shape(f) == /\ f.left \subseteq Given(f.data) /\ f.now \subseteq f.left
                       /\ f.out \subseteq (Given(f.data) \ f.left) \cup f.now
                       /\ f.stage = "idle" => f = NoExport
                       /\ f.stage = "compare" => f.now = {}
                       /\ f.stage = "deliver" => f.left = {}
<1>1. e \in Exports /\ Shape(e)
  BY DEF TypeOK, ToldIInv, ExportShape
<1>2. \A x \in Worker \ {w} : export'[x] = export[x]
  BY DEF ExportStep, Compare, Store, Deliver, ExportRaw, TypeOK
<1>3. \A x \in Worker \ {w}, p \in Point : Holds(x, p)' <=> Holds(x, p)
  BY <1>2 DEF Holds
<1>4. Shape(e2) => ExportShape'
  BY <1>2 DEF ToldIInv, ExportShape
<1>5. Shape(NoExport) /\ \A p \in Point : p \notin Given(NoExport.data)
  BY NonesAreEmpty DEF NoExport
<1>6. CASE Compare(w)
  <2>1. PICK p \in e.left, seen \in Maybe(PointValue) :
           LET reported == p \notin OnChange \/ seen # e.data[p]
               overlap  == \E x \in Worker \ {w} : Holds(x, p)
           IN  /\ seen \in Served(p)
               /\ export' = [export EXCEPT ![w].stage = "store", ![w].now = {p},
                                           ![w].out = IF reported THEN @ \cup {p} ELSE @]
               /\ misled' = [misled EXCEPT ![p] = overlap \/ (@ /\ ~reported)]
    BY <1>6 DEF Compare
  <2> DEFINE reported == p \notin OnChange \/ seen # e.data[p]
             overlap  == \E x \in Worker \ {w} : Holds(x, p)
  <2>2. p \in Given(e.data) /\ p \in Point /\ e.data[p] # NoValue /\ e.stage = "compare" /\ e.now = {}
    BY <1>1, <1>6 DEF Compare, Given
  <2>3. /\ e2.stage = "store" /\ e2.now = {p} /\ e2.left = e.left /\ e2.data = e.data
        /\ e2.out = IF reported THEN e.out \cup {p} ELSE e.out
    BY <1>1, <2>1 DEF TypeOK, Exports
  <2>4. Shape(e2)
    BY <1>1, <2>2, <2>3
  <2>5. \A q \in Point \ {p} : Holds(w, q)' <=> Holds(w, q)
    BY <2>2, <2>3 DEF Holds
  <2>6. Holds(w, p)' /\ ~Holds(w, p)
    BY <2>2, <2>3 DEF Holds
  <2>7. \A q \in Point \ {p} : misled'[q] = misled[q]
    BY <2>1 DEF TypeOK
  <2>8. misled'[p] = (overlap \/ (misled[p] /\ ~reported))
    BY <2>1, <2>2 DEF TypeOK
  <2>9. told' = told /\ shadow' = shadow
    BY <1>6 DEF Compare
  <2>10. p \notin e.out
    BY <1>1, <2>2
  <2>11. ~misled'[p] => WillTell(w, p)'
    <3> SUFFICES ASSUME ~misled'[p] PROVE WillTell(w, p)'
      OBVIOUS
    <3>1. ~overlap /\ (reported \/ ~misled[p])
      BY <2>8
    <3>2. CASE reported
      BY <2>3, <3>2 DEF WillTell
    <3>3. CASE ~reported
      <4>1. shadow[p] = e.data[p]
        BY <2>1, <2>2, <3>3 DEF Served
      <4>2. told[p] = shadow[p]
        BY <2>2, <2>6, <3>1, <3>3 DEF ToldIInv, ToldInv
      <4> QED BY <2>3, <2>9, <2>10, <3>3, <4>1, <4>2 DEF WillTell
    <3> QED BY <3>2, <3>3
  <2>12. \A x \in Worker, q \in Point \ {p} : WillTell(x, q)' <=> WillTell(x, q)
    <3> TAKE x \in Worker, q \in Point \ {p}
    <3>1. CASE x = w
      BY <2>2, <2>3, <2>9, <3>1 DEF WillTell
    <3>2. CASE x # w
      BY <1>2, <2>9, <3>2 DEF WillTell
    <3> QED BY <3>1, <3>2
  <2>13. ToldInv'
    <3> SUFFICES ASSUME NEW q \in Point, ~misled'[q]
                 PROVE  /\ \A y, x \in Worker : Holds(y, q)' /\ Holds(x, q)' => y = x
                        /\ \A x \in Worker : Holds(x, q)' => WillTell(x, q)'
                        /\ (\A x \in Worker : ~Holds(x, q)') => told'[q] = shadow'[q]
      BY DEF ToldInv
    <3>1. CASE q = p
      BY <1>3, <2>6, <2>8, <2>11, <3>1
    <3>2. CASE q # p
      <4>1. \A x \in Worker : Holds(x, q)' <=> Holds(x, q)
        BY <1>3, <2>5, <3>2
      <4> QED BY <2>7, <2>9, <2>12, <3>2, <4>1 DEF ToldIInv, ToldInv
    <3> QED BY <3>1, <3>2
  <2> QED BY <1>4, <2>4, <2>13
<1>7. CASE Store(w)
  <2>1. /\ e.stage = "store" /\ told' = told /\ misled' = misled
        /\ shadow' = [p \in Point |-> IF p \in e.now THEN e.data[p] ELSE shadow[p]]
    BY <1>7 DEF Store
  <2>2. /\ e2.left = e.left \ e.now /\ e2.now = {} /\ e2.data = e.data /\ e2.out = e.out
        /\ e2.stage = IF e2.left = {} THEN "deliver" ELSE "compare"
    BY <1>1, <1>7 DEF Store, TypeOK, Exports
  <2>3. Shape(e2)
    BY <1>1, <2>2
  <2>4. \A q \in Point : Holds(w, q)' <=> Holds(w, q)
    BY <1>1, <2>1, <2>2 DEF Holds
  <2>5. \A q \in Point : Holds(w, q) => (WillTell(w, q) => WillTell(w, q)')
    <3> TAKE q \in Point
    <3>1. CASE q \in e.now
      BY <2>1, <2>2, <3>1 DEF WillTell
    <3>2. CASE q \notin e.now
      BY <2>1, <2>2, <3>2 DEF WillTell
    <3> QED BY <3>1, <3>2
  <2>6. \A q \in Point : shadow'[q] # shadow[q] => Holds(w, q)
    BY <1>1, <2>1 DEF Holds
  <2>7. ToldInv'
    <3> SUFFICES ASSUME NEW q \in Point, ~misled'[q]
                 PROVE  /\ \A y, x \in Worker : Holds(y, q)' /\ Holds(x, q)' => y = x
                        /\ \A x \in Worker : Holds(x, q)' => WillTell(x, q)'
                        /\ (\A x \in Worker : ~Holds(x, q)') => told'[q] = shadow'[q]
      BY DEF ToldInv
    <3>1. \A x \in Worker : Holds(x, q)' <=> Holds(x, q)
      BY <1>3, <2>4
    <3>2. ASSUME NEW x \in Worker, Holds(x, q) PROVE WillTell(x, q)'
      <4>1. CASE x = w
        BY <2>1, <2>5, <3>2, <4>1 DEF ToldIInv, ToldInv
      <4>2. CASE x # w
        <5>1. ~Holds(w, q) /\ WillTell(x, q)
          BY <2>1, <3>2, <4>2 DEF ToldIInv, ToldInv
        <5>2. shadow'[q] = shadow[q] /\ export'[x] = export[x]
          BY <1>2, <2>6, <4>2, <5>1
        <5> QED BY <2>1, <5>1, <5>2 DEF WillTell
      <4> QED BY <4>1, <4>2
    <3> QED BY <2>1, <2>6, <3>1, <3>2 DEF ToldIInv, ToldInv
  <2> QED BY <1>4, <2>3, <2>7
<1>8. CASE Deliver(w)
  <2>1. /\ e.stage = "deliver" /\ e2 = NoExport /\ shadow' = shadow /\ misled' = misled
        /\ told' = [p \in Point |-> IF p \in e.out THEN e.data[p] ELSE told[p]]
    BY <1>8 DEF Deliver, TypeOK
  <2>2. \A q \in Point : ~Holds(w, q)'
    BY <1>5, <2>1 DEF Holds
  <2>3. e.left = {} /\ e.now = {}
    BY <1>1, <2>1
  <2>4. \A q \in Point : q \in e.out => Holds(w, q)
    BY <1>1, <2>1, <2>3 DEF Holds
  <2>5. ToldInv'
    <3> SUFFICES ASSUME NEW q \in Point, ~misled'[q]
                 PROVE  /\ \A y, x \in Worker : Holds(y, q)' /\ Holds(x, q)' => y = x
                        /\ \A x \in Worker : Holds(x, q)' => WillTell(x, q)'
                        /\ (\A x \in Worker : ~Holds(x, q)') => told'[q] = shadow'[q]
      BY DEF ToldInv
    <3>1. \A y, x \in Worker : Holds(y, q)' /\ Holds(x, q)' => y = x
      BY <1>3, <2>1, <2>2 DEF ToldIInv, ToldInv
    <3>2. ASSUME NEW x \in Worker, Holds(x, q)' PROVE WillTell(x, q)'
      <4>1. x # w /\ Holds(x, q)
        BY <1>3, <2>2, <3>2
      <4>2. ~Holds(w, q) /\ WillTell(x, q)
        BY <2>1, <4>1 DEF ToldIInv, ToldInv
      <4>3. told'[q] = told[q] /\ export'[x] = export[x]
        BY <1>2, <2>1, <2>4, <4>1, <4>2
      <4> QED BY <2>1, <4>2, <4>3 DEF WillTell
    <3>3. ASSUME \A x \in Worker : ~Holds(x, q)' PROVE told'[q] = shadow'[q]
      <4>1. CASE Holds(w, q)
        BY <2>1, <2>3, <4>1 DEF ToldIInv, ToldInv, WillTell
      <4>2. CASE ~Holds(w, q)
        <5>1. \A x \in Worker : ~Holds(x, q)
          BY <1>3, <3>3, <4>2
        <5> QED BY <2>1, <2>4, <4>2, <5>1 DEF ToldIInv, ToldInv
      <4> QED BY <4>1, <4>2
    <3> QED BY <3>1, <3>2, <3>3
  <2> QED BY <1>4, <1>5, <2>1, <2>5
<1>9. CASE ExportRaw(w)
  <2>1. /\ e.stage = "compare" /\ e.left = Given(e.data) /\ e2 = NoExport /\ shadow' = shadow
        /\ told' = [p \in Point |-> IF p \in e.left THEN ToRaw(p, e.data[p]) ELSE told[p]]
        /\ misled' = [p \in Point |-> p \in e.left \/ misled[p]]
    BY <1>9 DEF ExportRaw, TypeOK
  <2>2. \A q \in Point : ~Holds(w, q)' /\ ~Holds(w, q)
    BY <1>1, <1>5, <2>1 DEF Holds
  <2>3. \A x \in Worker, q \in Point : Holds(x, q)' <=> Holds(x, q)
    BY <1>3, <2>2
  <2>4. \A q \in Point : ~misled'[q] => ~misled[q] /\ told'[q] = told[q]
    BY <2>1
  <2>5. ToldInv'
    <3> SUFFICES ASSUME NEW q \in Point, ~misled'[q]
                 PROVE  /\ \A y, x \in Worker : Holds(y, q)' /\ Holds(x, q)' => y = x
                        /\ \A x \in Worker : Holds(x, q)' => WillTell(x, q)'
                        /\ (\A x \in Worker : ~Holds(x, q)') => told'[q] = shadow'[q]
      BY DEF ToldInv
    <3>1. ASSUME NEW x \in Worker, Holds(x, q) PROVE WillTell(x, q)'
      <4>1. export'[x] = export[x] /\ WillTell(x, q)
        BY <1>2, <2>2, <2>4, <3>1 DEF ToldIInv, ToldInv
      <4> QED BY <2>1, <2>4, <4>1 DEF WillTell
    <3> QED BY <2>1, <2>3, <2>4, <3>1 DEF ToldIInv, ToldInv
  <2> QED BY <1>4, <1>5, <2>1, <2>5
<1> QED BY <1>6, <1>7, <1>8, <1>9 DEF ExportStep

\* A step that touches neither the exports nor what they compare keeps what they know.
LEMMA IdleKeepsTold ==
    ASSUME ToldIInv, UNCHANGED <<export, told, shadow, misled>>
    PROVE  ExportShape' /\ ToldInv'
BY DEF ToldIInv, ExportShape, ToldInv, Holds, WillTell

LEMMA ToldStep == TypeOK /\ ToldIInv /\ [Next]_vars => ToldIInv'
<1> SUFFICES ASSUME TypeOK, ToldIInv, [Next]_vars PROVE ToldIInv'
  OBVIOUS
<1>1. OneThing'
  BY OneThingStep DEF ToldIInv
<1>2. CASE \E w \in Worker : ExportStep(w)
  BY <1>1, <1>2, ExportKeepsTold DEF ToldIInv
<1>3. CASE \E c \in Caller : Read(c)
  <2>1. PICK c \in Caller : Read(c)
    BY <1>3
  <2>2. request[c].points \in SUBSET Point /\ c \in Worker
    BY DEF TypeOK, Requests, Worker
  <2>3. export[c] = NoExport
    BY <2>1 DEF Read, Pending, ToldIInv, OneThing
  <2> QED BY <1>1, <2>1, <2>2, <2>3, StartKeepsTold DEF Read, ToldIInv
<1>4. CASE \E c \in Caller : VerifyRead(c)
  <2>1. PICK c \in Caller : VerifyRead(c)
    BY <1>4
  <2>2. Unconfirmed(c) \in SUBSET Point /\ c \in Worker
    BY DEF Unconfirmed, Given, Worker
  <2>3. CASE export' = export
    BY <1>1, <2>1, <2>3, IdleKeepsTold DEF VerifyRead, ToldIInv
  <2>4. CASE export' # export
    BY <1>1, <2>1, <2>2, <2>4, StartKeepsTold DEF VerifyRead, Checking, ToldIInv
  <2> QED BY <2>3, <2>4
<1>5. CASE Collect
  <2>1. Readable \in SUBSET Point /\ Collector \in Worker
    BY DEF Readable, Worker
  <2> QED BY <1>1, <1>5, <2>1, StartKeepsTold DEF Collect, ToldIInv
<1>6. CASE UNCHANGED <<export, told, shadow, misled>>
  BY <1>1, <1>6, IdleKeepsTold DEF ToldIInv
<1>7. ASSUME NEW c \in Caller,
             AskWrite(c) \/ AskRead(c) \/ AskBatchRead(c) \/ Refuse(c) \/ Fail(c) \/ Write(c)
               \/ BeginVerify(c) \/ VerifyFail(c) \/ EndVerify(c)
      PROVE  UNCHANGED <<export, told, shadow, misled>>
  BY <1>7 DEF AskWrite, AskRead, AskBatchRead, Refuse, Fail, Write, BeginVerify, VerifyFail, EndVerify
<1>8. CASE GoOffline \/ DeviceChanges \/ UNCHANGED vars
  BY <1>6, <1>8 DEF GoOffline, DeviceChanges, vars
<1> QED BY <1>2, <1>3, <1>4, <1>5, <1>6, <1>7, <1>8 DEF Next, Answer, VerifyStep

\* What the exports last heard of a point is what the shadow holds, unless exports of the point
\* overlapped or went past the shadow: for any points, values, callers and number of reads.
THEOREM ExportsKnowTheShadow == Spec => []ToldIsShadow
<1>1. TypeOK /\ ToldIInv => ToldIsShadow
  BY DEF ToldIInv, ToldInv, ToldIsShadow
<1> QED BY <1>1, InitType, TypeStep, ToldInit, ToldStep, PTL DEF Spec

-----------------------------------------------------------------------------
(* What the device was sent: at most one caller writes a point that is not  *)
(* disturbed, and WriteValue is what it writes.                             *)

WriteInv ==
    \A p \in Point : ~disturbed[p] =>
        /\ \A c, d \in Caller : Writing(c) /\ Writing(d) /\ p \in request[c].points \cap request[d].points
               => c = d
        /\ writeValue[p] # NoValue =>
              /\ \A c \in Caller : Writing(c) /\ p \in request[c].points
                     => request[c].want[p] = writeValue[p]
              /\ (\A c \in Caller : ~(Writing(c) /\ p \in request[c].points))
                     => device[p] = ToRaw(p, writeValue[p])

LEMMA WriteInit == Init => WriteInv
BY DEF Init, WriteInv, Writing, NoRequest, Nothing

\* A request that is recorded.
LEMMA AskKeepsWrites ==
    ASSUME TypeOK, WriteInv, NEW c \in Caller, AskWrite(c)
    PROVE  WriteInv'
<1>1. PICK kind \in {"write", "batch"}, S \in (SUBSET Point) \ {{}} :
         \E raw \in [S -> RawValue] :
            /\ request' = [request EXCEPT ![c] = [kind |-> kind, points |-> S, want |-> Wanted(S, raw)]]
            /\ Record(S, Wanted(S, raw))
            /\ disturbed' = [p \in Point |-> IF p \in S THEN Contended(c, p) ELSE disturbed[p]]
  BY DEF AskWrite
<1>2. PICK raw \in [S -> RawValue] :
         /\ request' = [request EXCEPT ![c] = [kind |-> kind, points |-> S, want |-> Wanted(S, raw)]]
         /\ Record(S, Wanted(S, raw))
         /\ disturbed' = [p \in Point |-> IF p \in S THEN Contended(c, p) ELSE disturbed[p]]
  BY <1>1
<1>3. request'[c].points = S /\ request'[c].want = Wanted(S, raw) /\ Writing(c)' /\ ~Writing(c)
  BY <1>2 DEF TypeOK, Writing, AskWrite, Free, NoRequest
<1>4. \A d \in Caller \ {c} : request'[d] = request[d] /\ (Writing(d)' <=> Writing(d))
  BY <1>2 DEF TypeOK, Writing
<1>5. \A p \in Point : writeValue'[p] = IF p \in S THEN Wanted(S, raw)[p] ELSE writeValue[p]
  BY <1>2 DEF Record
<1>6. \A p \in Point : disturbed'[p] = IF p \in S THEN Contended(c, p) ELSE disturbed[p]
  BY <1>2
<1>7. device' = device
  BY DEF AskWrite
<1> SUFFICES ASSUME NEW p \in Point, ~disturbed'[p]
             PROVE  /\ \A b, d \in Caller :
                          Writing(b)' /\ Writing(d)' /\ p \in request'[b].points \cap request'[d].points => b = d
                    /\ writeValue'[p] # NoValue =>
                          /\ \A d \in Caller : Writing(d)' /\ p \in request'[d].points
                                 => request'[d].want[p] = writeValue'[p]
                          /\ (\A d \in Caller : ~(Writing(d)' /\ p \in request'[d].points))
                                 => device'[p] = ToRaw(p, writeValue'[p])
  BY DEF WriteInv
<1>8. CASE p \in S
  <2>1. \A d \in Caller \ {c} : ~(Writing(d) /\ p \in request[d].points)
    BY <1>6, <1>8 DEF Contended
  <2> QED BY <1>3, <1>4, <1>5, <1>8, <2>1
<1>9. CASE p \notin S
  BY <1>3, <1>4, <1>5, <1>6, <1>7, <1>9 DEF WriteInv
<1> QED BY <1>8, <1>9

\* A request that ends: a failed one disturbs its points, one that is carried out puts its
\* values into the device.
LEMMA AnswerKeepsWrites ==
    ASSUME TypeOK, WriteInv, NEW c \in Caller, Answer(c)
    PROVE  WriteInv'
<1>1. request' = [request EXCEPT ![c] = NoRequest] /\ writeValue' = writeValue
  BY DEF Answer, Refuse, Fail, Write, Read
<1>2. ~Writing(c)' /\ \A d \in Caller \ {c} : request'[d] = request[d] /\ (Writing(d)' <=> Writing(d))
  BY <1>1 DEF TypeOK, Writing, NoRequest
<1> SUFFICES ASSUME NEW p \in Point, ~disturbed'[p]
             PROVE  /\ \A b, d \in Caller :
                          Writing(b)' /\ Writing(d)' /\ p \in request'[b].points \cap request'[d].points => b = d
                    /\ writeValue'[p] # NoValue =>
                          /\ \A d \in Caller : Writing(d)' /\ p \in request'[d].points
                                 => request'[d].want[p] = writeValue'[p]
                          /\ (\A d \in Caller : ~(Writing(d)' /\ p \in request'[d].points))
                                 => device'[p] = ToRaw(p, writeValue'[p])
  BY DEF WriteInv
<1>3. ~disturbed[p]
  BY DEF Answer, Refuse, Fail, Write, Read, Spoil, TypeOK
<1>4. CASE Writing(c) /\ p \in request[c].points
  <2>1. Write(c)
    BY <1>4 DEF Answer, Refuse, Fail, Read, Spoil, Writing
  <2>2. device'[p] = ToRaw(p, request[c].want[p])
    BY <1>4, <2>1 DEF Write
  <2> QED BY <1>1, <1>2, <1>3, <1>4, <2>2 DEF WriteInv
<1>5. CASE ~(Writing(c) /\ p \in request[c].points)
  <2>1. device'[p] = device[p]
    <3>1. CASE Refuse(c) \/ Read(c)
      BY <3>1 DEF Refuse, Read
    <3>2. CASE Fail(c)
      BY <1>5, <3>2 DEF Fail
    <3>3. CASE Write(c)
      BY <1>5, <3>3 DEF Write
    <3> QED BY <3>1, <3>2, <3>3 DEF Answer
  <2> QED BY <1>1, <1>2, <1>3, <1>5, <2>1 DEF WriteInv
<1> QED BY <1>4, <1>5

LEMMA WriteStep == TypeOK /\ WriteInv /\ [Next]_vars => WriteInv'
<1> SUFFICES ASSUME TypeOK, WriteInv, [Next]_vars PROVE WriteInv'
  OBVIOUS
<1>1. CASE \E c \in Caller : AskWrite(c) \/ Answer(c)
  BY <1>1, AskKeepsWrites, AnswerKeepsWrites
<1>2. CASE \E c \in Caller : AskRead(c)
  <2>1. PICK c \in Caller : AskRead(c)
    BY <1>2
  <2>2. PICK q \in Point :
           /\ request' = [request EXCEPT ![c] = [kind |-> "read", points |-> {q}, want |-> Nothing]]
           /\ Record({q}, Nothing)
    BY <2>1 DEF AskRead
  <2>3. /\ ~Writing(c) /\ ~Writing(c)'
        /\ \A d \in Caller \ {c} : request'[d] = request[d] /\ (Writing(d)' <=> Writing(d))
    BY <2>1, <2>2 DEF AskRead, Free, NoRequest, TypeOK, Writing
  <2>4. \A p \in Point : writeValue'[p] # NoValue => writeValue'[p] = writeValue[p]
    BY <2>2 DEF Record, Nothing
  <2>5. disturbed' = disturbed /\ device' = device
    BY <2>1 DEF AskRead
  <2> QED BY <2>3, <2>4, <2>5 DEF WriteInv
<1>3. CASE \E c \in Caller : AskBatchRead(c)
  <2>1. PICK c \in Caller : AskBatchRead(c)
    BY <1>3
  <2>2. /\ ~Writing(c) /\ ~Writing(c)'
        /\ \A d \in Caller \ {c} : request'[d] = request[d] /\ (Writing(d)' <=> Writing(d))
    BY <2>1 DEF AskBatchRead, Free, NoRequest, TypeOK, Writing
  <2>3. UNCHANGED <<disturbed, device, writeValue>>
    BY <2>1 DEF AskBatchRead
  <2> QED BY <2>2, <2>3 DEF WriteInv
<1>4. CASE UNCHANGED <<request, writeValue, device, disturbed>>
  BY <1>4 DEF WriteInv, Writing
<1>5. ASSUME \/ \E c \in Caller : VerifyStep(c)
             \/ \E w \in Worker : ExportStep(w)
             \/ Collect \/ GoOffline \/ UNCHANGED vars
      PROVE  UNCHANGED <<request, writeValue, device, disturbed>>
  BY <1>5 DEF VerifyStep, BeginVerify, VerifyRead, VerifyFail, EndVerify, ExportStep, Compare, Store,
              Deliver, ExportRaw, Collect, GoOffline, vars
<1>6. CASE DeviceChanges
  <2>1. /\ UNCHANGED <<request, writeValue>>
        /\ \A p \in Point : ~disturbed'[p] => ~disturbed[p] /\ device'[p] = device[p]
    BY <1>6 DEF DeviceChanges, TypeOK
  <2> QED BY <2>1 DEF WriteInv, Writing
<1> QED BY <1>1, <1>2, <1>3, <1>4, <1>5, <1>6 DEF Next

\* WriteValue is in the device once its write is over, unless writes of the point overlapped or
\* failed, or the device changed: for any number of callers and points.
THEOREM WritesReachTheDevice == Spec => []WriteValueReached
<1>1. TypeOK /\ WriteInv => WriteValueReached
  BY DEF WriteInv, WriteValueReached
<1> QED BY <1>1, InitType, TypeStep, WriteInit, WriteStep, PTL DEF Spec
=============================================================================
