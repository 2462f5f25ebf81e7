-------------------------- MODULE Protocols_proofs --------------------------
(***************************************************************************)
(* Proofs about the parts of MCProtocols, for any constants.               *)
(*                                                                         *)
(* Requests (BacnetClient).  Ids, states and places are conserved: what is *)
(* not held is in the queue, once (Apart, Queue, Places).  While nothing   *)
(* is late, every datagram belongs to a caller that waits for it, and no   *)
(* caller has two (Timely).  And an id given back goes to the end of a     *)
(* queue of Distance ids or more: that many transactions begin before it   *)
(* is used again (FarApart).                                               *)
(*                                                                         *)
(* Jobs (Crontab).  Whoever replaces the list is alone and has read it as  *)
(* it is, unless two were seen to cross (ListInv); the calls a disabled    *)
(* job has begun or will begin were started before (LateInv).              *)
(*                                                                         *)
(* Line (MeterConnector).  The line holds nothing between two reads but    *)
(* what is late (EmptyInv), and the flag goes up before the port closes    *)
(* (ClosingInv).                                                           *)
(*                                                                         *)
(* Controller (PlcConnector).  A node set is kept for the last point of    *)
(* its name (NodesFacts), so that what is read of a node is reported under *)
(* a name it has (ReportOK); who reads or writes octets has the mutex, so  *)
(* that its buffer is the octet unless the controller itself wrote in      *)
(* between (MutexInv).                                                     *)
(*                                                                         *)
(* Scripts.  Whoever loads holds the lock, and no map it may store in has  *)
(* the script (LockInv); what it loaded is its own (FreshInv); machines    *)
(* that are to be closed are in the map that is walked and in no map in    *)
(* use, and no caller is on its way to one but those that a start has      *)
(* overtaken, or that stored it into or found it in a map that had been    *)
(* replaced (CloseInv, MapInv, CallInv).                                   *)
(*                                                                         *)
(* Sessions.  As long as no two goroutines have a device at once (AloneInv *)
(* and LastInv), a websocket device is mapped to no connection but the one *)
(* it reported over last, and to that one from its mapping until its end   *)
(* (MappedInv): so the end of a connection finds whom it must set offline, *)
(* and nobody else (ListedInv, OnlineInv).  A session of MQTT that is      *)
(* there is the only one that has not ended (SessionInv, LostInv).         *)
(***************************************************************************)
EXTENDS MCProtocols, Integers, FiniteSetTheorems, WellFoundedInduction, TLAPS

-----------------------------------------------------------------------------
(***************************************************************************)
(* Requests of the BACnet client                                           *)
(***************************************************************************)
\* Where a caller holds an id.
Busy == {"send", "wait", "end"}

\* Datagrams, handlers, answers and requests.
Message == [kind : {"ack", "error", "request"}, id : Ids, of : Nat, try : Int]
Handler == [msg : Message, obj : Objs, at : Nat, ch : Nat]
AnswerType == [of : Nat, id : 0 .. MaxTransaction - 1, at : Nat, kind : {"none", "ack", "error", "request"}]
CallerType == [pc : {"idle", "space"} \cup Busy, id : 0 .. MaxTransaction - 1, tr : Nat, left : Int, got : AnswerType]

\* The types of all variables.
Types ==
    /\ MaxTransaction \in Nat
    /\ caller \in [Callers -> CallerType]
    /\ moves \in 0 .. MaxMoves
    /\ size \in Sizes /\ space \in Nat /\ space <= size /\ free \in Seq(Ids)
    /\ DOMAIN states \subseteq Ids /\ states \in [DOMAIN states -> Objs]
    /\ begun \in Nat /\ chan \in [Objs -> Nat]
    /\ net \in SUBSET Message /\ handlers \in SUBSET Handler
    /\ late \in BOOLEAN /\ crashed \in BOOLEAN

\* No number is beyond the last transaction begun.
Numbers ==
    /\ \A c \in Callers : caller[c].tr <= begun
    /\ \A o \in Objs : chan[o] <= begun
    /\ \A m \in net : m.of <= begun
    /\ \A c \in Callers : IF c \in Holding THEN caller[c].id \in Ids /\ caller[c].tr > 0
                          ELSE caller[c].got = NoAnswer /\ caller[c].tr = 0

\* Ids, states and channels belong to one transaction each.
Apart ==
    /\ \A c, d \in Holding : c # d => caller[c].id # caller[d].id /\ caller[c].tr # caller[d].tr
    /\ \A i, j \in DOMAIN states : i # j => states[i] # states[j]
    /\ \A i \in DOMAIN states : \E c \in Holding : caller[c].id = i
    /\ \A c \in Holding : caller[c].id \in DOMAIN states /\ chan[states[caller[c].id]] = caller[c].tr

\* An id is in the queue of the free ones, once, or in use.
Queue ==
    /\ \A i, j \in 1 .. Len(free) : free[i] = free[j] => i = j
    /\ \A i \in 1 .. Len(free) : free[i] \notin DOMAIN states
    /\ \A i \in Ids \ DOMAIN states : \E j \in 1 .. Len(free) : free[j] = i

\* The places, and the length of the queue.
Places ==
    /\ IsFiniteSet(Holding)
    /\ space + Cardinality(Holding) = size
    /\ Len(free) + Cardinality(Holding) = MaxTransaction - 1

\* While nothing is late, a datagram is the only one of a caller that waits for it.
Owns(c, m) == caller[c].pc = "wait" /\ caller[c].id = m.id /\ caller[c].tr = m.of

Timely ==
    ~late =>
        /\ ~crashed
        /\ \A m \in net : \E c \in Callers : Owns(c, m)
        /\ \A h \in handlers : \E c \in Callers :
               Owns(c, h.msg) /\ h.obj = states[h.msg.id] /\ h.ch \in {0, h.msg.of}
        /\ \A m, n \in net : m.id = n.id => m = n
        /\ \A h \in handlers, m \in net : h.msg.id # m.id
        /\ \A h, g \in handlers : h.msg.id = g.msg.id => h = g
        /\ \A c \in Callers : caller[c].got.of \in {0, caller[c].tr}

\* How many transactions pass before an id that was given back is used again.
Distance == MaxTransaction - 1 - size

\* The transaction that takes the id at a place of the queue, or has it, is far from the earlier ones
\* with that id to which answers are under way.
FarApart ==
    /\ \A m \in net :
          /\ \A j \in 1 .. Len(free) : free[j] = m.id /\ m.of # 0 => begun + j - m.of > Distance
          /\ \A c \in Holding : caller[c].id = m.id =>
                 m.of \in {0, caller[c].tr} \/ caller[c].tr - m.of > Distance
    /\ \A h \in handlers : h.msg.of = 0 \/ h.at = h.msg.of \/ h.at - h.msg.of > Distance
    /\ \A c \in Callers : LET g == caller[c].got IN
          g.of \in {0, caller[c].tr} \/ g.at = g.of \/ g.at - g.of > Distance

\* The inductive invariant.
Inv == Types /\ Numbers /\ Apart /\ Queue /\ Places /\ Timely /\ FarApart

-----------------------------------------------------------------------------
(* What the numbers are, and what changes with a caller *)

LEMMA SizeFacts ==
    ASSUME Types
    PROVE  /\ size \in Nat /\ size > 0 /\ size <= MaxTransaction - 1 /\ MaxTransaction - 1 \in Nat
           /\ Distance \in Nat
BY SizeAssumption DEF Types, Distance

\* What a caller starts and ends with.
LEMMA IdleFacts ==
    ASSUME Types
    PROVE  /\ NoAnswer \in AnswerType /\ NoAnswer.of = 0
           /\ Idle \in CallerType /\ [Idle EXCEPT !.pc = "space"] \in CallerType
           /\ Idle.pc = "idle" /\ Idle.id = 0 /\ Idle.tr = 0 /\ Idle.got = NoAnswer
           /\ [Idle EXCEPT !.pc = "space"].pc = "space" /\ [Idle EXCEPT !.pc = "space"].id = 0
           /\ [Idle EXCEPT !.pc = "space"].tr = 0 /\ [Idle EXCEPT !.pc = "space"].got = NoAnswer
<1>1. 0 \in 0 .. MaxTransaction - 1
  BY SizeFacts DEF Types
<1>2. NoAnswer \in AnswerType /\ NoAnswer.of = 0
  BY <1>1 DEF NoAnswer, AnswerType
<1>3. Idle = [pc |-> "idle", id |-> 0, tr |-> 0, left |-> 0, got |-> NoAnswer]
  BY DEF Idle
<1> QED BY <1>1, <1>2, <1>3 DEF CallerType

\* A caller's record changes, and with it perhaps the set of those that hold something.
LEMMA OneCaller ==
    ASSUME Types, NEW c \in Callers, NEW new \in CallerType, caller' = [caller EXCEPT ![c] = new]
    PROVE  /\ caller' \in [Callers -> CallerType] /\ caller'[c] = new
           /\ \A d \in Callers : d # c => caller'[d] = caller[d]
           /\ Holding' = IF new.pc \in Busy THEN Holding \cup {c} ELSE Holding \ {c}
<1>1. /\ caller' \in [Callers -> CallerType] /\ caller'[c] = new
      /\ \A d \in Callers : d # c => caller'[d] = caller[d]
  BY DEF Types
<1>2. \A d \in Callers : d \in Holding' <=> IF d = c THEN new.pc \in Busy ELSE d \in Holding
  BY <1>1 DEF Holding, Busy
<1>3. Holding \in SUBSET Callers /\ Holding' \in SUBSET Callers
  BY DEF Holding
<1> QED BY <1>1, <1>2, <1>3

\* A caller that goes on without taking or giving back anything, as its tries and answers go.
LEMMA CallerGoes ==
    ASSUME Inv, NEW c \in Callers, NEW new \in CallerType, caller' = [caller EXCEPT ![c] = new],
           new.pc \in Busy <=> caller[c].pc \in Busy,
           new.pc \in Busy => new.id = caller[c].id, new.tr = caller[c].tr,
           new.pc \notin Busy => new.got = NoAnswer,
           UNCHANGED queues
    PROVE  /\ caller' \in [Callers -> CallerType] /\ caller'[c] = new
           /\ \A d \in Callers : d # c => caller'[d] = caller[d]
           /\ Holding' = Holding
           /\ \A d \in Holding : d \in Callers /\ caller'[d].id = caller[d].id
           /\ \A d \in Callers : caller'[d].tr = caller[d].tr
           /\ Apart' /\ Queue' /\ Places'
           /\ \A d \in Callers : IF d \in Holding' THEN caller'[d].id \in Ids /\ caller'[d].tr > 0
                                 ELSE caller'[d].got = NoAnswer /\ caller'[d].tr = 0
<1> USE DEF Inv
<1>1. /\ caller' \in [Callers -> CallerType] /\ caller'[c] = new
      /\ \A d \in Callers : d # c => caller'[d] = caller[d]
      /\ Holding' = IF new.pc \in Busy THEN Holding \cup {c} ELSE Holding \ {c}
  BY OneCaller
<1>2. Holding \in SUBSET Callers /\ (c \in Holding <=> caller[c].pc \in Busy)
  BY DEF Holding, Busy
<1>3. Holding' = Holding
  BY <1>1, <1>2
<1>4. \A d \in Callers : caller'[d].tr = caller[d].tr
  BY <1>1
<1>5. \A d \in Holding : caller'[d].id = caller[d].id
  BY <1>1, <1>2
<1>6. Places'
  BY <1>3 DEF Places, queues
<1>7. Queue'
  BY DEF Queue, queues
<1>8. Apart'
  BY <1>2, <1>3, <1>4, <1>5 DEF Apart, queues
<1>9. ASSUME NEW d \in Callers
      PROVE  IF d \in Holding' THEN caller'[d].id \in Ids /\ caller'[d].tr > 0
             ELSE caller'[d].got = NoAnswer /\ caller'[d].tr = 0
  <2>1. CASE d = c
    BY <1>1, <1>2, <1>3, <1>4, <1>5, <2>1 DEF Numbers
  <2>2. CASE d # c
    BY <1>1, <1>3, <2>2 DEF Numbers
  <2> QED BY <2>1, <2>2
<1> QED BY <1>1, <1>2, <1>3, <1>4, <1>5, <1>6, <1>7, <1>8, <1>9

-----------------------------------------------------------------------------
(* The steps *)

LEMMA AskInv ==
    ASSUME Inv, NEW c \in Callers, Ask(c)
    PROVE  Inv'
<1> USE DEF Inv
<1> DEFINE new == [Idle EXCEPT !.pc = "space"]
<1>1. /\ new \in CallerType /\ new.pc \notin Busy /\ new.tr = 0 /\ new.got = NoAnswer
      /\ caller' = [caller EXCEPT ![c] = new]
  BY IdleFacts DEF Ask, Busy
<1>2. caller[c].pc \notin Busy /\ c \notin Holding /\ caller[c].tr = 0
  BY DEF Ask, Holding, Numbers, Busy
<1> HIDE DEF new
<1>3. /\ caller' \in [Callers -> CallerType] /\ caller'[c] = new
      /\ \A d \in Callers : d # c => caller'[d] = caller[d]
      /\ Holding' = Holding
      /\ \A d \in Callers : caller'[d].tr = caller[d].tr
      /\ Apart' /\ Queue' /\ Places'
      /\ \A d \in Callers : IF d \in Holding' THEN caller'[d].id \in Ids /\ caller'[d].tr > 0
                            ELSE caller'[d].got = NoAnswer /\ caller'[d].tr = 0
  <2>1. UNCHANGED queues
    BY DEF Ask
  <2> QED BY <1>1, <1>2, <2>1, CallerGoes
<1>4. Types'
  BY <1>3, SizeAssumption DEF Ask, Types, queues, traffic
<1>5. Numbers'
  BY <1>3 DEF Ask, Numbers, queues, traffic
<1>6. Timely'
  <2>1. \A d \in Callers, m \in Message : Owns(d, m) => Owns(d, m)'
    BY <1>2, <1>3 DEF Owns, Holding
  <2>2. \A d \in Callers : caller[d].got.of \in {0, caller[d].tr} => caller'[d].got.of \in {0, caller'[d].tr}
    BY <1>1, <1>3, IdleFacts
  <2> QED BY <2>1, <2>2 DEF Ask, Timely, Types, Handler, queues, traffic
<1>7. FarApart'
  <2>1. caller'[c].got.of = 0
    BY <1>1, <1>3, IdleFacts
  <2>2. \A d \in Holding : d # c /\ d \in Callers
    BY <1>2 DEF Holding
  <2> QED BY <1>3, <2>1, <2>2 DEF Ask, FarApart, queues, traffic, Distance
<1> QED BY <1>3, <1>4, <1>5, <1>6, <1>7

LEMMA GiveUpInv ==
    ASSUME Inv, NEW c \in Callers, GiveUp(c)
    PROVE  Inv'
<1> USE DEF Inv
<1> DEFINE new == Idle
<1>1. /\ new \in CallerType /\ new.pc \notin Busy /\ new.tr = 0 /\ new.got = NoAnswer
      /\ caller' = [caller EXCEPT ![c] = new]
  BY IdleFacts DEF GiveUp, Busy
<1>2. caller[c].pc \notin Busy /\ c \notin Holding /\ caller[c].tr = 0
  BY DEF GiveUp, Holding, Numbers, Busy
<1> HIDE DEF new
<1>3. /\ caller' \in [Callers -> CallerType] /\ caller'[c] = new
      /\ \A d \in Callers : d # c => caller'[d] = caller[d]
      /\ Holding' = Holding
      /\ \A d \in Callers : caller'[d].tr = caller[d].tr
      /\ Apart' /\ Queue' /\ Places'
      /\ \A d \in Callers : IF d \in Holding' THEN caller'[d].id \in Ids /\ caller'[d].tr > 0
                            ELSE caller'[d].got = NoAnswer /\ caller'[d].tr = 0
  <2>1. UNCHANGED queues
    BY DEF GiveUp
  <2> QED BY <1>1, <1>2, <2>1, CallerGoes
<1>4. Types'
  BY <1>3, SizeAssumption DEF GiveUp, Types, queues, traffic
<1>5. Numbers'
  BY <1>3 DEF GiveUp, Numbers, queues, traffic
<1>6. Timely'
  <2>1. \A d \in Callers, m \in Message : Owns(d, m) => Owns(d, m)'
    BY <1>2, <1>3 DEF Owns, Holding
  <2>2. \A d \in Callers : caller[d].got.of \in {0, caller[d].tr} => caller'[d].got.of \in {0, caller'[d].tr}
    BY <1>1, <1>3, IdleFacts
  <2> QED BY <2>1, <2>2 DEF GiveUp, Timely, Types, Handler, queues, traffic
<1>7. FarApart'
  <2>1. caller'[c].got.of = 0
    BY <1>1, <1>3, IdleFacts
  <2>2. \A d \in Holding : d # c /\ d \in Callers
    BY <1>2 DEF Holding
  <2> QED BY <1>3, <2>1, <2>2 DEF GiveUp, FarApart, queues, traffic, Distance
<1> QED BY <1>3, <1>4, <1>5, <1>6, <1>7

\* A place and an id are taken, with a state and a channel that nobody else has.
LEMMA BeginInv ==
    ASSUME Inv, NEW c \in Callers, Begin(c)
    PROVE  Inv'
<1> USE DEF Inv
<1> DEFINE i == Head(free)
           t == begun + 1
           new == [caller[c] EXCEPT !.pc = "send", !.id = i, !.tr = t, !.left = Tries(Kind[c])]
<1>1. PICK o \in Objs \ {states[k] : k \in DOMAIN states} :
          /\ states' = [k \in DOMAIN states \union {i} |-> IF k = i THEN o ELSE states[k]]
          /\ chan' = [chan EXCEPT ![o] = t]
  BY DEF Begin
<1>2. /\ caller[c].pc = "space" /\ space > 0 /\ free # <<>>
      /\ begun' = t /\ free' = Tail(free) /\ space' = space - 1
      /\ caller' = [caller EXCEPT ![c] = new]
      /\ UNCHANGED <<moves, size, traffic, late, crashed>>
  BY DEF Begin
<1>3. i \in Ids /\ i \notin DOMAIN states /\ Len(free) > 0 /\ i = free[1]
  BY <1>2 DEF Types, Queue
<1>4. t \in Nat /\ t > begun /\ t > 0
  BY DEF Types
<1>5. /\ caller[c] \in CallerType /\ c \notin Holding /\ caller[c].got = NoAnswer
  BY <1>2 DEF Types, Numbers, Holding
<1>6. new \in CallerType /\ new.pc = "send" /\ new.id = i /\ new.tr = t /\ new.got = NoAnswer
  <2>1. Tries(Kind[c]) \in Int /\ i \in 0 .. MaxTransaction - 1
    BY <1>3 DEF Tries, Ids, Types
  <2> QED BY <1>3, <1>4, <1>5, <2>1 DEF CallerType, Busy
<1> HIDE DEF new
<1>7. /\ caller' \in [Callers -> CallerType] /\ caller'[c] = new
      /\ \A d \in Callers : d # c => caller'[d] = caller[d]
      /\ Holding' = Holding \cup {c}
  BY <1>2, <1>6, OneCaller DEF Busy
<1>8. Holding \in SUBSET Callers
  BY DEF Holding
<1>9. \A j \in 1 .. Len(free') : free'[j] = free[j + 1] /\ j + 1 \in 1 .. Len(free)
  BY <1>2 DEF Types
<1>10. Len(free') = Len(free) - 1 /\ free' \in Seq(Ids)
  BY <1>2 DEF Types
<1>11. /\ DOMAIN states' = DOMAIN states \cup {i} /\ states'[i] = o
       /\ \A k \in DOMAIN states : states'[k] = states[k] /\ k # i
  BY <1>1, <1>3
<1>12. \A x \in Objs : chan'[x] = IF x = o THEN t ELSE chan[x]
  BY <1>1, <1>4 DEF Types
<1> HIDE DEF i, t
<1>13. Types'
  <2>1. chan' \in [Objs -> Nat]
    BY <1>1, <1>4 DEF Types
  <2>2. DOMAIN states' \subseteq Ids /\ states' \in [DOMAIN states' -> Objs]
    BY <1>1, <1>3 DEF Types
  <2>3. space' \in Nat /\ space' <= size
    BY <1>2, SizeFacts DEF Types
  <2> QED BY <1>2, <1>4, <1>7, <1>10, <2>1, <2>2, <2>3 DEF Types, traffic
<1>14. Numbers'
  <2>1. \A n \in Nat : n <= begun => n <= begun'
    BY <1>2, <1>4 DEF Types
  <2>2. \A d \in Callers : caller'[d].tr <= begun'
    BY <1>2, <1>4, <1>6, <1>7, <2>1 DEF Numbers, Types, CallerType
  <2>3. \A x \in Objs : chan'[x] <= begun'
    BY <1>2, <1>4, <1>12, <2>1 DEF Numbers, Types
  <2>4. \A m \in net' : m.of <= begun'
    BY <1>2, <2>1 DEF Numbers, Types, Message, traffic
  <2>5. \A d \in Callers : IF d \in Holding' THEN caller'[d].id \in Ids /\ caller'[d].tr > 0
                           ELSE caller'[d].got = NoAnswer /\ caller'[d].tr = 0
    BY <1>3, <1>4, <1>6, <1>7 DEF Numbers
  <2> QED BY <2>2, <2>3, <2>4, <2>5 DEF Numbers
<1>15. Apart'
  <2>1. \A d \in Holding : /\ d # c /\ d \in Callers /\ caller'[d] = caller[d] /\ caller[d].id # i
                           /\ caller[d].tr # t /\ caller[d].tr <= begun
    <3> SUFFICES ASSUME NEW d \in Holding
                 PROVE  /\ d # c /\ d \in Callers /\ caller'[d] = caller[d] /\ caller[d].id # i
                        /\ caller[d].tr # t /\ caller[d].tr <= begun
      OBVIOUS
    <3>1. d # c /\ d \in Callers /\ caller'[d] = caller[d]
      BY <1>5, <1>7, <1>8
    <3>2. caller[d].id \in DOMAIN states
      BY DEF Apart
    <3>3. caller[d].tr <= begun /\ caller[d].tr \in Nat
      BY <3>1 DEF Numbers, Types, CallerType
    <3> QED BY <1>3, <1>4, <3>1, <3>2, <3>3 DEF Types
  <2>2. \A d, e \in Holding' : d # e => caller'[d].id # caller'[e].id /\ caller'[d].tr # caller'[e].tr
    BY <1>6, <1>7, <2>1 DEF Apart
  <2>3. \A k, l \in DOMAIN states' : k # l => states'[k] # states'[l]
    BY <1>1, <1>11 DEF Apart
  <2>4. \A k \in DOMAIN states' : \E d \in Holding' : caller'[d].id = k
    BY <1>6, <1>7, <1>11, <2>1 DEF Apart
  <2>5. \A d \in Holding' : caller'[d].id \in DOMAIN states' /\ chan'[states'[caller'[d].id]] = caller'[d].tr
    <3>1. \A d \in Holding : states[caller[d].id] \in Objs \ {o}
      BY <1>1 DEF Apart, Types
    <3> QED BY <1>6, <1>7, <1>11, <1>12, <2>1, <3>1 DEF Apart
  <2> QED BY <2>2, <2>3, <2>4, <2>5 DEF Apart
<1>16. Queue'
  <2>1. \A k, l \in 1 .. Len(free') : free'[k] = free'[l] => k = l
    <3> SUFFICES ASSUME NEW k \in 1 .. Len(free'), NEW l \in 1 .. Len(free'), free'[k] = free'[l]
                 PROVE  k = l
      OBVIOUS
    <3>1. free[k + 1] = free[l + 1] /\ k + 1 \in 1 .. Len(free) /\ l + 1 \in 1 .. Len(free)
      BY <1>9
    <3>2. k + 1 = l + 1
      BY <3>1 DEF Queue
    <3> QED BY <1>10, <3>2 DEF Types
  <2>2. \A k \in 1 .. Len(free') : free'[k] \notin DOMAIN states'
    <3> SUFFICES ASSUME NEW k \in 1 .. Len(free') PROVE free'[k] \notin DOMAIN states'
      OBVIOUS
    <3>1. free'[k] = free[k + 1] /\ k + 1 \in 1 .. Len(free) /\ k + 1 # 1
      BY <1>9, <1>10 DEF Types
    <3>2. free[k + 1] \notin DOMAIN states /\ free[k + 1] # free[1]
      BY <1>3, <3>1 DEF Queue, Types
    <3> QED BY <1>3, <1>11, <3>1, <3>2
  <2>3. \A k \in Ids \ DOMAIN states' : \E j \in 1 .. Len(free') : free'[j] = k
    <3> SUFFICES ASSUME NEW k \in Ids \ DOMAIN states' PROVE \E j \in 1 .. Len(free') : free'[j] = k
      OBVIOUS
    <3>1. PICK j \in 1 .. Len(free) : free[j] = k
      BY <1>11 DEF Queue
    <3>2. j # 1
      BY <1>3, <1>11, <3>1
    <3>3. j - 1 \in 1 .. Len(free') /\ free'[j - 1] = k
      BY <1>9, <1>10, <3>1, <3>2 DEF Types
    <3> QED BY <3>3
  <2> QED BY <2>1, <2>2, <2>3 DEF Queue
<1>17. Places'
  <2>1. IsFiniteSet(Holding') /\ Cardinality(Holding') = Cardinality(Holding) + 1 /\ Cardinality(Holding) \in Nat
    BY <1>5, <1>7, FS_AddElement, FS_CardinalityType DEF Places
  <2>2. /\ space + Cardinality(Holding) = size
        /\ Len(free) + Cardinality(Holding) = MaxTransaction - 1
        /\ space \in Nat /\ Len(free) \in Nat /\ size \in Nat /\ MaxTransaction \in Nat
    BY SizeFacts DEF Places, Types
  <2>3. space' + Cardinality(Holding') = size' /\ Len(free') + Cardinality(Holding') = MaxTransaction - 1
    <3>1. space' = space - 1 /\ size' = size /\ Len(free') = Len(free) - 1
      BY <1>2, <1>10
    <3>2. \A s, l, n, k, x \in Nat : s + n = k /\ l + n = x - 1 => s - 1 + (n + 1) = k /\ l - 1 + (n + 1) = x - 1
      OBVIOUS
    <3>3. /\ space - 1 + (Cardinality(Holding) + 1) = size
          /\ Len(free) - 1 + (Cardinality(Holding) + 1) = MaxTransaction - 1
      BY <2>1, <2>2, <3>2
    <3> QED BY <2>1, <3>1, <3>3
  <2> QED BY <2>1, <2>3 DEF Places
<1>18. Timely'
  <2>1. \A d \in Callers, m \in Message : Owns(d, m) => d # c /\ Owns(d, m)' /\ d \in Holding
    BY <1>2, <1>7 DEF Owns, Holding
  <2>2. \A d \in Holding : states'[caller[d].id] = states[caller[d].id]
    BY <1>11 DEF Apart
  <2>3. \A h \in handlers : h.msg \in Message
    BY DEF Types, Handler
  <2>4. \A d \in Callers, m \in Message : Owns(d, m) => states'[m.id] = states[m.id]
    BY <2>1, <2>2 DEF Owns
  <2>5. ASSUME ~late
        PROVE  /\ \A m \in net : \E d \in Callers : Owns(d, m)'
               /\ \A h \in handlers : \E d \in Callers :
                      Owns(d, h.msg)' /\ h.obj = states'[h.msg.id] /\ h.ch \in {0, h.msg.of}
    BY <2>1, <2>3, <2>4, <2>5 DEF Timely, Types
  <2>6. \A d \in Callers : caller'[d].got.of = caller[d].got.of /\ (d # c => caller'[d].tr = caller[d].tr)
    BY <1>5, <1>6, <1>7
  <2>7. caller'[c].got.of = 0
    BY <1>6, <1>7 DEF NoAnswer
  <2> QED BY <1>2, <2>5, <2>6, <2>7 DEF Timely, traffic, Owns
<1>19. FarApart'
  <2>1. \A m \in net : m \in Message
    BY DEF Types
  <2>2. ASSUME NEW m \in net, NEW j \in 1 .. Len(free'), free'[j] = m.id, m.of # 0
        PROVE  begun' + j - m.of > Distance
    <3>1. begun + (j + 1) - m.of > Distance
      BY <1>9, <2>2 DEF FarApart
    <3> QED BY <1>2, <2>1, <3>1, SizeFacts DEF t, Types, Message
  <2>3. ASSUME NEW m \in net, NEW d \in Holding', caller'[d].id = m.id
        PROVE  m.of \in {0, caller'[d].tr} \/ caller'[d].tr - m.of > Distance
    <3>1. CASE d = c
      <4>1. free[1] = m.id /\ 1 \in 1 .. Len(free) /\ caller'[d].tr = begun + 1
        BY <1>3, <1>6, <1>7, <2>3, <3>1 DEF t, Types
      <4>2. m.of = 0 \/ begun + 1 - m.of > Distance
        BY <4>1 DEF FarApart
      <4>3. caller'[d].tr - m.of = begun + 1 - m.of
        BY <2>1, <4>1 DEF Types, Message
      <4> QED BY <4>2, <4>3
    <3>2. CASE d # c
      BY <1>7, <1>8, <2>3, <3>2 DEF FarApart
    <3> QED BY <3>1, <3>2
  <2>4. \A d \in Callers : d # c => caller'[d] = caller[d]
    BY <1>7
  <2>5. caller'[c].got.of = 0
    BY <1>6, <1>7 DEF NoAnswer
  <2> QED BY <1>2, <2>2, <2>3, <2>4, <2>5 DEF FarApart, traffic, Distance
<1> QED BY <1>13, <1>14, <1>15, <1>16, <1>17, <1>18, <1>19
\* A request leaves, and one datagram at most comes back.
LEMMA SendInv ==
    ASSUME Inv, NEW c \in Callers, Send(c)
    PROVE  Inv'
<1> USE DEF Inv
<1> DEFINE l   == caller[c].left - 1
           new == [caller[c] EXCEPT !.pc = "wait", !.left = l]
           own(k) == [kind |-> k, id |-> caller[c].id, of |-> caller[c].tr, try |-> caller[c].left]
<1>1. caller[c] \in CallerType /\ caller[c].pc = "send" /\ c \in Holding
      /\ caller[c].id \in Ids /\ caller[c].tr > 0 /\ caller[c].tr <= begun
  BY DEF Send, Types, Holding, Numbers
<1>2. /\ new \in CallerType /\ new.pc = "wait" /\ new.id = caller[c].id /\ new.tr = caller[c].tr
      /\ new.got = caller[c].got
  <2>1. l \in Int
    BY <1>1 DEF CallerType
  <2> HIDE DEF l
  <2> QED BY <1>1, <2>1 DEF CallerType, Busy
<1>3. caller' = [caller EXCEPT ![c] = new]
  BY <1>1 DEF Send, Types, CallerType
<1>4. UNCHANGED <<moves, queues, handlers, late, crashed>>
  BY DEF Send
<1>5. PICK k \in {"ack", "error", "nothing"} : net' = IF k = "nothing" THEN net ELSE net \union {own(k)}
  BY DEF Send
<1> HIDE DEF new
<1>6. /\ caller' \in [Callers -> CallerType] /\ caller'[c] = new
      /\ \A d \in Callers : d # c => caller'[d] = caller[d]
      /\ Holding' = Holding
      /\ \A d \in Holding : d \in Callers /\ caller'[d].id = caller[d].id
      /\ \A d \in Callers : caller'[d].tr = caller[d].tr
      /\ Apart' /\ Queue' /\ Places'
      /\ \A d \in Callers : IF d \in Holding' THEN caller'[d].id \in Ids /\ caller'[d].tr > 0
                            ELSE caller'[d].got = NoAnswer /\ caller'[d].tr = 0
  BY <1>1, <1>2, <1>3, <1>4, CallerGoes DEF Busy
<1>7. \A d \in Callers : caller'[d].got = caller[d].got
  BY <1>2, <1>6
<1>8. \A m \in net' \ net : m = own(k) /\ m \in Message /\ m.id = caller[c].id /\ m.of = caller[c].tr
  BY <1>1, <1>5 DEF Message, CallerType
<1>9. Types'
  BY <1>4, <1>6, <1>8 DEF Types, queues
<1>10. Numbers'
  BY <1>1, <1>4, <1>6, <1>8 DEF Numbers, queues
<1>11. \A d \in Callers : caller[d].pc = "wait" => d \in Holding /\ d # c /\ caller'[d] = caller[d]
  BY <1>1, <1>6 DEF Holding
<1>12. Timely'
  <2> SUFFICES ASSUME ~late PROVE Timely'
    BY <1>4 DEF Timely
  <2>1. \A d \in Callers, m \in Message : Owns(d, m) => Owns(d, m)' /\ m.id # caller[c].id
    BY <1>1, <1>11 DEF Owns, Apart
  <2>2. \A m \in net : m \in Message /\ m.id # caller[c].id
    BY <2>1 DEF Timely, Types
  <2>3. \A h \in handlers : h.msg \in Message /\ h.msg.id # caller[c].id
    BY <2>1 DEF Timely, Types, Handler
  <2>4. \A m \in net' : \E d \in Callers : Owns(d, m)'
    <3>1. \A m \in net' \ net : Owns(c, m)'
      BY <1>2, <1>6, <1>8 DEF Owns
    <3>2. \A m \in net : \E d \in Callers : Owns(d, m)'
      BY <2>1, <2>2 DEF Timely
    <3> QED BY <3>1, <3>2
  <2>5. \A h \in handlers : \E d \in Callers :
            Owns(d, h.msg)' /\ h.obj = states[h.msg.id] /\ h.ch \in {0, h.msg.of}
    BY <2>1, <2>3 DEF Timely
  <2>6. \A m, n \in net' : m.id = n.id => m = n
    BY <1>8, <2>2 DEF Timely
  <2>7. \A h \in handlers, m \in net' : h.msg.id # m.id
    BY <1>8, <2>3 DEF Timely
  <2> QED BY <1>4, <1>6, <1>7, <2>4, <2>5, <2>6, <2>7 DEF Timely, queues, Owns
<1>13. FarApart'
  <2>1. \A m \in net' \ net : /\ \A j \in 1 .. Len(free) : free[j] # m.id
                              /\ \A d \in Holding : caller[d].id = m.id => caller[d].tr = m.of
    BY <1>1, <1>8 DEF Apart, Queue
  <2>2. \A m \in net' : \A j \in 1 .. Len(free) : free[j] = m.id /\ m.of # 0 => begun + j - m.of > Distance
    BY <2>1 DEF FarApart
  <2>3. \A m \in net' : \A d \in Holding : caller[d].id = m.id =>
            m.of \in {0, caller[d].tr} \/ caller[d].tr - m.of > Distance
    BY <2>1 DEF FarApart
  <2> QED BY <1>4, <1>6, <1>7, <2>2, <2>3 DEF FarApart, queues, Distance
<1> QED BY <1>6, <1>9, <1>10, <1>12, <1>13

\* A try fails, or its answer does not come in time: the caller sends again or ends.
LEMMA TryEnds ==
    ASSUME Inv, NEW c \in Callers, NEW new \in CallerType, caller' = [caller EXCEPT ![c] = new],
           new.pc \in Busy, caller[c].pc \in Busy, new.id = caller[c].id, new.tr = caller[c].tr,
           new.got = caller[c].got,
           (late' = late /\ caller[c].pc # "wait") \/ late' = TRUE,
           UNCHANGED <<moves, queues, traffic, crashed>>
    PROVE  Inv'
<1> USE DEF Inv
<1>1. /\ caller' \in [Callers -> CallerType] /\ caller'[c] = new
      /\ \A d \in Callers : d # c => caller'[d] = caller[d]
      /\ Holding' = Holding
      /\ \A d \in Holding : d \in Callers /\ caller'[d].id = caller[d].id
      /\ \A d \in Callers : caller'[d].tr = caller[d].tr
      /\ Apart' /\ Queue' /\ Places'
      /\ \A d \in Callers : IF d \in Holding' THEN caller'[d].id \in Ids /\ caller'[d].tr > 0
                            ELSE caller'[d].got = NoAnswer /\ caller'[d].tr = 0
  BY CallerGoes
<1>2. \A d \in Callers : caller'[d].got = caller[d].got
  BY <1>1
<1>3. Types'
  BY <1>1 DEF Types, queues, traffic
<1>4. Numbers'
  BY <1>1 DEF Numbers, queues, traffic
<1>5. Timely'
  <2> SUFFICES ASSUME ~late' PROVE Timely'
    BY DEF Timely
  <2>1. ~late /\ caller[c].pc # "wait"
    OBVIOUS
  <2>2. \A d \in Callers, m \in Message : Owns(d, m) => Owns(d, m)'
    BY <1>1, <2>1 DEF Owns
  <2> QED BY <1>1, <1>2, <2>1, <2>2 DEF Timely, Types, Handler, queues, traffic
<1>6. FarApart'
  BY <1>1, <1>2 DEF FarApart, queues, traffic, Distance
<1> QED BY <1>1, <1>3, <1>4, <1>5, <1>6

LEMMA SendFailsInv ==
    ASSUME Inv, NEW c \in Callers, SendFails(c)
    PROVE  Inv'
<1> DEFINE p   == IF caller[c].left > 1 THEN "send" ELSE "end"
           l   == caller[c].left - 1
           new == [caller[c] EXCEPT !.pc = p, !.left = l]
<1>1. caller[c] \in CallerType /\ caller[c].pc = "send"
  BY DEF SendFails, Inv, Types
<1>2. /\ new \in CallerType /\ new.pc \in Busy /\ new.id = caller[c].id /\ new.tr = caller[c].tr
      /\ new.got = caller[c].got
  <2>1. p \in Busy /\ l \in Int
    BY <1>1 DEF CallerType, Busy
  <2> HIDE DEF p, l
  <2> QED BY <1>1, <2>1 DEF CallerType
<1>3. caller' = [caller EXCEPT ![c] = new]
  BY <1>1 DEF SendFails, Inv, Types, CallerType
<1>4. UNCHANGED <<moves, queues, traffic, crashed>> /\ late' = late
  BY DEF SendFails
<1>5. caller[c].pc \in Busy
  BY <1>1 DEF Busy
<1> HIDE DEF new
<1> QED BY <1>1, <1>2, <1>3, <1>4, <1>5, TryEnds

LEMMA TimeOutInv ==
    ASSUME Inv, NEW c \in Callers, TimeOut(c)
    PROVE  Inv'
<1> DEFINE new == [caller[c] EXCEPT !.pc = Again(c)]
<1>1. caller[c] \in CallerType /\ caller[c].pc = "wait" /\ Again(c) \in Busy
  BY DEF TimeOut, Inv, Types, Again, Busy
<1>2. /\ new \in CallerType /\ new.pc \in Busy /\ new.id = caller[c].id /\ new.tr = caller[c].tr
      /\ new.got = caller[c].got
  BY <1>1 DEF CallerType
<1>3. caller' = [caller EXCEPT ![c] = new]
  BY <1>1 DEF TimeOut, Inv, Types, CallerType
<1>4. UNCHANGED <<moves, queues, traffic, crashed>> /\ late' = TRUE
  BY DEF TimeOut
<1>5. caller[c].pc \in Busy
  BY <1>1 DEF Busy
<1> HIDE DEF new
<1> QED BY <1>1, <1>2, <1>3, <1>4, <1>5, TryEnds

\* A transaction gives back its place, its id and its state; its datagrams stay on their way.
LEMMA PutInv ==
    ASSUME Inv, NEW c \in Callers, Put(c)
    PROVE  Inv'
<1> USE DEF Inv
<1> DEFINE i == caller[c].id
<1>1. /\ caller[c].pc = "end" /\ caller' = [caller EXCEPT ![c] = Idle]
      /\ states' = [k \in DOMAIN states \ {i} |-> states[k]]
      /\ free' = Append(free, i) /\ space' = space + 1
      /\ UNCHANGED <<moves, size, chan, begun, traffic, late, crashed>>
  BY DEF Put
<1>2. c \in Holding /\ i \in Ids /\ i \in DOMAIN states
  BY <1>1 DEF Holding, Apart, Numbers
<1>3. /\ caller' \in [Callers -> CallerType] /\ caller'[c] = Idle
      /\ \A d \in Callers : d # c => caller'[d] = caller[d]
      /\ Holding' = Holding \ {c}
  <2>1. /\ caller' \in [Callers -> CallerType] /\ caller'[c] = Idle
        /\ \A d \in Callers : d # c => caller'[d] = caller[d]
        /\ Holding' = IF Idle.pc \in Busy THEN Holding \cup {c} ELSE Holding \ {c}
    BY <1>1, IdleFacts, OneCaller
  <2>2. Idle.pc \notin Busy
    BY IdleFacts DEF Busy
  <2> QED BY <2>1, <2>2
<1>4. Holding \in SUBSET Callers
  BY DEF Holding
<1>5. \A d \in Holding' : d \in Callers /\ d # c /\ d \in Holding /\ caller'[d] = caller[d] /\ caller[d].id # i
  BY <1>2, <1>3, <1>4 DEF Apart
<1>6. DOMAIN states' = DOMAIN states \ {i} /\ \A k \in DOMAIN states' : states'[k] = states[k]
  BY <1>1
<1> HIDE DEF i
<1>7. Len(free) \in Nat /\ free \in Seq(Ids) /\ free' \in Seq(Ids) /\ Len(free') = Len(free) + 1
      /\ free'[Len(free) + 1] = i /\ \A j \in 1 .. Len(free) : free'[j] = free[j]
  BY <1>1, <1>2 DEF Types
<1>8. /\ IsFiniteSet(Holding') /\ Cardinality(Holding) \in Nat /\ Cardinality(Holding') \in Nat
      /\ Cardinality(Holding') = Cardinality(Holding) - 1
  <2>1. IsFiniteSet(Holding) /\ IsFiniteSet(Holding')
    BY <1>3, FS_RemoveElement DEF Places
  <2>2. Cardinality(Holding') = Cardinality(Holding) - 1
    BY <1>2, <1>3, <2>1, FS_RemoveElement
  <2> QED BY <2>1, <2>2, FS_CardinalityType
<1>9. /\ space + Cardinality(Holding) = size /\ Len(free) + Cardinality(Holding) = MaxTransaction - 1
      /\ space \in Nat /\ size \in Nat /\ MaxTransaction \in Nat
  BY SizeFacts DEF Places, Types
<1>10. /\ space + 1 + (Cardinality(Holding) - 1) = size /\ space + 1 <= size
       /\ Len(free) + 1 + (Cardinality(Holding) - 1) = MaxTransaction - 1
       /\ Len(free) + 1 > Distance
  <2>1. Cardinality(Holding) - 1 \in Nat
    BY <1>8
  <2>2. \A s, n \in Nat : s + 1 + (n - 1) = s + n
    OBVIOUS
  <2>3. \A s, n, k \in Nat : s + n = k /\ n - 1 \in Nat => s + 1 <= k
    OBVIOUS
  <2>4. \A s, l, n, k, x \in Nat : s + n = k /\ l + n = x - 1 => l + 1 > x - 1 - k
    OBVIOUS
  <2>5. space + 1 + (Cardinality(Holding) - 1) = size /\ Len(free) + 1 + (Cardinality(Holding) - 1) = MaxTransaction - 1
    BY <1>7, <1>8, <1>9, <2>2
  <2>6. space + 1 <= size
    BY <1>8, <1>9, <2>1, <2>3
  <2>7. Len(free) + 1 > MaxTransaction - 1 - size
    BY <1>7, <1>8, <1>9, <2>4
  <2> QED BY <2>5, <2>6, <2>7 DEF Distance
<1>11. Types'
  <2>1. DOMAIN states' \subseteq Ids /\ states' \in [DOMAIN states' -> Objs]
    BY <1>1, <1>6 DEF Types
  <2>2. space' \in Nat /\ space' <= size
    BY <1>1, <1>9, <1>10
  <2> QED BY <1>1, <1>3, <1>7, <2>1, <2>2 DEF Types, traffic
<1>12. Numbers'
  <2>1. \A d \in Callers : caller'[d].tr <= begun
    BY <1>3, IdleFacts DEF Numbers, Types
  <2>2. \A d \in Callers : IF d \in Holding' THEN caller'[d].id \in Ids /\ caller'[d].tr > 0
                           ELSE caller'[d].got = NoAnswer /\ caller'[d].tr = 0
    BY <1>3, <1>4, IdleFacts DEF Numbers
  <2> QED BY <1>1, <2>1, <2>2 DEF Numbers, traffic
<1>13. Apart'
  <2>1. \A k \in DOMAIN states' : \E d \in Holding' : caller'[d].id = k
    <3> SUFFICES ASSUME NEW k \in DOMAIN states' PROVE \E d \in Holding' : caller'[d].id = k
      OBVIOUS
    <3>1. PICK d \in Holding : caller[d].id = k
      BY <1>6 DEF Apart
    <3>2. d # c
      BY <1>6, <3>1 DEF i
    <3> QED BY <1>3, <1>4, <3>1, <3>2
  <2>2. \A k, l \in DOMAIN states' : k # l => states'[k] # states'[l]
    BY <1>6 DEF Apart
  <2>3. \A d, e \in Holding' : d # e => caller'[d].id # caller'[e].id /\ caller'[d].tr # caller'[e].tr
    BY <1>5 DEF Apart
  <2>4. \A d \in Holding' : caller'[d].id \in DOMAIN states' /\ chan'[states'[caller'[d].id]] = caller'[d].tr
    BY <1>1, <1>5, <1>6 DEF Apart
  <2> QED BY <2>1, <2>2, <2>3, <2>4 DEF Apart
<1>14. Queue'
  <2>1. \A j \in 1 .. Len(free') : j = Len(free) + 1 \/ j \in 1 .. Len(free)
    BY <1>7
  <2>2. \A j \in 1 .. Len(free) : free[j] # i
    BY <1>2 DEF Queue
  <2>3. \A k, l \in 1 .. Len(free') : free'[k] = free'[l] => k = l
    BY <1>7, <2>1, <2>2 DEF Queue
  <2>4. \A k \in 1 .. Len(free') : free'[k] \notin DOMAIN states'
    BY <1>6, <1>7, <2>1 DEF Queue
  <2>5. \A k \in Ids \ DOMAIN states' : \E j \in 1 .. Len(free') : free'[j] = k
    <3> SUFFICES ASSUME NEW k \in Ids \ DOMAIN states' PROVE \E j \in 1 .. Len(free') : free'[j] = k
      OBVIOUS
    <3>1. CASE k = i
      <4>1. Len(free) + 1 \in 1 .. Len(free')
        BY <1>7
      <4> QED BY <1>7, <3>1, <4>1
    <3>2. CASE k # i
      <4>1. PICK j \in 1 .. Len(free) : free[j] = k
        BY <1>6, <3>2 DEF Queue
      <4> QED BY <1>7, <4>1
    <3> QED BY <3>1, <3>2
  <2> QED BY <2>3, <2>4, <2>5 DEF Queue
<1>15. Places'
  <2>1. space' + Cardinality(Holding') = size' /\ Len(free') + Cardinality(Holding') = MaxTransaction - 1
    BY <1>1, <1>7, <1>8, <1>10
  <2> QED BY <1>8, <2>1 DEF Places
<1>16. Timely'
  <2>1. \A d \in Callers, m \in Message : Owns(d, m) => d # c /\ d \in Holding /\ Owns(d, m)'
    BY <1>1, <1>3 DEF Owns, Holding
  <2>2. \A d \in Callers, m \in Message : Owns(d, m) => states'[m.id] = states[m.id]
    <3> SUFFICES ASSUME NEW d \in Callers, NEW m \in Message, Owns(d, m) PROVE states'[m.id] = states[m.id]
      OBVIOUS
    <3>1. d \in Holding' /\ caller[d].id = m.id
      BY <1>3, <2>1 DEF Owns
    <3>2. m.id \in DOMAIN states'
      BY <1>5, <1>6, <3>1 DEF Apart
    <3> QED BY <1>6, <3>2
  <2>3. \A h \in handlers : h.msg \in Message
    BY DEF Types, Handler
  <2>4. ASSUME ~late
        PROVE  /\ \A m \in net : \E d \in Callers : Owns(d, m)'
               /\ \A h \in handlers : \E d \in Callers :
                      Owns(d, h.msg)' /\ h.obj = states'[h.msg.id] /\ h.ch \in {0, h.msg.of}
    BY <2>1, <2>2, <2>3, <2>4 DEF Timely, Types
  <2>5. \A d \in Callers : caller[d].got.of \in {0, caller[d].tr} => caller'[d].got.of \in {0, caller'[d].tr}
    BY <1>3, IdleFacts
  <2> QED BY <1>1, <2>4, <2>5 DEF Timely, traffic, Owns
<1>17. FarApart'
  <2>1. \A m \in net : m \in Message /\ m.of \in Nat /\ m.of <= begun
    BY DEF Types, Message, Numbers
  <2>2. ASSUME NEW m \in net, NEW j \in 1 .. Len(free'), free'[j] = m.id, m.of # 0
        PROVE  begun' + j - m.of > Distance
    <3>1. CASE j = Len(free) + 1
      <4>1. \A b, n, k, x \in Nat : n <= b /\ k > x => b + k - n > x
        OBVIOUS
      <4>2. begun \in Nat /\ Distance \in Nat /\ Len(free) + 1 \in Nat
        BY <1>7, SizeFacts DEF Types
      <4> QED BY <1>1, <1>10, <2>1, <3>1, <4>1, <4>2
    <3>2. CASE j # Len(free) + 1
      <4>1. j \in 1 .. Len(free) /\ free[j] = m.id
        BY <1>7, <2>2, <3>2
      <4> QED BY <1>1, <2>2, <4>1 DEF FarApart
    <3> QED BY <3>1, <3>2
  <2>3. ASSUME NEW m \in net, NEW d \in Holding', caller'[d].id = m.id
        PROVE  m.of \in {0, caller'[d].tr} \/ caller'[d].tr - m.of > Distance
    BY <1>5, <2>3 DEF FarApart
  <2>4. \A d \in Callers : d # c => caller'[d] = caller[d]
    BY <1>3
  <2>5. caller'[c].got.of = 0
    BY <1>3, IdleFacts
  <2> QED BY <1>1, <2>2, <2>3, <2>4, <2>5 DEF FarApart, traffic, Distance
<1> QED BY <1>11, <1>12, <1>13, <1>14, <1>15, <1>16, <1>17

\* A device's own request, which claims to answer no transaction.
LEMMA StrayRequestInv ==
    ASSUME Inv, NEW i \in Ids, StrayRequest(i)
    PROVE  Inv'
<1> USE DEF Inv
<1>1. UNCHANGED <<caller, queues, handlers, crashed>> /\ late' = TRUE /\ moves' = moves + 1 /\ moves < MaxMoves
  BY DEF StrayRequest
<1>2. \A m \in net' : m \in net \/ (m \in Message /\ m.of = 0)
  BY DEF StrayRequest, Message, Types
<1>3. Holding' = Holding
  BY <1>1 DEF Holding
<1>4. Types'
  BY <1>1, <1>2, SizeAssumption DEF Types, queues
<1>5. Numbers'
  BY <1>1, <1>2, <1>3 DEF Numbers, queues, Types
<1>6. Apart' /\ Queue'
  BY <1>1, <1>3 DEF Apart, Queue, queues
<1>7. Places'
  BY <1>1, <1>3 DEF Places, queues
<1>8. Timely'
  BY <1>1 DEF Timely
<1>9. FarApart'
  BY <1>1, <1>2, <1>3 DEF FarApart, queues, Distance
<1> QED BY <1>4, <1>5, <1>6, <1>7, <1>8, <1>9

\* A datagram's handler finds the state of whoever has the id.
LEMMA LookUpInv ==
    ASSUME Inv, NEW m \in net, LookUp(m)
    PROVE  Inv'
<1> USE DEF Inv
<1> DEFINE h0 == [msg |-> m, obj |-> states[m.id], at |-> chan[states[m.id]], ch |-> 0]
<1>1. /\ net' = net \ {m} /\ UNCHANGED <<caller, moves, queues, late, crashed>>
      /\ m \in Message /\ m.id \in Ids /\ m.of \in Nat
  BY DEF LookUp, Types, Message
<1>2. \A h \in handlers' : h \in handlers \/ (h = h0 /\ m.id \in DOMAIN states)
  BY DEF LookUp
<1>3. Holding' = Holding
  BY <1>1 DEF Holding
<1>4. m.id \in DOMAIN states => \E c \in Holding : caller[c].id = m.id /\ chan[states[m.id]] = caller[c].tr
  BY DEF Apart
<1>5. m.id \in DOMAIN states => h0 \in Handler
  BY <1>1 DEF Handler, Types
<1>6. h0.msg = m /\ h0.obj = states[m.id] /\ h0.at = chan[states[m.id]] /\ h0.ch = 0
  OBVIOUS
<1> HIDE DEF h0
<1>7. Types'
  BY <1>1, <1>2, <1>5 DEF Types, queues
<1>8. Numbers'
  BY <1>1, <1>3 DEF Numbers, queues
<1>9. Apart' /\ Queue'
  BY <1>1, <1>3 DEF Apart, Queue, queues
<1>10. Places'
  BY <1>1, <1>3 DEF Places, queues
<1>11. Timely'
  <2> SUFFICES ASSUME ~late PROVE Timely'
    BY <1>1 DEF Timely
  <2>1. \A h \in handlers' : \E c \in Callers :
            Owns(c, h.msg) /\ h.obj = states[h.msg.id] /\ h.ch \in {0, h.msg.of}
    BY <1>2, <1>6 DEF Timely
  <2>2. \A h \in handlers', n \in net' : h.msg.id # n.id
    BY <1>1, <1>2, <1>6 DEF Timely
  <2>3. \A h, g \in handlers' : h.msg.id = g.msg.id => h = g
    BY <1>2, <1>6 DEF Timely
  <2>4. /\ ~crashed /\ \A n \in net' : \E c \in Callers : Owns(c, n)
        /\ \A n, o \in net' : n.id = o.id => n = o
        /\ \A c \in Callers : caller[c].got.of \in {0, caller[c].tr}
    BY <1>1 DEF Timely
  <2> QED BY <1>1, <2>1, <2>2, <2>3, <2>4 DEF Timely, Owns, queues
<1>12. FarApart'
  <2>1. m.id \in DOMAIN states => m.of = 0 \/ h0.at = m.of \/ h0.at - m.of > Distance
    BY <1>4, <1>6 DEF FarApart
  <2>2. \A h \in handlers' : h.msg.of = 0 \/ h.at = h.msg.of \/ h.at - h.msg.of > Distance
    BY <1>2, <1>6, <2>1 DEF FarApart
  <2> QED BY <1>1, <1>3, <2>2 DEF FarApart, queues, Distance
<1> QED BY <1>7, <1>8, <1>9, <1>10, <1>11, <1>12

\* It reads the state's channel.
LEMMA EvaluateInv ==
    ASSUME Inv, NEW h \in handlers, Evaluate(h)
    PROVE  Inv'
<1> USE DEF Inv
<1> DEFINE h1 == [h EXCEPT !.ch = chan[h.obj]]
<1>1. handlers' = (handlers \ {h}) \union {h1} /\ UNCHANGED <<caller, moves, queues, net, late, crashed>>
  BY DEF Evaluate
<1>2. h \in Handler /\ h1 \in Handler /\ h1.msg = h.msg /\ h1.obj = h.obj /\ h1.at = h.at /\ h1.ch = chan[h.obj]
  BY DEF Types, Handler
<1> HIDE DEF h1
<1>3. Holding' = Holding
  BY <1>1 DEF Holding
<1>4. Types'
  BY <1>1, <1>2 DEF Types, queues
<1>5. Numbers'
  BY <1>1, <1>3 DEF Numbers, queues
<1>6. Apart' /\ Queue'
  BY <1>1, <1>3 DEF Apart, Queue, queues
<1>7. Places'
  BY <1>1, <1>3 DEF Places, queues
<1>8. Timely'
  <2> SUFFICES ASSUME ~late PROVE Timely'
    BY <1>1 DEF Timely
  <2>1. PICK c \in Callers : Owns(c, h.msg) /\ h.obj = states[h.msg.id]
    BY DEF Timely
  <2>2. chan[h.obj] = h.msg.of
    BY <2>1 DEF Owns, Apart, Holding
  <2>3. \A g \in handlers' : \E d \in Callers :
            Owns(d, g.msg) /\ g.obj = states[g.msg.id] /\ g.ch \in {0, g.msg.of}
    BY <1>1, <1>2, <2>1, <2>2 DEF Timely
  <2>4. \A g \in handlers', n \in net : g.msg.id # n.id
    BY <1>1, <1>2 DEF Timely
  <2>5. \A g, f \in handlers' : g.msg.id = f.msg.id => g = f
    BY <1>1, <1>2 DEF Timely
  <2> QED BY <1>1, <2>3, <2>4, <2>5 DEF Timely, Owns, queues
<1>9. FarApart'
  <2>1. \A g \in handlers' : g.msg.of = 0 \/ g.at = g.msg.of \/ g.at - g.msg.of > Distance
    BY <1>1, <1>2 DEF FarApart
  <2> QED BY <1>1, <1>3, <2>1 DEF FarApart, queues, Distance
<1> QED BY <1>4, <1>5, <1>6, <1>7, <1>8, <1>9

\* A caller takes what a handler sends into its channel.
LEMMA DeliverInv ==
    ASSUME Inv, NEW c \in Callers, NEW h \in handlers, Deliver(c, h)
    PROVE  Inv'
<1> USE DEF Inv
<1> DEFINE answer == [of |-> h.msg.of, id |-> h.msg.id, at |-> h.at, kind |-> h.msg.kind]
<1>1. /\ caller[c] \in CallerType /\ caller[c].pc = "wait" /\ c \in Holding /\ h.ch = caller[c].tr
      /\ caller[c].tr > 0 /\ handlers' = handlers \ {h} /\ UNCHANGED <<moves, queues, net, late, crashed>>
  BY DEF Deliver, Types, Holding, Numbers
<1>2. h \in Handler /\ h.msg \in Message /\ answer \in AnswerType
  BY DEF Types, Handler, Message, AnswerType, Ids
<1>3. PICK p \in Busy : caller' = [caller EXCEPT ![c] = [caller[c] EXCEPT !.pc = p, !.got = answer]]
  <2>1. \A decodes \in BOOLEAN : (IF Ends(c, h, decodes) THEN "end" ELSE Again(c)) \in Busy
    BY DEF Again, Busy
  <2>2. \E decodes \in BOOLEAN :
            caller' = [caller EXCEPT ![c] = [@ EXCEPT
                !.pc = IF Ends(c, h, decodes) THEN "end" ELSE Again(c), !.got = answer]]
    BY Zenon DEF Deliver
  <2>3. caller \in [Callers -> CallerType]
    BY DEF Types
  <2> HIDE DEF answer
  <2> QED BY <2>1, <2>2, <2>3, Zenon
<1> HIDE DEF answer
<1> DEFINE new == [caller[c] EXCEPT !.pc = p, !.got = answer]
<1>4. /\ new \in CallerType /\ new.pc = p /\ new.id = caller[c].id /\ new.tr = caller[c].tr
      /\ new.got = answer
  BY <1>1, <1>2, <1>3 DEF CallerType
<1>5. caller' = [caller EXCEPT ![c] = new]
  BY <1>3
<1> HIDE DEF new
<1>6. /\ caller' \in [Callers -> CallerType] /\ caller'[c] = new
      /\ \A d \in Callers : d # c => caller'[d] = caller[d]
      /\ Holding' = Holding
      /\ \A d \in Holding : d \in Callers /\ caller'[d].id = caller[d].id
      /\ \A d \in Callers : caller'[d].tr = caller[d].tr
      /\ Apart' /\ Queue' /\ Places'
      /\ \A d \in Callers : IF d \in Holding' THEN caller'[d].id \in Ids /\ caller'[d].tr > 0
                            ELSE caller'[d].got = NoAnswer /\ caller'[d].tr = 0
  <2>1. caller[c].pc \in Busy
    BY <1>1 DEF Busy
  <2> QED BY <1>1, <1>4, <1>5, <2>1, CallerGoes
<1>7. Types'
  BY <1>1, <1>6 DEF Types, queues
<1>8. Numbers'
  BY <1>1, <1>6 DEF Numbers, queues
<1>9. Timely'
  <2> SUFFICES ASSUME ~late PROVE Timely'
    BY <1>1 DEF Timely
  <2>1. PICK d \in Callers : Owns(d, h.msg) /\ h.ch \in {0, h.msg.of}
    BY DEF Timely
  <2>2. d = c
    BY <1>1, <2>1 DEF Owns, Apart, Holding
  <2>3. h.msg.of = caller[c].tr /\ h.msg.id = caller[c].id
    BY <2>1, <2>2 DEF Owns
  <2>4. \A m \in net : m \in Message /\ m.id # caller[c].id
    BY <2>3 DEF Timely, Types
  <2>5. \A g \in handlers' : g.msg \in Message /\ g.msg.id # caller[c].id
    BY <1>1, <2>3 DEF Timely, Types, Handler
  <2>6. \A e \in Callers, m \in Message : Owns(e, m) /\ m.id # caller[c].id => Owns(e, m)'
    BY <1>6 DEF Owns
  <2>7. caller'[c].got.of = caller'[c].tr
    BY <1>4, <1>6, <2>3 DEF answer
  <2>8. \A e \in Callers : caller'[e].got.of \in {0, caller'[e].tr}
    BY <1>6, <2>7 DEF Timely
  <2>9. \A m \in net : \E e \in Callers : Owns(e, m)'
    BY <2>4, <2>6 DEF Timely
  <2>10. \A g \in handlers' : \E e \in Callers :
             Owns(e, g.msg)' /\ g.obj = states[g.msg.id] /\ g.ch \in {0, g.msg.of}
    BY <1>1, <2>5, <2>6 DEF Timely
  <2> QED BY <1>1, <2>8, <2>9, <2>10 DEF Timely, Owns, queues
<1>10. FarApart'
  <2>1. caller'[c].got.of = h.msg.of /\ caller'[c].got.at = h.at
    BY <1>4, <1>6 DEF answer
  <2>2. caller'[c].got.of = 0 \/ caller'[c].got.at = caller'[c].got.of
        \/ caller'[c].got.at - caller'[c].got.of > Distance
    BY <2>1 DEF FarApart
  <2> QED BY <1>1, <1>6, <2>2 DEF FarApart, queues, Distance
<1> QED BY <1>6, <1>7, <1>8, <1>9, <1>10

\* Only a late answer finds its channel closed.
LEMMA PanicInv ==
    ASSUME Inv, NEW h \in handlers, Panic(h)
    PROVE  Inv'
<1> USE DEF Inv
<1>1. crashed' = TRUE /\ UNCHANGED <<caller, moves, queues, traffic, late>> /\ h.ch # 0 /\ h.ch \notin Open
  BY DEF Panic
<1>2. Holding' = Holding
  BY <1>1 DEF Holding
<1>3. Types'
  BY <1>1 DEF Types, queues, traffic
<1>4. Numbers'
  BY <1>1, <1>2 DEF Numbers, queues, traffic
<1>5. Apart' /\ Queue'
  BY <1>1, <1>2 DEF Apart, Queue, queues
<1>6. Places'
  BY <1>1, <1>2 DEF Places, queues
<1>7. late
  <2> SUFFICES ASSUME ~late PROVE FALSE
    BY DEF Types
  <2>1. PICK c \in Callers : Owns(c, h.msg) /\ h.ch \in {0, h.msg.of}
    BY DEF Timely
  <2> QED BY <1>1, <2>1 DEF Owns, Open
<1>8. Timely'
  BY <1>1, <1>7 DEF Timely
<1>9. FarApart'
  BY <1>1, <1>2 DEF FarApart, queues, traffic, Distance
<1> QED BY <1>3, <1>4, <1>5, <1>6, <1>8, <1>9

LEMMA InvUnchanged == Inv /\ UNCHANGED vars => Inv'
<1> SUFFICES ASSUME Inv, UNCHANGED vars PROVE Inv'
  OBVIOUS
<1> USE DEF Inv
<1>1. Holding' = Holding
  BY DEF vars, Holding
<1>2. Types' /\ Numbers'
  BY <1>1 DEF vars, Types, Numbers
<1>3. Apart' /\ Queue'
  BY <1>1 DEF vars, Apart, Queue
<1>4. Places'
  BY <1>1 DEF vars, Places
<1>5. Timely'
  BY DEF vars, Timely, Owns
<1>6. FarApart'
  BY <1>1 DEF vars, FarApart, Distance
<1> QED BY <1>2, <1>3, <1>4, <1>5, <1>6

LEMMA InvInit == Init => Inv
<1> SUFFICES ASSUME Init PROVE Inv
  OBVIOUS
<1>1. size \in Sizes /\ MaxTransaction \in Nat /\ MaxTransaction > 0
  BY SizeAssumption DEF Init
<1>2. free = [i \in 1 .. MaxTransaction - 1 |-> i] /\ free \in Seq(Ids) /\ Len(free) = MaxTransaction - 1
  BY <1>1 DEF Init, Ids
<1>3. /\ caller = [c \in Callers |-> Idle] /\ states = <<>> /\ net = {} /\ handlers = {} /\ ~late /\ ~crashed
      /\ space = size /\ begun = 0 /\ chan = [o \in Objs |-> 0] /\ moves = 0 /\ late = FALSE /\ crashed = FALSE
  BY DEF Init
<1>4. 0 \in 0 .. MaxTransaction - 1
  BY <1>1
<1>5. Idle \in CallerType /\ Idle.tr = 0 /\ Idle.pc = "idle" /\ Idle.got = NoAnswer /\ NoAnswer.of = 0
  BY <1>4 DEF Idle, CallerType, AnswerType, NoAnswer
<1>6. Types
  <2>1. DOMAIN states = {} /\ states \in [DOMAIN states -> Objs]
    BY <1>3
  <2>2. size \in Nat
    BY <1>1, SizeAssumption
  <2>3. caller \in [Callers -> CallerType]
    BY <1>3, <1>5
  <2>4. chan \in [Objs -> Nat] /\ moves \in 0 .. MaxMoves
    BY <1>3, SizeAssumption
  <2>5. net \in SUBSET Message /\ handlers \in SUBSET Handler
    BY <1>3
  <2>6. space \in Nat /\ space <= size /\ begun \in Nat /\ DOMAIN states \subseteq Ids
    BY <1>3, <2>1, <2>2
  <2> QED BY <1>1, <1>2, <1>3, <2>1, <2>3, <2>4, <2>5, <2>6 DEF Types
<1>7. Holding = {}
  BY <1>3, <1>5 DEF Holding
<1>8. Numbers /\ Apart
  <2>1. DOMAIN states = {}
    BY <1>3
  <2> QED BY <1>3, <1>5, <1>7, <2>1 DEF Numbers, Apart
<1>9. Queue
  <2>1. DOMAIN states = {}
    BY <1>3
  <2>2. Ids = 1 .. Len(free)
    BY <1>2 DEF Ids
  <2>3. \A j \in 1 .. MaxTransaction - 1 : free[j] = j
    BY <1>2
  <2>4. \A j \in 1 .. Len(free) : free[j] = j
    BY <1>2, <2>3
  <2> QED BY <2>1, <2>2, <2>4 DEF Queue
<1>10. Places
  BY <1>1, <1>2, <1>3, <1>6, <1>7, FS_EmptySet, SizeFacts DEF Places
<1>11. Timely /\ FarApart
  BY <1>3, <1>5, <1>7 DEF Timely, FarApart
<1> QED BY <1>6, <1>8, <1>9, <1>10, <1>11 DEF Inv

LEMMA InvStep == Inv /\ [Next]_vars => Inv'
<1> SUFFICES ASSUME Inv, [Next]_vars PROVE Inv'
  OBVIOUS
<1>1. ASSUME NEW c \in Callers,
             Ask(c) \/ GiveUp(c) \/ Begin(c) \/ Send(c) \/ SendFails(c) \/ TimeOut(c) \/ Put(c)
      PROVE  Inv'
  BY <1>1, AskInv, GiveUpInv, BeginInv, SendInv, SendFailsInv, TimeOutInv, PutInv
<1>2. ASSUME NEW c \in Callers, NEW h \in handlers, Deliver(c, h)
      PROVE  Inv'
  BY <1>2, DeliverInv
<1>3. ASSUME NEW i \in Ids, StrayRequest(i)
      PROVE  Inv'
  BY <1>3, StrayRequestInv
<1>4. ASSUME NEW m \in net, LookUp(m)
      PROVE  Inv'
  BY <1>4, LookUpInv
<1>5. ASSUME NEW h \in handlers, Evaluate(h) \/ Panic(h)
      PROVE  Inv'
  BY <1>5, EvaluateInv, PanicInv
<1> QED BY <1>1, <1>2, <1>3, <1>4, <1>5, InvUnchanged DEF Next

-----------------------------------------------------------------------------
(***************************************************************************)
(* Timed jobs                                                              *)
(***************************************************************************)
JobState == [at : {"none", "wait", "ended"}, enable : BOOLEAN,
             started : Nat, running : Nat, runs : Nat, late : Nat]

CronTypes ==
    /\ futures \in Seq(Job)
    /\ adding \in [Job -> [at : {"no", "read", "done"}, seen : Seq(Job)]]
    /\ cronJob \in [Job -> JobState]
    /\ clearing \in [at : {"no", "walk"}, seen : Seq(Job)]
    /\ cronCrossed \in BOOLEAN

\* Whoever is between reading the list and replacing it, has read it as it is, and is alone.
ListInv ==
    ~cronCrossed =>
        /\ \A j \in Job : adding[j].at = "read" => adding[j].seen = futures /\ clearing.at = "no"
        /\ \A i, j \in Job : adding[i].at = "read" /\ adding[j].at = "read" => i = j
        /\ clearing.at = "walk" => clearing.seen = futures
        /\ \A j \in Job : adding[j].at = "no" => ~cronJob[j].enable

\* The calls a disabled job has begun or will begin were started before; the library has no entry of it;
\* a ticker has one call at a time.
LateOK(j, x) ==
    /\ ~x.enable => x.runs + x.started <= x.late
    /\ j \notin Ticker /\ x.at = "wait" => x.enable
    /\ j \in Ticker => x.started + x.running <= 1 /\ x.late <= 1

LateInv == \A j \in Job : LateOK(j, cronJob[j])

CronInv == CronTypes /\ ListInv /\ Cron!JobsAreListed /\ LateInv

LEMMA CronInit == Cron!Init => CronInv
<1> SUFFICES ASSUME Cron!Init PROVE CronInv
  OBVIOUS
<1>1. /\ futures = <<>> /\ clearing = [at |-> "no", seen |-> <<>>] /\ ~cronCrossed /\ cronCrossed \in BOOLEAN
      /\ adding = [j \in Job |-> [at |-> "no", seen |-> <<>>]]
      /\ cronJob = [j \in Job |-> [at |-> "none", enable |-> FALSE,
                                   started |-> 0, running |-> 0, runs |-> 0, late |-> 0]]
  BY DEF Cron!Init, Cron!Idle
<1>2. <<>> \in Seq(Job) /\ 0 \in Nat
  OBVIOUS
<1>3. CronTypes
  BY <1>1, <1>2 DEF CronTypes, JobState
<1>4. ListInv /\ Cron!JobsAreListed /\ LateInv
  BY <1>1, <1>2 DEF ListInv, LateInv, LateOK, Cron!JobsAreListed
<1> QED BY <1>3, <1>4 DEF CronInv

\* The members of a list.
LEMMA Listed ==
    ASSUME NEW s \in Seq(Job), NEW j \in Job
    PROVE  /\ Append(s, j) \in Seq(Job)
           /\ j \in Cron!Range(Append(s, j))
           /\ \A i \in Cron!Range(s) : i \in Cron!Range(Append(s, j))
<1>1. /\ Append(s, j) \in Seq(Job) /\ Len(Append(s, j)) = Len(s) + 1 /\ Append(s, j)[Len(s) + 1] = j
      /\ \A i \in 1 .. Len(s) : Append(s, j)[i] = s[i]
  OBVIOUS
<1>2. Len(s) \in Nat /\ DOMAIN s = 1 .. Len(s) /\ DOMAIN Append(s, j) = 1 .. Len(s) + 1
  BY <1>1
<1> QED BY <1>1, <1>2 DEF Cron!Range

\* A step of one job.
Moves(j, x) == /\ cronJob' \in [Job -> JobState] /\ cronJob'[j] = x
               /\ \A i \in Job \ {j} : cronJob'[i] = cronJob[i]

LEMMA MovesOK ==
    ASSUME CronTypes, NEW j \in Job, NEW x \in JobState, cronJob' = [cronJob EXCEPT ![j] = x]
    PROVE  Moves(j, x)
BY DEF CronTypes, Moves

\* What Disable makes of a job.
LEMMA DisabledFacts ==
    ASSUME CronTypes, LateInv, NEW js
    PROVE  /\ Cron!Disabled(js) \in [Job -> JobState]
           /\ \A j \in Job : /\ ~Cron!Disabled(js)[j].enable <=> (~cronJob[j].enable \/ j \in js)
                             /\ LateOK(j, Cron!Disabled(js)[j])
<1> DEFINE x(j) == [cronJob[j] EXCEPT !.at = IF j \in Ticker THEN cronJob[j].at ELSE "ended", !.enable = FALSE,
                                      !.runs = 0, !.late = cronJob[j].started]
<1>1. ASSUME NEW j \in Job
      PROVE  cronJob[j] \in JobState /\ LateOK(j, cronJob[j]) /\ x(j) \in JobState /\ ~x(j).enable /\ LateOK(j, x(j))
  <2>1. cronJob[j] \in JobState /\ LateOK(j, cronJob[j])
    BY DEF CronTypes, LateInv
  <2>2. x(j) \in JobState /\ ~x(j).enable /\ x(j).runs = 0 /\ x(j).late = cronJob[j].started
        /\ x(j).started = cronJob[j].started /\ x(j).running = cronJob[j].running
        /\ (j \notin Ticker => x(j).at # "wait")
    BY <2>1 DEF JobState
  <2>3. cronJob[j].started \in Nat /\ cronJob[j].running \in Nat
    BY <2>1 DEF JobState
  <2> HIDE DEF x
  <2> QED BY <2>1, <2>2, <2>3 DEF LateOK
<1> HIDE DEF x
<1>2. Cron!Disabled(js) = [j \in Job |-> IF j \in js /\ cronJob[j].enable THEN x(j) ELSE cronJob[j]]
  BY DEF Cron!Disabled, x
<1> QED BY <1>1, <1>2

LEMMA CronStep == CronInv /\ [Cron!Next]_cronVars => CronInv'
<1> SUFFICES ASSUME CronInv, [Cron!Next]_cronVars PROVE CronInv'
  OBVIOUS
<1>i. CronTypes /\ ListInv /\ Cron!JobsAreListed /\ LateInv
  BY DEF CronInv
<1>t. /\ futures \in Seq(Job) /\ clearing \in [at : {"no", "walk"}, seen : Seq(Job)]
      /\ adding \in [Job -> [at : {"no", "read", "done"}, seen : Seq(Job)]]
      /\ cronJob \in [Job -> JobState] /\ cronCrossed \in BOOLEAN
  BY <1>i DEF CronTypes
<1>j. \A j \in Job : /\ cronJob[j] \in JobState /\ LateOK(j, cronJob[j])
                     /\ cronJob[j].started \in Nat /\ cronJob[j].running \in Nat
                     /\ cronJob[j].runs \in Nat /\ cronJob[j].late \in Nat
  BY <1>t, <1>i DEF JobState, LateInv
\* A step of one job that is neither enabled nor disabled, which leaves the list alone.
<1>m. ASSUME NEW j \in Job, NEW x \in JobState, cronJob' = [cronJob EXCEPT ![j] = x],
             UNCHANGED <<futures, adding, clearing, cronCrossed>>, x.enable = cronJob[j].enable,
             LateOK(j, x)
      PROVE  CronInv'
  <2>1. Moves(j, x)
    BY <1>m, <1>i, MovesOK
  <2>2. CronTypes'
    BY <2>1, <1>m, <1>t DEF CronTypes, Moves
  <2>3. \A i \in Job : cronJob'[i].enable = cronJob[i].enable
    BY <2>1, <1>m DEF Moves
  <2>4. ListInv' /\ Cron!JobsAreListed'
    BY <2>3, <1>m, <1>i DEF ListInv, Cron!JobsAreListed
  <2>5. LateInv'
    BY <2>1, <1>m, <1>i DEF LateInv, Moves
  <2> QED BY <2>2, <2>4, <2>5 DEF CronInv
<1>0. CASE UNCHANGED cronVars
  <2>1. UNCHANGED <<futures, adding, cronJob, clearing, cronCrossed>>
    BY <1>0 DEF cronVars
  <2> QED BY <2>1, <1>i DEF CronInv, CronTypes, ListInv, LateInv, Cron!JobsAreListed
<1>1. ASSUME NEW j \in Job, Cron!AddRead(j) PROVE CronInv'
  <2> DEFINE x == [cronJob[j] EXCEPT !.at = IF j \in Ticker THEN cronJob[j].at ELSE "wait", !.enable = TRUE]
  <2>1. cronJob' = [cronJob EXCEPT ![j] = x] /\ x \in JobState /\ x.enable /\ LateOK(j, x)
    <3>1. /\ x \in JobState /\ x.enable /\ x.started = cronJob[j].started
          /\ x.running = cronJob[j].running /\ x.late = cronJob[j].late
      BY <1>j DEF JobState
    <3>2. cronJob' = [cronJob EXCEPT ![j] = x]
      BY <1>1, <1>t DEF Cron!AddRead
    <3>3. LateOK(j, x)
      <4> HIDE DEF x
      <4> QED BY <3>1, <1>j DEF LateOK
    <3> QED BY <3>1, <3>2, <3>3
  <2> HIDE DEF x
  <2>2. Moves(j, x)
    BY <2>1, <1>i, MovesOK
  <2>3. adding' = [adding EXCEPT ![j] = [at |-> "read", seen |-> futures]] /\ adding[j].at = "no"
        /\ UNCHANGED <<futures, clearing>> /\ cronCrossed' = (cronCrossed \/ Cron!Busy)
    BY <1>1 DEF Cron!AddRead
  <2>4. /\ adding' \in [Job -> [at : {"no", "read", "done"}, seen : Seq(Job)]]
        /\ adding'[j].at = "read" /\ adding'[j].seen = futures /\ \A i \in Job \ {j} : adding'[i] = adding[i]
    BY <2>3, <1>t
  <2>5. CronTypes'
    BY <2>2, <2>3, <2>4, <1>t DEF CronTypes, Moves
  <2>a. ASSUME cronCrossed' PROVE ListInv' /\ Cron!JobsAreListed'
    BY <2>a DEF ListInv, Cron!JobsAreListed
  <2>b. ASSUME ~cronCrossed' PROVE ListInv' /\ Cron!JobsAreListed'
    <3>1. ~cronCrossed /\ clearing.at = "no" /\ \A i \in Job : adding[i].at # "read"
      BY <2>b, <2>3, <1>t DEF Cron!Busy
    <3>2. \A i \in Job \ {j} : adding'[i] = adding[i] /\ cronJob'[i] = cronJob[i]
      BY <2>2, <2>4 DEF Moves
    <3>3. /\ \A i \in Job : adding'[i].at = "read" => i = j
          /\ adding'[j].seen = futures' /\ clearing'.at = "no"
      BY <3>1, <3>2, <2>3, <2>4
    <3>4. \A i \in Job : adding'[i].at = "no" => ~cronJob'[i].enable
      BY <3>1, <3>2, <2>4, <1>i DEF ListInv
    <3>5. ListInv'
      BY <3>3, <3>4 DEF ListInv
    <3>6. \A i \in Job : cronJob'[i].enable /\ adding'[i].at = "done" => i \in Cron!Range(futures)
      BY <3>1, <3>2, <2>4, <1>i DEF Cron!JobsAreListed
    <3> QED BY <3>5, <3>6, <2>3 DEF Cron!JobsAreListed
  <2>6. ListInv' /\ Cron!JobsAreListed'
    BY <2>a, <2>b
  <2>7. LateInv'
    BY <2>1, <2>2, <1>i DEF LateInv, Moves
  <2> QED BY <2>5, <2>6, <2>7 DEF CronInv
<1>2. ASSUME NEW j \in Job, Cron!AddStore(j) PROVE CronInv'
  <2> DEFINE x == [cronJob[j] EXCEPT !.at = IF j \in Ticker THEN "wait" ELSE cronJob[j].at]
  <2>1. cronJob' = [cronJob EXCEPT ![j] = x] /\ x \in JobState /\ x.enable = cronJob[j].enable /\ LateOK(j, x)
    <3>1. /\ x \in JobState /\ x.enable = cronJob[j].enable /\ x.runs = cronJob[j].runs
          /\ x.started = cronJob[j].started /\ x.running = cronJob[j].running /\ x.late = cronJob[j].late
          /\ (j \notin Ticker => x.at = cronJob[j].at)
      BY <1>t DEF JobState
    <3>2. cronJob' = [cronJob EXCEPT ![j] = x]
      BY <1>2, <1>t DEF Cron!AddStore
    <3>3. LateOK(j, x)
      <4> HIDE DEF x
      <4> QED BY <3>1, <1>j DEF LateOK
    <3> QED BY <3>1, <3>2, <3>3
  <2> HIDE DEF x
  <2>2. Moves(j, x)
    BY <2>1, <1>i, MovesOK
  <2>3. adding' = [adding EXCEPT ![j] = [at |-> "done", seen |-> <<>>]] /\ adding[j].at = "read"
        /\ UNCHANGED <<clearing, cronCrossed>> /\ futures' = Append(adding[j].seen, j)
    BY <1>2 DEF Cron!AddStore
  <2>4. /\ adding' \in [Job -> [at : {"no", "read", "done"}, seen : Seq(Job)]]
        /\ adding'[j].at = "done" /\ \A i \in Job \ {j} : adding'[i] = adding[i]
    BY <2>3, <1>t
  <2>5. /\ futures' \in Seq(Job) /\ j \in Cron!Range(futures')
        /\ \A i \in Cron!Range(adding[j].seen) : i \in Cron!Range(futures')
    BY <2>3, <1>t, Listed
  <2>6. CronTypes'
    BY <2>2, <2>3, <2>4, <2>5, <1>t DEF CronTypes, Moves
  <2>7. \A i \in Job : cronJob'[i].enable = cronJob[i].enable
    BY <2>1, <2>2 DEF Moves
  <2>a. ASSUME cronCrossed' PROVE ListInv' /\ Cron!JobsAreListed'
    BY <2>a DEF ListInv, Cron!JobsAreListed
  <2>b. ASSUME ~cronCrossed' PROVE ListInv' /\ Cron!JobsAreListed'
    <3>1. /\ ~cronCrossed /\ adding[j].seen = futures /\ clearing.at = "no" /\ clearing' = clearing
          /\ \A i \in Job : adding[i].at = "read" => i = j
      BY <2>b, <2>3, <1>i DEF ListInv
    <3>2. \A i \in Job : adding'[i].at # "read"
      BY <3>1, <2>4
    <3>3. \A i \in Job : adding'[i].at = "no" => ~cronJob'[i].enable
      BY <3>1, <2>4, <2>7, <1>i DEF ListInv
    <3>4. ListInv'
      BY <3>1, <3>2, <3>3 DEF ListInv
    <3>5. \A i \in Job : cronJob'[i].enable /\ adding'[i].at = "done" => i \in Cron!Range(futures')
      BY <3>1, <2>4, <2>5, <2>7, <1>i DEF Cron!JobsAreListed
    <3> QED BY <3>4, <3>5 DEF Cron!JobsAreListed
  <2>8. ListInv' /\ Cron!JobsAreListed'
    BY <2>a, <2>b
  <2>9. LateInv'
    BY <2>1, <2>2, <1>i DEF LateInv, Moves
  <2> QED BY <2>6, <2>8, <2>9 DEF CronInv
<1>3. ASSUME NEW j \in Job, Cron!Fire(j) PROVE CronInv'
  <2> DEFINE x == [cronJob[j] EXCEPT !.started = 1]
             y == [cronJob[j] EXCEPT !.at = "ended"]
  <2>1. /\ x \in JobState /\ x.enable = cronJob[j].enable /\ x.started = 1 /\ x.running = cronJob[j].running
        /\ x.late = cronJob[j].late /\ x.at = cronJob[j].at /\ y.at = "ended"
        /\ y \in JobState /\ y.enable = cronJob[j].enable /\ y.started = cronJob[j].started
        /\ y.running = cronJob[j].running /\ y.late = cronJob[j].late /\ y.runs = cronJob[j].runs
    BY <1>j DEF JobState
  <2>2. /\ UNCHANGED <<futures, adding, clearing, cronCrossed>> /\ cronJob[j].running = 0
        /\ \/ cronJob[j].enable /\ cronJob' = [cronJob EXCEPT ![j] = x]
           \/ cronJob' = [cronJob EXCEPT ![j] = y]
    BY <1>3, <1>t DEF Cron!Fire, Cron!Waits
  <2> HIDE DEF x, y
  <2>3. CASE cronJob[j].enable /\ cronJob' = [cronJob EXCEPT ![j] = x]
    <3>1. LateOK(j, x)
      BY <2>1, <2>2, <2>3, <1>j DEF LateOK
    <3> QED BY <2>1, <2>2, <2>3, <3>1, <1>m
  <2>4. CASE cronJob' = [cronJob EXCEPT ![j] = y]
    <3>1. LateOK(j, y)
      BY <2>1, <1>j DEF LateOK
    <3> QED BY <2>1, <2>2, <2>4, <3>1, <1>m
  <2> QED BY <2>2, <2>3, <2>4
<1>4. ASSUME NEW j \in Job, Cron!FireCron(j) PROVE CronInv'
  <2> DEFINE x == [cronJob[j] EXCEPT !.started = cronJob[j].started + 1]
  <2>1. x \in JobState /\ x.enable = cronJob[j].enable
    BY <1>j DEF JobState
  <2>2. /\ cronJob' = [cronJob EXCEPT ![j] = x] /\ UNCHANGED <<futures, adding, clearing, cronCrossed>>
        /\ j \notin Ticker /\ cronJob[j].at = "wait"
    BY <1>4, <1>t DEF Cron!FireCron
  <2>3. cronJob[j].enable
    BY <2>2, <1>j DEF LateOK
  <2> HIDE DEF x
  <2>4. LateOK(j, x)
    BY <2>1, <2>2, <2>3 DEF LateOK
  <2> QED BY <2>1, <2>2, <2>4, <1>m
<1>5. ASSUME NEW j \in Job, Cron!Call(j) PROVE CronInv'
  <2> DEFINE x == [cronJob[j] EXCEPT !.started = cronJob[j].started - 1, !.running = cronJob[j].running + 1,
                                     !.runs = cronJob[j].runs + 1]
  <2>1. /\ UNCHANGED <<futures, adding, clearing, cronCrossed>> /\ cronJob[j].started > 0
        /\ cronJob' = [cronJob EXCEPT ![j] = x]
    BY <1>5, <1>t DEF Cron!Call
  <2>2. /\ x.enable = cronJob[j].enable /\ x.started = cronJob[j].started - 1
        /\ x.running = cronJob[j].running + 1 /\ x.runs = cronJob[j].runs + 1 /\ x.late = cronJob[j].late
        /\ x.at = cronJob[j].at
    BY <1>j DEF JobState
  <2>4. x \in JobState
    <3>1. /\ cronJob[j].started - 1 \in Nat /\ cronJob[j].running + 1 \in Nat
          /\ cronJob[j].runs + 1 \in Nat
      BY <2>1, <1>j
    <3> QED BY <3>1, <1>j DEF JobState
  <2> HIDE DEF x
  <2>3. LateOK(j, x)
    BY <2>1, <2>2, <1>j DEF LateOK
  <2> QED BY <2>1, <2>2, <2>3, <2>4, <1>m
<1>6. ASSUME NEW j \in Job, Cron!Return(j) PROVE CronInv'
  <2> DEFINE x == [cronJob[j] EXCEPT !.running = cronJob[j].running - 1]
  <2>1. /\ UNCHANGED <<futures, adding, clearing, cronCrossed>> /\ cronJob[j].running > 0
        /\ cronJob' = [cronJob EXCEPT ![j] = x]
    BY <1>6, <1>t DEF Cron!Return
  <2>2. /\ x \in JobState /\ x.enable = cronJob[j].enable /\ x.started = cronJob[j].started
        /\ x.running = cronJob[j].running - 1 /\ x.runs = cronJob[j].runs /\ x.late = cronJob[j].late
        /\ x.at = cronJob[j].at
    BY <2>1, <1>j DEF JobState
  <2> HIDE DEF x
  <2>3. LateOK(j, x)
    BY <2>1, <2>2, <1>j DEF LateOK
  <2> QED BY <2>1, <2>2, <2>3, <1>m
<1>7. ASSUME NEW j \in Job, Cron!Disable(j) PROVE CronInv'
  <2>1. cronJob' = Cron!Disabled({j}) /\ UNCHANGED <<futures, adding, clearing, cronCrossed>>
    BY <1>7 DEF Cron!Disable
  <2>2. cronJob' \in [Job -> JobState]
        /\ \A i \in Job : (~cronJob[i].enable => ~cronJob'[i].enable) /\ LateOK(i, cronJob'[i])
    BY <2>1, <1>i, DisabledFacts
  <2>3. CronTypes'
    BY <2>1, <2>2, <1>t DEF CronTypes
  <2>4. ListInv' /\ Cron!JobsAreListed'
    BY <2>1, <2>2, <1>i DEF ListInv, Cron!JobsAreListed
  <2>5. LateInv'
    BY <2>2 DEF LateInv
  <2> QED BY <2>3, <2>4, <2>5 DEF CronInv
<1>8. CASE Cron!ClearBegin
  <2>1. /\ clearing' = [at |-> "walk", seen |-> futures] /\ cronCrossed' = (cronCrossed \/ Cron!Busy)
        /\ UNCHANGED <<futures, adding, cronJob>>
    BY <1>8 DEF Cron!ClearBegin
  <2>2. CronTypes'
    BY <2>1, <1>t DEF CronTypes
  <2>3. ListInv' /\ Cron!JobsAreListed' /\ LateInv'
    BY <2>1, <1>i DEF ListInv, LateInv, Cron!JobsAreListed, Cron!Busy
  <2> QED BY <2>2, <2>3 DEF CronInv
<1>9. CASE Cron!ClearEnd
  <2>1. /\ cronJob' = Cron!Disabled(Cron!Range(clearing.seen)) /\ futures' = <<>>
        /\ clearing' = [at |-> "no", seen |-> <<>>] /\ clearing.at = "walk" /\ UNCHANGED <<adding, cronCrossed>>
    BY <1>9 DEF Cron!ClearEnd, Cron!Idle
  <2>2. /\ cronJob' \in [Job -> JobState]
        /\ \A i \in Job : /\ ~cronJob[i].enable \/ i \in Cron!Range(clearing.seen) => ~cronJob'[i].enable
                          /\ cronJob'[i].enable => cronJob[i].enable
                          /\ LateOK(i, cronJob'[i])
    BY <2>1, <1>i, DisabledFacts
  <2>3. CronTypes'
    BY <2>1, <2>2, <1>t DEF CronTypes
  <2>4. ListInv' /\ Cron!JobsAreListed'
    BY <2>1, <2>2, <1>i DEF ListInv, Cron!JobsAreListed
  <2>5. LateInv'
    BY <2>2 DEF LateInv
  <2> QED BY <2>3, <2>4, <2>5 DEF CronInv
<1> QED BY <1>0, <1>1, <1>2, <1>3, <1>4, <1>5, <1>6, <1>7, <1>8, <1>9 DEF Cron!Next, cronVars

-----------------------------------------------------------------------------
(***************************************************************************)
(* A serial line                                                           *)
(***************************************************************************)
LineTypes ==
    /\ line \in Lines
    /\ DOMAIN lineJob = {"pc", "left", "meter", "i"}
    /\ lineClosing \in {"no", "flag", "task", "port"}
    /\ lineLate \in Nat

\* The line is as empty as its reads have left it, while no answer is late.
EmptyInv == lineLate = 0 => waiting = <<>>

\* The job looks at the flag before it asks, and only who had looked before may open the line.
ClosingInv ==
    /\ lineClose <=> lineClosing # "no"
    /\ lineStage = "new" => lineClosing = "no"
    /\ lineClose /\ lineJob.pc = "ask" => lineCrossed

LineInv == LineTypes /\ EmptyInv /\ ClosingInv /\ Meter!WrongOnlyAfterLate /\ Meter!PortStaysClosed

LEMMA LineInit == Meter!Init => LineInv
<1> SUFFICES ASSUME Meter!Init PROVE LineInv
  OBVIOUS
<1>1. /\ line \in Lines /\ lineStage = "new" /\ ~lineClose /\ lineClosing = "no" /\ ~port
      /\ waiting = <<>> /\ lineLate = 0
      /\ lineJob = [pc |-> "idle", left |-> {}, meter |-> 0, i |-> 1]
      /\ lineReport = [kind |-> "none", point |-> <<0, 0>>, of |-> <<0, 0>>]
  BY DEF Meter!Init, Meter!NoJob, Meter!NoReport
<1>2. LineTypes /\ EmptyInv /\ ClosingInv
  BY <1>1 DEF LineTypes, EmptyInv, ClosingInv
<1>3. Meter!WrongOnlyAfterLate /\ Meter!PortStaysClosed
  BY <1>1 DEF Meter!WrongOnlyAfterLate, Meter!PortStaysClosed
<1> QED BY <1>2, <1>3 DEF LineInv

\* What the client makes of nothing, and of one frame.
LEMMA OneFrame ==
    /\ Meter!Analysis(<<>>).kind \in {"invalid", "panic"}
    /\ \A f : /\ Meter!Analysis(<<f>>).kind \in {"invalid", "panic", "zero", "value"}
              /\ Meter!Analysis(<<f>>).kind = "value" => Meter!Analysis(<<f>>).of = f.point
<1> DEFINE bodies(frames) == {i \in DOMAIN frames : frames[i].body # "none"}
<1>1. bodies(<<>>) = {}
  OBVIOUS
<1>2. Meter!Analysis(<<>>).kind \in {"invalid", "panic"}
  BY <1>1 DEF Meter!Analysis, Meter!Panics, Meter!Invalid
<1>3. ASSUME NEW f
      PROVE  /\ Meter!Analysis(<<f>>).kind \in {"invalid", "panic", "zero", "value"}
             /\ Meter!Analysis(<<f>>).kind = "value" => Meter!Analysis(<<f>>).of = f.point
  <2> DEFINE s == <<f>>
  <2>1. DOMAIN s = {1} /\ s[1] = f
    OBVIOUS
  <2>2. bodies(s) \in {{}, {1}}
    BY <2>1
  <2>3. CASE bodies(s) = {}
    BY <2>3 DEF Meter!Analysis, Meter!Panics, Meter!Invalid
  <2>4. CASE bodies(s) = {1}
    <3>1. Meter!Min({1}) = 1
      BY DEF Meter!Min
    <3>2. Meter!Analysis(s).kind \in {"invalid", "panic", "zero", "value"}
          /\ (Meter!Analysis(s).kind = "value" => Meter!Analysis(s).of = s[1].point)
      BY <2>4, <3>1 DEF Meter!Analysis, Meter!Zero, Meter!Invalid, Meter!Panics
    <3> QED BY <3>2, <2>1
  <2> QED BY <2>2, <2>3, <2>4
<1> QED BY <1>2, <1>3

\* The end of a read: the job goes to the next group, and a value is exported.
LEMMA DoneMoves ==
    ASSUME LineTypes, NEW r, Meter!Done(r)
    PROVE  /\ DOMAIN lineJob' = {"pc", "left", "meter", "i"} /\ lineJob'.pc = "groups"
           /\ r.kind # "value" => lineReport' = lineReport \/ lineReport'.kind # "value"
           /\ r.kind = "value" => lineReport' = [kind |-> "value", point |-> Meter!Asked, of |-> r.of]
<1>1. DOMAIN lineJob' = {"pc", "left", "meter", "i"} /\ lineJob'.pc = "groups"
  BY DEF Meter!Done, LineTypes
<1>2. CASE r.kind = "value"
  BY <1>1, <1>2 DEF Meter!Done
<1>3. CASE r.kind = "zero"
  BY <1>1, <1>3 DEF Meter!Done
<1>4. CASE r.kind \notin {"value", "zero"}
  BY <1>1, <1>4 DEF Meter!Done
<1> QED BY <1>2, <1>3, <1>4

LEMMA LineStep == LineInv /\ [Meter!Next]_lineVars => LineInv'
<1> SUFFICES ASSUME LineInv, [Meter!Next]_lineVars PROVE LineInv'
  OBVIOUS
<1>i. LineTypes /\ EmptyInv /\ ClosingInv /\ Meter!WrongOnlyAfterLate /\ Meter!PortStaysClosed
  BY DEF LineInv
<1>t. /\ line \in Lines /\ lineClosing \in {"no", "flag", "task", "port"} /\ lineLate \in Nat
      /\ DOMAIN lineJob = {"pc", "left", "meter", "i"}
  BY <1>i DEF LineTypes
\* A step of the job that asks for nothing, or the end of a read that exports nothing new.
<1>m. ASSUME UNCHANGED <<line, lineClose, lineClosing, lineCrossed>>,
             lineStage' = lineStage \/ lineStage' # "new",
             DOMAIN lineJob' = {"pc", "left", "meter", "i"},
             lineJob'.pc = "ask" => lineJob.pc = "ask" \/ ~lineClose,
             lineLate' \in Nat, lineLate <= lineLate',
             lineLate' = 0 => waiting' = <<>>,
             lineReport' = lineReport \/ lineLate' > 0 \/ lineReport'.kind # "value"
                                      \/ lineReport'.of = lineReport'.point,
             lineClosing = "port" /\ port' => line.auto /\ lineCrossed
      PROVE  LineInv'
  <2>1. LineTypes'
    BY <1>m, <1>t DEF LineTypes
  <2>2. EmptyInv' /\ ClosingInv'
    BY <1>m, <1>i DEF EmptyInv, ClosingInv
  <2>3. Meter!WrongOnlyAfterLate' /\ Meter!PortStaysClosed'
    BY <1>m, <1>i, <1>t DEF Meter!WrongOnlyAfterLate, Meter!PortStaysClosed
  <2> QED BY <2>1, <2>2, <2>3 DEF LineInv
<1>p. lineClosing = "port" /\ port => line.auto /\ lineCrossed
  BY <1>i DEF Meter!PortStaysClosed
<1>e. lineLate = 0 => waiting = <<>>
  BY <1>i DEF EmptyInv
<1>0. CASE UNCHANGED lineVars
  BY <1>0, <1>m, <1>p, <1>e, <1>t DEF lineVars
<1>1. CASE Meter!Start
  <2>1. /\ lineStage = "new" /\ lineStage' # "new"
        /\ UNCHANGED <<line, lineJob, lineClose, lineClosing, lineCrossed, waiting, lineReport, lineLate>>
    BY <1>1 DEF Meter!Start, Meter!ending
  <2>2. lineClosing = "no"
    BY <2>1, <1>i DEF ClosingInv
  <2> QED BY <2>1, <2>2, <1>m, <1>e, <1>t
<1>2. CASE Meter!JobBegin \/ Meter!NextMeter \/ Meter!NextGroup \/ Meter!JobEnd
  <2>1. UNCHANGED <<line, lineStage, lineClose, lineClosing, lineCrossed, port, waiting, lineLate, lineReport>>
    BY <1>2 DEF Meter!JobBegin, Meter!NextMeter, Meter!NextGroup, Meter!JobEnd, Meter!setup, Meter!ending,
                Meter!wire
  <2>2. DOMAIN lineJob' = {"pc", "left", "meter", "i"} /\ (lineJob'.pc = "ask" => ~lineClose)
    <3>1. CASE Meter!JobBegin
      BY <3>1 DEF Meter!JobBegin, Meter!NoJob
    <3>2. CASE Meter!NextMeter
      BY <3>2 DEF Meter!NextMeter
    <3>3. CASE Meter!NextGroup
      <4> DEFINE Walk == lineJob' = [lineJob EXCEPT !.pc = "walk"]
                 Asks == \E n : lineJob' = [lineJob EXCEPT !.pc = "ask", !.i = n]
      <4>1. Walk => DOMAIN lineJob' = {"pc", "left", "meter", "i"} /\ lineJob'.pc = "walk"
        BY <1>t
      <4>2. Asks => DOMAIN lineJob' = {"pc", "left", "meter", "i"}
        BY <1>t
      <4>3. Walk \/ (~lineClose /\ Asks)
        BY <3>3, Zenon DEF Meter!NextGroup
      <4> HIDE DEF Walk, Asks
      <4> QED BY <4>1, <4>2, <4>3
    <3>4. CASE Meter!JobEnd
      BY <3>4 DEF Meter!JobEnd, Meter!NoJob
    <3> QED BY <1>2, <3>1, <3>2, <3>3, <3>4
  <2> QED BY <2>1, <2>2, <1>m, <1>p, <1>e, <1>t
<1>3. CASE Meter!Pass \/ Meter!Command
  <2>1. UNCHANGED <<line, lineStage, lineJob, lineClose, lineClosing, lineCrossed, port, waiting, lineLate,
                    lineReport>>
    BY <1>3 DEF Meter!Pass, Meter!Command, Meter!setup, Meter!ending, Meter!wire
  <2> QED BY <2>1, <1>m, <1>p, <1>e, <1>t
<1>4. CASE Meter!Simulate \/ Meter!NoPort
  <2>1. /\ UNCHANGED <<line, lineStage, lineClose, lineClosing, lineCrossed, port, waiting, lineLate>>
        /\ \E r : Meter!Done(r) /\ r.kind # "value"
    BY <1>4 DEF Meter!Simulate, Meter!NoPort, Meter!setup, Meter!ending, Meter!wire, Meter!Zero, Meter!Invalid
  <2>2. /\ DOMAIN lineJob' = {"pc", "left", "meter", "i"} /\ lineJob'.pc = "groups"
        /\ lineReport' = lineReport \/ lineReport'.kind # "value"
    BY <2>1, <1>i, DoneMoves
  <2> QED BY <2>1, <2>2, <1>m, <1>p, <1>e, <1>t
<1>5. CASE Meter!WriteFails
  <2>1. /\ UNCHANGED <<line, lineStage, lineClose, lineClosing, lineCrossed, lineLate>>
        /\ ~port' /\ waiting' = <<>> /\ Meter!Done(Meter!Invalid) /\ Meter!Invalid.kind # "value"
    BY <1>5 DEF Meter!WriteFails, Meter!setup, Meter!ending, Meter!Invalid
  <2>2. /\ DOMAIN lineJob' = {"pc", "left", "meter", "i"} /\ lineJob'.pc = "groups"
        /\ lineReport' = lineReport \/ lineReport'.kind # "value"
    BY <2>1, <1>i, DoneMoves
  <2> QED BY <2>1, <2>2, <1>m, <1>t
<1>6. CASE Meter!Exchange
  <2> DEFINE old == IF port THEN waiting ELSE <<>>
  <2>1. /\ UNCHANGED <<line, lineStage, lineClose, lineClosing, lineCrossed>>
        /\ lineJob.pc = "ask" /\ (port \/ line.auto)
        /\ \/ \E f \in Meter!Frames(Meter!Asked) :
                 Meter!Done(Meter!Analysis(old \o <<f>>)) /\ waiting' = <<>> /\ UNCHANGED lineLate
           \/ Meter!Done(Meter!Analysis(old)) /\ waiting' = <<>> /\ UNCHANGED lineLate
           \/ lineLate' = lineLate + 1 /\ Meter!Done(Meter!Analysis(old))
    BY <1>6 DEF Meter!Exchange, Meter!setup, Meter!ending
  <2>2. lineLate = 0 => old = <<>>
    BY <1>e
  <2> HIDE DEF old
  <2>3. \E r : Meter!Done(r)
    BY <2>1
  <2>4. DOMAIN lineJob' = {"pc", "left", "meter", "i"} /\ lineJob'.pc = "groups"
    BY <2>3, <1>i, DoneMoves
  <2>5. lineLate' \in Nat /\ lineLate <= lineLate' /\ (lineLate' = 0 => lineLate = 0 /\ waiting' = <<>>)
    <3>1. (waiting' = <<>> /\ lineLate' = lineLate) \/ lineLate' = lineLate + 1
      BY <2>1, Zenon
    <3> QED BY <3>1, <1>t
  <2>6. lineClosing = "port" => line.auto /\ lineCrossed
    BY <2>1, <1>p, <1>i DEF ClosingInv
  <2>7. lineReport' = lineReport \/ lineLate' > 0 \/ lineReport'.kind # "value"
                                 \/ lineReport'.of = lineReport'.point
    <3>1. SUFFICES ASSUME lineLate' = 0 
          PROVE  lineReport' = lineReport \/ lineReport'.kind # "value" \/ lineReport'.of = lineReport'.point
      BY <3>1, <2>5
    <3>2. lineLate = 0 /\ old = <<>>
      BY <3>1, <2>5, <2>2
    <3>3. CASE Meter!Done(Meter!Analysis(<<>>))
      <4>1. Meter!Analysis(<<>>).kind # "value"
        BY OneFrame
      <4> QED BY <3>3, <4>1, <1>i, DoneMoves
    <3>4. ASSUME NEW f \in Meter!Frames(Meter!Asked), Meter!Done(Meter!Analysis(<<f>>))
          PROVE  lineReport' = lineReport \/ lineReport'.kind # "value" \/ lineReport'.of = lineReport'.point
      <4>1. f.point = Meter!Asked
        BY <3>4 DEF Meter!Frames
      <4>2. Meter!Analysis(<<f>>).kind = "value" => Meter!Analysis(<<f>>).of = Meter!Asked
        BY <4>1, OneFrame
      <4>3. /\ Meter!Analysis(<<f>>).kind # "value" => lineReport' = lineReport \/ lineReport'.kind # "value"
            /\ Meter!Analysis(<<f>>).kind = "value" =>
                  lineReport' = [kind |-> "value", point |-> Meter!Asked, of |-> Meter!Analysis(<<f>>).of]
        BY <3>4, <1>i, DoneMoves
      <4> QED BY <4>2, <4>3
    <3>5. \A f : <<>> \o <<f>> = <<f>>
      OBVIOUS
    <3>6. lineLate' # lineLate + 1
      BY <3>1, <3>2
    <3> QED BY <2>1, <3>2, <3>3, <3>4, <3>5, <3>6
  <2> QED BY <2>1, <2>4, <2>5, <2>6, <2>7, <1>m, <1>t
<1>7. CASE Meter!Close
  <2>1. /\ UNCHANGED <<line, lineStage, lineJob, lineLate, lineReport>> /\ lineStage = "run"
        /\ \/ lineClosing = "no" /\ lineClosing' = "flag" /\ lineClose' = TRUE
                 /\ lineCrossed' = (lineJob.pc = "ask") /\ waiting' = waiting
           \/ lineClosing = "flag" /\ lineClosing' = "task" /\ UNCHANGED <<lineClose, lineCrossed, waiting>>
           \/ /\ lineClosing = "task" /\ lineClosing' = "port" /\ port' = FALSE /\ waiting' = <<>>
              /\ UNCHANGED <<lineClose, lineCrossed>>
    BY <1>7 DEF Meter!Close, Meter!setup, Meter!Running
  <2>2. LineTypes' /\ EmptyInv'
    BY <2>1, <1>t, <1>e DEF LineTypes, EmptyInv
  <2>3. ClosingInv'
    BY <2>1, <1>i DEF ClosingInv
  <2>4. Meter!WrongOnlyAfterLate' /\ Meter!PortStaysClosed'
    BY <2>1, <1>i DEF Meter!WrongOnlyAfterLate, Meter!PortStaysClosed
  <2> QED BY <2>2, <2>3, <2>4 DEF LineInv
<1> QED BY <1>0, <1>1, <1>2, <1>3, <1>4, <1>5, <1>6, <1>7 DEF Meter!Next, lineVars

-----------------------------------------------------------------------------
(***************************************************************************)
(* A controller                                                            *)
(***************************************************************************)
\* A nonempty set of numbers has a least one.
LEMMA LeastNat ==
    ASSUME NEW S \in SUBSET Nat, S # {}
    PROVE  \E x \in S : \A y \in S : x <= y
<1>1. IsWellFoundedOn(OpToRel(<, Nat), Nat)
  BY NatLessThanWellFounded, Zenon
<1> DEFINE R == OpToRel(<, Nat)
<1>2. \A x, y \in Nat : y < x => <<y, x>> \in R
  BY DEF OpToRel
<1> HIDE DEF R
<1>3. PICK x \in S : \A y \in S : <<y, x>> \notin R
  BY <1>1, WFMin, Zenon DEF R
<1>4. \A y \in S : ~(y < x)
  <2> TAKE y \in S
  <2>1. x \in Nat /\ y \in Nat
    OBVIOUS
  <2> QED BY <1>2, <1>3, <2>1, Zenon
<1>5. \A y \in S : x <= y
  <2> TAKE y \in S
  <2>1. x \in Nat /\ y \in Nat /\ ~(y < x)
    BY <1>4
  <2> QED BY <2>1
<1> QED BY <1>3, <1>5, Zenon

\* A nonempty set of indexes has a greatest one.
LEMMA GreatestIndex ==
    ASSUME NEW n \in Nat, NEW S \in SUBSET (1 .. n), S # {}
    PROVE  \E x \in S : \A y \in S : x >= y
<1> DEFINE T == {n - x : x \in S}
<1>1. T \in SUBSET Nat /\ T # {}
  <2>1. \A x \in S : x \in 1 .. n
    OBVIOUS
  <2>2. \A x \in S : n - x \in Nat
    BY <2>1
  <2> QED BY <2>2
<1>2. PICK t \in T : \A u \in T : t <= u
  <2> HIDE DEF T
  <2> QED BY <1>1, LeastNat, Zenon
<1>3. PICK x \in S : t = n - x
  BY <1>2
<1>4. \A y \in S : n - x <= n - y
  BY <1>2, <1>3
<1> QED BY <1>3, <1>4

-----------------------------------------------------------------------------
(***************************************************************************)
(* A controller                                                            *)
(***************************************************************************)

\* A loop that leaves nothing out returns what it was given, ...
LEMMA KeptAll ==
    ASSUME NEW T, NEW s \in Seq(T), NEW keep, \A i \in 1 .. Len(s) : s[i] \in keep
    PROVE  Plc!Kept(s, keep) = s
<1> DEFINE N == 0 .. Len(s)
           Next1(f) == [n \in N |-> IF n = 0 THEN <<>>
                                    ELSE IF s[n] \in keep THEN Append(f[n - 1], s[n]) ELSE f[n - 1]]
           g == [n \in N |-> SubSeq(s, 1, n)]
           h == CHOOSE f : f = Next1(f)
<1>1. Len(s) \in Nat /\ Plc!Kept(s, keep) = h[Len(s)]
  BY DEF Plc!Kept
<1>2. \A n \in 1 .. Len(s) : Append(SubSeq(s, 1, n - 1), s[n]) = SubSeq(s, 1, n)
  OBVIOUS
<1>3. SubSeq(s, 1, 0) = <<>> /\ SubSeq(s, 1, Len(s)) = s
  OBVIOUS
<1>4. \A n \in N : g[n] = Next1(g)[n]
  <2> TAKE n \in N
  <2>1. CASE n = 0
    BY <2>1, <1>3
  <2>2. CASE n # 0
    <3>1. n \in 1 .. Len(s) /\ n - 1 \in N
      BY <1>1, <2>2
    <3>2. g[n - 1] = SubSeq(s, 1, n - 1) /\ g[n] = SubSeq(s, 1, n)
      BY <3>1
    <3>3. Next1(g)[n] = Append(g[n - 1], s[n])
      BY <3>1
    <3> QED BY <3>1, <3>2, <3>3, <1>2
  <2> QED BY <2>1, <2>2
<1>5. g = Next1(g)
  BY <1>4
<1>6. h = Next1(h)
  <2> HIDE DEF g, Next1
  <2> QED BY <1>5, Zenon
<1>7. \A n \in N : h[n] = Next1(h)[n]
  <2> HIDE DEF Next1, h
  <2> QED BY <1>6, Zenon
<1> DEFINE D == {n \in N : h[n] # g[n]}
<1>8. D = {}
  <2> SUFFICES ASSUME D # {} PROVE FALSE
    OBVIOUS
  <2> HIDE DEF h, g
  <2>1. D \in SUBSET Nat
    OBVIOUS
  <2>2. PICK n \in D : \A m \in D : n <= m
    <3> HIDE DEF D
    <3> QED BY <2>1, LeastNat, Zenon
  <2>3. n \in N /\ h[n] # g[n]
    BY <2>2
  <2>4. h[n] = Next1(h)[n] /\ g[n] = Next1(g)[n]
    <3> HIDE DEF Next1
    <3> QED BY <1>4, <1>7, <2>3
  <2>5. n # 0
    BY <2>3, <2>4
  <2>6. n - 1 \in N /\ n - 1 \notin D
    BY <1>1, <2>2, <2>3, <2>5
  <2>7. h[n - 1] = g[n - 1]
    BY <2>6
  <2>8. Next1(h)[n] = Next1(g)[n]
    BY <2>3, <2>5, <2>7
  <2> QED BY <2>3, <2>4, <2>8
<1>9. h[Len(s)] = g[Len(s)]
  <2> HIDE DEF h, g
  <2> QED BY <1>1, <1>8
<1> QED BY <1>1, <1>3, <1>9

\* ... and of one element nothing or itself.
LEMMA KeptOne ==
    ASSUME NEW v, NEW keep
    PROVE  Plc!Kept(<<v>>, keep) = (IF v \in keep THEN <<v>> ELSE <<>>)
<1> DEFINE s == <<v>>
           Next1(f) == [n \in 0 .. Len(s) |-> IF n = 0 THEN <<>>
                                    ELSE IF s[n] \in keep THEN Append(f[n - 1], s[n]) ELSE f[n - 1]]
           g == [n \in {0, 1} |-> IF n = 0 THEN <<>> ELSE IF v \in keep THEN <<v>> ELSE <<>>]
           h == CHOOSE f : f = Next1(f)
<1>1. Len(s) = 1 /\ s[1] = v /\ 0 .. Len(s) = {0, 1} /\ Append(<<>>, v) = <<v>>
  OBVIOUS
<1>2. Plc!Kept(s, keep) = h[1]
  BY <1>1 DEF Plc!Kept
<1>3. g = Next1(g)
  <2>1. g[0] = <<>> /\ g[1] = (IF v \in keep THEN <<v>> ELSE <<>>)
    OBVIOUS
  <2> DEFINE e(n) == IF n = 0 THEN <<>> ELSE IF s[n] \in keep THEN Append(g[n - 1], s[n]) ELSE g[n - 1]
  <2>2. e(0) = <<>> /\ e(1) = (IF v \in keep THEN <<v>> ELSE <<>>)
    <3> HIDE DEF g, s
    <3>1. e(0) = <<>>
      OBVIOUS
    <3>2. 1 - 1 = 0 /\ 1 # 0
      OBVIOUS
    <3>3. e(1) = IF s[1] \in keep THEN Append(g[0], s[1]) ELSE g[0]
      BY <3>2, Zenon
    <3> QED BY <3>1, <3>3, <1>1, <2>1, Zenon
  <2>3. Next1(g) = [n \in 0 .. Len(s) |-> e(n)]
    OBVIOUS
  <2>4. g = [n \in {0, 1} |-> g[n]]
    OBVIOUS
  <2> HIDE DEF g, s, e, Next1
  <2> QED BY <1>1, <2>1, <2>2, <2>3, <2>4
<1>4. h = Next1(h)
  <2> HIDE DEF g, Next1
  <2> QED BY <1>3, Zenon
<1>5. \A n \in {0, 1} : h[n] = Next1(h)[n]
  <2> HIDE DEF Next1, h
  <2> QED BY <1>4, Zenon
<1> DEFINE e(n) == IF n = 0 THEN <<>> ELSE IF s[n] \in keep THEN Append(h[n - 1], s[n]) ELSE h[n - 1]
<1>6. \A n \in {0, 1} : h[n] = e(n)
  <2>1. Next1(h) = [n \in 0 .. Len(s) |-> e(n)]
    OBVIOUS
  <2> HIDE DEF h, s, e, Next1
  <2> QED BY <1>1, <1>5, <2>1
<1>7. h[1] = IF v \in keep THEN Append(<<>>, v) ELSE <<>>
  <2> HIDE DEF h, s
  <2>1. h[0] = <<>>
    BY <1>6
  <2>2. 1 - 1 = 0 /\ 1 # 0
    OBVIOUS
  <2>3. h[1] = IF s[1] \in keep THEN Append(h[0], s[1]) ELSE h[0]
    BY <1>6, <2>2, Zenon
  <2> QED BY <1>1, <2>1, <2>3, Zenon
<1> QED BY <1>1, <1>2, <1>7, Zenon

\* A point holds its name, has a node of its own, and is one of the configured points.
NodesOK ==
    /\ \A n \in DOMAIN nodes : /\ nodes[n].name = n
                               /\ nodes[n].node \in Octets \X Nat
    /\ IsFiniteSet({nodes[n] : n \in DOMAIN nodes})

LEMMA NodesFacts ==
    ASSUME conn \in Connections, nodes = Plc!Nodes(conn.points)
    PROVE  NodesOK
<1> DEFINE points == conn.points
           named == {i \in DOMAIN points : points[i].address}
           of(name) == {i \in named : points[i].name = name}
           S == {points[i] : i \in DOMAIN points}
<1>1. /\ points \in Seq(S) /\ Len(points) \in Nat /\ DOMAIN points = 1 .. Len(points)
      /\ \A i \in DOMAIN points : points[i].node \in Octets \X Nat
  <2>1. points \in Seq(S) /\ \A i \in DOMAIN points : points[i].node \in Octets \X Nat
    BY ConnectionsAreConfigured, Zenon
  <2> HIDE DEF S, points
  <2> QED BY <2>1
<1>2. nodes = [name \in {points[i].name : i \in named} |-> points[Plc!Max(of(name))]]
  BY DEF Plc!Nodes
<1>3. ASSUME NEW n \in DOMAIN nodes
      PROVE  Plc!Max(of(n)) \in of(n)
  <2>1. PICK i \in named : points[i].name = n
    BY <1>2
  <2>2. of(n) # {} /\ of(n) \in SUBSET (1 .. Len(points))
    BY <2>1, <1>1
  <2> HIDE DEF of, points
  <2>3. \E x \in of(n) : \A y \in of(n) : x >= y
    BY <1>1, <2>2, GreatestIndex
  <2> QED BY <2>3 DEF Plc!Max
<1>4. \A n \in DOMAIN nodes : nodes[n] = points[Plc!Max(of(n))]
  <2> HIDE DEF of
  <2> QED BY <1>2
<1>5. \A n \in DOMAIN nodes : nodes[n].name = n /\ nodes[n] \in S
                              /\ nodes[n].node \in Octets \X Nat
  <2> TAKE n \in DOMAIN nodes
  <2>1. PICK i \in DOMAIN points : points[i].name = n /\ nodes[n] = points[i]
    BY <1>3, <1>4
  <2> QED BY <1>1, <2>1
<1>6. IsFiniteSet(S)
  <2>1. \A x \in S : \E i \in 1 .. Len(points) : points[i] = x
    BY <1>1
  <2> HIDE DEF S, points
  <2> QED BY <1>1, <2>1 DEF IsFiniteSet
<1>7. {nodes[n] : n \in DOMAIN nodes} \subseteq S
  BY <1>5
<1>8. IsFiniteSet({nodes[n] : n \in DOMAIN nodes})
  <2> HIDE DEF S
  <2> QED BY <1>6, <1>7, FS_Subset
<1> QED BY <1>5, <1>8 DEF NodesOK

\* The orders the map of nodes may be walked in.
Orders == Plc!Bijection(1 .. Plc!Cardinality(Plc!Range(nodes)), Plc!Range(nodes))

\* Whatever the order and the failures, a value is reported for the node it was read from.
LEMMA ReportOK ==
    ASSUME NodesOK, conn.kind = "s7" \/ \A n \in DOMAIN nodes : nodes[n].known,
           NEW order \in Orders, NEW failing,
           NEW name \in DOMAIN Plc!Report(order, failing)
    PROVE  name \in DOMAIN nodes /\ Plc!Report(order, failing)[name] = nodes[name].node
<1> DEFINE S == {nodes[n] : n \in DOMAIN nodes}
<1>1. order \in [1 .. Cardinality(S) -> S] /\ Cardinality(S) \in Nat
  <2>1. Plc!Cardinality(S) = Cardinality(S)
    BY DEF Plc!Cardinality, Cardinality
  <2>2. order \in [1 .. Plc!Cardinality(S) -> S]
    BY DEF Orders, Plc!Bijection, Plc!Surjection, Plc!Range
  <2>3. Cardinality(S) \in Nat
    BY FS_CardinalityType DEF NodesOK
  <2> QED BY <2>1, <2>2, <2>3
<1>2. order \in Seq(S) /\ Len(order) \in Nat /\ DOMAIN order = 1 .. Len(order)
  <2> HIDE DEF S
  <2> QED BY <1>1
<1>3. \A i \in DOMAIN order : order[i] \in S
  BY <1>1
<1>4. CASE conn.kind = "s7"
  <2>1. Plc!Report(order, failing) =
            [m \in {n \in DOMAIN nodes : <<"name", n>> \in {<<"name", k>> : k \in DOMAIN Plc!ReadS7(order, failing)}}
                |-> Plc!ReadS7(order, failing)[m]]
    BY <1>4 DEF Plc!Report
  <2>2. name \in DOMAIN nodes /\ name \in DOMAIN Plc!ReadS7(order, failing)
        /\ Plc!Report(order, failing)[name] = Plc!ReadS7(order, failing)[name]
    BY <2>1
  <2> DEFINE pick(m) == CHOOSE n \in {order[i] : i \in DOMAIN order} : n.name = m
  <2>3. Plc!ReadS7(order, failing)[name] = pick(name).node
        /\ \E i \in DOMAIN order : order[i].name = name
    BY <2>2 DEF Plc!ReadS7
  <2>4. pick(name) \in S /\ pick(name).name = name
    <3>1. \E n \in {order[i] : i \in DOMAIN order} : n.name = name
      BY <2>3
    <3>2. pick(name) \in {order[i] : i \in DOMAIN order} /\ pick(name).name = name
      BY <3>1
    <3> HIDE DEF pick
    <3> QED BY <3>2, <1>3
  <2>5. pick(name) = nodes[name]
    <3> HIDE DEF pick
    <3> QED BY <2>4 DEF NodesOK
  <2> QED BY <2>2, <2>3, <2>5
<1>5. CASE conn.kind # "s7"
  <2> DEFINE good == {i \in DOMAIN order : order[i] \notin failing}
             best(id) == CHOOSE i \in good : order[i].node = id /\ \A j \in good : order[j].node = id => j <= i
             read == [id \in {order[i].node : i \in good} |-> order[best(id)].node]
  <2>1. Plc!Parsed(order) = order
    <3>1. \A i \in 1 .. Len(order) : order[i] \in {n \in Plc!Range(order) : n.known}
      <4> TAKE i \in 1 .. Len(order)
      <4>1. order[i] \in Plc!Range(order) /\ order[i] \in S
        BY <1>2, <1>3 DEF Plc!Range
      <4> QED BY <4>1, <1>5
    <3> HIDE DEF S
    <3> QED BY <3>1, <1>2, KeptAll DEF Plc!Parsed
  <2>2. Plc!ReadOpcua(order, failing) = read
    BY <2>1 DEF Plc!ReadOpcua
  <2>3. ASSUME NEW id \in DOMAIN read PROVE read[id] = id
    <3> DEFINE of == {i \in good : order[i].node = id}
    <3>1. of # {} /\ of \in SUBSET (1 .. Len(order))
      BY <1>2, <2>3
    <3>2. \E i \in of : \A j \in of : i >= j
      <4> HIDE DEF of
      <4> QED BY <3>1, <1>2, GreatestIndex
    <3>3. \E i \in good : order[i].node = id /\ \A j \in good : order[j].node = id => j <= i
      <4>1. PICK i \in of : \A j \in of : i >= j
        BY <3>2
      <4>2. i \in Nat /\ \A j \in of : j \in Nat
        BY <3>1, <1>2
      <4> QED BY <4>1, <4>2
    <3>4. order[best(id)].node = id
      <4> HIDE DEF good
      <4> QED BY <3>3
    <3> HIDE DEF best
    <3> QED BY <3>4, <2>3
  <2> HIDE DEF read
  <2>4. Plc!Report(order, failing) =
            [m \in {n \in DOMAIN nodes : <<"id", nodes[n].node>> \in {<<"id", k>> : k \in DOMAIN read}}
                |-> read[<<"id", nodes[m].node>>[2]]]
    BY <1>5, <2>2 DEF Plc!Report
  <2>5. name \in DOMAIN nodes /\ nodes[name].node \in DOMAIN read
        /\ Plc!Report(order, failing)[name] = read[nodes[name].node]
    BY <2>4
  <2> QED BY <2>3, <2>5
<1> QED BY <1>4, <1>5

PlcTypes ==
    /\ conn \in Connections
    /\ DOMAIN memory = Octets
    /\ raced \in [Commander -> BOOLEAN]
    /\ plcPool \in {"new", "pool", "lost"}
    /\ nodes = <<>> \/ nodes = Plc!Nodes(conn.points)
    /\ plcPool = "new" => plcReport = <<>> /\ plcJob = "idle"

\* A command has at most one write, of a point with a node.
CommandType(c) ==
    /\ DOMAIN command[c] = {"pc", "writes", "buffer"}
    /\ plcPool = "new" => command[c].pc = "idle" /\ command[c].writes = <<>>
    /\ command[c].writes = <<>> \/ \E v : command[c].writes = <<v>> /\ v.name \in DOMAIN nodes
    /\ command[c].pc = "write" => command[c].writes # <<>>

\* Whoever reads or writes octets has the mutex, and what it puts back is what is there, unless
\* the controller has been quicker.
MutexInv(c) ==
    /\ command[c].pc \in {"read", "write"} => owner = c
    /\ command[c].pc = "write" /\ ~raced[c] => command[c].buffer = memory[Plc!Target(c).node[1]]

CommandInv ==
    /\ DOMAIN command = Commander
    /\ plcJob = "read" => owner = "job"
    /\ \A c \in Commander : CommandType(c) /\ MutexInv(c)

PlcInv == PlcTypes /\ CommandInv /\ Plc!ReportsAreOfTheirNode

LEMMA PlcInit == Plc!Init => PlcInv
<1> SUFFICES ASSUME Plc!Init PROVE PlcInv
  OBVIOUS
<1>1. /\ conn \in Connections /\ nodes = <<>> /\ plcPool = "new" /\ plcReport = <<>> /\ plcJob = "idle"
      /\ raced = [c \in Commander |-> FALSE] /\ DOMAIN memory = Octets
      /\ command = [c \in Commander |-> [pc |-> "idle", writes |-> <<>>, buffer |-> {}]]
  BY DEF Plc!Init, Plc!NoCaller
<1>2. ASSUME NEW c \in Commander PROVE CommandType(c) /\ MutexInv(c)
  <2>1. command[c] = [pc |-> "idle", writes |-> <<>>, buffer |-> {}]
    BY <1>1
  <2> QED BY <2>1 DEF CommandType, MutexInv
<1>3. CommandInv
  BY <1>1, <1>2 DEF CommandInv
<1> QED BY <1>1, <1>3 DEF PlcInv, PlcTypes, Plc!ReportsAreOfTheirNode

\* The nodes are what the loop made of the configured points, or none yet.
LEMMA PlcNodes == PlcTypes => NodesOK
<1>1. IsFiniteSet({})
  BY FS_EmptySet
<1>2. ASSUME nodes = <<>> PROVE NodesOK
  <2>1. DOMAIN nodes = {}
    BY <1>2
  <2>2. {nodes[n] : n \in DOMAIN nodes} = {}
    BY <2>1
  <2> QED BY <1>1, <2>1, <2>2 DEF NodesOK
<1> QED BY <1>2, NodesFacts DEF PlcTypes

\* A command is encoded to the write of a point that has a node, or to nothing.
LEMMA EncodeOne ==
    ASSUME NEW v
    PROVE  Plc!Encode(<<v>>) = <<>> \/ (Plc!Encode(<<v>>) = <<v>> /\ v.name \in DOMAIN nodes)
<1> DEFINE keep == {w \in Plc!Range(<<v>>) : w.name \in DOMAIN nodes /\ nodes[w.name].writeable}
<1>1. Plc!Encode(<<v>>) = Plc!Kept(<<v>>, keep)
  BY DEF Plc!Encode
<1>2. v \in keep => v.name \in DOMAIN nodes
  OBVIOUS
<1> HIDE DEF keep
<1> QED BY <1>1, <1>2, KeptOne

\* What is written next is a node.
LEMMA WriteTarget ==
    ASSUME PlcTypes, NEW c \in Commander, CommandType(c), command[c].pc = "write"
    PROVE  Plc!Target(c) \in {nodes[n] : n \in DOMAIN nodes} /\ Plc!Target(c).node \in Octets \X Nat
           /\ Plc!Target(c).node[1] \in Octets
<1>1. PICK v : command[c].writes = <<v>> /\ v.name \in DOMAIN nodes
  BY DEF CommandType
<1>2. Plc!Target(c) = nodes[v.name]
  BY <1>1 DEF Plc!Target
<1>3. NodesOK
  BY PlcNodes
<1>4. Plc!Target(c).node \in Octets \X Nat
  BY <1>1, <1>2, <1>3 DEF NodesOK
<1> QED BY <1>1, <1>2, <1>4

\* Nothing that a command depends on changes.
LEMMA CommandsStay ==
    ASSUME CommandInv, UNCHANGED <<nodes, command, memory, raced>>,
           plcPool' = "new" => plcPool = "new",
           plcJob' = "read" => owner' = "job",
           owner' = owner \/ owner \notin Commander
    PROVE  CommandInv'
<1>1. ASSUME NEW c \in Commander PROVE CommandType(c)' /\ MutexInv(c)'
  <2>1. CommandType(c) /\ MutexInv(c)
    BY DEF CommandInv
  <2>2. CommandType(c)'
    BY <2>1 DEF CommandType
  <2>3. MutexInv(c)'
    BY <2>1 DEF MutexInv, Plc!Target
  <2> QED BY <2>2, <2>3
<1> QED BY <1>1 DEF CommandInv

\* A step of one command: the pool, the nodes and the report stay, and the others are kept off by
\* the mutex.
LEMMA CommandMoves ==
    ASSUME PlcInv, NEW c \in Commander, NEW x, command' = [command EXCEPT ![c] = x],
           UNCHANGED <<conn, nodes, plcPool, plcJob, plcReport>>, plcPool # "new",
           DOMAIN memory' = Octets, memory' = memory \/ owner = c,
           raced' \in [Commander -> BOOLEAN], \A d \in Commander \ {c} : raced'[d] = raced[d],
           owner' = owner \/ owner = c \/ owner = "none",
           DOMAIN x = {"pc", "writes", "buffer"},
           x.writes = <<>> \/ \E v : x.writes = <<v>> /\ v.name \in DOMAIN nodes,
           x.pc \in {"read", "write"} => owner' = c,
           x.pc = "write" => x.writes # <<>>,
           x.pc = "write" /\ ~raced'[c] => x.buffer = memory'[nodes[Head(x.writes).name].node[1]]
    PROVE  PlcInv'
<1>i. PlcTypes /\ CommandInv /\ Plc!ReportsAreOfTheirNode
  BY DEF PlcInv
<1>n. "none" \notin Commander /\ "job" \notin Commander
  BY CommandersAreNamed
<1>1. /\ DOMAIN command' = Commander /\ command'[c] = x
      /\ \A d \in Commander \ {c} : command'[d] = command[d]
  BY <1>i DEF CommandInv
<1>2. CommandType(c)' /\ MutexInv(c)'
  <2>1. nodes' = nodes /\ plcPool' # "new"
    OBVIOUS
  <2>2. CommandType(c)'
    BY <1>1, <2>1 DEF CommandType
  <2>3. MutexInv(c)'
    BY <1>1, <2>1 DEF MutexInv, Plc!Target
  <2> QED BY <2>2, <2>3
<1>3. ASSUME NEW d \in Commander \ {c} PROVE CommandType(d)' /\ MutexInv(d)'
  <2>1. CommandType(d) /\ MutexInv(d) /\ command'[d] = command[d] /\ raced'[d] = raced[d]
    BY <1>1, <1>i DEF CommandInv
  <2>2. command[d].pc \in {"read", "write"} => owner = d /\ owner' = d /\ memory' = memory
    BY <1>n, <2>1 DEF MutexInv
  <2>3. CommandType(d)'
    BY <2>1 DEF CommandType
  <2>4. MutexInv(d)'
    BY <2>1, <2>2 DEF MutexInv, Plc!Target
  <2> QED BY <2>3, <2>4
<1>4. plcJob' = "read" => owner' = "job"
  <2>1. plcJob = "read" => owner = "job"
    BY <1>i DEF CommandInv
  <2> QED BY <1>n, <2>1
<1>5. CommandInv'
  BY <1>1, <1>2, <1>3, <1>4 DEF CommandInv
<1>6. PlcTypes' /\ Plc!ReportsAreOfTheirNode'
  BY <1>i DEF PlcTypes, Plc!ReportsAreOfTheirNode
<1> QED BY <1>5, <1>6 DEF PlcInv

LEMMA PlcCommand ==
    ASSUME PlcInv, NEW c \in Commander,
           Plc!Command(c) \/ Plc!SendLock(c) \/ Plc!SendEnd(c) \/ Plc!Release(c)
    PROVE  PlcInv'
<1>i. PlcTypes /\ CommandInv
  BY DEF PlcInv
<1>c. CommandType(c) /\ MutexInv(c) /\ DOMAIN command = Commander
  BY <1>i DEF CommandInv
<1>t. DOMAIN memory = Octets /\ raced \in [Commander -> BOOLEAN]
  BY <1>i DEF PlcTypes
<1>1. CASE Plc!Command(c)
  <2>1. /\ UNCHANGED <<conn, nodes, plcPool, plcJob, plcReport, memory, raced, owner>> /\ plcPool = "pool"
        /\ \E v : Plc!Become(c, [Plc!NoCaller EXCEPT !.pc = "send", !.writes = Plc!Encode(<<v>>)])
    BY <1>1 DEF Plc!Command, Plc!setup, Plc!collecting
  <2>2. PICK v : Plc!Become(c, [Plc!NoCaller EXCEPT !.pc = "send", !.writes = Plc!Encode(<<v>>)])
    BY <2>1
  <2> DEFINE x == [Plc!NoCaller EXCEPT !.pc = "send", !.writes = Plc!Encode(<<v>>)]
  <2>3. DOMAIN x = {"pc", "writes", "buffer"} /\ x.pc = "send" /\ x.writes = Plc!Encode(<<v>>)
    BY DEF Plc!NoCaller
  <2>4. command' = [command EXCEPT ![c] = x]
    BY <2>2 DEF Plc!Become
  <2> HIDE DEF x
  <2>5. x.writes = <<>> \/ (x.writes = <<v>> /\ v.name \in DOMAIN nodes)
    BY <2>3, EncodeOne
  <2> QED BY <2>1, <2>3, <2>4, <2>5, <1>t, CommandMoves
<1>2. CASE Plc!SendLock(c) \/ Plc!SendEnd(c)
  <2>1. /\ UNCHANGED <<conn, nodes, plcPool, plcJob, plcReport, memory, raced>> /\ command[c].pc \in {"send", "read"}
        /\ \E p \in {"read", "release"} :
              /\ command' = [command EXCEPT ![c] = [command[c] EXCEPT !.pc = p]]
              /\ p = "read" => owner = "none" /\ owner' = c
              /\ p = "release" => command[c].pc = "read"
    BY <1>2 DEF Plc!SendLock, Plc!SendEnd, Plc!At, Plc!Become, Plc!setup, Plc!collecting
  <2>2. PICK p \in {"read", "release"} :
              /\ command' = [command EXCEPT ![c] = [command[c] EXCEPT !.pc = p]]
              /\ p = "read" => owner = "none" /\ owner' = c
              /\ p = "release" => command[c].pc = "read"
    BY <2>1
  <2> DEFINE x == [command[c] EXCEPT !.pc = p]
  <2>3. DOMAIN x = {"pc", "writes", "buffer"} /\ x.pc = p /\ x.writes = command[c].writes
    BY <1>c DEF CommandType
  <2>4. owner = c \/ owner = "none"
    BY <2>2, <1>c DEF MutexInv
  <2>5. command' = [command EXCEPT ![c] = x] /\ plcPool # "new"
    BY <2>1, <2>2, <1>c DEF CommandType
  <2>6. x.writes = <<>> \/ \E v : x.writes = <<v>> /\ v.name \in DOMAIN nodes
    BY <2>3, <1>c DEF CommandType
  <2> HIDE DEF x
  <2>7. x.pc # "write" /\ (x.pc \in {"read", "write"} => owner' = c)
    BY <2>2, <2>3
  <2> QED BY <2>1, <2>3, <2>4, <2>5, <2>6, <2>7, <1>t, CommandMoves
<1>3. CASE Plc!Release(c)
  <2> DEFINE x == [pc |-> "idle", writes |-> <<>>, buffer |-> {}]
  <2>1. /\ UNCHANGED <<conn, nodes, plcPool, plcJob, plcReport, memory, raced, owner>> /\ command[c].pc = "release"
        /\ command' = [command EXCEPT ![c] = x]
    BY <1>3 DEF Plc!Release, Plc!At, Plc!Become, Plc!setup, Plc!collecting, Plc!NoCaller
  <2>2. plcPool # "new"
    BY <2>1, <1>c DEF CommandType
  <2>3. DOMAIN x = {"pc", "writes", "buffer"} /\ x.pc = "idle" /\ x.writes = <<>>
    OBVIOUS
  <2> HIDE DEF x
  <2> QED BY <2>1, <2>2, <2>3, <1>t, CommandMoves
<1> QED BY <1>1, <1>2, <1>3

LEMMA PlcRead ==
    ASSUME PlcInv, NEW c \in Commander, Plc!ReadBytes(c)
    PROVE  PlcInv'
<1> DEFINE x == [command[c] EXCEPT !.pc = "write", !.buffer = memory[Plc!Target(c).node[1]]]
           y == [command[c] EXCEPT !.writes = Tail(command[c].writes)]
<1>i. PlcTypes /\ CommandInv
  BY DEF PlcInv
<1>c. CommandType(c) /\ MutexInv(c) /\ DOMAIN command = Commander
  BY <1>i DEF CommandInv
<1>t. DOMAIN memory = Octets /\ raced \in [Commander -> BOOLEAN]
  BY <1>i DEF PlcTypes
<1>1. /\ UNCHANGED <<conn, nodes, plcPool, plcJob, plcReport, memory, owner>> /\ command[c].pc = "read"
      /\ command[c].writes # <<>> /\ raced' = [raced EXCEPT ![c] = FALSE]
      /\ command' = [command EXCEPT ![c] = x] \/ command' = [command EXCEPT ![c] = y]
  BY DEF Plc!ReadBytes, Plc!At, Plc!Become, Plc!setup, Plc!collecting
<1>2. /\ raced' \in [Commander -> BOOLEAN] /\ \A d \in Commander \ {c} : raced'[d] = raced[d]
      /\ owner = c /\ plcPool # "new"
  BY <1>1, <1>t, <1>c DEF MutexInv, CommandType
<1>3. PICK v : command[c].writes = <<v>> /\ v.name \in DOMAIN nodes
  BY <1>1, <1>c DEF CommandType
<1>4. CASE command' = [command EXCEPT ![c] = x]
  <2>1. /\ DOMAIN x = {"pc", "writes", "buffer"} /\ x.writes = command[c].writes /\ x.pc = "write"
        /\ x.buffer = memory[nodes[Head(command[c].writes).name].node[1]]
    BY <1>c DEF CommandType, Plc!Target
  <2> HIDE DEF x
  <2>2. /\ x.writes # <<>> /\ \E w : x.writes = <<w>> /\ w.name \in DOMAIN nodes
    BY <1>3, <2>1
  <2> QED BY <1>1, <1>2, <1>4, <2>1, <2>2, <1>t, CommandMoves
<1>5. CASE command' = [command EXCEPT ![c] = y]
  <2>1. DOMAIN y = {"pc", "writes", "buffer"} /\ y.writes = Tail(command[c].writes) /\ y.pc = "read"
    BY <1>1, <1>c DEF CommandType
  <2>2. Tail(<<v>>) = <<>>
    OBVIOUS
  <2> HIDE DEF y
  <2>3. y.writes = <<>>
    BY <1>3, <2>1, <2>2
  <2> QED BY <1>1, <1>2, <1>5, <2>1, <2>3, <1>t, CommandMoves
<1> QED BY <1>1, <1>4, <1>5

LEMMA PlcWrite ==
    ASSUME PlcInv, NEW c \in Commander, Plc!WriteBytes(c)
    PROVE  PlcInv'
<1> DEFINE x == [command[c] EXCEPT !.pc = "read", !.writes = Tail(command[c].writes)]
<1>i. PlcTypes /\ CommandInv
  BY DEF PlcInv
<1>c. CommandType(c) /\ MutexInv(c) /\ DOMAIN command = Commander
  BY <1>i DEF CommandInv
<1>t. DOMAIN memory = Octets /\ raced \in [Commander -> BOOLEAN]
  BY <1>i DEF PlcTypes
<1>1. /\ UNCHANGED <<conn, nodes, plcPool, plcJob, plcReport, raced, owner>> /\ command[c].pc = "write"
      /\ command' = [command EXCEPT ![c] = x]
      /\ DOMAIN memory' = DOMAIN memory
  BY DEF Plc!WriteBytes, Plc!At, Plc!Become, Plc!setup, Plc!collecting
<1>2. owner = c /\ plcPool # "new"
  BY <1>1, <1>c DEF MutexInv, CommandType
<1>3. PICK v : command[c].writes = <<v>>
  BY <1>1, <1>c DEF CommandType
<1>4. DOMAIN x = {"pc", "writes", "buffer"} /\ x.writes = Tail(command[c].writes) /\ x.pc = "read"
  BY <1>c DEF CommandType
<1>5. Tail(<<v>>) = <<>>
  OBVIOUS
<1> HIDE DEF x
<1>6. x.writes = <<>>
  BY <1>3, <1>4, <1>5
<1> QED BY <1>1, <1>2, <1>4, <1>6, <1>t, CommandMoves

\* The controller writes an octet: whoever has read it knows.
LEMMA PlcController ==
    ASSUME PlcInv, Plc!Controller
    PROVE  PlcInv'
<1>i. PlcTypes /\ CommandInv /\ Plc!ReportsAreOfTheirNode
  BY DEF PlcInv
<1>1. /\ UNCHANGED <<conn, nodes, plcPool, plcJob, plcReport, command, owner>>
      /\ \E o \in Octets : \E x :
            /\ memory' = [memory EXCEPT ![o] = x]
            /\ raced' = [c \in Commander |-> raced[c] \/ (command[c].pc = "write" /\ o = Plc!Target(c).node[1])]
  BY DEF Plc!Controller, Plc!setup, Plc!collecting
<1>2. PICK o \in Octets : \E x :
            /\ memory' = [memory EXCEPT ![o] = x]
            /\ raced' = [c \in Commander |-> raced[c] \/ (command[c].pc = "write" /\ o = Plc!Target(c).node[1])]
  BY <1>1
<1>3. /\ DOMAIN memory' = Octets /\ \A p \in Octets : p # o => memory'[p] = memory[p]
      /\ raced' \in [Commander -> BOOLEAN]
      /\ \A c \in Commander : raced'[c] = (raced[c] \/ (command[c].pc = "write" /\ o = Plc!Target(c).node[1]))
  <2>1. DOMAIN memory = Octets /\ raced \in [Commander -> BOOLEAN]
    BY <1>i DEF PlcTypes
  <2>2. PICK x :
            /\ memory' = [memory EXCEPT ![o] = x]
            /\ raced' = [c \in Commander |-> raced[c] \/ (command[c].pc = "write" /\ o = Plc!Target(c).node[1])]
    BY <1>2
  <2> QED BY <2>1, <2>2
<1>4. PlcTypes' /\ Plc!ReportsAreOfTheirNode'
  BY <1>1, <1>3, <1>i DEF PlcTypes, Plc!ReportsAreOfTheirNode
<1>5. ASSUME NEW c \in Commander PROVE CommandType(c)' /\ MutexInv(c)'
  <2>1. CommandType(c) /\ MutexInv(c)
    BY <1>i DEF CommandInv
  <2>2. Plc!Target(c)' = Plc!Target(c)
    BY <1>1 DEF Plc!Target
  <2>3. command[c].pc = "write" => Plc!Target(c).node[1] \in Octets
    BY <2>1, <1>i, WriteTarget
  <2>4. CommandType(c)'
    BY <1>1, <2>1 DEF CommandType
  <2>5. MutexInv(c)'
    BY <1>1, <1>3, <2>1, <2>2, <2>3 DEF MutexInv
  <2> QED BY <2>4, <2>5
<1>6. CommandInv'
  BY <1>1, <1>5, <1>i DEF CommandInv
<1> QED BY <1>4, <1>6 DEF PlcInv

LEMMA PlcStep == PlcInv /\ [Plc!Next]_plcVars => PlcInv'
<1> SUFFICES ASSUME PlcInv, [Plc!Next]_plcVars PROVE PlcInv'
  OBVIOUS
<1>i. PlcTypes /\ CommandInv /\ Plc!ReportsAreOfTheirNode
  BY DEF PlcInv
<1>n. "none" \notin Commander /\ "job" \notin Commander
  BY CommandersAreNamed
<1>j. (plcPool = "new" => plcReport = <<>> /\ plcJob = "idle") /\ (plcJob = "read" => owner = "job")
  BY <1>i DEF PlcTypes, CommandInv
<1>0. CASE UNCHANGED plcVars
  <2>1. UNCHANGED <<conn, nodes, plcPool, plcJob, plcReport, command, memory, raced, owner>>
    BY <1>0 DEF plcVars
  <2>2. CommandInv'
    BY <2>1, <1>i, <1>j, CommandsStay
  <2> QED BY <2>1, <2>2, <1>i DEF PlcInv, PlcTypes, Plc!ReportsAreOfTheirNode
<1>1. CASE Plc!Refused \/ Plc!Tick \/ Plc!Lock \/ Plc!Destroy
  <2>1. /\ UNCHANGED <<conn, nodes, plcPool, plcReport, command, memory, raced>>
        /\ plcPool = "new" => plcJob' = plcJob
        /\ owner' = owner \/ owner = "none"
        /\ plcJob' = "read" => owner' = "job"
    BY <1>j, <1>1 DEF Plc!Refused, Plc!Tick, Plc!Lock, Plc!Destroy, Plc!setup, Plc!collecting, Plc!commanding
  <2>2. CommandInv'
    BY <2>1, <1>i, <1>n, CommandsStay
  <2> QED BY <2>1, <2>2, <1>i DEF PlcInv, PlcTypes, Plc!ReportsAreOfTheirNode
<1>2. CASE Plc!InitConnection
  <2>1. /\ plcPool = "new" /\ nodes' = Plc!Nodes(conn.points) /\ plcPool' \in {"pool", "lost"}
        /\ UNCHANGED <<conn, plcJob, plcReport, command, memory, raced, owner>>
    BY <1>2 DEF Plc!InitConnection, Plc!setup, Plc!collecting, Plc!commanding
  <2>2. PlcTypes'
    BY <2>1, <1>i DEF PlcTypes
  <2>3. CommandInv'
    <3>1. ASSUME NEW c \in Commander PROVE CommandType(c)' /\ MutexInv(c)'
      <4>1. CommandType(c)
        BY <1>i DEF CommandInv
      <4> QED BY <2>1, <4>1 DEF CommandType, MutexInv
    <3> QED BY <2>1, <3>1, <1>i DEF CommandInv
  <2>4. Plc!ReportsAreOfTheirNode'
    BY <2>1, <1>j DEF Plc!ReportsAreOfTheirNode
  <2> QED BY <2>2, <2>3, <2>4 DEF PlcInv
<1>3. CASE Plc!Collect
  <2>1. /\ UNCHANGED <<conn, nodes, plcPool, command, memory, raced>>
        /\ plcJob = "read" /\ plcJob' = "idle"
    BY <1>3 DEF Plc!Collect, Plc!setup, Plc!commanding
  <2>2. PlcTypes'
    BY <2>1, <1>j, <1>i DEF PlcTypes
  <2>3. \/ plcReport' = plcReport
        \/ \E order \in Orders, failing \in SUBSET Plc!Range(nodes) :
              plcReport' = Plc!Report(order, failing)
    BY <1>3 DEF Plc!Collect, Orders
  <2>4. Plc!ReportsAreOfTheirNode'
    <3>1. CASE plcReport' = plcReport
      BY <2>1, <3>1, <1>i DEF Plc!ReportsAreOfTheirNode
    <3>2. ASSUME NEW order \in Orders, NEW failing,
                 plcReport' = Plc!Report(order, failing)
          PROVE  Plc!ReportsAreOfTheirNode'
      <4>1. SUFFICES ASSUME conn.kind = "s7" \/ \A n \in DOMAIN nodes : nodes[n].known,
                            NEW name \in DOMAIN plcReport'
                     PROVE  name \in DOMAIN nodes /\ plcReport'[name] = nodes[name].node
        BY <2>1 DEF Plc!ReportsAreOfTheirNode
      <4> QED BY <3>2, <4>1, <1>i, ReportOK, PlcNodes
    <3> QED BY <2>3, <3>1, <3>2
  <2>5. CommandInv'
    BY <2>1, <1>j, <1>n, <1>i, CommandsStay
  <2> QED BY <2>2, <2>4, <2>5 DEF PlcInv
<1>4. CASE \E c \in Commander : \/ Plc!Command(c) \/ Plc!SendLock(c) \/ Plc!ReadBytes(c)
                                \/ Plc!WriteBytes(c) \/ Plc!SendEnd(c) \/ Plc!Release(c)
  BY <1>4, PlcCommand, PlcRead, PlcWrite
<1> QED BY <1>0, <1>1, <1>2, <1>3, <1>4, PlcController DEF Plc!Next

\* A write of a bit touches its octet, and nothing in it but the bit.
LEMMA BitsStep ==
    ASSUME PlcInv, [Plc!Next]_plcVars,
           NEW c \in Commander, command[c].pc = "write", command'[c].pc = "read", ~raced[c],
           NEW o \in Octets, NEW b \in Plc!Bits, <<o, b>> # Plc!Target(c).node
    PROVE  (b \in memory'[o]) <=> (b \in memory[o])
<1>1. PlcTypes /\ DOMAIN command = Commander /\ CommandType(c) /\ MutexInv(c)
  BY DEF PlcInv, CommandInv
<1>2. command' # command
  OBVIOUS
<1>3. ~(Plc!Refused \/ Plc!InitConnection \/ Plc!Tick \/ Plc!Lock \/ Plc!Collect \/ Plc!Destroy \/ Plc!Controller)
  BY <1>2 DEF Plc!Refused, Plc!InitConnection, Plc!Tick, Plc!Lock, Plc!Collect, Plc!Destroy, Plc!Controller,
              Plc!commanding
<1>4. PICK d \in Commander : \/ Plc!Command(d) \/ Plc!SendLock(d) \/ Plc!ReadBytes(d)
                             \/ Plc!WriteBytes(d) \/ Plc!SendEnd(d) \/ Plc!Release(d)
  BY <1>2, <1>3 DEF Plc!Next, plcVars
<1>d. \E x : command' = [command EXCEPT ![d] = x]
  BY <1>4 DEF Plc!Command, Plc!SendLock, Plc!ReadBytes, Plc!WriteBytes, Plc!SendEnd, Plc!Release, Plc!Become
<1>e. d = c
  BY <1>1, <1>d
<1>5. Plc!WriteBytes(c)
  BY <1>4, <1>e DEF Plc!Command, Plc!SendLock, Plc!ReadBytes, Plc!SendEnd, Plc!Release, Plc!At
<1> DEFINE t == Plc!Target(c).node
<1>6. /\ t[1] \in Octets /\ t = <<t[1], t[2]>> /\ DOMAIN memory = Octets
      /\ command[c].buffer = memory[t[1]]
  BY <1>1, WriteTarget DEF PlcTypes, MutexInv
<1>7. \/ memory' = memory
      \/ memory' = [memory EXCEPT ![t[1]] = memory[t[1]] \cup Plc!Mask(c)]
      \/ memory' = [memory EXCEPT ![t[1]] = memory[t[1]] \ Plc!Mask(c)]
  BY <1>5, <1>6 DEF Plc!WriteBytes
<1>8. Plc!Mask(c) \subseteq {t[2]}
  BY DEF Plc!Mask
<1>9. o # t[1] \/ b # t[2]
  BY <1>6
<1> HIDE DEF t
<1>10. CASE o # t[1]
  BY <1>6, <1>7, <1>10
<1>11. CASE o = t[1] /\ b # t[2]
  <2>1. b \notin Plc!Mask(c)
    BY <1>8, <1>11
  <2> QED BY <1>6, <1>7, <1>11, <2>1
<1> QED BY <1>9, <1>10, <1>11

-----------------------------------------------------------------------------
(***************************************************************************)
(* Scripts                                                                 *)
(***************************************************************************)
ScriptPlaces == {"idle", "look", "lock", "init", "store", "call", "wait", "run", "nothing"} \cup Scripts!Returns

ReaderState == [at : ScriptPlaces, method : Methods \cup {"none"}, key : Key \cup {"none"}, vm : Nat, map : Nat]
Machine == [key : Key, version : Nat, open : BOOLEAN, known : BOOLEAN, in : Reader \cup {0}]

Unloading == [map : Scripts!Maps, left : SUBSET Key, fresh : SUBSET Key, vm : Nat]

ScriptTypes ==
    /\ file \in [Key -> Nat]
    /\ pool \in Scripts!Maps
    /\ drivers \in [Scripts!Maps -> [Key -> Nat]]
    /\ lock \in Reader \cup {0}
    /\ vms \in Seq(Machine)
    /\ reader \in [Reader -> ReaderState]
    /\ unload \in Unloading
    /\ wanted \in [Key -> Nat]

\* The machines that are to be closed.
Closing == {drivers[unload.map][k] : k \in unload.left} \cup {unload.vm}

\* The walk has yet to come to the machine.
ToCome(v) == vms[v].key \in unload.left /\ drivers[unload.map][vms[v].key] = v

\* Whoever loads a script has the lock, and the map it looked at has no machine of the script, nor
\* has any later one; unless the program started meanwhile it is the map in use.
LockInv ==
    \A p \in Reader :
        /\ reader[p].at \in {"lock", "init", "store"} => reader[p].key \in Key
        /\ reader[p].at \in {"init", "store"} =>
              /\ lock = p
              /\ reader[p].map <= pool
              /\ reader[p].key \notin crossed => reader[p].map = pool
              /\ \A m \in Scripts!Maps : m >= reader[p].map => drivers[m][reader[p].key] = 0

\* Maps hold machines; one in the map in use is open, known, and not to be closed.
MapInv ==
    /\ \A m \in Scripts!Maps, k \in Key : drivers[m][k] # 0 => drivers[m][k] \in DOMAIN vms
    /\ \A m \in Scripts!Maps, k \in Key : m > pool => drivers[m][k] = 0
    /\ \A k \in Key : file[k] >= wanted[k]
    /\ \A k \in Key : drivers[pool][k] # 0 =>
          /\ drivers[pool][k] \in DOMAIN vms /\ drivers[pool][k] \notin Closing
          /\ vms[drivers[pool][k]].open /\ vms[drivers[pool][k]].known /\ vms[drivers[pool][k]].key = k
          /\ k \notin crossed => vms[drivers[pool][k]].version >= wanted[k]

\* A machine that is not yet in a map is the loader's alone.
FreshInv ==
    \A p \in Reader : reader[p].at = "store" =>
        /\ reader[p].vm \in DOMAIN vms /\ reader[p].vm \notin Closing
        /\ vms[reader[p].vm].open /\ vms[reader[p].vm].known /\ vms[reader[p].vm].key = reader[p].key
        /\ \A k \in Key : drivers[pool][k] # reader[p].vm
        /\ reader[p].key \notin crossed => vms[reader[p].vm].version >= wanted[reader[p].key]

\* The map that is walked is an old one, and its machines ahead have not been forgotten; what came
\* into it since is of keys that were loading when the program started.
CloseInv ==
    /\ unload.map <= pool /\ (unload.left # {} => unload.map < pool)
    /\ unload.fresh \subseteq crossed
    /\ unload.vm = 0 \/ unload.vm \in DOMAIN vms
    /\ \A k \in unload.left : drivers[unload.map][k] # 0 =>
          vms[drivers[unload.map][k]].known /\ vms[drivers[unload.map][k]].key = k

\* A caller that no start has overtaken is on the way to a machine that is not to be closed.
CallInv ==
    \A p \in Reader :
        /\ reader[p].at = "look" => /\ reader[p].key \in Key
                                   /\ reader[p].map \in Scripts!Maps /\ reader[p].map <= pool
        /\ reader[p].at \in {"call", "wait", "run"} => reader[p].vm \in DOMAIN vms
        /\ reader[p].at \in {"call", "wait"} /\ reader[p].vm \notin overtaken =>
               vms[reader[p].vm].open /\ reader[p].vm \notin Closing

ScriptInv ==
    /\ ScriptTypes
    /\ LockInv /\ MapInv /\ FreshInv /\ CloseInv /\ CallInv
    /\ Scripts!NoneIsLeaked /\ Scripts!CallsEndWell

LEMMA ScriptInit == Scripts!Init => ScriptInv
<1> SUFFICES ASSUME Scripts!Init PROVE ScriptInv
  OBVIOUS
<1>1. /\ file \in [Key -> {0, 1}] /\ pool = 1 /\ drivers = [m \in Scripts!Maps |-> [k \in Key |-> 0]]
      /\ lock = 0 /\ vms = <<>> /\ unload = [map |-> 1, left |-> {}, fresh |-> {}, vm |-> 0]
      /\ wanted = [k \in Key |-> 0]
      /\ reader = [p \in Reader |-> [at |-> "idle", method |-> "none", key |-> "none", vm |-> 0, map |-> 1]]
  BY DEF Scripts!Init, Scripts!Idle
<1>2. 1 \in Scripts!Maps /\ {0, 1} \subseteq Nat
  BY ZeroIsNoReader DEF Scripts!Maps
<1>3. [at |-> "idle", method |-> "none", key |-> "none", vm |-> 0, map |-> 1] \in ReaderState
  BY DEF ReaderState, ScriptPlaces
<1>4. vms \in Seq(Machine)
  BY <1>1
<1>5. ScriptTypes
  <2>1. unload \in Unloading
    BY <1>1, <1>2 DEF Unloading
  <2> QED BY <1>1, <1>2, <1>3, <1>4, <2>1 DEF ScriptTypes
<1>6. \A p \in Reader : reader[p].at = "idle"
  BY <1>1
<1>7. \A m \in Scripts!Maps, k \in Key : drivers[m][k] = 0
  BY <1>1
<1>8. \A k \in Key : file[k] >= wanted[k]
  BY <1>1
<1>9. LockInv /\ FreshInv /\ CallInv /\ Scripts!CallsEndWell
  BY <1>6 DEF LockInv, FreshInv, CallInv, Scripts!CallsEndWell, Scripts!At
<1>10. MapInv
  BY <1>1, <1>2, <1>7, <1>8 DEF MapInv
<1>11. CloseInv /\ Scripts!NoneIsLeaked
  BY <1>1 DEF CloseInv, Scripts!NoneIsLeaked
<1> QED BY <1>5, <1>9, <1>10, <1>11 DEF ScriptInv

-----------------------------------------------------------------------------
\* A step of one caller, by the fields of its record.
Goes(p, a, k, v, m) ==
    /\ reader' \in [Reader -> ReaderState]
    /\ reader'[p].at = a /\ reader'[p].key = k /\ reader'[p].vm = v /\ reader'[p].map = m
    /\ \A q \in Reader \ {p} : reader'[q] = reader[q]

LEMMA GoesTo ==
    ASSUME reader \in [Reader -> ReaderState], NEW p \in Reader, NEW x \in ReaderState,
           reader' = [reader EXCEPT ![p] = x]
    PROVE  Goes(p, x.at, x.key, x.vm, x.map)
BY DEF Goes

\* A machine is one of the sequence, and a step changes one field of one machine.
LEMMA MachineFacts ==
    ASSUME vms \in Seq(Machine)
    PROVE  /\ Len(vms) \in Nat /\ DOMAIN vms = 1 .. Len(vms)
           /\ \A v \in DOMAIN vms : /\ vms[v] \in Machine /\ v \in Nat /\ v # 0 /\ vms[v].key \in Key
                                    /\ vms[v].version \in Nat /\ vms[v].in \in Reader \cup {0}
<1>1. /\ Len(vms) \in Nat /\ DOMAIN vms = 1 .. Len(vms)
      /\ \A v \in DOMAIN vms : vms[v] \in Machine
  OBVIOUS
<1> QED BY <1>1 DEF Machine

LEMMA MachineMoves ==
    ASSUME vms \in Seq(Machine), NEW v \in DOMAIN vms, NEW x \in Machine, vms' = [vms EXCEPT ![v] = x]
    PROVE  /\ vms' \in Seq(Machine) /\ DOMAIN vms' = DOMAIN vms /\ vms'[v] = x
           /\ \A u \in DOMAIN vms : u # v => vms'[u] = vms[u]
OBVIOUS

LEMMA MachineFields ==
    ASSUME NEW x \in Machine
    PROVE  /\ \A p \in Reader \cup {0} : /\ [x EXCEPT !.in = p] \in Machine /\ [x EXCEPT !.in = p].in = p
                                         /\ [x EXCEPT !.in = p].key = x.key /\ [x EXCEPT !.in = p].version = x.version
                                         /\ [x EXCEPT !.in = p].open = x.open /\ [x EXCEPT !.in = p].known = x.known
           /\ [x EXCEPT !.known = FALSE] \in Machine /\ ~[x EXCEPT !.known = FALSE].known
           /\ [x EXCEPT !.known = FALSE].in = x.in /\ [x EXCEPT !.known = FALSE].key = x.key
           /\ [x EXCEPT !.known = FALSE].version = x.version /\ [x EXCEPT !.known = FALSE].open = x.open
           /\ [x EXCEPT !.open = FALSE] \in Machine /\ ~[x EXCEPT !.open = FALSE].open
           /\ [x EXCEPT !.open = FALSE].in = x.in /\ [x EXCEPT !.open = FALSE].key = x.key
           /\ [x EXCEPT !.open = FALSE].version = x.version /\ [x EXCEPT !.open = FALSE].known = x.known
<1>1. ASSUME NEW p \in Reader \cup {0}
      PROVE  /\ [x EXCEPT !.in = p] \in Machine /\ [x EXCEPT !.in = p].in = p
             /\ [x EXCEPT !.in = p].key = x.key /\ [x EXCEPT !.in = p].version = x.version
             /\ [x EXCEPT !.in = p].open = x.open /\ [x EXCEPT !.in = p].known = x.known
  BY DEF Machine
<1>2. /\ [x EXCEPT !.known = FALSE] \in Machine /\ ~[x EXCEPT !.known = FALSE].known
      /\ [x EXCEPT !.known = FALSE].in = x.in /\ [x EXCEPT !.known = FALSE].key = x.key
      /\ [x EXCEPT !.known = FALSE].version = x.version /\ [x EXCEPT !.known = FALSE].open = x.open
  BY DEF Machine
<1>3. /\ [x EXCEPT !.open = FALSE] \in Machine /\ ~[x EXCEPT !.open = FALSE].open
      /\ [x EXCEPT !.open = FALSE].in = x.in /\ [x EXCEPT !.open = FALSE].key = x.key
      /\ [x EXCEPT !.open = FALSE].version = x.version /\ [x EXCEPT !.open = FALSE].known = x.known
  BY DEF Machine
<1> QED BY <1>1, <1>2, <1>3

\* A step of a caller that holds no lock, or gives it back with nothing loaded.
Quiet == UNCHANGED <<file, pool, drivers, unload, wanted, crossed, overtaken>>

LEMMA CallerMoves ==
    ASSUME ScriptInv, UNCHANGED <<file, pool, drivers, unload, wanted, crossed, vms>>, overtaken \subseteq overtaken',
           NEW p \in Reader, NEW a, NEW k, NEW v, NEW m, Goes(p, a, k, v, m),
           reader[p].at # "store",
           (lock' = lock /\ reader[p].at # "init") \/ (lock' = 0 /\ reader[p].at = "init"),
           a \notin {"init", "store", "run"},
           a = "lock" => k \in Key,
           a = "look" => k \in Key /\ m \in Scripts!Maps /\ m <= pool,
           a \in {"call", "wait"} =>
               v \in DOMAIN vms /\ (v \notin overtaken' => vms[v].open /\ v \notin Closing),
           a = "nothing" => v \in overtaken'
    PROVE  ScriptInv'
<1>i. /\ ScriptTypes /\ LockInv /\ MapInv /\ FreshInv /\ CloseInv /\ CallInv
      /\ Scripts!NoneIsLeaked /\ Scripts!CallsEndWell
  BY DEF ScriptInv
<1>1. Closing' = Closing
  BY DEF Closing
<1>2. ScriptTypes'
  BY <1>i DEF ScriptTypes, Goes
<1>3. LockInv'
  <2>1. \A q \in Reader : reader'[q].at \in {"init", "store"} => q # p /\ lock' = lock
    BY <1>i DEF LockInv, Goes
  <2> QED BY <2>1, <1>i DEF LockInv, Goes
<1>4. MapInv' /\ CloseInv'
  BY <1>1, <1>i DEF MapInv, CloseInv
<1>5. FreshInv'
  BY <1>1, <1>i DEF FreshInv, Goes
<1>6. CallInv'
  BY <1>1, <1>i DEF CallInv, Goes
<1>7. Scripts!NoneIsLeaked'
  BY <1>i DEF Scripts!NoneIsLeaked, Scripts!At, Goes
<1>8. Scripts!CallsEndWell'
  BY <1>i DEF Scripts!CallsEndWell, Scripts!At, Goes
<1> QED BY <1>2, <1>3, <1>4, <1>5, <1>6, <1>7, <1>8 DEF ScriptInv

LEMMA CallerStep ==
    ASSUME ScriptInv, Quiet, UNCHANGED vms,
           NEW p \in Reader, NEW a, NEW k, NEW v, NEW m, Goes(p, a, k, v, m),
           reader[p].at # "store",
           (lock' = lock /\ reader[p].at # "init") \/ (lock' = 0 /\ reader[p].at = "init"),
           a \notin {"init", "store", "run"},
           a = "lock" => k \in Key,
           a = "look" => k \in Key /\ m \in Scripts!Maps /\ m <= pool,
           a \in {"call", "wait"} =>
               v \in DOMAIN vms /\ (v \notin overtaken => vms[v].open /\ v \notin Closing),
           a = "nothing" => v \in overtaken
    PROVE  ScriptInv'
BY CallerMoves DEF Quiet

\* The machine of a script in the map in use.
LEMMA InMap ==
    ASSUME ScriptInv, NEW k \in Key, drivers[pool][k] # 0
    PROVE  /\ drivers[pool][k] \in DOMAIN vms /\ drivers[pool][k] \in Nat
           /\ vms[drivers[pool][k]].open /\ drivers[pool][k] \notin Closing
BY DEF ScriptInv, ScriptTypes, MapInv

LEMMA MapFacts ==
    ASSUME ScriptTypes
    PROVE  /\ pool \in Scripts!Maps /\ pool \in Nat /\ \A m \in Scripts!Maps : m \in Nat
           /\ \A m \in Scripts!Maps, k \in Key : drivers[m][k] \in Nat
<1>1. \A m \in Scripts!Maps : m \in Nat
  BY ZeroIsNoReader DEF Scripts!Maps
<1>2. pool \in Scripts!Maps /\ drivers \in [Scripts!Maps -> [Key -> Nat]]
  BY DEF ScriptTypes
<1> QED BY <1>1, <1>2

LEMMA AskStep ==
    ASSUME ScriptInv, NEW p \in Reader, NEW method \in Methods, NEW k \in Key, Scripts!Ask(p, method, k)
    PROVE  ScriptInv'
<1> DEFINE x == [at |-> "look", method |-> method, key |-> k, vm |-> 0, map |-> pool]
<1>1. /\ reader \in [Reader -> ReaderState] /\ pool \in Nat /\ pool \in Scripts!Maps
  BY MapFacts DEF ScriptInv, ScriptTypes
<1>2. /\ x \in ReaderState /\ x.at = "look" /\ x.key = k /\ x.vm = 0 /\ x.map = pool
  BY <1>1 DEF ReaderState, ScriptPlaces
<1>3. /\ reader[p].at = "idle" /\ reader' = [reader EXCEPT ![p] = x] /\ UNCHANGED <<vms, lock>> /\ Quiet
  BY DEF Scripts!Ask, Scripts!At, Scripts!start, Quiet
<1> HIDE DEF x
<1>4. Goes(p, x.at, x.key, x.vm, x.map)
  BY <1>1, <1>2, <1>3, GoesTo
<1> QED BY <1>1, <1>2, <1>3, <1>4, CallerStep

\* The first look, at a map that may have been replaced since.
LEMMA LookStep ==
    ASSUME ScriptInv, NEW p \in Reader, Scripts!Look(p)
    PROVE  ScriptInv'
<1> DEFINE k == reader[p].key
           m == reader[p].map
           v == drivers[m][k]
           x == [reader[p] EXCEPT !.at = "call", !.vm = v]
           y == [reader[p] EXCEPT !.at = "lock"]
<1>1. /\ reader[p].at = "look" /\ UNCHANGED <<file, pool, drivers, unload, wanted, crossed, vms, lock>>
      /\ overtaken' = overtaken \cup Scripts!Late(m, v)
      /\ IF v = 0 THEN reader' = [reader EXCEPT ![p].at = "lock"] ELSE reader' = [reader EXCEPT ![p] = x]
  BY DEF Scripts!Look, Scripts!Go, Scripts!Found, Scripts!At
<1>2. /\ reader \in [Reader -> ReaderState] /\ reader[p] \in ReaderState
      /\ k \in Key /\ m \in Scripts!Maps /\ m <= pool /\ m \in Nat /\ pool \in Nat /\ v \in Nat
  <2>1. k \in Key /\ m \in Scripts!Maps /\ m <= pool
    BY <1>1 DEF ScriptInv, CallInv
  <2> QED BY <2>1, MapFacts DEF ScriptInv, ScriptTypes
<1>3. v # 0 => v \in DOMAIN vms /\ (v \notin overtaken' => vms[v].open /\ v \notin Closing)
  <2> SUFFICES ASSUME v # 0 PROVE v \in DOMAIN vms /\ (v \notin overtaken' => vms[v].open /\ v \notin Closing)
    OBVIOUS
  <2>1. v \in DOMAIN vms
    BY <1>2 DEF ScriptInv, MapInv
  <2>2. CASE m = pool
    <3>1. drivers[pool][k] # 0 /\ drivers[pool][k] = v
      BY <2>2
    <3> QED BY <1>2, <2>1, <3>1, InMap
  <2>3. CASE m < pool
    BY <1>1, <2>1, <2>3 DEF Scripts!Late
  <2> QED BY <1>2, <2>2, <2>3
<1>4. overtaken \subseteq overtaken'
  BY <1>1
<1>5. x \in ReaderState /\ x.at = "call" /\ x.vm = v
  <2>1. "call" \in ScriptPlaces
    BY DEF ScriptPlaces
  <2> HIDE DEF v
  <2> QED BY <1>2, <2>1 DEF ReaderState
<1>6. y \in ReaderState /\ y.at = "lock" /\ y.key = k
  <2>1. "lock" \in ScriptPlaces
    BY DEF ScriptPlaces
  <2> QED BY <1>2, <2>1 DEF ReaderState
<1>7. CASE v # 0
  <2>1. reader' = [reader EXCEPT ![p] = x]
    BY <1>1, <1>7
  <2> HIDE DEF x
  <2>2. Goes(p, x.at, x.key, x.vm, x.map)
    BY <1>2, <1>5, <2>1, GoesTo
  <2> HIDE DEF v
  <2> QED BY <1>1, <1>3, <1>4, <1>5, <1>7, <2>2, CallerMoves
<1>8. CASE v = 0
  <2>1. reader' = [reader EXCEPT ![p] = y]
    BY <1>1, <1>2, <1>8
  <2> HIDE DEF y
  <2>2. Goes(p, y.at, y.key, y.vm, y.map)
    BY <1>2, <1>6, <2>1, GoesTo
  <2> HIDE DEF v
  <2> QED BY <1>1, <1>2, <1>4, <1>6, <2>2, CallerMoves
<1> QED BY <1>7, <1>8

\* What a caller does with what its call returned.
LEMMA ReturnGoes ==
    ASSUME reader \in [Reader -> ReaderState], NEW p \in Reader, NEW r \in Scripts!Returns \cup {"nothing"},
           Scripts!Return(p, r)
    PROVE  \E a \in {"idle", r} : \E k, v, m : Goes(p, a, k, v, m) /\ (a = r => v = reader[p].vm)
<1>1. reader[p] \in ReaderState /\ r \in ScriptPlaces
  BY DEF ScriptPlaces
<1>2. Scripts!Idle \in ReaderState /\ Scripts!Idle.at = "idle"
  BY DEF Scripts!Idle, ReaderState, ScriptPlaces
<1>3. r # "idle"
  BY DEF Scripts!Returns
<1>4. \/ reader' = [reader EXCEPT ![p] = Scripts!Idle]
      \/ reader' = [reader EXCEPT ![p] = [reader[p] EXCEPT !.at = r]]
  BY DEF Scripts!Return
<1>5. CASE reader' = [reader EXCEPT ![p] = Scripts!Idle]
  <2>1. Goes(p, Scripts!Idle.at, Scripts!Idle.key, Scripts!Idle.vm, Scripts!Idle.map)
    BY <1>2, <1>5, GoesTo
  <2> QED BY <1>2, <1>3, <2>1
<1>6. CASE reader' = [reader EXCEPT ![p] = [reader[p] EXCEPT !.at = r]]
  <2> DEFINE x == [reader[p] EXCEPT !.at = r]
  <2>1. x \in ReaderState /\ x.at = r /\ x.vm = reader[p].vm
    BY <1>1 DEF ReaderState
  <2> HIDE DEF x
  <2>2. Goes(p, x.at, x.key, x.vm, x.map)
    BY <1>6, <2>1, GoesTo DEF x
  <2> QED BY <2>1, <2>2
<1> QED BY <1>4, <1>5, <1>6

\* The look at the map with the lock.
LEMMA LoadStep ==
    ASSUME ScriptInv, NEW p \in Reader, Scripts!LoadLibrary(p)
    PROVE  ScriptInv'
<1> DEFINE k == reader[p].key
           v == drivers[pool][k]
<1>i. /\ ScriptTypes /\ LockInv /\ MapInv /\ FreshInv /\ CloseInv /\ CallInv
      /\ Scripts!NoneIsLeaked /\ Scripts!CallsEndWell
  BY DEF ScriptInv
<1>1. /\ reader[p].at = "lock" /\ lock = 0 /\ Quiet /\ UNCHANGED vms
      /\ IF v # 0 THEN reader' = [reader EXCEPT ![p] = [reader[p] EXCEPT !.at = "call", !.vm = v]] /\ lock' = lock
         ELSE reader' = [reader EXCEPT ![p] = [reader[p] EXCEPT !.at = "init", !.map = pool]] /\ lock' = p
  BY DEF Scripts!LoadLibrary, Scripts!SecondLook, Scripts!Found, Scripts!At, Scripts!start, Quiet
<1>2. /\ reader \in [Reader -> ReaderState] /\ reader[p] \in ReaderState /\ k \in Key /\ pool \in Scripts!Maps
      /\ pool \in Nat /\ v \in Nat
  BY <1>1, <1>i, MapFacts DEF ScriptTypes, LockInv
<1>3. CASE v # 0
  <2> DEFINE x == [reader[p] EXCEPT !.at = "call", !.vm = v]
  <2>1. x \in ReaderState /\ x.at = "call" /\ x.vm = v
    <3>1. "call" \in ScriptPlaces
      BY DEF ScriptPlaces
    <3> HIDE DEF k, v
    <3> QED BY <1>2, <3>1 DEF ReaderState
  <2> HIDE DEF x
  <2>2. Goes(p, x.at, x.key, x.vm, x.map)
    BY <1>1, <1>2, <1>3, <2>1, GoesTo DEF x
  <2>3. v \in DOMAIN vms /\ vms[v].open /\ v \notin Closing
    BY <1>2, <1>3, InMap
  <2> QED BY <1>1, <1>3, <2>1, <2>2, <2>3, CallerStep
<1>4. CASE v = 0
  <2> DEFINE x == [reader[p] EXCEPT !.at = "init", !.map = pool]
  <2>1. x \in ReaderState /\ x.at = "init" /\ x.key = k /\ x.map = pool
    <3>1. "init" \in ScriptPlaces
      BY DEF ScriptPlaces
    <3> HIDE DEF v
    <3> QED BY <1>2, <3>1 DEF ReaderState
  <2>a. reader' = [reader EXCEPT ![p] = x] /\ lock' = p
    BY <1>1, <1>4
  <2> HIDE DEF x
  <2>2. Goes(p, "init", k, x.vm, pool)
    <3>1. Goes(p, x.at, x.key, x.vm, x.map)
      BY <1>2, <2>1, <2>a, GoesTo
    <3> QED BY <2>1, <3>1
  <2>3. Closing' = Closing
    BY <1>1 DEF Closing, Quiet
  <2>4. ScriptTypes'
    BY <1>1, <1>2, <2>a, <2>2, <1>i DEF ScriptTypes, Quiet, Goes
  <2>5. \A q \in Reader \ {p} : reader[q].at \notin {"init", "store"} /\ reader'[q] = reader[q]
    BY <1>1, <2>2, <1>i, ZeroIsNoReader DEF LockInv, Goes
  <2>6. \A m \in Scripts!Maps : m >= pool => drivers[m][k] = 0
    BY <1>2, <1>4, <1>i DEF MapInv, Scripts!Maps
  <2>7. LockInv'
    BY <1>1, <1>2, <2>a, <2>2, <2>5, <2>6, <1>i DEF LockInv, Quiet, Goes
  <2>8. MapInv' /\ CloseInv'
    BY <1>1, <2>3, <1>i DEF MapInv, CloseInv, Quiet
  <2>9. FreshInv' /\ CallInv'
    BY <1>1, <2>2, <2>3, <1>i DEF FreshInv, CallInv, Quiet, Goes
  <2>10. Scripts!NoneIsLeaked'
    BY <1>1, <2>2, <1>i DEF Scripts!NoneIsLeaked, Scripts!At, Quiet, Goes
  <2>11. Scripts!CallsEndWell'
    BY <1>1, <2>2, <1>i DEF Scripts!CallsEndWell, Scripts!At, Quiet, Goes
  <2> QED BY <2>4, <2>7, <2>8, <2>9, <2>10, <2>11 DEF ScriptInv
<1> QED BY <1>3, <1>4

\* A script that is not there, or its machine.
LEMMA InitStep ==
    ASSUME ScriptInv, NEW p \in Reader, Scripts!InitLuaVM(p)
    PROVE  ScriptInv'
<1> DEFINE k == reader[p].key
           n == Len(vms) + 1
           new == [key |-> k, version |-> file[k], open |-> TRUE, known |-> TRUE, in |-> 0]
           x == [reader[p] EXCEPT !.at = "store", !.vm = n]
<1>i. /\ ScriptTypes /\ LockInv /\ MapInv /\ FreshInv /\ CloseInv /\ CallInv
      /\ Scripts!NoneIsLeaked /\ Scripts!CallsEndWell
  BY DEF ScriptInv
<1>1. /\ reader[p].at = "init" /\ Quiet
      /\ \/ lock' = 0 /\ reader' = [reader EXCEPT ![p] = Scripts!Idle] /\ vms' = vms
         \/ vms' = Append(vms, new) /\ reader' = [reader EXCEPT ![p] = x] /\ lock' = lock
  BY DEF Scripts!InitLuaVM, Scripts!Fail, Scripts!At, Scripts!start, Quiet
<1>2. /\ reader \in [Reader -> ReaderState] /\ reader[p] \in ReaderState /\ k \in Key
      /\ vms \in Seq(Machine) /\ file[k] \in Nat
  BY <1>1, <1>i DEF ScriptTypes, LockInv
<1>3. CASE lock' = 0 /\ reader' = [reader EXCEPT ![p] = Scripts!Idle] /\ vms' = vms
  <2>1. Scripts!Idle \in ReaderState /\ Scripts!Idle.at = "idle"
    BY DEF Scripts!Idle, ReaderState, ScriptPlaces
  <2>2. Goes(p, Scripts!Idle.at, Scripts!Idle.key, Scripts!Idle.vm, Scripts!Idle.map)
    BY <1>2, <1>3, <2>1, GoesTo
  <2> QED BY <1>1, <1>3, <2>1, <2>2, CallerStep
<1>4. CASE vms' = Append(vms, new) /\ reader' = [reader EXCEPT ![p] = x] /\ lock' = lock
  <2>1. n \in Nat /\ x \in ReaderState /\ x.at = "store" /\ x.key = k /\ x.vm = n /\ x.map = reader[p].map
    <3>1. n \in Nat
      BY <1>2, MachineFacts
    <3>2. "store" \in ScriptPlaces
      BY DEF ScriptPlaces
    <3> HIDE DEF n
    <3> QED BY <1>2, <3>1, <3>2 DEF ReaderState
  <2>2. new \in Machine /\ new.key = k /\ new.version = file[k] /\ new.open /\ new.known /\ new.in = 0
    BY <1>2 DEF Machine
  <2>a. vms' = Append(vms, new) /\ reader' = [reader EXCEPT ![p] = x] /\ lock' = lock
    BY <1>4
  <2> HIDE DEF x, new, k
  <2>3. Goes(p, "store", k, n, reader[p].map)
    <3>1. Goes(p, x.at, x.key, x.vm, x.map)
      BY <1>2, <2>1, <2>a, GoesTo
    <3> QED BY <2>1, <3>1
  <2>4. /\ vms' \in Seq(Machine) /\ Len(vms) \in Nat /\ DOMAIN vms = 1 .. Len(vms) /\ DOMAIN vms' = 1 .. n
        /\ vms'[n] = new /\ \A u \in DOMAIN vms : vms'[u] = vms[u]
    <3> HIDE DEF n
    <3>1. vms' \in Seq(Machine) /\ Len(vms') = Len(vms) + 1 /\ Len(vms) \in Nat
          /\ vms'[Len(vms) + 1] = new /\ \A u \in 1 .. Len(vms) : vms'[u] = vms[u]
      BY <1>2, <2>2, <2>a
    <3> QED BY <1>2, <3>1 DEF n
  <2> HIDE DEF n
  <2>5. /\ n \notin DOMAIN vms /\ n # 0 /\ n \in DOMAIN vms' /\ DOMAIN vms \subseteq DOMAIN vms'
        /\ \A u \in DOMAIN vms' : u \in DOMAIN vms \/ u = n
    BY <2>1, <2>4 DEF n
  <2>m. \A l \in Scripts!Maps, j \in Key : drivers[l][j] # 0 => drivers[l][j] \in DOMAIN vms
    BY <1>i DEF MapInv
  <2>l. unload.map \in Scripts!Maps /\ unload.left \subseteq Key
    BY <1>i DEF ScriptTypes, Unloading
  <2>6. Closing' = Closing /\ n \notin Closing
    BY <1>1, <2>5, <2>m, <2>l, <1>i DEF Closing, CloseInv, Quiet
  <2>7. ScriptTypes'
    BY <1>1, <2>a, <2>3, <2>4, <1>i DEF ScriptTypes, Quiet, Goes
  <2>8. LockInv'
    BY <1>1, <1>2, <2>a, <2>3, <1>i DEF LockInv, Quiet, Goes, k
  <2>9. MapInv' /\ CloseInv'
    <3>1. MapInv'
      BY <1>1, <2>4, <2>5, <2>6, <1>i DEF MapInv, Quiet
    <3>2. CloseInv'
      BY <1>1, <2>4, <2>5, <2>m, <2>l, <1>i DEF CloseInv, Quiet
    <3> QED BY <3>1, <3>2
  <2>10. \A j \in Key : drivers[pool][j] # n
    BY <2>5, <1>i DEF MapInv
  <2>11. \A q \in Reader : reader'[q].at = "store" => q = p
    BY <1>1, <2>3, <1>i DEF LockInv, Goes
  <2>12. FreshInv'
    <3>1. reader'[p].vm = n /\ reader'[p].key = k /\ file[k] >= wanted[k]
      BY <1>2, <2>3, <1>i DEF Goes, MapInv
    <3> QED BY <1>1, <2>2, <2>4, <2>5, <2>6, <2>10, <2>11, <3>1 DEF FreshInv, Quiet
  <2>13. CallInv'
    BY <1>1, <2>3, <2>4, <2>5, <2>6, <1>i DEF CallInv, Quiet, Goes
  <2>14. Scripts!NoneIsLeaked'
    <3> SUFFICES ASSUME NEW u \in DOMAIN vms', vms'[u].open, vms'[u].key \notin crossed
                 PROVE  \/ drivers[pool][vms'[u].key] = u \/ u = unload.vm
                        \/ vms'[u].key \in unload.left /\ drivers[unload.map][vms'[u].key] = u
                        \/ \E q \in Reader : reader'[q].at = "store" /\ reader'[q].vm = u
      BY <1>1 DEF Scripts!NoneIsLeaked, Scripts!At, Quiet
    <3>1. CASE u = n
      BY <2>3, <3>1 DEF Goes
    <3>2. CASE u \in DOMAIN vms
      <4>1. \A q \in Reader : reader[q].at # "store"
        BY <1>1, <1>i DEF LockInv
      <4> QED BY <2>4, <3>2, <4>1, <1>i DEF Scripts!NoneIsLeaked, Scripts!At
    <3> QED BY <2>5, <3>1, <3>2
  <2>15. Scripts!CallsEndWell'
    BY <1>1, <2>3, <2>4, <2>5, <1>i DEF Scripts!CallsEndWell, Scripts!At, CallInv, Quiet, Goes
  <2> QED BY <2>7, <2>8, <2>9, <2>12, <2>13, <2>14, <2>15 DEF ScriptInv
<1> QED BY <1>1, <1>3, <1>4

\* The machine goes into the map the loader looked at, or one that has taken its place since.
LEMMA StoreStep ==
    ASSUME ScriptInv, NEW p \in Reader, Scripts!Store(p)
    PROVE  ScriptInv'
<1> DEFINE k == reader[p].key
           v == reader[p].vm
           x == [reader[p] EXCEPT !.at = "call", !.vm = v]
<1>i. /\ ScriptTypes /\ LockInv /\ MapInv /\ FreshInv /\ CloseInv /\ CallInv
      /\ Scripts!NoneIsLeaked /\ Scripts!CallsEndWell
  BY DEF ScriptInv
<1>1. /\ reader[p].at = "store" /\ lock' = 0 /\ reader' = [reader EXCEPT ![p] = x]
      /\ UNCHANGED <<file, pool, vms, wanted, crossed>>
      /\ \E m \in reader[p].map .. pool :
            /\ drivers' = [drivers EXCEPT ![m][k] = v]
            /\ overtaken' = overtaken \cup Scripts!Late(m, v)
            /\ unload' = IF m = unload.map THEN [unload EXCEPT !.fresh = unload.fresh \cup ({k} \cap unload.left)] ELSE unload
  BY DEF Scripts!Store, Scripts!Found, Scripts!At, Scripts!start
<1>2. /\ reader \in [Reader -> ReaderState] /\ reader[p] \in ReaderState /\ k \in Key /\ v \in Nat
      /\ reader[p].map \in Nat /\ reader[p].map <= pool /\ lock = p
      /\ drivers \in [Scripts!Maps -> [Key -> Nat]] /\ pool \in Scripts!Maps /\ pool \in Nat
  <2>1. reader[p] \in ReaderState
    BY <1>i DEF ScriptTypes
  <2>2. v \in Nat /\ reader[p].map \in Nat
    BY <2>1 DEF ReaderState
  <2> QED BY <1>1, <1>i, <2>1, <2>2, MapFacts DEF ScriptTypes, LockInv
<1>3. Goes(p, "call", k, v, reader[p].map)
  <2>1. x \in ReaderState /\ x.at = "call" /\ x.key = k /\ x.vm = v /\ x.map = reader[p].map
    <3>1. "call" \in ScriptPlaces
      BY DEF ScriptPlaces
    <3> HIDE DEF v
    <3> QED BY <1>2, <3>1 DEF ReaderState
  <2>2. reader' = [reader EXCEPT ![p] = x]
    BY <1>1
  <2> HIDE DEF x
  <2>3. Goes(p, x.at, x.key, x.vm, x.map)
    BY <1>2, <2>1, <2>2, GoesTo
  <2> QED BY <2>1, <2>3
<1>4. PICK m \in reader[p].map .. pool :
          /\ drivers' = [drivers EXCEPT ![m][k] = v]
          /\ overtaken' = overtaken \cup Scripts!Late(m, v)
          /\ unload' = IF m = unload.map THEN [unload EXCEPT !.fresh = unload.fresh \cup ({k} \cap unload.left)] ELSE unload
  BY <1>1
<1>5. /\ m \in Nat /\ m >= reader[p].map /\ m <= pool
  BY <1>2
<1>6. \A l \in Scripts!Maps : l >= reader[p].map => drivers[l][k] = 0
  BY <1>1, <1>i DEF LockInv
<1>f. /\ v \in DOMAIN vms /\ v \notin Closing /\ vms[v].open /\ vms[v].known /\ vms[v].key = k
      /\ \A j \in Key : drivers[pool][j] # v
      /\ k \notin crossed => vms[v].version >= wanted[k] /\ m = pool
  <2>1. k \notin crossed => reader[p].map = pool
    BY <1>1, <1>i DEF LockInv
  <2>2. k \notin crossed => m = pool
    BY <1>2, <1>5, <2>1
  <2>3. /\ v \in DOMAIN vms /\ v \notin Closing /\ vms[v].open /\ vms[v].known /\ vms[v].key = k
        /\ \A j \in Key : drivers[pool][j] # v
        /\ k \notin crossed => vms[v].version >= wanted[k]
    BY <1>1, <1>i, Zenon DEF FreshInv
  <2> QED BY <2>2, <2>3
<1>7. /\ drivers' \in [Scripts!Maps -> [Key -> Nat]]
      /\ \A l \in Scripts!Maps, j \in Key : drivers'[l][j] = IF l = m /\ j = k THEN v ELSE drivers[l][j]
  <2> HIDE DEF v, k
  <2> QED BY <1>2, <1>4
<1> HIDE DEF x, v, k
<1>u. /\ unload \in Unloading /\ unload' \in Unloading
      /\ unload'.map = unload.map /\ unload'.left = unload.left /\ unload'.vm = unload.vm
      /\ unload'.fresh \subseteq unload.fresh \cup (IF m < pool THEN {k} ELSE {})
  <2>1. unload \in Unloading
    BY <1>i DEF ScriptTypes
  <2>2. m = unload.map /\ ~(m < pool) => unload.left = {}
    BY <1>i DEF CloseInv
  <2> QED BY <1>2, <1>4, <2>1, <2>2 DEF Unloading
<1>8. Closing' \subseteq Closing \cup (IF m < pool THEN {v} ELSE {})
  <2> SUFFICES ASSUME NEW c \in Closing' PROVE c \in Closing \/ (m < pool /\ c = v)
    OBVIOUS
  <2>1. c = unload.vm \/ \E j \in unload.left : c = drivers'[unload.map][j]
    BY <1>u DEF Closing
  <2>2. CASE \E j \in unload.left : c = drivers'[unload.map][j]
    <3>1. PICK j \in unload.left : c = drivers'[unload.map][j]
      BY <2>2
    <3>2. j \in Key /\ unload.map \in Scripts!Maps /\ unload.map < pool
      BY <1>u, <3>1, <1>i DEF Unloading, CloseInv
    <3>3. CASE unload.map = m /\ j = k
      BY <1>7, <3>1, <3>2, <3>3
    <3>4. CASE ~(unload.map = m /\ j = k)
      BY <1>7, <3>1, <3>2, <3>4 DEF Closing
    <3> QED BY <3>3, <3>4
  <2> QED BY <2>1, <2>2 DEF Closing
<1>o. overtaken \subseteq overtaken' /\ (m < pool => v \in overtaken') /\ v # 0
  <2>1. v # 0
    BY <1>f, <1>i, MachineFacts DEF ScriptTypes
  <2> QED BY <1>4, <2>1 DEF Scripts!Late
<1>9. \A q \in Reader \ {p} : reader[q].at \notin {"init", "store"} /\ reader'[q] = reader[q]
  BY <1>2, <1>3, <1>i DEF LockInv, Goes
<1>10. ScriptTypes'
  BY <1>1, <1>3, <1>7, <1>u, <1>i DEF ScriptTypes, Goes
<1>11. LockInv'
  BY <1>1, <1>3, <1>9, <1>i DEF LockInv, Goes
<1>12. MapInv'
  <2>0. \A l \in Scripts!Maps, j \in Key : drivers'[l][j] # 0 => drivers'[l][j] \in DOMAIN vms
    BY <1>7, <1>f, <1>i DEF MapInv
  <2>1. \A l \in Scripts!Maps, j \in Key : l > pool => drivers'[l][j] = 0
    <3>1. \A l \in Scripts!Maps : l \in Nat
      BY MapFacts, <1>i
    <3> QED BY <1>2, <1>5, <1>7, <3>1, <1>i DEF MapInv
  <2>2. ASSUME NEW j \in Key, drivers'[pool][j] # 0
        PROVE  LET u == drivers'[pool][j]
               IN /\ u \in DOMAIN vms /\ u \notin Closing' /\ vms[u].open /\ vms[u].known /\ vms[u].key = j
                  /\ j \notin crossed => vms[u].version >= wanted[j]
    <3>1. CASE m = pool /\ j = k
      <4>1. drivers'[pool][j] = v /\ ~(m < pool)
        BY <1>2, <1>7, <3>1
      <4> QED BY <1>8, <1>f, <3>1, <4>1
    <3>2. CASE ~(m = pool /\ j = k)
      <4>1. drivers'[pool][j] = drivers[pool][j] /\ drivers[pool][j] # v
        BY <1>2, <1>7, <1>f, <3>2
      <4> QED BY <1>8, <2>2, <4>1, <1>i DEF MapInv
    <3> QED BY <3>1, <3>2
  <2>3. /\ \A j \in Key : file'[j] >= wanted'[j]
        /\ pool' = pool /\ vms' = vms /\ crossed' = crossed /\ wanted' = wanted
    BY <1>1, <1>i DEF MapInv
  <2> HIDE DEF Closing
  <2> QED BY <2>0, <2>1, <2>2, <2>3 DEF MapInv
<1>13. FreshInv'
  BY <1>3, <1>9 DEF FreshInv, Goes
<1>14. CloseInv'
  <2>1. unload'.fresh \subseteq crossed
    <3>1. m < pool => k \in crossed
      BY <1>2, <1>5, <1>f
    <3> QED BY <1>u, <3>1, <1>i DEF CloseInv
  <2>2. ASSUME NEW j \in unload.left, drivers'[unload.map][j] # 0
        PROVE  vms[drivers'[unload.map][j]].known /\ vms[drivers'[unload.map][j]].key = j
    <3>1. j \in Key /\ unload.map \in Scripts!Maps
      BY <1>u DEF Unloading
    <3>2. CASE unload.map = m /\ j = k
      BY <1>7, <1>f, <3>1, <3>2
    <3>3. CASE ~(unload.map = m /\ j = k)
      BY <1>7, <2>2, <3>1, <3>3, <1>i DEF CloseInv
    <3> QED BY <3>2, <3>3
  <2> QED BY <1>1, <1>u, <2>1, <2>2, <1>i DEF CloseInv
<1>15. CallInv'
  <2> SUFFICES ASSUME NEW q \in Reader
               PROVE  /\ reader'[q].at = "look" => /\ reader'[q].key \in Key
                                                  /\ reader'[q].map \in Scripts!Maps /\ reader'[q].map <= pool
                      /\ reader'[q].at \in {"call", "wait", "run"} => reader'[q].vm \in DOMAIN vms
                      /\ reader'[q].at \in {"call", "wait"} /\ reader'[q].vm \notin overtaken' =>
                             vms[reader'[q].vm].open /\ reader'[q].vm \notin Closing'
    BY <1>1 DEF CallInv
  <2>1. CASE q = p
    BY <1>3, <1>8, <1>f, <1>o, <2>1 DEF Goes
  <2>2. CASE q # p
    BY <1>8, <1>9, <1>o, <2>2, <1>i DEF CallInv
  <2> QED BY <2>1, <2>2
<1>16. Scripts!NoneIsLeaked'
  <2> SUFFICES ASSUME NEW u \in DOMAIN vms, vms[u].open, vms[u].key \notin crossed
               PROVE  \/ drivers'[pool][vms[u].key] = u \/ u = unload.vm
                      \/ vms[u].key \in unload.left /\ drivers'[unload.map][vms[u].key] = u
    BY <1>1, <1>u DEF Scripts!NoneIsLeaked, Scripts!At
  <2>1. vms[u].key \in Key /\ u # 0
    BY <1>i, MachineFacts DEF ScriptTypes
  <2>2. CASE drivers[pool][vms[u].key] = u
    <3>1. vms[u].key # k
      BY <1>2, <1>6, <2>1, <2>2
    <3> QED BY <1>2, <1>7, <2>1, <2>2, <3>1
  <2>3. CASE \E q \in Reader : reader[q].at = "store" /\ reader[q].vm = u
    <3>1. u = v
      BY <1>9, <2>3 DEF v
    <3> QED BY <1>2, <1>7, <1>f, <3>1
  <2>4. CASE vms[u].key \in unload.left /\ drivers[unload.map][vms[u].key] = u
    <3>1. unload.map \in Scripts!Maps /\ unload.map < pool
      BY <1>u, <2>4, <1>i DEF Unloading, CloseInv
    <3>2. CASE unload.map = m /\ vms[u].key = k
      BY <1>f, <3>1, <3>2
    <3>3. CASE ~(unload.map = m /\ vms[u].key = k)
      BY <1>7, <2>1, <2>4, <3>1, <3>3
    <3> QED BY <3>2, <3>3
  <2> QED BY <2>2, <2>3, <2>4, <1>i DEF Scripts!NoneIsLeaked, Scripts!At
<1>17. Scripts!CallsEndWell'
  BY <1>1, <1>3, <1>o, <1>i DEF Scripts!CallsEndWell, Scripts!At, Goes
<1> QED BY <1>10, <1>11, <1>12, <1>13, <1>14, <1>15, <1>16, <1>17 DEF ScriptInv

LEMMA FindStep ==
    ASSUME ScriptInv, NEW p \in Reader, Scripts!FindLock(p)
    PROVE  ScriptInv'
<1> DEFINE x == [reader[p] EXCEPT !.at = "wait"]
<1>1. /\ reader[p].at = "call" /\ Quiet /\ UNCHANGED <<vms, lock>>
      /\ \/ reader' = [reader EXCEPT ![p].at = "wait"]
         \/ reader' = [reader EXCEPT ![p] = Scripts!Idle]
  BY DEF Scripts!FindLock, Scripts!Go, Scripts!Fail, Scripts!At, Scripts!start, Quiet
<1>2. reader \in [Reader -> ReaderState] /\ reader[p] \in ReaderState
  BY DEF ScriptInv, ScriptTypes
<1>3. CASE reader' = [reader EXCEPT ![p] = Scripts!Idle]
  <2>1. Scripts!Idle \in ReaderState /\ Scripts!Idle.at = "idle"
    BY DEF Scripts!Idle, ReaderState, ScriptPlaces
  <2>2. Goes(p, Scripts!Idle.at, Scripts!Idle.key, Scripts!Idle.vm, Scripts!Idle.map)
    BY <1>2, <1>3, <2>1, GoesTo
  <2> QED BY <1>1, <2>1, <2>2, CallerStep
<1>4. CASE reader' = [reader EXCEPT ![p].at = "wait"]
  <2>1. x \in ReaderState /\ x.at = "wait" /\ x.vm = reader[p].vm
    <3>1. "wait" \in ScriptPlaces
      BY DEF ScriptPlaces
    <3> QED BY <1>2, <3>1 DEF ReaderState
  <2>2. reader' = [reader EXCEPT ![p] = x]
    BY <1>2, <1>4
  <2> HIDE DEF x
  <2>3. Goes(p, x.at, x.key, x.vm, x.map)
    BY <1>2, <2>1, <2>2, GoesTo
  <2>4. x.vm \in DOMAIN vms /\ (x.vm \notin overtaken => vms[x.vm].open /\ x.vm \notin Closing)
    BY <1>1, <2>1 DEF ScriptInv, CallInv
  <2> QED BY <1>1, <2>1, <2>3, <2>4, CallerStep
<1> QED BY <1>1, <1>3, <1>4

\* A machine is entered by one caller at a time, and only while it is open.
LEMMA EnterStep ==
    ASSUME ScriptInv, NEW p \in Reader, Scripts!Enter(p)
    PROVE  ScriptInv'
<1> DEFINE v == reader[p].vm
           new == [vms[v] EXCEPT !.in = p]
           x == [reader[p] EXCEPT !.at = "run"]
<1>i. /\ ScriptTypes /\ LockInv /\ MapInv /\ FreshInv /\ CloseInv /\ CallInv
      /\ Scripts!NoneIsLeaked /\ Scripts!CallsEndWell
  BY DEF ScriptInv
<1>1. /\ reader[p].at = "wait" /\ vms[v].in = 0 /\ Quiet /\ UNCHANGED lock
      /\ IF vms[v].open THEN vms' = [vms EXCEPT ![v].in = p] /\ reader' = [reader EXCEPT ![p].at = "run"]
         ELSE Scripts!Return(p, "nothing") /\ UNCHANGED vms
  BY DEF Scripts!Enter, Scripts!Go, Scripts!At, Scripts!start, Quiet
<1>2. /\ reader \in [Reader -> ReaderState] /\ reader[p] \in ReaderState /\ v \in DOMAIN vms
      /\ vms \in Seq(Machine) /\ vms[v] \in Machine
      /\ v \notin overtaken => vms[v].open /\ v \notin Closing
  BY <1>1, <1>i, MachineFacts DEF ScriptTypes, CallInv
<1>3. CASE ~vms[v].open
  <2>1. PICK a \in {"idle", "nothing"} : \E k, u, m : Goes(p, a, k, u, m) /\ (a = "nothing" => u = v)
    BY <1>1, <1>2, <1>3, ReturnGoes
  <2>2. PICK k, u, m : Goes(p, a, k, u, m) /\ (a = "nothing" => u = v)
    BY <2>1
  <2> QED BY <1>1, <1>2, <1>3, <2>2, CallerStep
<1>4. CASE vms[v].open
  <2>1. x \in ReaderState /\ x.at = "run" /\ x.key = reader[p].key /\ x.vm = v /\ x.map = reader[p].map
    <3>1. "run" \in ScriptPlaces
      BY DEF ScriptPlaces
    <3> QED BY <1>2, <3>1 DEF ReaderState
  <2>2. reader' = [reader EXCEPT ![p] = x] /\ vms' = [vms EXCEPT ![v] = new]
    BY <1>1, <1>2, <1>4
  <2>3. /\ new \in Machine /\ new.in = p /\ new.key = vms[v].key /\ new.version = vms[v].version
        /\ new.open = vms[v].open /\ new.known = vms[v].known
    BY <1>2 DEF Machine
  <2> HIDE DEF x, new, v
  <2>4. Goes(p, "run", x.key, v, x.map)
    <3>1. Goes(p, x.at, x.key, x.vm, x.map)
      BY <1>2, <2>1, <2>2, GoesTo
    <3> QED BY <2>1, <3>1
  <2>5. /\ vms' \in Seq(Machine) /\ DOMAIN vms' = DOMAIN vms /\ vms'[v] = new
        /\ \A u \in DOMAIN vms : u # v => vms'[u] = vms[u]
    BY <1>2, <2>2, <2>3, MachineMoves
  <2>6. \A u \in DOMAIN vms : /\ vms'[u].open = vms[u].open /\ vms'[u].known = vms[u].known
                              /\ vms'[u].key = vms[u].key /\ vms'[u].version = vms[u].version
    BY <2>3, <2>5
  <2>7. Closing' = Closing
    BY <1>1 DEF Closing, Quiet
  <2>8. ScriptTypes'
    BY <1>1, <2>4, <2>5, <1>i DEF ScriptTypes, Quiet, Goes
  <2>9. LockInv'
    BY <1>1, <2>4, <1>i DEF LockInv, Quiet, Goes
  <2>m. /\ \A l \in Scripts!Maps, j \in Key : drivers[l][j] # 0 => drivers[l][j] \in DOMAIN vms
        /\ unload.map \in Scripts!Maps /\ unload.left \subseteq Key
    BY <1>i DEF MapInv, ScriptTypes, Unloading
  <2>10. MapInv' /\ CloseInv'
    <3>1. MapInv'
      BY <1>1, <2>5, <2>6, <2>7, <1>i DEF MapInv, Quiet
    <3>2. CloseInv'
      BY <1>1, <2>5, <2>6, <2>m, <1>i DEF CloseInv, Quiet
    <3> QED BY <3>1, <3>2
  <2>11. FreshInv'
    BY <1>1, <2>4, <2>5, <2>6, <2>7, <1>i DEF FreshInv, Quiet, Goes
  <2>12. CallInv'
    BY <1>1, <1>2, <2>4, <2>5, <2>6, <2>7, <1>i DEF CallInv, Quiet, Goes
  <2>13. Scripts!NoneIsLeaked'
    BY <1>1, <2>4, <2>5, <2>6, <1>i DEF Scripts!NoneIsLeaked, Scripts!At, Quiet, Goes
  <2>14. Scripts!CallsEndWell'
    <3> SUFFICES ASSUME NEW q \in Reader
                 PROVE  /\ reader'[q].at = "run" => vms'[reader'[q].vm].open /\ vms'[reader'[q].vm].in = q
                        /\ reader'[q].at = "nothing" => reader'[q].vm \in overtaken
      BY <1>1 DEF Scripts!CallsEndWell, Scripts!At, Quiet
    <3>1. CASE q = p
      BY <1>4, <2>3, <2>4, <2>5, <3>1 DEF Goes, v
    <3>2. CASE q # p
      <4>1. reader'[q] = reader[q] /\ (reader[q].at = "run" => reader[q].vm # v /\ reader[q].vm \in DOMAIN vms)
        <5>1. 0 # q
          BY ZeroIsNoReader
        <5> QED BY <1>1, <2>4, <3>2, <5>1, <1>i DEF Scripts!CallsEndWell, Scripts!At, CallInv, Goes, v
      <4> QED BY <2>5, <4>1, <1>i DEF Scripts!CallsEndWell, Scripts!At
    <3> QED BY <3>1, <3>2
  <2> QED BY <2>8, <2>9, <2>10, <2>11, <2>12, <2>13, <2>14 DEF ScriptInv
<1> QED BY <1>3, <1>4

LEMMA LeaveStep ==
    ASSUME ScriptInv, NEW p \in Reader, NEW r \in Scripts!Returns, Scripts!Leave(p, r)
    PROVE  ScriptInv'
<1> DEFINE v == reader[p].vm
           new == [vms[v] EXCEPT !.in = 0]
<1>i. /\ ScriptTypes /\ LockInv /\ MapInv /\ FreshInv /\ CloseInv /\ CallInv
      /\ Scripts!NoneIsLeaked /\ Scripts!CallsEndWell
  BY DEF ScriptInv
<1>1. /\ reader[p].at = "run" /\ Quiet /\ UNCHANGED lock
      /\ vms' = [vms EXCEPT ![v].in = 0] /\ Scripts!Return(p, r)
  BY DEF Scripts!Leave, Scripts!At, Scripts!start, Quiet
<1>2. /\ reader \in [Reader -> ReaderState] /\ v \in DOMAIN vms /\ vms \in Seq(Machine) /\ vms[v] \in Machine
  BY <1>1, <1>i, MachineFacts DEF ScriptTypes, CallInv
<1>3. PICK a \in {"idle", r} : \E k, u, m : Goes(p, a, k, u, m)
  BY <1>1, <1>2, ReturnGoes
<1>4. PICK k, u, m : Goes(p, a, k, u, m)
  BY <1>3
<1>5. a \notin {"look", "lock", "init", "store", "call", "wait", "run", "nothing"}
  BY <1>3 DEF Scripts!Returns
<1>6. vms' = [vms EXCEPT ![v] = new]
  BY <1>1, <1>2
<1>7. /\ new \in Machine /\ new.in = 0 /\ new.key = vms[v].key /\ new.version = vms[v].version
      /\ new.open = vms[v].open /\ new.known = vms[v].known
  BY <1>2 DEF Machine
<1> HIDE DEF new, v
<1>8. /\ vms' \in Seq(Machine) /\ DOMAIN vms' = DOMAIN vms /\ vms'[v] = new
      /\ \A w \in DOMAIN vms : w # v => vms'[w] = vms[w]
  BY <1>2, <1>6, <1>7, MachineMoves
<1>9. \A w \in DOMAIN vms : /\ vms'[w].open = vms[w].open /\ vms'[w].known = vms[w].known
                            /\ vms'[w].key = vms[w].key /\ vms'[w].version = vms[w].version
  BY <1>7, <1>8
<1>10. Closing' = Closing
  BY <1>1 DEF Closing, Quiet
<1>11. ScriptTypes'
  BY <1>1, <1>4, <1>8, <1>i DEF ScriptTypes, Quiet, Goes
<1>12. LockInv'
  BY <1>1, <1>4, <1>5, <1>i DEF LockInv, Quiet, Goes
<1>13. MapInv' /\ CloseInv'
  BY <1>1, <1>8, <1>9, <1>10, <1>i DEF MapInv, CloseInv, Quiet
<1>14. FreshInv'
  BY <1>1, <1>4, <1>5, <1>8, <1>9, <1>10, <1>i DEF FreshInv, Quiet, Goes
<1>15. CallInv'
  <2>1. reader'[p].at \notin {"look", "call", "wait", "run"} /\ \A q \in Reader : q # p => reader'[q] = reader[q]
    BY <1>4, <1>5 DEF Goes
  <2> QED BY <1>1, <2>1, <1>8, <1>9, <1>10, <1>i DEF CallInv, Quiet
<1>16. Scripts!NoneIsLeaked'
  BY <1>1, <1>4, <1>8, <1>9, <1>i DEF Scripts!NoneIsLeaked, Scripts!At, Quiet, Goes
<1>17. Scripts!CallsEndWell'
  <2> SUFFICES ASSUME NEW q \in Reader
               PROVE  /\ reader'[q].at = "run" => vms'[reader'[q].vm].open /\ vms'[reader'[q].vm].in = q
                      /\ reader'[q].at = "nothing" => reader'[q].vm \in overtaken
    BY <1>1 DEF Scripts!CallsEndWell, Scripts!At, Quiet
  <2>1. CASE q = p
    BY <1>4, <1>5, <2>1 DEF Goes
  <2>2. CASE q # p
    <3>1. reader'[q] = reader[q] /\ (reader[q].at = "run" => reader[q].vm # v /\ reader[q].vm \in DOMAIN vms)
      BY <1>1, <1>4, <2>2, <1>i DEF Scripts!CallsEndWell, Scripts!At, CallInv, Goes, v
    <3> QED BY <1>8, <3>1, <1>i DEF Scripts!CallsEndWell, Scripts!At
  <2> QED BY <2>1, <2>2
<1> QED BY <1>11, <1>12, <1>13, <1>14, <1>15, <1>16, <1>17 DEF ScriptInv

\* The program starts again: the map in use is to be walked.
LEMMA UnloadStep ==
    ASSUME ScriptInv, Scripts!UnloadDeviceDrivers
    PROVE  ScriptInv'
<1> DEFINE L == {drivers[pool][k] : k \in Key}
<1>i. /\ ScriptTypes /\ LockInv /\ MapInv /\ FreshInv /\ CloseInv /\ CallInv
      /\ Scripts!NoneIsLeaked /\ Scripts!CallsEndWell
  BY DEF ScriptInv
<1>1. /\ pool < MaxStarts + 1 /\ pool' = pool + 1 /\ wanted' = file
      /\ unload.left = {} /\ unload.vm = 0
      /\ unload' = [map |-> pool, left |-> Key, fresh |-> {}, vm |-> 0]
      /\ crossed' = crossed \cup {reader[p].key : p \in {q \in Reader : reader[q].at \in {"init", "store"}}}
      /\ overtaken' = overtaken \cup {reader[p].vm : p \in {q \in Reader : reader[q].at \in {"call", "wait"}}}
      /\ UNCHANGED <<file, drivers, lock, vms, reader>>
  BY DEF Scripts!UnloadDeviceDrivers, Scripts!Unloaded
<1>2. unload'.map = pool /\ unload'.left = Key /\ unload'.fresh = {} /\ unload'.vm = 0
  BY <1>1
<1>3. /\ pool \in Nat /\ pool + 1 \in Scripts!Maps /\ pool \in Scripts!Maps
      /\ \A m \in Scripts!Maps, k \in Key : m \in Nat /\ drivers[m][k] \in Nat
  <2>1. /\ pool \in Scripts!Maps /\ pool \in Nat
        /\ \A m \in Scripts!Maps, k \in Key : m \in Nat /\ drivers[m][k] \in Nat
    BY <1>i, MapFacts
  <2>2. pool + 1 \in Scripts!Maps
    BY <1>1, <2>1, ZeroIsNoReader DEF Scripts!Maps
  <2> QED BY <2>1, <2>2
<1>4. /\ \A q \in Reader : reader[q].at \in {"init", "store"} => reader[q].key \in crossed'
      /\ \A q \in Reader : reader[q].at \in {"call", "wait"} => reader[q].vm \in overtaken'
      /\ crossed \subseteq crossed' /\ overtaken \subseteq overtaken'
  BY <1>1
<1>5. \A k \in Key : drivers[pool + 1][k] = 0
  BY <1>3, <1>i DEF MapInv
<1>6. \A k \in Key : drivers[pool][k] # 0 => vms[drivers[pool][k]].known /\ vms[drivers[pool][k]].key = k
  BY <1>i DEF MapInv
<1>7. \A v \in DOMAIN vms : v # 0 /\ vms[v].key \in Key
  BY <1>i, MachineFacts DEF ScriptTypes
<1>8. ScriptTypes'
  <2>1. unload' \in Unloading
    BY <1>1, <1>3 DEF Unloading
  <2> QED BY <1>1, <1>3, <2>1, <1>i DEF ScriptTypes
<1>9. LockInv'
  <2>1. \A q \in Reader : reader[q].at \in {"init", "store"} => reader[q].map <= pool + 1
    <3> TAKE q \in Reader
    <3>1. reader[q].map \in Nat
      BY <1>i DEF ScriptTypes, ReaderState
    <3> QED BY <1>3, <3>1, <1>i DEF LockInv
  <2> QED BY <1>1, <1>4, <2>1, <1>i DEF LockInv
<1>10. MapInv'
  <2>1. \A m \in Scripts!Maps, k \in Key : m > pool + 1 => drivers[m][k] = 0
    BY <1>3, <1>i DEF MapInv
  <2>2. \A k \in Key : file[k] >= file[k]
    BY <1>i DEF ScriptTypes
  <2>3. \A m \in Scripts!Maps, k \in Key : drivers[m][k] # 0 => drivers[m][k] \in DOMAIN vms
    BY <1>i DEF MapInv
  <2> QED BY <1>1, <1>5, <2>1, <2>2, <2>3 DEF MapInv
<1>11. FreshInv'
  <2>1. \A q \in Reader : reader[q].at = "store" =>
           reader[q].vm # 0 /\ reader[q].vm \notin L /\ reader[q].key \in crossed'
    BY <1>4, <1>7, <1>i DEF FreshInv
  <2>2. Closing' = L \cup {0}
    BY <1>1, <1>2 DEF Closing
  <2> HIDE DEF L
  <2> QED BY <1>1, <1>5, <2>1, <2>2, <1>i DEF FreshInv
<1>12. CloseInv'
  BY <1>1, <1>2, <1>3, <1>6 DEF CloseInv
<1>13. CallInv'
  <2>1. ASSUME NEW q \in Reader, reader[q].at = "look"
        PROVE  reader[q].map \in Scripts!Maps /\ reader[q].key \in Key /\ reader[q].map <= pool + 1
    <3>1. reader[q].map \in Scripts!Maps /\ reader[q].key \in Key /\ reader[q].map <= pool
      BY <2>1, <1>i DEF CallInv
    <3>2. reader[q].map \in Nat
      BY <3>1, <1>i, MapFacts
    <3> QED BY <1>3, <3>1, <3>2
  <2> QED BY <1>1, <1>4, <2>1, <1>i DEF CallInv
<1>14. Scripts!NoneIsLeaked'
  <2> SUFFICES ASSUME NEW u \in DOMAIN vms, vms[u].open, vms[u].key \notin crossed'
               PROVE  vms[u].key \in Key /\ drivers[pool][vms[u].key] = u
    BY <1>1, <1>2 DEF Scripts!NoneIsLeaked, Scripts!At
  <2>1. ~\E q \in Reader : reader[q].at = "store" /\ reader[q].vm = u
    BY <1>4, <1>i DEF FreshInv
  <2>2. drivers[pool][vms[u].key] = u
    BY <1>1, <1>4, <1>7, <2>1, <1>i DEF Scripts!NoneIsLeaked, Scripts!At
  <2> QED BY <1>7, <2>2
<1>15. Scripts!CallsEndWell'
  BY <1>1, <1>4, <1>i DEF Scripts!CallsEndWell, Scripts!At
<1> QED BY <1>8, <1>9, <1>10, <1>11, <1>12, <1>13, <1>14, <1>15 DEF ScriptInv

\* A machine's lock is forgotten, or a machine is closed: one that nobody finds any more.
Closes(v, x) ==
    /\ v \in DOMAIN vms /\ x \in Machine /\ vms' = [vms EXCEPT ![v] = x]
    /\ v \in Closing /\ Closing' \subseteq Closing \cup {0} /\ unload' \in Unloading
    /\ UNCHANGED <<file, pool, drivers, lock, reader, wanted, crossed, overtaken>>
    /\ x.key = vms[v].key /\ x.version = vms[v].version /\ x.in = vms[v].in
    /\ x.open \in {FALSE, vms[v].open} /\ (vms[v].in = 0 \/ x.open = vms[v].open)
    /\ \A u \in DOMAIN vms : u = unload.vm \/ ToCome(u) => u = unload'.vm \/ ToCome(u)' \/ ~vms'[u].open

LEMMA ClosingStep ==
    ASSUME ScriptInv, CloseInv', NEW v, NEW x, Closes(v, x)
    PROVE  ScriptInv'
<1> USE DEF Closes
<1>i. /\ ScriptTypes /\ LockInv /\ MapInv /\ FreshInv /\ CloseInv /\ CallInv
      /\ Scripts!NoneIsLeaked /\ Scripts!CallsEndWell
  BY DEF ScriptInv
<1>1. /\ vms' \in Seq(Machine) /\ DOMAIN vms' = DOMAIN vms /\ vms'[v] = x
      /\ \A u \in DOMAIN vms : u # v => vms'[u] = vms[u] /\ u # 0
  BY <1>i, MachineMoves, MachineFacts DEF ScriptTypes
<1>0. \A u \in DOMAIN vms : u # 0 /\ (u \notin Closing => u \notin Closing')
  BY <1>i, MachineFacts DEF ScriptTypes
<1>2. \A u \in DOMAIN vms : /\ vms'[u].key = vms[u].key /\ vms'[u].version = vms[u].version
                            /\ vms'[u].in = vms[u].in /\ (vms'[u].open => vms[u].open)
                            /\ (vms[u].in # 0 /\ vms[u].open => vms'[u].open)
  BY <1>1
<1>3. ScriptTypes'
  BY <1>1, <1>i DEF ScriptTypes
<1>4. LockInv'
  BY <1>i DEF LockInv
<1>5. MapInv'
  BY <1>0, <1>1, <1>i DEF MapInv
<1>6. FreshInv'
  BY <1>0, <1>1, <1>i DEF FreshInv
<1>7. CallInv'
  BY <1>0, <1>1, <1>i DEF CallInv
<1>8. Scripts!NoneIsLeaked'
  <2> SUFFICES ASSUME NEW u \in DOMAIN vms, vms'[u].open, vms[u].key \notin crossed
               PROVE  \/ drivers[pool][vms[u].key] = u \/ u = unload'.vm \/ ToCome(u)'
                      \/ \E q \in Reader : reader[q].at = "store" /\ reader[q].vm = u
    BY <1>1, <1>2 DEF Scripts!NoneIsLeaked, Scripts!At, ToCome
  <2>1. \/ drivers[pool][vms[u].key] = u \/ u = unload.vm \/ ToCome(u)
        \/ \E q \in Reader : reader[q].at = "store" /\ reader[q].vm = u
    BY <1>2, <1>i DEF Scripts!NoneIsLeaked, Scripts!At, ToCome
  <2> QED BY <2>1
<1>9. Scripts!CallsEndWell'
  <2> SUFFICES ASSUME NEW q \in Reader
               PROVE  /\ reader[q].at = "run" => vms'[reader[q].vm].open /\ vms'[reader[q].vm].in = q
                      /\ reader[q].at = "nothing" => reader[q].vm \in overtaken
    BY DEF Scripts!CallsEndWell, Scripts!At
  <2>1. reader[q].at = "run" => reader[q].vm \in DOMAIN vms /\ q # 0
    BY <1>i, ZeroIsNoReader DEF CallInv
  <2> QED BY <1>2, <2>1, <1>i DEF Scripts!CallsEndWell, Scripts!At
<1> QED BY <1>3, <1>4, <1>5, <1>6, <1>7, <1>8, <1>9 DEF ScriptInv

\* The walk passes a key: what it leaves open is of a key that was loading.
LEMMA PassStep ==
    ASSUME ScriptInv, NEW k \in Key, Scripts!Pass(k)
    PROVE  ScriptInv'
<1>i. /\ ScriptTypes /\ LockInv /\ MapInv /\ FreshInv /\ CloseInv /\ CallInv
      /\ Scripts!NoneIsLeaked /\ Scripts!CallsEndWell
  BY DEF ScriptInv
<1>1. /\ k \in unload.left /\ (drivers[unload.map][k] = 0 \/ k \in unload.fresh)
      /\ unload' = [unload EXCEPT !.left = unload.left \ {k}]
      /\ UNCHANGED <<file, pool, drivers, lock, vms, reader, wanted, crossed, overtaken>>
  BY DEF Scripts!Pass
<1>2. /\ unload \in Unloading /\ unload' \in Unloading /\ unload'.map = unload.map
      /\ unload'.left = unload.left \ {k} /\ unload'.fresh = unload.fresh /\ unload'.vm = unload.vm
  <2>1. unload \in Unloading
    BY <1>i DEF ScriptTypes
  <2> QED BY <1>1, <2>1 DEF Unloading
<1>3. Closing' \subseteq Closing
  BY <1>1, <1>2 DEF Closing
<1>4. ScriptTypes'
  BY <1>1, <1>2, <1>i DEF ScriptTypes
<1>5. LockInv' /\ CloseInv'
  BY <1>1, <1>2, <1>i DEF LockInv, CloseInv
<1>6. MapInv' /\ FreshInv' /\ CallInv'
  BY <1>1, <1>3, <1>i DEF MapInv, FreshInv, CallInv
<1>7. Scripts!NoneIsLeaked'
  <2> SUFFICES ASSUME NEW u \in DOMAIN vms, vms[u].open, vms[u].key \notin crossed,
                      vms[u].key \in unload.left, drivers[unload.map][vms[u].key] = u
               PROVE  vms[u].key # k
    BY <1>1, <1>2, <1>i DEF Scripts!NoneIsLeaked, Scripts!At
  <2>1. u # 0
    BY <1>i, MachineFacts DEF ScriptTypes
  <2> QED BY <1>1, <2>1, <1>i DEF CloseInv
<1>8. Scripts!CallsEndWell'
  BY <1>1, <1>i DEF Scripts!CallsEndWell, Scripts!At
<1> QED BY <1>4, <1>5, <1>6, <1>7, <1>8 DEF ScriptInv

LEMMA ForgetStep ==
    ASSUME ScriptInv, NEW k \in Key, Scripts!Forget(k)
    PROVE  ScriptInv'
<1> DEFINE v == drivers[unload.map][k]
           new == [vms[v] EXCEPT !.known = FALSE]
<1>i. ScriptTypes /\ CloseInv /\ MapInv
  BY DEF ScriptInv
<1>1. /\ unload.vm = 0 /\ k \in unload.left /\ v # 0 /\ vms' = [vms EXCEPT ![v].known = FALSE]
      /\ unload' = [unload EXCEPT !.left = unload.left \ {k}, !.vm = IF vms[v].known THEN v ELSE 0]
      /\ UNCHANGED <<file, pool, drivers, lock, reader, wanted, crossed, overtaken>>
  BY DEF Scripts!Forget
<1>0. unload \in Unloading
  BY <1>i DEF ScriptTypes
<1>2. /\ v \in DOMAIN vms /\ vms[v].known /\ vms[v].key = k /\ vms \in Seq(Machine) /\ vms[v] \in Machine
      /\ v \in Nat
  <2>1. v \in DOMAIN vms
    BY <1>0, <1>1, <1>i DEF MapInv, Unloading
  <2>2. vms[v].known /\ vms[v].key = k
    BY <1>1, <1>i DEF CloseInv
  <2> QED BY <2>1, <2>2, <1>i, MachineFacts DEF ScriptTypes
<1>3. /\ unload'.left = unload.left \ {k} /\ unload'.vm = v /\ unload' \in Unloading
      /\ unload'.map = unload.map /\ unload'.fresh = unload.fresh
  <2> HIDE DEF v
  <2> QED BY <1>0, <1>1, <1>2 DEF Unloading
<1>4. vms' = [vms EXCEPT ![v] = new]
  BY <1>1, <1>2
<1>5. /\ new \in Machine /\ new.in = vms[v].in /\ new.key = vms[v].key /\ new.version = vms[v].version
      /\ new.open = vms[v].open /\ ~new.known
  BY <1>2 DEF Machine
<1> HIDE DEF new
<1>6. v \in Closing /\ Closing' \subseteq Closing
  BY <1>1, <1>3 DEF Closing
<1>7. /\ DOMAIN vms' = DOMAIN vms /\ \A u \in DOMAIN vms : u # v => vms'[u] = vms[u]
      /\ \A u \in DOMAIN vms : vms'[u].key = vms[u].key
  BY <1>2, <1>4, <1>5, MachineMoves
<1>8. CloseInv'
  <2>1. \A j \in unload.left \ {k} : drivers[unload.map][j] # 0 =>
           /\ drivers[unload.map][j] # v /\ drivers[unload.map][j] \in DOMAIN vms
           /\ vms[drivers[unload.map][j]].known /\ vms[drivers[unload.map][j]].key = j
    BY <1>0, <1>2, <1>i DEF CloseInv, MapInv, Unloading
  <2> QED BY <1>1, <1>2, <1>3, <1>7, <2>1, <1>i DEF CloseInv
<1>9. \A u \in DOMAIN vms : u = unload.vm \/ ToCome(u) => u = unload'.vm \/ ToCome(u)' \/ ~vms'[u].open
  <2>1. \A u \in DOMAIN vms : u # 0
    BY <1>2, MachineFacts
  <2>2. \A u \in DOMAIN vms : ToCome(u) /\ u # v => ToCome(u)'
    BY <1>1, <1>3, <1>7 DEF ToCome
  <2> QED BY <1>1, <1>3, <2>1, <2>2
<1>10. new.open \in {FALSE, vms[v].open} /\ (vms[v].in = 0 \/ new.open = vms[v].open)
  BY <1>5
<1>11. Closing' \subseteq Closing \cup {0}
  BY <1>6
<1> HIDE DEF v
<1>12. Closes(v, new)
  BY <1>1, <1>2, <1>3, <1>4, <1>5, <1>6, <1>9, <1>10, <1>11 DEF Closes
<1> QED BY <1>8, <1>12, ClosingStep

LEMMA CloseStep ==
    ASSUME ScriptInv, Scripts!Close
    PROVE  ScriptInv'
<1> DEFINE v == unload.vm
           new == [vms[v] EXCEPT !.open = FALSE]
<1>i. ScriptTypes /\ CloseInv /\ MapInv
  BY DEF ScriptInv
<1>1. /\ v # 0 /\ vms[v].in = 0 /\ vms' = [vms EXCEPT ![v].open = FALSE]
      /\ unload' = [unload EXCEPT !.vm = 0]
      /\ UNCHANGED <<file, pool, drivers, lock, reader, wanted, crossed, overtaken>>
  BY DEF Scripts!Close, Scripts!MayClose
<1>2. v \in DOMAIN vms /\ vms \in Seq(Machine) /\ vms[v] \in Machine /\ unload \in Unloading
  BY <1>1, <1>i, MachineFacts DEF ScriptTypes, CloseInv
<1>3. /\ unload'.left = unload.left /\ unload'.vm = 0 /\ unload' \in Unloading
      /\ unload'.map = unload.map /\ unload'.fresh = unload.fresh
  BY <1>1, <1>2 DEF Unloading
<1>4. vms' = [vms EXCEPT ![v] = new]
  BY <1>1, <1>2
<1>5. /\ new \in Machine /\ new.in = vms[v].in /\ new.key = vms[v].key /\ new.version = vms[v].version
      /\ new.open = FALSE /\ new.known = vms[v].known
  BY <1>2 DEF Machine
<1> HIDE DEF new
<1>6. DOMAIN vms' = DOMAIN vms /\ vms'[v] = new /\ \A u \in DOMAIN vms : u # v => vms'[u] = vms[u]
  BY <1>2, <1>4, <1>5, MachineMoves
<1>7. CloseInv'
  <2>1. \A u \in DOMAIN vms : vms'[u].known = vms[u].known /\ vms'[u].key = vms[u].key
    BY <1>5, <1>6
  <2>2. \A j \in unload.left : drivers[unload.map][j] # 0 => drivers[unload.map][j] \in DOMAIN vms
    BY <1>2, <1>i DEF MapInv, Unloading
  <2> QED BY <1>1, <1>3, <1>6, <2>1, <2>2, <1>i DEF CloseInv
<1>8. \A u \in DOMAIN vms : u = unload.vm \/ ToCome(u) => u = unload'.vm \/ ToCome(u)' \/ ~vms'[u].open
  BY <1>1, <1>3, <1>5, <1>6 DEF ToCome
<1>9. v \in Closing /\ Closing' \subseteq Closing \cup {0}
  BY <1>1, <1>3 DEF Closing
<1>10. new.open \in {FALSE, vms[v].open} /\ (vms[v].in = 0 \/ new.open = vms[v].open)
  BY <1>1, <1>5
<1> HIDE DEF v
<1>11. Closes(v, new)
  BY <1>1, <1>2, <1>3, <1>4, <1>5, <1>8, <1>9, <1>10 DEF Closes
<1> QED BY <1>7, <1>11, ClosingStep

\* A file is changed: it is newer than it was at the last start.
LEMMA EditStep ==
    ASSUME ScriptInv, NEW k \in Key, Scripts!Edit(k)
    PROVE  ScriptInv'
<1>i. /\ ScriptTypes /\ LockInv /\ MapInv /\ FreshInv /\ CloseInv /\ CallInv
      /\ Scripts!NoneIsLeaked /\ Scripts!CallsEndWell
  BY DEF ScriptInv
<1>1. /\ file' = [file EXCEPT ![k] = file[k] + 1]
      /\ UNCHANGED <<drivers, lock, vms, reader, pool, unload, wanted, crossed, overtaken>>
  BY DEF Scripts!Edit, Scripts!start
<1>2. /\ file \in [Key -> Nat] /\ file' \in [Key -> Nat] /\ wanted \in [Key -> Nat]
      /\ \A j \in Key : file'[j] >= file[j]
  BY <1>1, <1>i DEF ScriptTypes
<1>3. ScriptTypes'
  BY <1>1, <1>2, <1>i DEF ScriptTypes
<1>4. MapInv'
  <2>1. \A j \in Key : file'[j] >= wanted[j]
    BY <1>2, <1>i DEF MapInv
  <2>2. Closing' = Closing
    BY <1>1 DEF Closing
  <2> QED BY <1>1, <2>1, <2>2, <1>i DEF MapInv
<1>5. LockInv' /\ FreshInv' /\ CloseInv' /\ CallInv'
  BY <1>1, <1>i DEF LockInv, FreshInv, CloseInv, CallInv, Closing
<1>6. Scripts!NoneIsLeaked' /\ Scripts!CallsEndWell'
  BY <1>1, <1>i DEF Scripts!NoneIsLeaked, Scripts!CallsEndWell, Scripts!At
<1> QED BY <1>3, <1>4, <1>5, <1>6 DEF ScriptInv

LEMMA ScriptStill ==
    ASSUME ScriptInv, UNCHANGED scriptVars
    PROVE  ScriptInv'
BY DEF scriptVars, ScriptInv, ScriptTypes, LockInv, MapInv, FreshInv, CloseInv, CallInv, Closing,
       Scripts!NoneIsLeaked, Scripts!CallsEndWell, Scripts!At

LEMMA ScriptStep ==
    ASSUME ScriptInv, Scripts!Next
    PROVE  ScriptInv'
<1>1. CASE \E p \in Reader : Scripts!LoadLibrary(p)
  BY <1>1, LoadStep
<1>2. CASE \E p \in Reader : Scripts!InitLuaVM(p)
  BY <1>2, InitStep
<1>3. CASE \E p \in Reader : Scripts!Store(p)
  BY <1>3, StoreStep
<1>4. CASE \E p \in Reader : Scripts!FindLock(p)
  BY <1>4, FindStep
<1>5. CASE \E p \in Reader : Scripts!Enter(p)
  BY <1>5, EnterStep
<1>6. CASE \E p \in Reader : \E r \in Scripts!Returns : Scripts!Leave(p, r)
  BY <1>6, LeaveStep
<1>7. CASE \E p \in Reader : \E method \in Methods : \E k \in Key : Scripts!Ask(p, method, k)
  BY <1>7, AskStep
<1>8. CASE Scripts!UnloadDeviceDrivers
  BY <1>8, UnloadStep
<1>9. CASE Scripts!Close
  BY <1>9, CloseStep
<1>10. CASE \E k \in Key : Scripts!Forget(k)
  BY <1>10, ForgetStep
<1>11. CASE \E k \in Key : Scripts!Edit(k)
  BY <1>11, EditStep
<1>12. CASE \E k \in Key : Scripts!Pass(k)
  BY <1>12, PassStep
<1>13. CASE \E p \in Reader : Scripts!Look(p)
  BY <1>13, LookStep
<1> QED BY <1>1, <1>2, <1>3, <1>4, <1>5, <1>6, <1>7, <1>8, <1>9, <1>10, <1>11, <1>12, <1>13 DEF Scripts!Next

LEMMA ScriptsCurrent == ScriptInv => Scripts!ScriptsAreCurrent
<1> SUFFICES ASSUME ScriptInv PROVE Scripts!FoundIsCurrent
  BY DEF ScriptInv, Scripts!ScriptsAreCurrent
<1> QED BY DEF ScriptInv, MapInv, Scripts!FoundIsCurrent

-----------------------------------------------------------------------------
(***************************************************************************)
(* Sessions                                                                *)
(***************************************************************************)
HandlerState == [pc : {"none", "read", "map", "export", "done"}, left : Seq(Sessions!Device), all : Seq(Sessions!Device)]
EnderState == [pc : {"none", "drop", "offline", "done"}, left : Seq(Sessions!Device)]
Mappings == [Sessions!Connector -> [Sessions!Device -> Conn \cup {0}]]

SessionTypes ==
    /\ kind \in {"websocket", "mqtt"} /\ connector \in Sessions!Connector
    /\ home \in [Conn -> Sessions!Connector \cup {0}]
    /\ mapping \in Mappings
    /\ listed \in [Conn -> Seq(Sessions!Device)]
    /\ handler \in [Conn -> HandlerState] /\ ender \in [Conn -> EnderState]
    /\ broken \subseteq Conn
    /\ online \in [Sessions!Device -> BOOLEAN]
    /\ last \in [Sessions!Device -> Conn \cup {0}]

\* The devices of goroutines, and of what ends.
Handles(c) == Sessions!Range(handler[c].all)
Ahead(c) == Sessions!Range(handler[c].left)
Leaves(c) == Sessions!Range(ender[c].left)
Unmapped(c, d) == handler[c].pc = "map" /\ d \in Ahead(c)

\* What a connection has depends on where its goroutines are.
LifeInv ==
    \A c \in Conn :
        /\ home[c] = 0 => handler[c].pc = "none" /\ c \notin broken
        /\ ender[c].pc # "none" => c \in broken
        /\ IF handler[c].pc \in {"map", "export"}
           THEN handler[c].left # <<>> /\ Ahead(c) \subseteq Handles(c)
           ELSE handler[c].left = <<>> /\ handler[c].all = <<>>
        /\ ender[c].pc \in {"drop", "offline"} <=> ender[c].left # <<>>

\* Who has a device in its message is whom it reported over last, and has not ended.
LastInv ==
    /\ \A d \in Sessions!Device : (online[d] => last[d] # 0) /\ (last[d] # 0 => home[last[d]] # 0)
    /\ \A c \in Conn : \A d \in Handles(c) :
          last[d] # 0 /\ (d \notin sessionsCrossed => last[d] = c /\ ender[c].pc = "none")

\* A device in the map is on the list of its connection, or of what is left of it at its end.
ListedInv ==
    /\ \A k \in Sessions!Connector, d \in Sessions!Device : mapping[k][d] # 0 =>
          /\ home[mapping[k][d]] = k
          /\ d \in Sessions!Range(listed[mapping[k][d]]) \cup Leaves(mapping[k][d])
    /\ \A c \in Conn : ender[c].pc # "none" => handler[c].pc = "done" /\ listed[c] = <<>>
    /\ \A c \in Conn : ender[c].pc = "offline" => mapping[home[c]][Head(ender[c].left)] # c

\* Goroutines of two connections do not have a device at once.
AloneInv ==
    \A c, o \in Conn, d \in Sessions!Device \ sessionsCrossed :
        c # o => d \notin Sessions!Busy(c) \/ d \notin Sessions!Busy(o)

\* A device is mapped to no connection but the one it reported over last, and to that one from its
\* mapping until its end.
MappedInv ==
    /\ \A d \in Sessions!Device \ sessionsCrossed :
          (\A c \in Conn : ~Unmapped(c, d)) => \A k \in Sessions!Connector : mapping[k][d] \in {0, last[d]}
    /\ \A c \in Conn : \A d \in Handles(c) \ sessionsCrossed :
          ~Unmapped(c, d) => mapping[home[c]][d] = c
    /\ \A c \in Conn : ender[c].pc = "offline" /\ Head(ender[c].left) \notin sessionsCrossed =>
          last[Head(ender[c].left)] = c

\* A device is online as long as it is mapped to the connection it reported over last.
OnlineInv ==
    \A l \in Conn : \A d \in Sessions!Device \ sessionsCrossed : last[d] = l =>
        /\ online[d] /\ (\A c \in Conn : ~Unmapped(c, d)) =>
              mapping[home[l]][d] = l \/ (ender[l].pc = "offline" /\ Head(ender[l].left) = d)
        /\ ~online[d] => \/ d \in Ahead(l) \/ ender[l].pc # "none"
                         \/ (handler[l].pc = "map" /\ d \in Handles(l))

WebsocketInv == kind = "websocket" => ListedInv /\ AloneInv /\ MappedInv /\ OnlineInv

\* Of the sessions of one connector all but one are lost.
SessionInv ==
    \A c, o \in Conn : c # o /\ home[c] = home[o] /\ home[c] # 0 => c \in broken \/ o \in broken

\* A device whose last session is still there is in nothing that ends, and the sessions before it
\* have ended; one whose last session is lost is offline, or about to be.
LostInv ==
    \A l \in Conn : \A d \in Sessions!Device \ sessionsCrossed : last[d] = l =>
        IF l \in broken
        THEN ~online[d] \/ ender[l].pc = "none" \/ d \in Leaves(l)
        ELSE /\ online[d] \/ d \in Ahead(l)
             /\ \A o \in Conn : d \notin Leaves(o)
             /\ \A o \in Conn \ {l} : home[o] = home[l] => o \in broken /\ ender[o].pc = "done"

MqttInv ==
    kind = "mqtt" =>
        /\ \A k \in Sessions!Connector, d \in Sessions!Device : mapping[k][d] = 0
        /\ \A c \in Conn : handler[c].pc # "map" /\ ender[c].pc # "drop"
        /\ SessionInv /\ LostInv

SessionsInv == SessionTypes /\ LifeInv /\ LastInv /\ WebsocketInv /\ MqttInv

LEMMA SequenceFacts ==
    ASSUME NEW T, NEW s \in Seq(T)
    PROVE  /\ Sessions!Range(s) \subseteq T /\ (s = <<>> <=> Sessions!Range(s) = {})
           /\ s # <<>> => /\ Head(s) \in Sessions!Range(s) /\ Tail(s) \in Seq(T)
                          /\ Sessions!Range(Tail(s)) \subseteq Sessions!Range(s)
                          /\ Sessions!Range(s) \subseteq {Head(s)} \cup Sessions!Range(Tail(s))
                          /\ Len(s) > 1 <=> Tail(s) # <<>>
<1>1. Len(s) \in Nat /\ DOMAIN s = 1 .. Len(s) /\ \A i \in 1 .. Len(s) : s[i] \in T
  OBVIOUS
<1>2. Sessions!Range(s) \subseteq T /\ (s = <<>> <=> Sessions!Range(s) = {})
  <2>1. s # <<>> => Len(s) > 0
    BY <1>1
  <2>2. Sessions!Range(s) \subseteq T
    BY <1>1 DEF Sessions!Range
  <2>3. s = <<>> => Sessions!Range(s) = {}
    BY DEF Sessions!Range
  <2>4. s # <<>> => s[1] \in Sessions!Range(s)
    BY <1>1, <2>1 DEF Sessions!Range
  <2> QED BY <2>2, <2>3, <2>4
<1>3. ASSUME s # <<>>
      PROVE  /\ Head(s) = s[1] /\ Tail(s) \in Seq(T) /\ Len(Tail(s)) = Len(s) - 1 /\ Len(s) > 0
             /\ \A i \in 1 .. Len(s) - 1 : Tail(s)[i] = s[i + 1]
  BY <1>3
<1>4. ASSUME s # <<>>
      PROVE  /\ Head(s) \in Sessions!Range(s) /\ Tail(s) \in Seq(T)
             /\ Sessions!Range(Tail(s)) \subseteq Sessions!Range(s)
             /\ Sessions!Range(s) \subseteq {Head(s)} \cup Sessions!Range(Tail(s))
             /\ Len(s) > 1 <=> Tail(s) # <<>>
  <2>1. Tail(s) \in Seq(T) /\ DOMAIN Tail(s) = 1 .. Len(s) - 1
    BY <1>1, <1>3, <1>4
  <2>2. Head(s) \in Sessions!Range(s)
    BY <1>1, <1>3, <1>4 DEF Sessions!Range
  <2>3. ASSUME NEW i \in DOMAIN Tail(s) PROVE Tail(s)[i] \in Sessions!Range(s)
    BY <1>1, <1>3, <1>4, <2>1 DEF Sessions!Range
  <2>4. ASSUME NEW i \in DOMAIN s PROVE s[i] \in {Head(s)} \cup Sessions!Range(Tail(s))
    <3>1. CASE i = 1
      BY <1>3, <1>4, <3>1
    <3>2. CASE i # 1
      <4>1. i - 1 \in DOMAIN Tail(s) /\ Tail(s)[i - 1] = s[i]
        BY <1>1, <1>3, <1>4, <2>1, <3>2
      <4> QED BY <4>1 DEF Sessions!Range
    <3> QED BY <3>1, <3>2
  <2>5. Len(s) > 1 <=> Tail(s) # <<>>
    <3>1. \A t \in Seq(T) : t = <<>> <=> Len(t) = 0
      OBVIOUS
    <3>2. Tail(s) # <<>> <=> Len(Tail(s)) # 0
      BY <2>1, <3>1
    <3>3. Len(Tail(s)) = Len(s) - 1 /\ Len(s) > 0
      BY <1>3, <1>4
    <3> QED BY <1>1, <3>2, <3>3
  <2> QED BY <2>1, <2>2, <2>3, <2>4, <2>5 DEF Sessions!Range
<1> QED BY <1>2, <1>4

LEMMA DeviceFacts ==
    /\ Devices \in Seq(Sessions!Device) /\ Devices # <<>> /\ Sessions!Range(Devices) = Sessions!Device
    /\ \A ds \in Messages : ds \in Seq(Sessions!Device) /\ ds # <<>>
BY SessionsAreConfigured DEF Sessions!Device, Sessions!Range

LEMMA SessionsInit == Sessions!Init => SessionsInv
<1> SUFFICES ASSUME Sessions!Init PROVE SessionsInv
  OBVIOUS
<1>1. /\ kind \in Kinds /\ connector = 1 /\ home = [c \in Conn |-> 0]
      /\ mapping = [k \in Sessions!Connector |-> [d \in Sessions!Device |-> 0]]
      /\ listed = [c \in Conn |-> <<>>]
      /\ handler = [c \in Conn |-> [pc |-> "none", left |-> <<>>, all |-> <<>>]]
      /\ ender = [c \in Conn |-> [pc |-> "none", left |-> <<>>]]
      /\ broken = {} /\ online = [d \in Sessions!Device |-> FALSE]
      /\ last = [d \in Sessions!Device |-> 0]
  BY DEF Sessions!Init, Sessions!At, Sessions!NoEnd
<1>2. SessionTypes
  <2>1. 1 \in Sessions!Connector
    BY SessionsAreConfigured DEF Sessions!Connector
  <2>2. <<>> \in Seq(Sessions!Device)
    OBVIOUS
  <2>3. mapping \in Mappings
    BY <1>1 DEF Mappings
  <2>4. handler \in [Conn -> HandlerState] /\ ender \in [Conn -> EnderState]
    BY <1>1, <2>2 DEF HandlerState, EnderState
  <2> QED BY <1>1, <2>1, <2>2, <2>3, <2>4, SessionsAreConfigured DEF SessionTypes
<1>3. \A c \in Conn : Handles(c) = {} /\ Ahead(c) = {} /\ Leaves(c) = {} /\ ender[c].pc = "none"
  BY <1>1 DEF Handles, Ahead, Leaves, Sessions!Range
<1>4. LifeInv /\ LastInv
  BY <1>1, <1>3 DEF LifeInv, LastInv
<1>5. WebsocketInv
  <2>1. ListedInv
    BY <1>1, <1>3 DEF ListedInv
  <2>2. AloneInv
    BY <1>3 DEF AloneInv, Sessions!Busy, Handles, Leaves
  <2>3. MappedInv /\ OnlineInv
    BY <1>1, <1>3, SessionsAreConfigured DEF MappedInv, OnlineInv
  <2> QED BY <2>1, <2>2, <2>3 DEF WebsocketInv
<1>6. MqttInv
  BY <1>1, <1>3, SessionsAreConfigured DEF MqttInv, SessionInv, LostInv
<1> QED BY <1>2, <1>4, <1>5, <1>6 DEF SessionsInv

\* What the invariant says of the status.
LEMMA SessionsStatus == SessionsInv => Sessions!StatusIsOfTheSession /\ Sessions!EndedHasNoDevice
<1> SUFFICES ASSUME SessionsInv PROVE Sessions!StatusIsOfTheSession /\ Sessions!EndedHasNoDevice
  OBVIOUS
<1>i. SessionTypes /\ LifeInv /\ LastInv /\ WebsocketInv /\ MqttInv
  BY DEF SessionsInv
<1>1. \A k \in Sessions!Connector, d \in Sessions!Device : mapping[k][d] \in Conn \cup {0}
  BY <1>i DEF SessionTypes, Mappings
<1>2. Sessions!EndedHasNoDevice
  BY <1>1, <1>i DEF SessionTypes, WebsocketInv, MqttInv, ListedInv, Sessions!EndedHasNoDevice, Leaves
<1>3. ASSUME NEW d \in Sessions!Device \ sessionsCrossed, Sessions!AtRest(d)
      PROVE  online[d] <=> last[d] \notin broken \cup {0}
  <2> DEFINE c == last[d]
  <2>1. /\ \A o \in Conn : /\ d \notin Handles(o) /\ d \notin Leaves(o) /\ d \notin Ahead(o)
                           /\ o \in broken => ender[o].pc = "done"
        /\ c \in Conn \cup {0} /\ online[d] \in BOOLEAN
    <3>1. \A o \in Conn : d \notin Handles(o) /\ d \notin Leaves(o) /\ (o \in broken => ender[o].pc = "done")
      BY <1>3 DEF Sessions!AtRest, Sessions!Busy, Handles, Leaves
    <3>2. \A o \in Conn : d \notin Ahead(o)
      BY <3>1, <1>i DEF LifeInv, Ahead, Handles
    <3> QED BY <3>1, <3>2, <1>i DEF SessionTypes
  <2>2. c = 0 => ~online[d]
    BY <1>i DEF LastInv
  <2>3. CASE c # 0 /\ kind = "mqtt"
    BY <2>1, <2>3, <1>i DEF MqttInv, LostInv
  <2>4. CASE c # 0 /\ kind = "websocket"
    <3>1. c \in Conn /\ home[c] \in Sessions!Connector /\ OnlineInv /\ ListedInv
      BY <2>1, <2>4, <1>i DEF LastInv, WebsocketInv, SessionTypes
    <3>2. \A o \in Conn : ~Unmapped(o, d)
      BY <2>1 DEF Unmapped
    <3>3. c \in broken => ~online[d]
      <4> SUFFICES ASSUME c \in broken, online[d] PROVE FALSE
        OBVIOUS
      <4>1. mapping[home[c]][d] = c
        BY <2>1, <2>4, <3>1, <3>2 DEF OnlineInv
      <4>2. listed[c] = <<>> /\ d \in Sessions!Range(listed[c])
        BY <2>1, <2>4, <3>1, <4>1 DEF ListedInv
      <4> QED BY <4>2 DEF Sessions!Range
    <3>4. c \notin broken => online[d]
      BY <2>1, <2>4, <3>1, <1>i DEF OnlineInv, LifeInv
    <3> QED BY <2>4, <3>3, <3>4
  <2> QED BY <2>1, <2>2, <2>3, <2>4, <1>i DEF SessionTypes
<1> QED BY <1>2, <1>3 DEF Sessions!StatusIsOfTheSession

-----------------------------------------------------------------------------
\* What a goroutine does to its own record, seen by the devices in it.
LEMMA RestMoves ==
    ASSUME NEW h \in HandlerState, h.pc \in {"map", "export"}, h.left # <<>>
    PROVE  /\ Sessions!Rest(h) \in HandlerState
           /\ \/ /\ Sessions!Rest(h).pc = h.pc /\ Sessions!Rest(h).all = h.all
                 /\ Sessions!Rest(h).left = Tail(h.left) /\ Tail(h.left) # <<>>
              \/ /\ h.pc = "map" /\ Sessions!Rest(h).pc = "export" /\ Sessions!Rest(h).left = h.all
                 /\ Sessions!Rest(h).all = h.all /\ Tail(h.left) = <<>>
              \/ /\ h.pc = "export" /\ Sessions!Rest(h).pc = "read" /\ Sessions!Rest(h).left = <<>>
                 /\ Sessions!Rest(h).all = <<>> /\ Tail(h.left) = <<>>
<1>1. /\ h.left \in Seq(Sessions!Device) /\ h.all \in Seq(Sessions!Device)
      /\ h = [pc |-> h.pc, left |-> h.left, all |-> h.all]
  BY DEF HandlerState
<1>2. Tail(h.left) \in Seq(Sessions!Device) /\ (Len(h.left) > 1 <=> Tail(h.left) # <<>>)
  BY <1>1, SequenceFacts
<1>3. CASE Len(h.left) > 1
  <2>1. Sessions!Rest(h) = [h EXCEPT !.left = Tail(h.left)]
    BY <1>3 DEF Sessions!Rest
  <2>2. Sessions!Rest(h) = [pc |-> h.pc, left |-> Tail(h.left), all |-> h.all]
    BY <1>1, <2>1
  <2> QED BY <1>1, <1>2, <1>3, <2>2 DEF HandlerState
<1>4. CASE ~(Len(h.left) > 1) /\ h.pc = "map"
  <2>1. Sessions!Rest(h) = [h EXCEPT !.pc = "export", !.left = h.all]
    BY <1>4 DEF Sessions!Rest
  <2>2. Sessions!Rest(h) = [pc |-> "export", left |-> h.all, all |-> h.all]
    BY <1>1, <2>1
  <2> QED BY <1>1, <1>2, <1>4, <2>2 DEF HandlerState
<1>5. CASE ~(Len(h.left) > 1) /\ h.pc # "map"
  <2>1. Sessions!Rest(h) = [pc |-> "read", left |-> <<>>, all |-> <<>>]
    BY <1>5 DEF Sessions!Rest, Sessions!At
  <2>2. <<>> \in Seq(Sessions!Device)
    OBVIOUS
  <2> QED BY <1>2, <1>5, <2>1, <2>2 DEF HandlerState
<1> QED BY <1>3, <1>4, <1>5

\* The record of one goroutine is replaced, the others' are not.
HandlerBecomes(c, x) ==
    /\ handler' \in [Conn -> HandlerState] /\ handler'[c] = x
    /\ \A o \in Conn \ {c} : /\ handler'[o] = handler[o] /\ Handles(o)' = Handles(o) /\ Ahead(o)' = Ahead(o)
                             /\ \A d : Unmapped(o, d)' <=> Unmapped(o, d)

LEMMA HandlerGoes ==
    ASSUME SessionTypes, NEW c \in Conn, NEW x \in HandlerState, handler' = [handler EXCEPT ![c] = x]
    PROVE  HandlerBecomes(c, x)
BY DEF SessionTypes, HandlerBecomes, Handles, Ahead, Unmapped

EnderBecomes(c, x) ==
    /\ ender' \in [Conn -> EnderState] /\ ender'[c] = x
    /\ \A o \in Conn \ {c} : ender'[o] = ender[o] /\ Leaves(o)' = Leaves(o)

LEMMA EnderGoes ==
    ASSUME SessionTypes, NEW c \in Conn, NEW x \in EnderState, ender' = [ender EXCEPT ![c] = x]
    PROVE  EnderBecomes(c, x)
BY DEF SessionTypes, EnderBecomes, Leaves

SameHandlers ==
    /\ handler' = handler
    /\ \A o \in Conn : Handles(o)' = Handles(o) /\ Ahead(o)' = Ahead(o) /\ \A d : Unmapped(o, d)' <=> Unmapped(o, d)
SameEnders == ender' = ender /\ \A o \in Conn : Leaves(o)' = Leaves(o)

LEMMA HandlersStay == UNCHANGED handler => SameHandlers
BY DEF SameHandlers, Handles, Ahead, Unmapped

LEMMA EndersStay == UNCHANGED ender => SameEnders
BY DEF SameEnders, Leaves

LEMMA BusyFacts == \A c \in Conn : /\ Sessions!Busy(c) = Handles(c) \cup Leaves(c)
                                   /\ Sessions!Busy(c)' = Handles(c)' \cup Leaves(c)'
BY DEF Sessions!Busy, Handles, Leaves

\* A goroutine is done with the first device of its message.
LEMMA HandlerRests ==
    ASSUME SessionTypes, LifeInv, NEW c \in Conn, handler[c].pc \in {"map", "export"},
           handler' = [handler EXCEPT ![c] = Sessions!Rest(handler[c])]
    PROVE  /\ HandlerBecomes(c, handler'[c])
           /\ Head(handler[c].left) \in Ahead(c) /\ Head(handler[c].left) \in Sessions!Device
           /\ Handles(c)' \subseteq Handles(c)
           /\ IF handler'[c].pc \in {"map", "export"}
              THEN handler'[c].left # <<>> /\ Ahead(c)' \subseteq Handles(c)' /\ Handles(c)' = Handles(c)
              ELSE handler'[c].left = <<>> /\ handler'[c].all = <<>> /\ Handles(c)' = {} /\ Ahead(c)' = {}
           /\ Ahead(c) \ {Head(handler[c].left)} \subseteq Ahead(c)'
           /\ \/ handler[c].pc = "map" /\ handler'[c].pc = "map" /\ Ahead(c)' \subseteq Ahead(c)
              \/ /\ handler[c].pc = "map" /\ handler'[c].pc = "export" /\ Ahead(c)' = Handles(c)
                 /\ Ahead(c) = {Head(handler[c].left)}
              \/ handler[c].pc = "export" /\ handler'[c].pc \in {"export", "read"}
<1> DEFINE h == handler[c]
           x == Sessions!Rest(h)
<1>1. /\ h \in HandlerState /\ h.left # <<>> /\ Sessions!Range(h.left) \subseteq Sessions!Range(h.all)
      /\ h.left \in Seq(Sessions!Device) /\ h.all \in Seq(Sessions!Device)
  BY DEF SessionTypes, LifeInv, HandlerState, Ahead, Handles
<1>2. /\ Sessions!Range(h.left) \subseteq Sessions!Device /\ Head(h.left) \in Sessions!Range(h.left)
      /\ Sessions!Range(Tail(h.left)) \subseteq Sessions!Range(h.left)
      /\ Sessions!Range(h.left) \subseteq {Head(h.left)} \cup Sessions!Range(Tail(h.left))
      /\ h.all # <<>>
  BY <1>1, SequenceFacts
<1>3. /\ x \in HandlerState
      /\ \/ x.pc = h.pc /\ x.all = h.all /\ x.left = Tail(h.left) /\ Tail(h.left) # <<>>
         \/ h.pc = "map" /\ x.pc = "export" /\ x.left = h.all /\ x.all = h.all /\ Tail(h.left) = <<>>
         \/ h.pc = "export" /\ x.pc = "read" /\ x.left = <<>> /\ x.all = <<>> /\ Tail(h.left) = <<>>
  BY <1>1, RestMoves
<1>4. Sessions!Range(<<>>) = {}
  BY DEF Sessions!Range
<1>5. handler'[c] = x /\ HandlerBecomes(c, x)
  <2> HIDE DEF x
  <2>1. handler' = [handler EXCEPT ![c] = x]
    BY DEF x
  <2> QED BY <1>3, <2>1, HandlerGoes DEF HandlerBecomes
<1>6. /\ Handles(c) = Sessions!Range(h.all) /\ Ahead(c) = Sessions!Range(h.left)
      /\ Handles(c)' = Sessions!Range(x.all) /\ Ahead(c)' = Sessions!Range(x.left)
  BY <1>5 DEF Handles, Ahead
<1> HIDE DEF x
<1>7. CASE x.pc = h.pc /\ x.all = h.all /\ x.left = Tail(h.left) /\ Tail(h.left) # <<>>
  BY <1>1, <1>2, <1>5, <1>6, <1>7
<1>8. CASE h.pc = "map" /\ x.pc = "export" /\ x.left = h.all /\ x.all = h.all /\ Tail(h.left) = <<>>
  BY <1>1, <1>2, <1>4, <1>5, <1>6, <1>8
<1>9. CASE h.pc = "export" /\ x.pc = "read" /\ x.left = <<>> /\ x.all = <<>> /\ Tail(h.left) = <<>>
  BY <1>1, <1>2, <1>4, <1>5, <1>6, <1>9
<1> QED BY <1>3, <1>7, <1>8, <1>9

\* What ends is done with the first of its devices.
LEMMA EnderLeft ==
    ASSUME SessionTypes, LifeInv, NEW c \in Conn, ender[c].pc \in {"drop", "offline"},
           NEW p \in {"drop", "offline"}, ender' = [ender EXCEPT ![c] = Sessions!Left(ender[c], p)]
    PROVE  /\ EnderBecomes(c, ender'[c]) /\ Head(ender[c].left) \in Leaves(c) /\ Head(ender[c].left) \in Sessions!Device
           /\ Leaves(c)' \subseteq Leaves(c) /\ Leaves(c) \ {Head(ender[c].left)} \subseteq Leaves(c)'
           /\ ender'[c].pc \in {"drop", "offline"} <=> ender'[c].left # <<>>
           /\ ender'[c].pc \in {p, "done"} /\ (ender'[c].left # <<>> => Head(ender'[c].left) \in Leaves(c)')
<1> DEFINE e == ender[c]
           x == Sessions!Left(e, p)
<1>1. e \in EnderState /\ e.left # <<>> /\ e.left \in Seq(Sessions!Device)
  BY DEF SessionTypes, LifeInv, EnderState
<1>2. /\ Sessions!Range(e.left) \subseteq Sessions!Device /\ Head(e.left) \in Sessions!Range(e.left)
      /\ Sessions!Range(Tail(e.left)) \subseteq Sessions!Range(e.left) /\ Tail(e.left) \in Seq(Sessions!Device)
      /\ Sessions!Range(e.left) \subseteq {Head(e.left)} \cup Sessions!Range(Tail(e.left))
      /\ Len(e.left) > 1 <=> Tail(e.left) # <<>>
  BY <1>1, SequenceFacts
<1>3. /\ x \in EnderState /\ x.left = Tail(e.left)
      /\ x.pc = IF Tail(e.left) # <<>> THEN p ELSE "done"
  <2>1. CASE Len(e.left) > 1
    <3>1. x = [pc |-> p, left |-> Tail(e.left)]
      BY <2>1 DEF Sessions!Left
    <3> HIDE DEF x
    <3>2. x \in EnderState /\ x.pc = p /\ x.left = Tail(e.left)
      BY <1>2, <3>1 DEF EnderState
    <3> QED BY <1>2, <2>1, <3>2
  <2>2. CASE ~(Len(e.left) > 1)
    <3>1. x = [pc |-> "done", left |-> <<>>]
      BY <2>2 DEF Sessions!Left
    <3> HIDE DEF x
    <3>2. x \in EnderState /\ x.pc = "done" /\ x.left = <<>>
      BY <3>1 DEF EnderState
    <3> QED BY <1>2, <2>2, <3>2
  <2> QED BY <2>1, <2>2
<1>4. Tail(e.left) # <<>> => Head(Tail(e.left)) \in Sessions!Range(Tail(e.left))
  <2> DEFINE t == Tail(e.left)
  <2>1. t \in Seq(Sessions!Device)
    BY <1>2
  <2> HIDE DEF t
  <2>2. t # <<>> => Head(t) \in Sessions!Range(t)
    BY <2>1, SequenceFacts
  <2> QED BY <2>2 DEF t
<1>5. ender'[c] = x /\ EnderBecomes(c, x)
  <2> HIDE DEF x
  <2>1. ender' = [ender EXCEPT ![c] = x]
    BY DEF x
  <2> QED BY <1>3, <2>1, EnderGoes DEF EnderBecomes
<1>6. Leaves(c) = Sessions!Range(e.left) /\ Leaves(c)' = Sessions!Range(x.left)
  BY <1>5 DEF Leaves
<1> HIDE DEF x, e
<1>7. Leaves(c) \ {Head(e.left)} \subseteq Leaves(c)' /\ Leaves(c)' \subseteq Leaves(c)
  BY <1>2, <1>3, <1>6
<1>8. /\ x.pc \in {"drop", "offline"} <=> x.left # <<>>
      /\ x.pc \in {p, "done"} /\ (x.left # <<>> => Head(x.left) \in Leaves(c)')
  BY <1>3, <1>4, <1>6
<1> QED BY <1>2, <1>5, <1>6, <1>7, <1>8 DEF e

-----------------------------------------------------------------------------
(* Connections and messages *)

LEMMA WebsocketStays ==
    ASSUME WebsocketInv, UNCHANGED <<kind, home, mapping, listed, handler, ender, online, last, sessionsCrossed>>
    PROVE  WebsocketInv'
<1>1. ListedInv => ListedInv'
  BY DEF ListedInv, Leaves
<1>2. AloneInv => AloneInv'
  BY DEF AloneInv, Sessions!Busy
<1>3. MappedInv => MappedInv'
  BY DEF MappedInv, Unmapped, Handles, Ahead
<1>4. OnlineInv => OnlineInv'
  BY DEF OnlineInv, Unmapped, Handles, Ahead
<1> QED BY <1>1, <1>2, <1>3, <1>4 DEF WebsocketInv

LEMMA ConnectStep ==
    ASSUME SessionsInv, NEW c \in Conn, Sessions!Connect(c)
    PROVE  SessionsInv'
<1> DEFINE x == [pc |-> "read", left |-> <<>>, all |-> <<>>]
<1>i. SessionTypes /\ LifeInv /\ LastInv /\ WebsocketInv /\ MqttInv
  BY DEF SessionsInv
<1>1. /\ home[c] = 0 /\ home' = [home EXCEPT ![c] = connector] /\ handler' = [handler EXCEPT ![c] = x]
      /\ kind = "mqtt" => \A o \in Conn : home[o] = connector => o \in broken
      /\ UNCHANGED <<kind, connector, mapping, listed, ender, broken, online, last, sessionsCrossed>>
  BY DEF Sessions!Connect, Sessions!maps, Sessions!ends, Sessions!At
<1>2. /\ handler[c].pc = "none" /\ handler[c].left = <<>> /\ handler[c].all = <<>> /\ c \notin broken
      /\ ender[c].pc = "none" /\ ender[c].left = <<>>
  BY <1>1, <1>i DEF LifeInv
<1>3. HandlerBecomes(c, x)
  <2>1. x \in HandlerState
    <3>1. <<>> \in Seq(Sessions!Device)
      OBVIOUS
    <3> QED BY <3>1 DEF HandlerState
  <2> HIDE DEF x
  <2> QED BY <1>1, <2>1, <1>i, HandlerGoes
<1>4. x.pc = "read" /\ x.left = <<>> /\ x.all = <<>>
  OBVIOUS
<1> HIDE DEF x
<1>5. /\ Handles(c) = {} /\ Handles(c)' = {} /\ Ahead(c) = {} /\ Ahead(c)' = {} /\ Leaves(c) = {}
      /\ \A d : ~Unmapped(c, d) /\ ~Unmapped(c, d)'
  BY <1>2, <1>3, <1>4 DEF Handles, Ahead, Leaves, Unmapped, HandlerBecomes, Sessions!Range
<1>6. \A o \in Conn : /\ Handles(o)' = Handles(o) /\ Ahead(o)' = Ahead(o) /\ Leaves(o)' = Leaves(o)
                      /\ \A d : Unmapped(o, d)' <=> Unmapped(o, d)
                      /\ o # c => handler'[o] = handler[o] /\ home'[o] = home[o]
                      /\ handler'[c].pc = "read" /\ home'[c] = connector /\ home'[c] # 0
  <2>1. SameEnders
    BY <1>1, EndersStay
  <2>2. connector # 0 /\ home'[c] = connector /\ \A o \in Conn : o # c => home'[o] = home[o]
    BY <1>1, <1>i, SessionsAreConfigured DEF SessionTypes, Sessions!Connector
  <2> QED BY <1>3, <1>4, <1>5, <2>1, <2>2 DEF HandlerBecomes, SameEnders
<1>7. \A d \in Sessions!Device : last[d] \in Conn \cup {0} /\ last[d] # c
  BY <1>1, <1>i, SessionsAreConfigured DEF SessionTypes, LastInv
<1>8. SessionTypes'
  BY <1>1, <1>3, <1>i DEF SessionTypes, HandlerBecomes, Mappings
<1>9. LifeInv'
  BY <1>1, <1>2, <1>3, <1>4, <1>6, <1>i DEF LifeInv, HandlerBecomes
<1>10. LastInv'
  BY <1>1, <1>6, <1>7, <1>i DEF LastInv
<1>11. WebsocketInv'
  <2> SUFFICES ASSUME kind = "websocket" PROVE (ListedInv /\ AloneInv /\ MappedInv /\ OnlineInv)'
    BY <1>1 DEF WebsocketInv
  <2>i. ListedInv /\ AloneInv /\ MappedInv /\ OnlineInv
    BY <1>i DEF WebsocketInv
  <2>1. \A k \in Sessions!Connector, d \in Sessions!Device : mapping[k][d] \in Conn \cup {0} /\ mapping[k][d] # c
    BY <1>1, <1>i, <2>i, SessionsAreConfigured DEF SessionTypes, Mappings, ListedInv, Sessions!Connector
  <2>2. ListedInv'
    BY <1>1, <1>2, <1>6, <2>1, <2>i DEF ListedInv
  <2>3. AloneInv'
    BY <1>1, <1>6, <2>i, BusyFacts DEF AloneInv
  <2>4. MappedInv'
    BY <1>1, <1>2, <1>5, <1>6, <2>i DEF MappedInv
  <2>5. OnlineInv'
    BY <1>1, <1>6, <1>7, <2>i DEF OnlineInv
  <2> QED BY <2>2, <2>3, <2>4, <2>5
<1>12. MqttInv'
  <2> SUFFICES ASSUME kind = "mqtt"
               PROVE  /\ \A o \in Conn : handler'[o].pc # "map"
                      /\ SessionInv' /\ LostInv'
    BY <1>1, <1>i DEF MqttInv
  <2>i. SessionInv /\ LostInv /\ \A o \in Conn : handler[o].pc # "map"
    BY <1>i DEF MqttInv
  <2>1. SessionInv'
    BY <1>1, <1>6, <2>i DEF SessionInv
  <2>2. LostInv'
    BY <1>1, <1>6, <1>7, <2>i DEF LostInv
  <2> QED BY <1>6, <2>1, <2>2, <2>i
<1> QED BY <1>8, <1>9, <1>10, <1>11, <1>12 DEF SessionsInv

LEMMA BreakStep ==
    ASSUME SessionsInv, NEW c \in Conn, Sessions!Break(c)
    PROVE  SessionsInv'
<1>i. SessionTypes /\ LifeInv /\ LastInv /\ WebsocketInv /\ MqttInv
  BY DEF SessionsInv
<1>1. /\ home[c] # 0 /\ c \notin broken /\ broken' = broken \cup {c}
      /\ UNCHANGED <<kind, connector, home, mapping, listed, handler, ender, online, last, sessionsCrossed>>
  BY DEF Sessions!Break, Sessions!maps, Sessions!others
<1>2. SameHandlers /\ SameEnders
  BY <1>1, HandlersStay, EndersStay
<1>3. ender[c].pc = "none" /\ c \in Conn
  BY <1>1, <1>i DEF LifeInv
<1>4. SessionTypes'
  BY <1>1, <1>i DEF SessionTypes, Mappings
<1>5. LifeInv'
  BY <1>1, <1>2, <1>i DEF LifeInv, SameHandlers, SameEnders
<1>6. LastInv'
  BY <1>1, <1>2, <1>i DEF LastInv, SameHandlers
<1>7. WebsocketInv'
  BY <1>1, <1>i, WebsocketStays
<1>8. MqttInv'
  <2> SUFFICES ASSUME kind = "mqtt" PROVE SessionInv' /\ LostInv'
    BY <1>1, <1>i DEF MqttInv
  <2>i. SessionInv /\ LostInv
    BY <1>i DEF MqttInv
  <2>1. \A d \in Sessions!Device : last[d] \in Conn \cup {0}
    BY <1>i DEF SessionTypes
  <2>2. SessionInv'
    BY <1>1, <2>i DEF SessionInv
  <2>3. LostInv'
    BY <1>1, <1>2, <1>3, <2>1, <2>i DEF LostInv, SameHandlers, SameEnders
  <2> QED BY <2>2, <2>3
<1> QED BY <1>4, <1>5, <1>6, <1>7, <1>8 DEF SessionsInv

\* The first device of what ends is one of it.
LEMMA EnderHead ==
    ASSUME SessionTypes, LifeInv, NEW c \in Conn
    PROVE  /\ Leaves(c) \subseteq Sessions!Device
           /\ ender[c].pc \in {"drop", "offline"} => Head(ender[c].left) \in Leaves(c)
           /\ ender[c].pc \notin {"drop", "offline"} => Leaves(c) = {}
<1>1. ender[c].left \in Seq(Sessions!Device)
  BY DEF SessionTypes, EnderState
<1> QED BY <1>1, SequenceFacts DEF LifeInv, Leaves

LEMMA HandlerFacts ==
    ASSUME SessionTypes, LifeInv, NEW c \in Conn
    PROVE  /\ Ahead(c) \subseteq Handles(c) /\ Handles(c) \subseteq Sessions!Device
           /\ handler[c].pc \notin {"map", "export"} => Handles(c) = {} /\ Ahead(c) = {}
           /\ \A d : Unmapped(c, d) => d \in Ahead(c) /\ handler[c].pc = "map"
<1>1. handler[c].left \in Seq(Sessions!Device) /\ handler[c].all \in Seq(Sessions!Device)
  BY DEF SessionTypes, HandlerState
<1>2. Handles(c) \subseteq Sessions!Device
  BY <1>1, SequenceFacts DEF Handles
<1>3. handler[c].pc \notin {"map", "export"} => Handles(c) = {} /\ Ahead(c) = {}
  BY DEF LifeInv, Handles, Ahead, Sessions!Range
<1>4. Ahead(c) \subseteq Handles(c)
  BY <1>3 DEF LifeInv
<1> QED BY <1>2, <1>3, <1>4 DEF Unmapped

LEMMA MessageStep ==
    ASSUME SessionsInv, NEW c \in Conn, NEW ds \in Messages, Sessions!Message(c, ds)
    PROVE  SessionsInv'
<1> DEFINE x == [pc |-> IF kind = "mqtt" THEN "export" ELSE "map", left |-> ds, all |-> ds]
           R == Sessions!Range(ds)
<1>i. SessionTypes /\ LifeInv /\ LastInv /\ WebsocketInv /\ MqttInv
  BY DEF SessionsInv
<1>1. /\ handler[c].pc = "read" /\ c \notin broken /\ handler' = [handler EXCEPT ![c] = x]
      /\ last' = [d \in Sessions!Device |-> IF d \in R THEN c ELSE last[d]]
      /\ sessionsCrossed' = sessionsCrossed \cup
            {d \in R : \E o \in Conn : d \in Sessions!Busy(o) \/ Sessions!StillToLose(o)}
      /\ UNCHANGED <<kind, connector, home, mapping, listed, ender, broken, online>>
  BY DEF Sessions!Message, Sessions!maps, Sessions!ends
<1>2. /\ ender[c].pc = "none" /\ home[c] # 0 /\ Handles(c) = {} /\ Ahead(c) = {} /\ Leaves(c) = {}
      /\ \A d : ~Unmapped(c, d)
  BY <1>1, <1>i, EnderHead, HandlerFacts DEF LifeInv
<1>3. ds \in Seq(Sessions!Device) /\ ds # <<>> /\ R \subseteq Sessions!Device
  BY DeviceFacts, SequenceFacts
<1>4. HandlerBecomes(c, x)
  <2>1. x \in HandlerState
    BY <1>3 DEF HandlerState
  <2> HIDE DEF x
  <2> QED BY <1>1, <2>1, <1>i, HandlerGoes
<1>5. x.left = ds /\ x.all = ds /\ x.pc = IF kind = "mqtt" THEN "export" ELSE "map"
  OBVIOUS
<1> HIDE DEF x
<1>6. /\ Handles(c)' = R /\ Ahead(c)' = R /\ handler'[c].pc = IF kind = "mqtt" THEN "export" ELSE "map"
      /\ \A d : Unmapped(c, d)' <=> kind # "mqtt" /\ d \in R
  BY <1>4, <1>5 DEF Handles, Ahead, Unmapped, HandlerBecomes
<1>7. \A o \in Conn \ {c} : /\ Handles(o)' = Handles(o) /\ Ahead(o)' = Ahead(o) /\ handler'[o] = handler[o]
                            /\ \A d : Unmapped(o, d)' <=> Unmapped(o, d)
  BY <1>4 DEF HandlerBecomes
<1>8. \A o \in Conn : Leaves(o)' = Leaves(o)
  BY <1>1, EndersStay DEF SameEnders
<1>9. \A d \in Sessions!Device : /\ last'[d] = IF d \in R THEN c ELSE last[d]
                                 /\ last[d] \in Conn \cup {0}
  BY <1>1, <1>i DEF SessionTypes
<1>10. \A d : d \notin sessionsCrossed' =>
          /\ d \notin sessionsCrossed
          /\ d \in R => \A o \in Conn : d \notin Handles(o) /\ d \notin Leaves(o) /\ ~Sessions!StillToLose(o)
  BY <1>1, BusyFacts
<1>11. c # 0
  BY SessionsAreConfigured
<1> HIDE DEF R
<1>12. SessionTypes'
  BY <1>1, <1>4, <1>i DEF SessionTypes, HandlerBecomes, Mappings
<1>13. LifeInv'
  <2> SUFFICES ASSUME NEW o \in Conn
               PROVE  /\ home[o] = 0 => handler'[o].pc = "none" /\ o \notin broken
                      /\ ender[o].pc # "none" => o \in broken
                      /\ IF handler'[o].pc \in {"map", "export"}
                         THEN handler'[o].left # <<>> /\ Ahead(o)' \subseteq Handles(o)'
                         ELSE handler'[o].left = <<>> /\ handler'[o].all = <<>>
                      /\ ender[o].pc \in {"drop", "offline"} <=> ender[o].left # <<>>
    BY <1>1 DEF LifeInv
  <2> QED BY <1>2, <1>3, <1>4, <1>5, <1>6, <1>7, <1>i DEF LifeInv, HandlerBecomes
<1>14. LastInv'
  <2>1. \A d \in Sessions!Device : (online[d] => last'[d] # 0) /\ (last'[d] # 0 => home[last'[d]] # 0)
    BY <1>2, <1>9, <1>11, <1>i DEF LastInv
  <2>2. ASSUME NEW o \in Conn, NEW d \in Handles(o)'
        PROVE  last'[d] # 0 /\ (d \notin sessionsCrossed' => last'[d] = o /\ ender[o].pc = "none")
    <3>1. CASE o = c
      BY <1>2, <1>3, <1>6, <1>9, <1>11, <2>2, <3>1
    <3>2. CASE o # c
      <4>1. d \in Handles(o) /\ d \in Sessions!Device
        BY <1>7, <1>i, <2>2, <3>2, HandlerFacts
      <4> QED BY <1>9, <1>10, <1>11, <4>1, <1>i DEF LastInv
    <3> QED BY <3>1, <3>2
  <2> QED BY <1>1, <2>1, <2>2 DEF LastInv
<1>15. WebsocketInv'
  <2> SUFFICES ASSUME kind = "websocket" PROVE (ListedInv /\ AloneInv /\ MappedInv /\ OnlineInv)'
    BY <1>1 DEF WebsocketInv
  <2>i. ListedInv /\ AloneInv /\ MappedInv /\ OnlineInv /\ kind # "mqtt"
    BY <1>i DEF WebsocketInv
  <2>1. \A k \in Sessions!Connector, d \in Sessions!Device : mapping[k][d] \in Conn \cup {0}
    BY <1>i DEF SessionTypes, Mappings
  <2>2. ListedInv'
    BY <1>1, <1>2, <1>7, <1>8, <2>1, <2>i DEF ListedInv
  <2>3. AloneInv'
    BY <1>6, <1>7, <1>8, <1>10, <2>i, BusyFacts DEF AloneInv
  <2>4. MappedInv'
    <3>1. ASSUME NEW d \in Sessions!Device \ sessionsCrossed', \A o \in Conn : ~Unmapped(o, d)',
                 NEW k \in Sessions!Connector
          PROVE  mapping[k][d] \in {0, last'[d]}
      BY <1>2, <1>6, <1>7, <1>9, <1>10, <2>i, <3>1 DEF MappedInv
    <3>2. ASSUME NEW o \in Conn, NEW d \in Handles(o)' \ sessionsCrossed', ~Unmapped(o, d)'
          PROVE  mapping[home[o]][d] = o
      BY <1>6, <1>7, <1>10, <2>i, <3>2 DEF MappedInv
    <3>3. ASSUME NEW o \in Conn, ender[o].pc = "offline", Head(ender[o].left) \notin sessionsCrossed'
          PROVE  last'[Head(ender[o].left)] = o
      <4>1. Head(ender[o].left) \in Leaves(o) /\ Head(ender[o].left) \in Sessions!Device
        BY <3>3, <1>i, EnderHead
      <4> QED BY <1>9, <1>10, <2>i, <3>3, <4>1 DEF MappedInv
    <3> QED BY <1>1, <3>1, <3>2, <3>3 DEF MappedInv
  <2>5. OnlineInv'
    <3> SUFFICES ASSUME NEW l \in Conn, NEW d \in Sessions!Device \ sessionsCrossed', last'[d] = l
                 PROVE  /\ online[d] /\ (\A o \in Conn : ~Unmapped(o, d)') =>
                              mapping[home[l]][d] = l \/ (ender[l].pc = "offline" /\ Head(ender[l].left) = d)
                        /\ ~online[d] => \/ d \in Ahead(l)' \/ ender[l].pc # "none"
                                         \/ (handler'[l].pc = "map" /\ d \in Handles(l)')
      BY <1>1 DEF OnlineInv
    <3>1. CASE d \in R
      <4>1. l = c /\ Unmapped(c, d)' /\ d \in Ahead(c)'
        BY <1>6, <1>9, <2>i, <3>1
      <4> QED BY <4>1
    <3>2. CASE d \notin R
      <4>1. last[d] = l /\ d \notin sessionsCrossed
        BY <1>9, <1>10, <3>2
      <4>2. \A o \in Conn : Unmapped(o, d)' <=> Unmapped(o, d)
        BY <1>2, <1>6, <1>7, <3>2
      <4>3. CASE l = c
        BY <1>1, <1>2, <4>1, <4>2, <4>3, <2>i DEF OnlineInv
      <4>4. CASE l # c
        BY <1>7, <4>1, <4>2, <4>4, <2>i DEF OnlineInv
      <4> QED BY <4>3, <4>4
    <3> QED BY <3>1, <3>2
  <2> QED BY <2>2, <2>3, <2>4, <2>5
<1>16. MqttInv'
  <2> SUFFICES ASSUME kind = "mqtt" PROVE SessionInv' /\ LostInv'
    BY <1>1, <1>6, <1>7, <1>i DEF MqttInv
  <2>i. SessionInv /\ LostInv
    BY <1>i DEF MqttInv
  <2>1. SessionInv'
    BY <1>1, <2>i DEF SessionInv
  <2>2. LostInv'
    <3> SUFFICES ASSUME NEW l \in Conn, NEW d \in Sessions!Device \ sessionsCrossed', last'[d] = l
                 PROVE  IF l \in broken
                        THEN ~online[d] \/ ender[l].pc = "none" \/ d \in Leaves(l)'
                        ELSE /\ online[d] \/ d \in Ahead(l)'
                             /\ \A o \in Conn : d \notin Leaves(o)'
                             /\ \A o \in Conn \ {l} : home[o] = home[l] => o \in broken /\ ender[o].pc = "done"
      BY <1>1 DEF LostInv
    <3>1. CASE d \in R
      <4>1. l = c /\ d \in Ahead(c)'
        BY <1>6, <1>9, <3>1
      <4>2. \A o \in Conn : d \notin Leaves(o)'
        BY <1>8, <1>10, <3>1
      <4>3. \A o \in Conn \ {c} : home[o] = home[c] => o \in broken /\ ender[o].pc = "done"
        BY <1>1, <1>2, <1>10, <2>i, <3>1 DEF SessionInv, Sessions!StillToLose
      <4> QED BY <1>1, <4>1, <4>2, <4>3
    <3>2. CASE d \notin R
      <4>1. last[d] = l /\ d \notin sessionsCrossed
        BY <1>9, <1>10, <3>2
      <4>2. d \in Ahead(l) => d \in Ahead(l)'
        BY <1>2, <1>7
      <4> QED BY <1>8, <4>1, <4>2, <2>i DEF LostInv
    <3> QED BY <3>1, <3>2
  <2> QED BY <2>1, <2>2
<1> QED BY <1>12, <1>13, <1>14, <1>15, <1>16 DEF SessionsInv

LEMMA AppendFacts ==
    ASSUME NEW T, NEW s \in Seq(T), NEW e \in T
    PROVE  Append(s, e) \in Seq(T) /\ Sessions!Range(Append(s, e)) = Sessions!Range(s) \cup {e}
<1> DEFINE t == Append(s, e)
<1>1. /\ t \in Seq(T) /\ Len(s) \in Nat /\ DOMAIN s = 1 .. Len(s) /\ DOMAIN t = 1 .. Len(s) + 1
      /\ t[Len(s) + 1] = e /\ \A i \in 1 .. Len(s) : t[i] = s[i]
  OBVIOUS
<1> HIDE DEF t
<1>2. Sessions!Range(t) \subseteq Sessions!Range(s) \cup {e}
  <2>1. ASSUME NEW i \in DOMAIN t PROVE t[i] \in Sessions!Range(s) \cup {e}
    BY <1>1 DEF Sessions!Range
  <2> QED BY <2>1 DEF Sessions!Range
<1>3. e \in Sessions!Range(t) /\ Sessions!Range(s) \subseteq Sessions!Range(t)
  <2>1. Len(s) + 1 \in DOMAIN t /\ \A i \in DOMAIN s : i \in DOMAIN t /\ t[i] = s[i]
    BY <1>1
  <2> QED BY <1>1, <2>1 DEF Sessions!Range
<1> QED BY <1>1, <1>2, <1>3 DEF t

\* A goroutine that goes on with its message keeps to the invariants on goroutines.
LEMMA RestLife ==
    ASSUME SessionTypes, LifeInv, NEW c \in Conn, handler[c].pc \in {"map", "export"},
           handler' = [handler EXCEPT ![c] = Sessions!Rest(handler[c])],
           UNCHANGED <<home, broken, ender>>
    PROVE  /\ LifeInv' /\ handler' \in [Conn -> HandlerState]
           /\ home[c] # 0 /\ SameEnders /\ Head(handler[c].left) \in Handles(c)
           /\ \A o \in Conn : /\ Handles(o)' \subseteq Handles(o)
                              /\ o # c => Handles(o)' = Handles(o) /\ Ahead(o)' = Ahead(o) /\ handler'[o] = handler[o]
           /\ \A o \in Conn : \A d : d # Head(handler[c].left) /\ Unmapped(o, d) => Unmapped(o, d)'
<1> DEFINE d0 == Head(handler[c].left)
<1>1. /\ HandlerBecomes(c, handler'[c]) /\ d0 \in Ahead(c)
      /\ Handles(c)' \subseteq Handles(c)
      /\ IF handler'[c].pc \in {"map", "export"}
         THEN handler'[c].left # <<>> /\ Ahead(c)' \subseteq Handles(c)' /\ Handles(c)' = Handles(c)
         ELSE handler'[c].left = <<>> /\ handler'[c].all = <<>> /\ Handles(c)' = {} /\ Ahead(c)' = {}
      /\ Ahead(c) \ {d0} \subseteq Ahead(c)'
      /\ \/ handler[c].pc = "map" /\ handler'[c].pc = "map" /\ Ahead(c)' \subseteq Ahead(c)
         \/ /\ handler[c].pc = "map" /\ handler'[c].pc = "export" /\ Ahead(c)' = Handles(c)
            /\ Ahead(c) = {d0}
         \/ handler[c].pc = "export" /\ handler'[c].pc \in {"export", "read"}
  BY HandlerRests
<1>2. \A o \in Conn : o # c => /\ Handles(o)' = Handles(o) /\ Ahead(o)' = Ahead(o) /\ handler'[o] = handler[o]
                               /\ \A d : Unmapped(o, d)' <=> Unmapped(o, d)
  BY <1>1 DEF HandlerBecomes
<1>3. home[c] # 0 /\ SameEnders /\ Ahead(c) \subseteq Handles(c)
  BY EndersStay, HandlerFacts DEF LifeInv
<1>4. LifeInv'
  <2> SUFFICES ASSUME NEW o \in Conn
               PROVE  /\ home[o] = 0 => handler'[o].pc = "none" /\ o \notin broken
                      /\ ender[o].pc # "none" => o \in broken
                      /\ IF handler'[o].pc \in {"map", "export"}
                         THEN handler'[o].left # <<>> /\ Ahead(o)' \subseteq Handles(o)'
                         ELSE handler'[o].left = <<>> /\ handler'[o].all = <<>>
                      /\ ender[o].pc \in {"drop", "offline"} <=> ender[o].left # <<>>
    BY DEF LifeInv
  <2>1. CASE o = c
    BY <1>1, <1>3, <2>1 DEF LifeInv
  <2>2. CASE o # c
    BY <1>2, <2>2 DEF LifeInv
  <2> QED BY <2>1, <2>2
<1>5. \A d : d # d0 /\ Unmapped(c, d) => Unmapped(c, d)'
  BY <1>1 DEF Unmapped
<1> QED BY <1>1, <1>2, <1>3, <1>4, <1>5 DEF HandlerBecomes

\* A connection that a device reported over was made.
LEMMA LastFacts ==
    ASSUME SessionTypes, LastInv
    PROVE  \A l \in Conn : /\ l # 0
                           /\ \A d \in Sessions!Device : last[d] = l => home[l] # 0 /\ home[l] \in Sessions!Connector
<1>1. \A l \in Conn : l # 0
  BY SessionsAreConfigured
<1> QED BY <1>1 DEF LastInv, SessionTypes

LEMMA MapStep ==
    ASSUME SessionsInv, NEW c \in Conn, Sessions!Map(c)
    PROVE  SessionsInv'
<1> DEFINE d0 == Head(handler[c].left)
           k == home[c]
<1>i. SessionTypes /\ LifeInv /\ LastInv /\ WebsocketInv /\ MqttInv
  BY DEF SessionsInv
<1>1. /\ handler[c].pc = "map" /\ handler' = [handler EXCEPT ![c] = Sessions!Rest(handler[c])]
      /\ mapping' = [mapping EXCEPT ![k][d0] = c]
      /\ listed' = IF mapping[k][d0] = c THEN listed ELSE [listed EXCEPT ![c] = Append(listed[c], d0)]
      /\ sessionsCrossed' = IF \E n \in Sessions!Connector \ {k} : mapping[n][d0] # 0
                            THEN sessionsCrossed \cup {d0} ELSE sessionsCrossed
      /\ UNCHANGED <<kind, connector, home, ender, broken, online, last>>
  BY DEF Sessions!Map, Sessions!Enlist, Sessions!others, Sessions!ends
<1>2. kind = "websocket" /\ kind # "mqtt" /\ ListedInv /\ AloneInv /\ MappedInv /\ OnlineInv
  BY <1>1, <1>i DEF SessionTypes, WebsocketInv, MqttInv
<1>3. /\ LifeInv' /\ handler' \in [Conn -> HandlerState]
      /\ home[c] # 0 /\ SameEnders /\ d0 \in Handles(c)
      /\ \A o \in Conn : /\ Handles(o)' \subseteq Handles(o)
                         /\ o # c => Handles(o)' = Handles(o) /\ Ahead(o)' = Ahead(o) /\ handler'[o] = handler[o]
      /\ \A o \in Conn : \A d : d # d0 /\ Unmapped(o, d) => Unmapped(o, d)'
  BY <1>1, <1>i, RestLife
<1>4. /\ Handles(c)' = Handles(c) /\ d0 \in Sessions!Device
      /\ \/ handler'[c].pc = "map"
         \/ handler'[c].pc = "export" /\ Ahead(c)' = Handles(c)
  BY <1>1, <1>i, HandlerRests
<1>5. k \in Sessions!Connector /\ ender[c].pc = "none" /\ Leaves(c) = {} /\ c # 0
  <2>1. k \in Sessions!Connector /\ c # 0
    BY <1>3, <1>i, SessionsAreConfigured DEF SessionTypes
  <2>2. ender[c].pc = "none"
    BY <1>1, <1>2 DEF ListedInv
  <2> QED BY <1>i, <2>1, <2>2, EnderHead
<1>6. \A o \in Conn : Leaves(o)' = Leaves(o) /\ ender'[o] = ender[o]
  BY <1>3 DEF SameEnders
<1>7. \A n \in Sessions!Connector, d \in Sessions!Device :
          /\ mapping'[n][d] = IF n = k /\ d = d0 THEN c ELSE mapping[n][d]
          /\ mapping[n][d] \in Conn \cup {0}
  BY <1>1, <1>4, <1>5, <1>i DEF SessionTypes, Mappings
<1>8. /\ mapping' \in Mappings /\ listed' \in [Conn -> Seq(Sessions!Device)]
      /\ d0 \in Sessions!Range(listed'[c])
      /\ \A o \in Conn : Sessions!Range(listed[o]) \subseteq Sessions!Range(listed'[o])
      /\ \A o \in Conn \ {c} : listed'[o] = listed[o]
  <2>1. mapping' \in Mappings
    BY <1>1, <1>4, <1>5, <1>i DEF SessionTypes, Mappings
  <2>2. CASE mapping[k][d0] = c
    BY <1>1, <1>2, <1>4, <1>5, <1>i, <2>1, <2>2 DEF ListedInv, SessionTypes
  <2>3. CASE mapping[k][d0] # c
    <3>1. listed \in [Conn -> Seq(Sessions!Device)] /\ listed[c] \in Seq(Sessions!Device)
      BY <1>i DEF SessionTypes
    <3>2. /\ Append(listed[c], d0) \in Seq(Sessions!Device)
          /\ Sessions!Range(Append(listed[c], d0)) = Sessions!Range(listed[c]) \cup {d0}
      BY <1>4, <3>1, AppendFacts
    <3> QED BY <1>1, <2>1, <2>3, <3>1, <3>2
  <2> QED BY <2>2, <2>3
<1>9. /\ sessionsCrossed \subseteq sessionsCrossed'
      /\ d0 \notin sessionsCrossed' => \A n \in Sessions!Connector \ {k} : mapping[n][d0] = 0
  BY <1>1
<1> HIDE DEF d0, k
<1>10. d0 \notin sessionsCrossed' => last[d0] = c
  BY <1>3, <1>9, <1>i DEF LastInv
<1>11. SessionTypes'
  BY <1>1, <1>3, <1>8, <1>i DEF SessionTypes
<1>12. LastInv'
  BY <1>1, <1>3, <1>9, <1>i DEF LastInv
<1>13. ListedInv'
  <2>1. ASSUME NEW n \in Sessions!Connector, NEW d \in Sessions!Device, NEW o, o = mapping'[n][d], o # 0
        PROVE  home[o] = n /\ d \in Sessions!Range(listed'[o]) \cup Leaves(o)
    BY <1>2, <1>7, <1>8, <2>1 DEF ListedInv, k
  <2>2. \A o \in Conn : ender[o].pc # "none" => handler'[o].pc = "done" /\ listed'[o] = <<>>
    BY <1>2, <1>3, <1>5, <1>8 DEF ListedInv
  <2>3. ASSUME NEW o \in Conn, ender[o].pc = "offline" PROVE mapping'[home[o]][Head(ender[o].left)] # o
    <3>1. o # c /\ home[o] \in Sessions!Connector
      BY <1>1, <1>5, <1>i, <2>3 DEF LifeInv, SessionTypes
    <3>2. Head(ender[o].left) \in Sessions!Device
      BY <1>i, <2>3, EnderHead
    <3> QED BY <1>2, <1>7, <2>3, <3>1, <3>2 DEF ListedInv
  <2>4. \A n \in Sessions!Connector, d \in Sessions!Device : mapping'[n][d] \in Conn \cup {0}
    BY <1>8 DEF Mappings
  <2>5. \A n \in Sessions!Connector, d \in Sessions!Device : mapping'[n][d] # 0 =>
            /\ home[mapping'[n][d]] = n
            /\ d \in Sessions!Range(listed'[mapping'[n][d]]) \cup Leaves(mapping'[n][d])
    BY <2>1
  <2>6. \A n \in Sessions!Connector, d \in Sessions!Device : mapping'[n][d] # 0 =>
            /\ home'[mapping'[n][d]] = n
            /\ d \in (Sessions!Range(listed[mapping[n][d]]) \cup Leaves(mapping[n][d]))'
    <3>1. \A o \in Conn : Leaves(o) = Sessions!Range(ender'[o].left)
      BY <1>1 DEF Leaves
    <3>2. \A n \in Sessions!Connector, d \in Sessions!Device : mapping'[n][d] # 0 =>
              /\ home[mapping'[n][d]] = n
              /\ d \in Sessions!Range(listed'[mapping'[n][d]]) \cup Sessions!Range(ender'[mapping'[n][d]].left)
      BY <2>4, <2>5, <3>1
    <3> QED BY <1>1, <3>2 DEF Leaves, Sessions!Range
  <2> QED BY <1>1, <2>2, <2>3, <2>6 DEF ListedInv
<1>14. AloneInv'
  BY <1>2, <1>3, <1>6, <1>9, BusyFacts DEF AloneInv
<1>15. MappedInv'
  <2>1. ASSUME NEW d \in Sessions!Device \ sessionsCrossed', \A o \in Conn : ~Unmapped(o, d)',
               NEW n \in Sessions!Connector
        PROVE  mapping'[n][d] \in {0, last[d]}
    <3>1. CASE d = d0
      BY <1>7, <1>9, <1>10, <2>1, <3>1
    <3>2. CASE d # d0
      BY <1>2, <1>3, <1>7, <1>9, <2>1, <3>2 DEF MappedInv
    <3> QED BY <3>1, <3>2
  <2>2. ASSUME NEW o \in Conn, NEW d \in Handles(o)' \ sessionsCrossed', ~Unmapped(o, d)'
        PROVE  mapping'[home[o]][d] = o
    <3>1. d \in Handles(o) /\ d \in Sessions!Device /\ d \notin sessionsCrossed
      BY <1>3, <1>9, <1>i, <2>2, HandlerFacts
    <3>2. home[o] # 0 /\ home[o] \in Sessions!Connector
      BY <1>i, <3>1, HandlerFacts DEF LifeInv, SessionTypes
    <3>3. CASE d = d0
      <4>1. o = c
        BY <1>2, <1>3, <3>1, <3>3, BusyFacts DEF AloneInv
      <4> QED BY <1>7, <3>1, <3>2, <3>3, <4>1 DEF k
    <3>4. CASE d # d0
      BY <1>2, <1>3, <1>7, <2>2, <3>1, <3>2, <3>4 DEF MappedInv
    <3> QED BY <3>3, <3>4
  <2> QED BY <1>1, <1>2, <1>9, <2>1, <2>2 DEF MappedInv
<1>16. OnlineInv'
  <2> SUFFICES ASSUME NEW l \in Conn, NEW d \in Sessions!Device \ sessionsCrossed', last[d] = l
               PROVE  /\ online[d] /\ (\A o \in Conn : ~Unmapped(o, d)') =>
                            mapping'[home[l]][d] = l \/ (ender[l].pc = "offline" /\ Head(ender[l].left) = d)
                      /\ ~online[d] => \/ d \in Ahead(l)' \/ ender[l].pc # "none"
                                       \/ (handler'[l].pc = "map" /\ d \in Handles(l)')
    BY <1>1 DEF OnlineInv
  <2>1. home[l] \in Sessions!Connector /\ d \notin sessionsCrossed
    BY <1>9, <1>i, LastFacts
  <2>2. ASSUME online[d], \A o \in Conn : ~Unmapped(o, d)'
        PROVE  mapping'[home[l]][d] = l \/ (ender[l].pc = "offline" /\ Head(ender[l].left) = d)
    <3>1. CASE d = d0
      BY <1>5, <1>7, <1>10, <3>1 DEF k
    <3>2. CASE d # d0
      BY <1>2, <1>3, <1>7, <2>1, <2>2, <3>2 DEF OnlineInv
    <3> QED BY <3>1, <3>2
  <2>3. ASSUME ~online[d]
        PROVE  d \in Ahead(l)' \/ ender[l].pc # "none" \/ (handler'[l].pc = "map" /\ d \in Handles(l)')
    <3>1. d \in Ahead(l) \/ ender[l].pc # "none" \/ (handler[l].pc = "map" /\ d \in Handles(l))
      BY <1>2, <2>1, <2>3 DEF OnlineInv
    <3>2. Ahead(l) \subseteq Handles(l)
      BY <1>i, HandlerFacts
    <3> QED BY <1>3, <1>4, <3>1, <3>2
  <2> QED BY <2>2, <2>3
<1>17. WebsocketInv' /\ MqttInv'
  BY <1>1, <1>2, <1>13, <1>14, <1>15, <1>16 DEF WebsocketInv, MqttInv
<1> QED BY <1>3, <1>11, <1>12, <1>17 DEF SessionsInv

LEMMA ExportStep ==
    ASSUME SessionsInv, NEW c \in Conn, Sessions!Export(c)
    PROVE  SessionsInv'
<1> DEFINE d0 == Head(handler[c].left)
           k == home[c]
<1>i. SessionTypes /\ LifeInv /\ LastInv /\ WebsocketInv /\ MqttInv
  BY DEF SessionsInv
<1>1. /\ handler[c].pc = "export" /\ handler' = [handler EXCEPT ![c] = Sessions!Rest(handler[c])]
      /\ online' = [online EXCEPT ![d0] = TRUE]
      /\ UNCHANGED <<kind, connector, home, mapping, listed, ender, broken, last, sessionsCrossed>>
  BY DEF Sessions!Export, Sessions!others, Sessions!ends, Sessions!maps
<1>2. /\ LifeInv' /\ handler' \in [Conn -> HandlerState]
      /\ home[c] # 0 /\ SameEnders /\ d0 \in Handles(c)
      /\ \A o \in Conn : /\ Handles(o)' \subseteq Handles(o)
                         /\ o # c => Handles(o)' = Handles(o) /\ Ahead(o)' = Ahead(o) /\ handler'[o] = handler[o]
      /\ \A o \in Conn : \A d : d # d0 /\ Unmapped(o, d) => Unmapped(o, d)'
  BY <1>1, <1>i, RestLife
<1>3. /\ handler'[c].pc \in {"export", "read"} /\ d0 \in Sessions!Device /\ Ahead(c) \ {d0} \subseteq Ahead(c)'
  BY <1>1, <1>i, HandlerRests
<1>4. \A o \in Conn : Leaves(o)' = Leaves(o) /\ ender'[o] = ender[o]
  BY <1>2 DEF SameEnders
<1>5. \A d : ~Unmapped(c, d) /\ ~Unmapped(c, d)'
  BY <1>1, <1>3 DEF Unmapped
<1>6. \A o \in Conn : \A d : d # d0 => (Unmapped(o, d) <=> Unmapped(o, d)')
  BY <1>2, <1>5 DEF Unmapped
<1>7. \A d \in Sessions!Device : online'[d] = IF d = d0 THEN TRUE ELSE online[d]
  BY <1>1, <1>i DEF SessionTypes
<1>8. SessionTypes'
  BY <1>1, <1>2, <1>i DEF SessionTypes
<1> HIDE DEF d0, k
<1>9. last[d0] # 0 /\ (d0 \notin sessionsCrossed => last[d0] = c /\ ender[c].pc = "none")
  BY <1>2, <1>i DEF LastInv
<1>10. LastInv'
  <2>1. \A d \in Sessions!Device : (online'[d] => last[d] # 0) /\ (last[d] # 0 => home[last[d]] # 0)
    BY <1>7, <1>9, <1>i DEF LastInv
  <2> QED BY <1>1, <1>2, <2>1, <1>i DEF LastInv
<1>11. WebsocketInv'
  <2> SUFFICES ASSUME kind = "websocket" PROVE (ListedInv /\ AloneInv /\ MappedInv /\ OnlineInv)'
    BY <1>1 DEF WebsocketInv
  <2>i. ListedInv /\ AloneInv /\ MappedInv /\ OnlineInv
    BY <1>i DEF WebsocketInv
  <2>1. c \in Conn /\ ender[c].pc = "none"
    BY <1>1, <2>i DEF ListedInv
  <2>2. ListedInv'
    <3>1. \A o \in Conn : ender[o].pc # "none" => handler'[o].pc = "done" /\ listed[o] = <<>>
      BY <1>2, <2>1, <2>i DEF ListedInv
    <3> QED BY <1>1, <3>1, <2>i DEF ListedInv, Leaves
  <2>3. AloneInv'
    BY <1>1, <1>2, <1>4, <2>i, BusyFacts DEF AloneInv
  <2>4. MappedInv'
    <3>1. ASSUME NEW d \in Sessions!Device \ sessionsCrossed, \A o \in Conn : ~Unmapped(o, d)',
                 NEW n \in Sessions!Connector
          PROVE  mapping[n][d] \in {0, last[d]}
      <4>1. \A o \in Conn : ~Unmapped(o, d)
        BY <1>2, <1>5, <3>1 DEF Unmapped
      <4> QED BY <4>1, <2>i DEF MappedInv
    <3>2. ASSUME NEW o \in Conn, NEW d \in Handles(o)' \ sessionsCrossed, ~Unmapped(o, d)'
          PROVE  mapping[home[o]][d] = o
      <4>1. d \in Handles(o) /\ ~Unmapped(o, d)
        BY <1>2, <1>5, <3>2 DEF Unmapped
      <4> QED BY <4>1, <3>2, <2>i DEF MappedInv
    <3> QED BY <1>1, <3>1, <3>2, <2>i DEF MappedInv
  <2>5. OnlineInv'
    <3> SUFFICES ASSUME NEW l \in Conn, NEW d \in Sessions!Device \ sessionsCrossed, last[d] = l
                 PROVE  /\ online'[d] /\ (\A o \in Conn : ~Unmapped(o, d)') =>
                              mapping[home[l]][d] = l \/ (ender[l].pc = "offline" /\ Head(ender[l].left) = d)
                        /\ ~online'[d] => \/ d \in Ahead(l)' \/ ender[l].pc # "none"
                                         \/ (handler'[l].pc = "map" /\ d \in Handles(l)')
      BY <1>1 DEF OnlineInv
    <3>1. CASE d = d0
      <4>1. l = c /\ mapping[home[c]][d] = c
        BY <1>2, <1>5, <1>9, <3>1, <2>i DEF MappedInv
      <4> QED BY <1>7, <3>1, <4>1
    <3>2. CASE d # d0
      <4>1. \A o \in Conn : Unmapped(o, d)' <=> Unmapped(o, d)
        BY <1>6, <3>2
      <4>2. CASE l = c
        BY <1>1, <1>3, <1>7, <2>1, <3>2, <4>1, <4>2, <2>i DEF OnlineInv
      <4>3. CASE l # c
        <5>1. /\ online[d] /\ (\A o \in Conn : ~Unmapped(o, d)) =>
                    mapping[home[l]][d] = l \/ (ender[l].pc = "offline" /\ Head(ender[l].left) = d)
              /\ ~online[d] => d \in Ahead(l) \/ ender[l].pc # "none" \/ (handler[l].pc = "map" /\ d \in Handles(l))
          BY <2>i DEF OnlineInv
        <5>2. online'[d] = online[d] /\ handler'[l] = handler[l] /\ Handles(l)' = Handles(l) /\ Ahead(l)' = Ahead(l)
          BY <1>2, <1>7, <3>2, <4>3
        <5> QED BY <4>1, <5>1, <5>2
      <4> QED BY <4>2, <4>3
    <3> QED BY <3>1, <3>2
  <2> QED BY <2>2, <2>3, <2>4, <2>5
<1>12. MqttInv'
  <2> SUFFICES ASSUME kind = "mqtt" PROVE (\A o \in Conn : handler'[o].pc # "map") /\ SessionInv' /\ LostInv'
    BY <1>1, <1>i DEF MqttInv
  <2>i. SessionInv /\ LostInv /\ \A o \in Conn : handler[o].pc # "map"
    BY <1>i DEF MqttInv
  <2>1. SessionInv'
    BY <1>1, <2>i DEF SessionInv
  <2>2. LostInv'
    <3> SUFFICES ASSUME NEW l \in Conn, NEW d \in Sessions!Device \ sessionsCrossed, last[d] = l
                 PROVE  IF l \in broken
                        THEN ~online'[d] \/ ender[l].pc = "none" \/ d \in Leaves(l)
                        ELSE /\ online'[d] \/ d \in Ahead(l)'
                             /\ \A o \in Conn : d \notin Leaves(o)
                             /\ \A o \in Conn \ {l} : home[o] = home[l] => o \in broken /\ ender[o].pc = "done"
      BY <1>1, <1>4 DEF LostInv
    <3>1. CASE d = d0
      <4>1. l = c /\ ender[c].pc = "none" /\ online'[d]
        BY <1>7, <1>9, <3>1
      <4> QED BY <4>1, <2>i DEF LostInv
    <3>2. CASE d # d0
      <4>1. d \in Ahead(l) => d \in Ahead(l)'
        BY <1>2, <1>3, <3>2
      <4> QED BY <1>7, <3>2, <4>1, <2>i DEF LostInv
    <3> QED BY <3>1, <3>2
  <2>3. \A o \in Conn : handler'[o].pc # "map"
    BY <1>2, <1>3, <2>i
  <2> QED BY <2>1, <2>2, <2>3
<1> QED BY <1>2, <1>8, <1>10, <1>11, <1>12 DEF SessionsInv

-----------------------------------------------------------------------------
(* The end of a connection *)

LEMMA EndStep ==
    ASSUME SessionsInv, NEW c \in Conn, Sessions!End(c)
    PROVE  SessionsInv'
<1> DEFINE x == [pc |-> "done", left |-> <<>>, all |-> <<>>]
           L == listed[c]
           e == [pc |-> IF L = <<>> THEN "done" ELSE "drop", left |-> L]
<1>i. SessionTypes /\ LifeInv /\ LastInv /\ WebsocketInv /\ MqttInv
  BY DEF SessionsInv
<1>1. /\ kind = "websocket" /\ kind # "mqtt" /\ handler[c].pc = "read" /\ c \in broken
      /\ handler' = [handler EXCEPT ![c] = x] /\ ender' = [ender EXCEPT ![c] = e]
      /\ listed' = [listed EXCEPT ![c] = <<>>]
      /\ sessionsCrossed' = sessionsCrossed \cup {d \in Sessions!Range(L) : \E o \in Conn : d \in Sessions!Busy(o)}
      /\ UNCHANGED <<kind, connector, home, mapping, broken, online, last>>
  BY DEF Sessions!End, Sessions!Ending, Sessions!others, Sessions!At
<1>2. ListedInv /\ AloneInv /\ MappedInv /\ OnlineInv
  BY <1>1, <1>i DEF WebsocketInv
<1>3. L \in Seq(Sessions!Device) /\ <<>> \in Seq(Sessions!Device)
  BY <1>i DEF SessionTypes
<1>4. x \in HandlerState /\ e \in EnderState
  BY <1>3 DEF HandlerState, EnderState
<1>5. /\ x.pc = "done" /\ x.left = <<>> /\ x.all = <<>>
      /\ e.left = L /\ e.pc \in {"done", "drop"} /\ (e.pc = "drop" <=> L # <<>>)
  OBVIOUS
<1> HIDE DEF x, e
<1>6. HandlerBecomes(c, x) /\ EnderBecomes(c, e)
  BY <1>1, <1>4, <1>i, HandlerGoes, EnderGoes
<1>7. /\ ender[c].pc = "none" /\ home[c] # 0 /\ Handles(c) = {} /\ Leaves(c) = {} /\ Handles(c)' = {}
      /\ Leaves(c)' = Sessions!Range(L) /\ \A d : ~Unmapped(c, d) /\ ~Unmapped(c, d)'
  <2>1. ender[c].pc = "none" /\ home[c] # 0
    BY <1>1, <1>2, <1>i DEF ListedInv, LifeInv
  <2>2. Handles(c)' = {} /\ Leaves(c)' = Sessions!Range(L) /\ \A d : ~Unmapped(c, d) /\ ~Unmapped(c, d)'
    BY <1>1, <1>5, <1>6 DEF HandlerBecomes, EnderBecomes, Handles, Leaves, Unmapped, Sessions!Range
  <2> QED BY <1>1, <1>i, <2>1, <2>2, HandlerFacts, EnderHead
<1>8. \A o \in Conn \ {c} : /\ handler'[o] = handler[o] /\ Handles(o)' = Handles(o) /\ Ahead(o)' = Ahead(o)
                            /\ ender'[o] = ender[o] /\ Leaves(o)' = Leaves(o)
                            /\ \A d : Unmapped(o, d)' <=> Unmapped(o, d)
  BY <1>6 DEF HandlerBecomes, EnderBecomes
<1>9. /\ sessionsCrossed \subseteq sessionsCrossed'
      /\ \A d \in Sessions!Range(L) \ sessionsCrossed' : \A o \in Conn : d \notin Handles(o) /\ d \notin Leaves(o)
  BY <1>1, BusyFacts
<1>10. handler'[c] = x /\ ender'[c] = e
  BY <1>6 DEF HandlerBecomes, EnderBecomes
<1>11. SessionTypes'
  BY <1>1, <1>3, <1>6, <1>i DEF SessionTypes, HandlerBecomes, EnderBecomes
<1> HIDE DEF L
<1>12. LifeInv'
  <2> SUFFICES ASSUME NEW o \in Conn
               PROVE  /\ home[o] = 0 => handler'[o].pc = "none" /\ o \notin broken
                      /\ ender'[o].pc # "none" => o \in broken
                      /\ IF handler'[o].pc \in {"map", "export"}
                         THEN handler'[o].left # <<>> /\ Ahead(o)' \subseteq Handles(o)'
                         ELSE handler'[o].left = <<>> /\ handler'[o].all = <<>>
                      /\ ender'[o].pc \in {"drop", "offline"} <=> ender'[o].left # <<>>
    BY <1>1 DEF LifeInv
  <2>1. CASE o = c
    BY <1>1, <1>5, <1>7, <1>10, <2>1
  <2>2. CASE o # c
    BY <1>8, <1>i, <2>2 DEF LifeInv
  <2> QED BY <2>1, <2>2
<1>13. LastInv'
  BY <1>1, <1>7, <1>8, <1>9, <1>i DEF LastInv
<1>14. ListedInv'
  <2>1. ASSUME NEW n \in Sessions!Connector, NEW d \in Sessions!Device, mapping[n][d] # 0
        PROVE  /\ home[mapping[n][d]] = n
               /\ d \in Sessions!Range(listed'[mapping[n][d]]) \cup Sessions!Range(ender'[mapping[n][d]].left)
    <3> DEFINE o == mapping[n][d]
    <3>1. o \in Conn
      BY <1>i, <2>1 DEF SessionTypes, Mappings
    <3>2. home[o] = n /\ d \in Sessions!Range(listed[o]) \cup Leaves(o)
      BY <1>2, <2>1 DEF ListedInv
    <3> HIDE DEF o
    <3>3. ASSUME o = c PROVE d \in Sessions!Range(ender'[o].left)
      BY <1>5, <1>7, <1>10, <3>2, <3>3 DEF L
    <3>4. ASSUME o # c PROVE d \in Sessions!Range(listed'[o]) \cup Sessions!Range(ender'[o].left)
      <4>1. listed'[o] = listed[o]
        BY <1>1, <1>i, <3>1, <3>4 DEF SessionTypes
      <4> QED BY <1>8, <3>1, <3>2, <3>4, <4>1 DEF Leaves
    <3>5. home[o] = n /\ d \in Sessions!Range(listed'[o]) \cup Sessions!Range(ender'[o].left)
      BY <3>2, <3>3, <3>4
    <3> QED BY <3>5 DEF o
  <2>2. ASSUME NEW o \in Conn, ender'[o].pc # "none" PROVE handler'[o].pc = "done" /\ listed'[o] = <<>>
    <3>1. CASE o = c
      BY <1>1, <1>5, <1>10, <1>i, <3>1 DEF SessionTypes
    <3>2. CASE o # c
      BY <1>1, <1>2, <1>8, <1>i, <2>2, <3>2 DEF SessionTypes, ListedInv
    <3> QED BY <3>1, <3>2
  <2>3. \A o \in Conn : ender'[o].pc = "offline" => mapping[home[o]][Head(ender'[o].left)] # o
    BY <1>2, <1>5, <1>8, <1>10 DEF ListedInv
  <2> QED BY <1>1, <2>1, <2>2, <2>3 DEF ListedInv, Leaves, Sessions!Range
<1>15. AloneInv'
  BY <1>2, <1>7, <1>8, <1>9, BusyFacts DEF AloneInv
<1>16. MappedInv'
  <2>1. \A o \in Conn : \A d : Unmapped(o, d)' <=> Unmapped(o, d)
    BY <1>7, <1>8
  <2>2. \A o \in Conn : Handles(o)' = Handles(o) /\ (ender'[o].pc = "offline" => ender'[o] = ender[o])
    BY <1>5, <1>7, <1>8, <1>10
  <2> QED BY <1>1, <1>2, <1>9, <2>1, <2>2 DEF MappedInv
<1>17. OnlineInv'
  <2> SUFFICES ASSUME NEW l \in Conn, NEW d \in Sessions!Device \ sessionsCrossed', last[d] = l
               PROVE  /\ online[d] /\ (\A o \in Conn : ~Unmapped(o, d)') =>
                            mapping[home[l]][d] = l \/ (ender'[l].pc = "offline" /\ Head(ender'[l].left) = d)
                      /\ ~online[d] => \/ d \in Ahead(l)' \/ ender'[l].pc # "none"
                                       \/ (handler'[l].pc = "map" /\ d \in Handles(l)')
    BY <1>1 DEF OnlineInv
  <2>1. \A o \in Conn : Unmapped(o, d)' <=> Unmapped(o, d)
    BY <1>7, <1>8
  <2>2. /\ online[d] /\ (\A o \in Conn : ~Unmapped(o, d)) =>
              mapping[home[l]][d] = l \/ (ender[l].pc = "offline" /\ Head(ender[l].left) = d)
        /\ ~online[d] => d \in Ahead(l) \/ ender[l].pc # "none" \/ (handler[l].pc = "map" /\ d \in Handles(l))
    BY <1>2, <1>9 DEF OnlineInv
  <2>3. CASE l = c
    BY <1>5, <1>7, <1>10, <2>1, <2>2, <2>3
  <2>4. CASE l # c
    BY <1>8, <2>1, <2>2, <2>4
  <2> QED BY <2>3, <2>4
<1>18. WebsocketInv' /\ MqttInv'
  BY <1>1, <1>14, <1>15, <1>16, <1>17 DEF WebsocketInv, MqttInv
<1> QED BY <1>11, <1>12, <1>13, <1>18 DEF SessionsInv

LEMMA LostStep ==
    ASSUME SessionsInv, NEW c \in Conn, Sessions!Lost(c)
    PROVE  SessionsInv'
<1> DEFINE e == [pc |-> "offline", left |-> Devices]
<1>i. SessionTypes /\ LifeInv /\ LastInv /\ WebsocketInv /\ MqttInv
  BY DEF SessionsInv
<1>1. /\ kind = "mqtt" /\ kind # "websocket" /\ c \in broken /\ ender[c].pc = "none"
      /\ ender' = [ender EXCEPT ![c] = e]
      /\ sessionsCrossed' = sessionsCrossed \cup
            {d \in Sessions!Device : \E o \in Conn : d \in Sessions!Busy(o) \/ home[o] \notin {0, home[c]}}
      /\ UNCHANGED <<kind, connector, home, mapping, listed, handler, broken, online, last>>
  BY DEF Sessions!Lost, Sessions!others, Sessions!maps
<1>2. SessionInv /\ LostInv
  BY <1>1, <1>i DEF MqttInv
<1>3. e \in EnderState /\ e.pc = "offline" /\ e.left = Devices
  BY DeviceFacts DEF EnderState
<1> HIDE DEF e
<1>4. EnderBecomes(c, e) /\ SameHandlers
  BY <1>1, <1>3, <1>i, EnderGoes, HandlersStay
<1>5. Leaves(c)' = Sessions!Device /\ ender'[c] = e
  BY <1>3, <1>4, DeviceFacts DEF EnderBecomes, Leaves
<1>6. \A o \in Conn \ {c} : ender'[o] = ender[o] /\ Leaves(o)' = Leaves(o)
  BY <1>4 DEF EnderBecomes
<1>7. \A o \in Conn : Handles(o)' = Handles(o) /\ Ahead(o)' = Ahead(o)
  BY <1>4 DEF SameHandlers
<1>8. /\ sessionsCrossed \subseteq sessionsCrossed'
      /\ \A d \in Sessions!Device \ sessionsCrossed' : \A o \in Conn :
            d \notin Handles(o) /\ d \notin Leaves(o) /\ home[o] \in {0, home[c]}
  BY <1>1, BusyFacts
<1>9. SessionTypes'
  BY <1>1, <1>4, <1>i DEF SessionTypes, EnderBecomes, Mappings
<1>10. LifeInv'
  <2> SUFFICES ASSUME NEW o \in Conn
               PROVE  /\ home[o] = 0 => handler[o].pc = "none" /\ o \notin broken
                      /\ ender'[o].pc # "none" => o \in broken
                      /\ IF handler[o].pc \in {"map", "export"}
                         THEN handler[o].left # <<>> /\ Ahead(o) \subseteq Handles(o)
                         ELSE handler[o].left = <<>> /\ handler[o].all = <<>>
                      /\ ender'[o].pc \in {"drop", "offline"} <=> ender'[o].left # <<>>
    BY <1>1, <1>7 DEF LifeInv
  <2>1. CASE o = c
    BY <1>1, <1>3, <1>5, <1>i, <2>1, DeviceFacts DEF LifeInv
  <2>2. CASE o # c
    BY <1>6, <1>i, <2>2 DEF LifeInv
  <2> QED BY <2>1, <2>2
<1>11. LastInv'
  <2>1. \A o \in Conn : Handles(o) \subseteq Sessions!Device
    BY <1>i, HandlerFacts
  <2> QED BY <1>1, <1>7, <1>8, <2>1, <1>i DEF LastInv
<1>12. LostInv'
  <2> SUFFICES ASSUME NEW l \in Conn, NEW d \in Sessions!Device \ sessionsCrossed', last[d] = l
               PROVE  IF l \in broken
                      THEN ~online[d] \/ ender'[l].pc = "none" \/ d \in Leaves(l)'
                      ELSE /\ online[d] \/ d \in Ahead(l)
                           /\ \A o \in Conn : d \notin Leaves(o)'
                           /\ \A o \in Conn \ {l} : home[o] = home[l] => o \in broken /\ ender'[o].pc = "done"
    BY <1>1, <1>7 DEF LostInv
  <2>1. /\ d \notin sessionsCrossed /\ home[l] # 0 /\ home[l] = home[c]
    BY <1>8, <1>i, LastFacts
  <2>2. l \in broken
    BY <1>1, <1>2, <2>1 DEF LostInv
  <2>3. CASE l = c
    BY <1>5, <2>2, <2>3
  <2>4. CASE l # c
    BY <1>2, <1>6, <2>1, <2>2, <2>4 DEF LostInv
  <2> QED BY <2>3, <2>4
<1>13. MqttInv'
  <2>1. SessionInv'
    BY <1>1, <1>2 DEF SessionInv
  <2>2. \A o \in Conn : ender'[o].pc # "drop"
    BY <1>1, <1>3, <1>5, <1>6, <1>i DEF MqttInv
  <2> QED BY <1>1, <1>12, <1>i, <2>1, <2>2 DEF MqttInv
<1>14. WebsocketInv'
  BY <1>1 DEF WebsocketInv
<1> QED BY <1>9, <1>10, <1>11, <1>13, <1>14 DEF SessionsInv

\* A step of what ends keeps to the invariants on goroutines.
LEMMA EnderLife ==
    ASSUME SessionTypes, LifeInv, LastInv, NEW c \in Conn, ender[c].pc \in {"drop", "offline"},
           EnderBecomes(c, ender'[c]), ender'[c].pc \in {"drop", "offline"} <=> ender'[c].left # <<>>,
           UNCHANGED <<home, broken, handler, last, sessionsCrossed>>,
           \A d \in Sessions!Device : online'[d] => online[d]
    PROVE  /\ LifeInv' /\ LastInv' /\ SameHandlers /\ c \in broken
           /\ \A o \in Conn \ {c} : ender'[o] = ender[o] /\ Leaves(o)' = Leaves(o)
<1>1. SameHandlers /\ c \in broken /\ \A o \in Conn \ {c} : ender'[o] = ender[o] /\ Leaves(o)' = Leaves(o)
  BY HandlersStay DEF EnderBecomes, LifeInv
<1>2. LifeInv'
  <2> SUFFICES ASSUME NEW o \in Conn
               PROVE  /\ home[o] = 0 => handler[o].pc = "none" /\ o \notin broken
                      /\ ender'[o].pc # "none" => o \in broken
                      /\ IF handler[o].pc \in {"map", "export"}
                         THEN handler[o].left # <<>> /\ Ahead(o) \subseteq Handles(o)
                         ELSE handler[o].left = <<>> /\ handler[o].all = <<>>
                      /\ ender'[o].pc \in {"drop", "offline"} <=> ender'[o].left # <<>>
    BY <1>1 DEF LifeInv, SameHandlers
  <2>1. CASE o = c
    BY <1>1, <2>1 DEF LifeInv
  <2>2. CASE o # c
    BY <1>1, <2>2 DEF LifeInv
  <2> QED BY <2>1, <2>2
<1>3. LastInv'
  <2>1. \A d \in Sessions!Device : (online'[d] => last[d] # 0) /\ (last[d] # 0 => home[last[d]] # 0)
    BY DEF LastInv
  <2>2. ASSUME NEW o \in Conn, NEW d \in Handles(o)
        PROVE  last[d] # 0 /\ (d \notin sessionsCrossed => last[d] = o /\ ender'[o].pc = "none")
    <3>1. last[d] # 0 /\ (d \notin sessionsCrossed => last[d] = o /\ ender[o].pc = "none")
      BY DEF LastInv
    <3> QED BY <1>1, <3>1
  <2> QED BY <1>1, <2>1, <2>2 DEF LastInv, SameHandlers
<1> QED BY <1>1, <1>2, <1>3

\* The device of a connection that was found its own is no longer mapped to it.
LEMMA DropOwn ==
    ASSUME SessionsInv, NEW c \in Conn, Sessions!Drop(c), Sessions!Own(c, Head(ender[c].left))
    PROVE  SessionsInv'
<1> DEFINE d0 == Head(ender[c].left)
           k == home[c]
           e == [ender[c] EXCEPT !.pc = "offline"]
<1>i. SessionTypes /\ LifeInv /\ LastInv /\ WebsocketInv /\ MqttInv
  BY DEF SessionsInv
<1>1. /\ ender[c].pc = "drop" /\ mapping[k][d0] = c
      /\ mapping' = [mapping EXCEPT ![k][d0] = 0] /\ ender' = [ender EXCEPT ![c] = e]
      /\ UNCHANGED <<kind, connector, home, listed, handler, broken, online, last, sessionsCrossed>>
  BY DEF Sessions!Drop, Sessions!Own, Sessions!others
<1>2. kind = "websocket" /\ kind # "mqtt" /\ ListedInv /\ AloneInv /\ MappedInv /\ OnlineInv
  BY <1>1, <1>i DEF SessionTypes, WebsocketInv, MqttInv
<1>3. e \in EnderState /\ e.pc = "offline" /\ e.left = ender[c].left
  <2>1. ender[c] = [pc |-> ender[c].pc, left |-> ender[c].left] /\ ender[c].left \in Seq(Sessions!Device)
    BY <1>i DEF SessionTypes, EnderState
  <2>2. e = [pc |-> "offline", left |-> ender[c].left]
    BY <2>1
  <2> QED BY <2>1, <2>2 DEF EnderState
<1> HIDE DEF e
<1>4. EnderBecomes(c, e) /\ ender'[c] = e /\ ender[c].left # <<>>
  BY <1>1, <1>3, <1>i, EnderGoes DEF EnderBecomes, LifeInv
<1>5. /\ LifeInv' /\ LastInv' /\ SameHandlers /\ c \in broken
      /\ \A o \in Conn \ {c} : ender'[o] = ender[o] /\ Leaves(o)' = Leaves(o)
  BY <1>1, <1>3, <1>4, <1>i, EnderLife
<1>6. Leaves(c)' = Leaves(c) /\ d0 \in Leaves(c) /\ d0 \in Sessions!Device
  <2>1. Leaves(c)' = Leaves(c)
    BY <1>3, <1>4 DEF Leaves
  <2> QED BY <1>1, <1>i, <2>1, EnderHead
<1>7. /\ k \in Sessions!Connector /\ c # 0 /\ handler[c].pc = "done" /\ listed[c] = <<>> /\ Handles(c) = {}
      /\ \A d : ~Unmapped(c, d)
  <2>1. handler[c].pc = "done" /\ listed[c] = <<>>
    BY <1>1, <1>2 DEF ListedInv
  <2>2. k \in Sessions!Connector
    BY <1>i, <2>1 DEF LifeInv, SessionTypes
  <2> QED BY <1>i, <2>1, <2>2, HandlerFacts, LastFacts
<1>8. mapping' \in Mappings
  BY <1>1, <1>6, <1>7, <1>i DEF SessionTypes, Mappings
<1>9. \A n \in Sessions!Connector, d \in Sessions!Device :
          mapping'[n][d] = IF n = k /\ d = d0 THEN 0 ELSE mapping[n][d]
  BY <1>1, <1>6, <1>7, <1>i DEF SessionTypes, Mappings
<1>10. SessionTypes'
  BY <1>1, <1>4, <1>8, <1>i DEF SessionTypes, EnderBecomes
<1> HIDE DEF k
<1>11. d0 \notin sessionsCrossed => last[d0] = c
  <2> SUFFICES ASSUME d0 \notin sessionsCrossed PROVE last[d0] = c
    OBVIOUS
  <2>1. ASSUME NEW o \in Conn PROVE ~Unmapped(o, d0)
    <3>1. CASE o = c
      BY <1>7, <3>1
    <3>2. CASE o # c
      <4>1. d0 \notin Handles(o)
        BY <1>2, <1>6, <3>2, BusyFacts DEF AloneInv
      <4> QED BY <1>i, <4>1, HandlerFacts
    <3> QED BY <3>1, <3>2
  <2>2. mapping[k][d0] \in {0, last[d0]}
    BY <1>2, <1>6, <1>7, <2>1 DEF MappedInv
  <2> QED BY <1>1, <1>7, <2>2 DEF k
<1>12. \A o \in Conn : Leaves(o)' = Leaves(o) /\ Handles(o)' = Handles(o) /\ Ahead(o)' = Ahead(o)
  BY <1>5, <1>6 DEF SameHandlers
<1>13. \A o \in Conn : \A d : Unmapped(o, d)' <=> Unmapped(o, d)
  BY <1>5 DEF SameHandlers
<1>14. \A o \in Conn : ender[o].pc = "none" <=> ender'[o].pc = "none"
  BY <1>1, <1>3, <1>4, <1>5
<1>15. ListedInv'
  <2>1. ASSUME NEW n \in Sessions!Connector, NEW d \in Sessions!Device, mapping'[n][d] # 0
        PROVE  /\ home[mapping'[n][d]] = n
               /\ d \in Sessions!Range(listed[mapping'[n][d]]) \cup Sessions!Range(ender'[mapping'[n][d]].left)
    <3>1. mapping'[n][d] = mapping[n][d]
      BY <1>9, <2>1
    <3> DEFINE o == mapping[n][d]
    <3>2. home[o] = n /\ d \in Sessions!Range(listed[o]) \cup Leaves(o)
      BY <1>2, <2>1, <3>1 DEF ListedInv
    <3>3. o \in Conn
      BY <1>i, <2>1, <3>1 DEF SessionTypes, Mappings
    <3> HIDE DEF o
    <3>4. Sessions!Range(ender'[o].left) = Leaves(o)
      BY <1>12, <3>3 DEF Leaves
    <3>5. home[o] = n /\ d \in Sessions!Range(listed[o]) \cup Sessions!Range(ender'[o].left)
      BY <3>2, <3>4
    <3> QED BY <3>1, <3>5 DEF o
  <2>2. \A o \in Conn : ender'[o].pc # "none" => handler[o].pc = "done" /\ listed[o] = <<>>
    BY <1>2, <1>14 DEF ListedInv
  <2>3. ASSUME NEW o \in Conn, ender'[o].pc = "offline" PROVE mapping'[home[o]][Head(ender'[o].left)] # o
    <3>1. CASE o = c
      BY <1>3, <1>4, <1>6, <1>7, <1>9, <3>1 DEF k
    <3>2. CASE o # c
      <4>1. home[o] \in Sessions!Connector /\ Head(ender[o].left) \in Sessions!Device /\ ender'[o] = ender[o] /\ o # 0
        <5>1. ender'[o] = ender[o] /\ ender[o].pc = "offline"
          BY <1>5, <2>3, <3>2
        <5>2. handler[o].pc = "done"
          BY <1>2, <5>1 DEF ListedInv
        <5>3. home[o] \in Sessions!Connector
          BY <1>i, <5>2 DEF LifeInv, SessionTypes
        <5> QED BY <1>i, <5>1, <5>3, EnderHead, LastFacts
      <4> QED BY <1>2, <1>9, <2>3, <3>2, <4>1 DEF ListedInv
    <3> QED BY <3>1, <3>2
  <2> QED BY <1>1, <2>1, <2>2, <2>3 DEF ListedInv, Leaves, Sessions!Range
<1>16. AloneInv'
  BY <1>1, <1>2, <1>12, BusyFacts DEF AloneInv
<1>17. MappedInv'
  <2>1. ASSUME NEW d \in Sessions!Device \ sessionsCrossed, \A o \in Conn : ~Unmapped(o, d)',
               NEW n \in Sessions!Connector
        PROVE  mapping'[n][d] \in {0, last[d]}
    BY <1>2, <1>9, <1>13, <2>1 DEF MappedInv
  <2>2. ASSUME NEW o \in Conn, NEW d \in Handles(o) \ sessionsCrossed, ~Unmapped(o, d)'
        PROVE  mapping'[home[o]][d] = o
    <3>1. mapping[home[o]][d] = o
      BY <1>2, <1>13, <2>2 DEF MappedInv
    <3>2. home[o] \in Sessions!Connector /\ d \in Sessions!Device /\ o # c
      BY <1>7, <1>i, HandlerFacts, <2>2 DEF LifeInv, SessionTypes
    <3> QED BY <1>1, <1>9, <3>1, <3>2 DEF k
  <2>3. ASSUME NEW o \in Conn, ender'[o].pc = "offline", Head(ender'[o].left) \notin sessionsCrossed
        PROVE  last[Head(ender'[o].left)] = o
    <3>1. CASE o = c
      BY <1>3, <1>4, <1>11, <2>3, <3>1
    <3>2. CASE o # c
      BY <1>2, <1>5, <2>3, <3>2 DEF MappedInv
    <3> QED BY <3>1, <3>2
  <2> QED BY <1>1, <1>12, <2>1, <2>2, <2>3 DEF MappedInv
<1>18. OnlineInv'
  <2> SUFFICES ASSUME NEW l \in Conn, NEW d \in Sessions!Device \ sessionsCrossed, last[d] = l
               PROVE  /\ online[d] /\ (\A o \in Conn : ~Unmapped(o, d)') =>
                            mapping'[home[l]][d] = l \/ (ender'[l].pc = "offline" /\ Head(ender'[l].left) = d)
                      /\ ~online[d] => \/ d \in Ahead(l) \/ ender'[l].pc # "none"
                                       \/ (handler[l].pc = "map" /\ d \in Handles(l))
    BY <1>1, <1>12 DEF OnlineInv
  <2>1. /\ online[d] /\ (\A o \in Conn : ~Unmapped(o, d)) =>
              mapping[home[l]][d] = l \/ (ender[l].pc = "offline" /\ Head(ender[l].left) = d)
        /\ ~online[d] => d \in Ahead(l) \/ ender[l].pc # "none" \/ (handler[l].pc = "map" /\ d \in Handles(l))
    BY <1>2 DEF OnlineInv
  <2>2. home[l] \in Sessions!Connector
    BY <1>i, LastFacts
  <2>3. ~online[d] => \/ d \in Ahead(l) \/ ender'[l].pc # "none"
                      \/ (handler[l].pc = "map" /\ d \in Handles(l))
    BY <1>14, <2>1
  <2>4. ASSUME online[d], \A o \in Conn : ~Unmapped(o, d)'
        PROVE  mapping'[home[l]][d] = l \/ (ender'[l].pc = "offline" /\ Head(ender'[l].left) = d)
    <3>1. mapping[home[l]][d] = l \/ (ender[l].pc = "offline" /\ Head(ender[l].left) = d)
      BY <1>13, <2>1, <2>4
    <3>2. CASE d = d0 /\ home[l] = k
      <4>1. l = c
        BY <1>11, <3>2
      <4> QED BY <1>3, <1>4, <3>2, <4>1
    <3>3. CASE ~(d = d0 /\ home[l] = k)
      <4>1. mapping'[home[l]][d] = mapping[home[l]][d]
        BY <1>9, <2>2, <3>3
      <4>2. ender[l].pc = "offline" => ender'[l] = ender[l]
        BY <1>1, <1>5
      <4> QED BY <3>1, <4>1, <4>2
    <3> QED BY <3>2, <3>3
  <2> QED BY <2>3, <2>4
<1>19. WebsocketInv' /\ MqttInv'
  BY <1>1, <1>2, <1>15, <1>16, <1>17, <1>18 DEF WebsocketInv, MqttInv
<1> QED BY <1>5, <1>10, <1>19 DEF SessionsInv

\* What ends of a websocket connection has done with a device that is not mapped to it (any more).
LEMMA LeftKeeps ==
    ASSUME SessionTypes, LifeInv, ListedInv, AloneInv, MappedInv, NEW c \in Conn,
           ender[c].pc \in {"drop", "offline"}, mapping[home[c]][Head(ender[c].left)] # c,
           EnderBecomes(c, ender'[c]), SameHandlers, ender'[c].pc \in {"drop", "done"},
           Leaves(c)' \subseteq Leaves(c), Leaves(c) \ {Head(ender[c].left)} \subseteq Leaves(c)',
           UNCHANGED <<home, mapping, listed, last, sessionsCrossed>>
    PROVE  ListedInv' /\ AloneInv' /\ MappedInv'
<1>1. \A o \in Conn \ {c} : ender'[o] = ender[o] /\ Leaves(o)' = Leaves(o)
  BY DEF EnderBecomes
<1>2. \A o \in Conn : /\ Leaves(o)' \subseteq Leaves(o) /\ (ender'[o].pc = "offline" => ender'[o] = ender[o])
                      /\ \A d \in Leaves(o) : o # c \/ d # Head(ender[c].left) => d \in Sessions!Range(ender'[o].left)
  BY <1>1 DEF Leaves
<1>3. /\ handler' = handler
      /\ \A o \in Conn : Handles(o)' = Handles(o) /\ \A d : Unmapped(o, d)' <=> Unmapped(o, d)
  BY DEF SameHandlers
<1>4. ListedInv'
  <2>1. ASSUME NEW n \in Sessions!Connector, NEW d \in Sessions!Device, mapping[n][d] # 0
        PROVE  /\ home[mapping[n][d]] = n
               /\ d \in Sessions!Range(listed[mapping[n][d]]) \cup Sessions!Range(ender'[mapping[n][d]].left)
    <3> DEFINE o == mapping[n][d]
    <3>1. /\ home[o] = n /\ d \in Sessions!Range(listed[o]) \cup Leaves(o)
          /\ o = c => d # Head(ender[c].left)
      BY <2>1 DEF ListedInv
    <3>2. o \in Conn
      BY <2>1 DEF SessionTypes, Mappings
    <3> HIDE DEF o
    <3>3. home[o] = n /\ d \in Sessions!Range(listed[o]) \cup Sessions!Range(ender'[o].left)
      BY <1>2, <3>1, <3>2
    <3> QED BY <3>3 DEF o
  <2>2. ASSUME NEW o \in Conn, ender'[o].pc # "none" PROVE handler[o].pc = "done" /\ listed[o] = <<>>
    <3>1. ender[o].pc # "none"
      BY <1>1, <2>2
    <3> QED BY <3>1 DEF ListedInv
  <2>3. \A o \in Conn : ender'[o].pc = "offline" => mapping[home[o]][Head(ender'[o].left)] # o
    BY <1>2 DEF ListedInv
  <2> QED BY <1>3, <2>1, <2>2, <2>3 DEF ListedInv, Leaves, Sessions!Range
<1>5. AloneInv'
  BY <1>2, <1>3, BusyFacts DEF AloneInv
<1>6. MappedInv'
  BY <1>2, <1>3 DEF MappedInv
<1> QED BY <1>4, <1>5, <1>6

LEMMA DropOther ==
    ASSUME SessionsInv, NEW c \in Conn, Sessions!Drop(c), ~Sessions!Own(c, Head(ender[c].left))
    PROVE  SessionsInv'
<1> DEFINE d0 == Head(ender[c].left)
<1>i. SessionTypes /\ LifeInv /\ LastInv /\ WebsocketInv /\ MqttInv
  BY DEF SessionsInv
<1>1. /\ ender[c].pc = "drop" /\ mapping[home[c]][d0] # c
      /\ ender' = [ender EXCEPT ![c] = Sessions!Left(ender[c], "drop")]
      /\ UNCHANGED <<kind, connector, home, mapping, listed, handler, broken, online, last, sessionsCrossed>>
  BY DEF Sessions!Drop, Sessions!Own, Sessions!others
<1>2. kind = "websocket" /\ kind # "mqtt" /\ ListedInv /\ AloneInv /\ MappedInv /\ OnlineInv
  BY <1>1, <1>i DEF SessionTypes, WebsocketInv, MqttInv
<1>3. /\ EnderBecomes(c, ender'[c]) /\ Leaves(c)' \subseteq Leaves(c) /\ Leaves(c) \ {d0} \subseteq Leaves(c)'
      /\ ender'[c].pc \in {"drop", "offline"} <=> ender'[c].left # <<>>
      /\ ender'[c].pc \in {"drop", "done"}
  BY <1>1, <1>i, EnderLeft
<1>4. /\ LifeInv' /\ LastInv' /\ SameHandlers /\ c \in broken
      /\ \A o \in Conn \ {c} : ender'[o] = ender[o] /\ Leaves(o)' = Leaves(o)
  BY <1>1, <1>3, <1>i, EnderLife
<1>5. SessionTypes'
  BY <1>1, <1>3, <1>i DEF SessionTypes, EnderBecomes, Mappings
<1>6. ListedInv' /\ AloneInv' /\ MappedInv'
  BY <1>1, <1>2, <1>3, <1>4, <1>i, LeftKeeps
<1>7. OnlineInv'
  <2>1. \A o \in Conn : /\ ender[o].pc # "none" => ender'[o].pc # "none"
                        /\ ender[o].pc = "offline" => ender'[o] = ender[o]
    BY <1>1, <1>3, <1>4
  <2>2. \A o \in Conn : Handles(o)' = Handles(o) /\ Ahead(o)' = Ahead(o) /\ \A d : Unmapped(o, d)' <=> Unmapped(o, d)
    BY <1>4 DEF SameHandlers
  <2> SUFFICES ASSUME NEW l \in Conn, NEW d \in Sessions!Device \ sessionsCrossed, last[d] = l
               PROVE  /\ online[d] /\ (\A o \in Conn : ~Unmapped(o, d)) =>
                            mapping[home[l]][d] = l \/ (ender'[l].pc = "offline" /\ Head(ender'[l].left) = d)
                      /\ ~online[d] => \/ d \in Ahead(l) \/ ender'[l].pc # "none"
                                       \/ (handler[l].pc = "map" /\ d \in Handles(l))
    BY <1>1, <2>2 DEF OnlineInv
  <2> QED BY <1>2, <2>1 DEF OnlineInv
<1>8. WebsocketInv' /\ MqttInv'
  BY <1>1, <1>2, <1>6, <1>7 DEF WebsocketInv, MqttInv
<1> QED BY <1>4, <1>5, <1>8 DEF SessionsInv

LEMMA DropStep ==
    ASSUME SessionsInv, NEW c \in Conn, Sessions!Drop(c)
    PROVE  SessionsInv'
BY DropOwn, DropOther

LEMMA SetOfflineStep ==
    ASSUME SessionsInv, NEW c \in Conn, Sessions!SetOffline(c)
    PROVE  SessionsInv'
<1> DEFINE d0 == Head(ender[c].left)
           p == IF kind = "mqtt" THEN "offline" ELSE "drop"
<1>i. SessionTypes /\ LifeInv /\ LastInv /\ WebsocketInv /\ MqttInv
  BY DEF SessionsInv
<1>1. /\ ender[c].pc = "offline" /\ online' = [online EXCEPT ![d0] = FALSE]
      /\ ender' = [ender EXCEPT ![c] = Sessions!Left(ender[c], p)]
      /\ UNCHANGED <<kind, connector, home, mapping, listed, handler, broken, last, sessionsCrossed>>
  BY DEF Sessions!SetOffline, Sessions!others, Sessions!maps
<1>2. p \in {"drop", "offline"} /\ (kind = "mqtt" => p = "offline") /\ (kind # "mqtt" => p = "drop")
  OBVIOUS
<1> HIDE DEF p
<1>3. /\ EnderBecomes(c, ender'[c]) /\ Leaves(c)' \subseteq Leaves(c) /\ Leaves(c) \ {d0} \subseteq Leaves(c)'
      /\ ender'[c].pc \in {"drop", "offline"} <=> ender'[c].left # <<>>
      /\ ender'[c].pc \in {p, "done"} /\ d0 \in Leaves(c) /\ d0 \in Sessions!Device
  BY <1>1, <1>2, <1>i, EnderLeft
<1>4. \A d \in Sessions!Device : online'[d] = IF d = d0 THEN FALSE ELSE online[d]
  BY <1>1, <1>3, <1>i DEF SessionTypes
<1>5. /\ LifeInv' /\ LastInv' /\ SameHandlers /\ c \in broken
      /\ \A o \in Conn \ {c} : ender'[o] = ender[o] /\ Leaves(o)' = Leaves(o)
  BY <1>1, <1>3, <1>4, <1>i, EnderLife
<1>6. SessionTypes'
  BY <1>1, <1>3, <1>i DEF SessionTypes, EnderBecomes, Mappings
<1> HIDE DEF d0
<1>7. \A o \in Conn : Handles(o)' = Handles(o) /\ Ahead(o)' = Ahead(o) /\ \A d : Unmapped(o, d)' <=> Unmapped(o, d)
  BY <1>5 DEF SameHandlers
<1>8. WebsocketInv'
  <2> SUFFICES ASSUME kind = "websocket" PROVE (ListedInv /\ AloneInv /\ MappedInv /\ OnlineInv)'
    BY <1>1 DEF WebsocketInv
  <2>i. ListedInv /\ AloneInv /\ MappedInv /\ OnlineInv
    BY <1>i DEF WebsocketInv
  <2>1. mapping[home[c]][d0] # c /\ ender'[c].pc \in {"drop", "done"}
    BY <1>1, <1>2, <1>3, <2>i DEF ListedInv, d0
  <2>2. ListedInv' /\ AloneInv' /\ MappedInv'
    BY <1>1, <1>3, <1>5, <1>i, <2>1, <2>i, LeftKeeps DEF d0
  <2>3. OnlineInv'
    <3> SUFFICES ASSUME NEW l \in Conn, NEW d \in Sessions!Device \ sessionsCrossed, last[d] = l
                 PROVE  /\ online'[d] /\ (\A o \in Conn : ~Unmapped(o, d)) =>
                              mapping[home[l]][d] = l \/ (ender'[l].pc = "offline" /\ Head(ender'[l].left) = d)
                        /\ ~online'[d] => \/ d \in Ahead(l) \/ ender'[l].pc # "none"
                                         \/ (handler[l].pc = "map" /\ d \in Handles(l))
      BY <1>1, <1>7 DEF OnlineInv
    <3>1. CASE d = d0
      <4>1. l = c
        BY <1>1, <2>i, <3>1 DEF MappedInv, d0
      <4> QED BY <1>4, <2>1, <3>1, <4>1
    <3>2. CASE d # d0
      <4>1. /\ online[d] /\ (\A o \in Conn : ~Unmapped(o, d)) =>
                  mapping[home[l]][d] = l \/ (ender[l].pc = "offline" /\ Head(ender[l].left) = d)
            /\ ~online[d] => d \in Ahead(l) \/ ender[l].pc # "none" \/ (handler[l].pc = "map" /\ d \in Handles(l))
        BY <2>i DEF OnlineInv
      <4>2. CASE l = c
        BY <1>4, <2>1, <3>2, <4>1, <4>2 DEF d0
      <4>3. CASE l # c
        BY <1>4, <1>5, <3>2, <4>1, <4>3
      <4> QED BY <4>2, <4>3
    <3> QED BY <3>1, <3>2
  <2> QED BY <2>2, <2>3
<1>9. MqttInv'
  <2> SUFFICES ASSUME kind = "mqtt" PROVE (\A o \in Conn : ender'[o].pc # "drop") /\ SessionInv' /\ LostInv'
    BY <1>1, <1>i DEF MqttInv
  <2>i. SessionInv /\ LostInv /\ \A o \in Conn : ender[o].pc # "drop"
    BY <1>i DEF MqttInv
  <2>1. SessionInv'
    BY <1>1, <2>i DEF SessionInv
  <2>2. \A o \in Conn : ender'[o].pc # "drop"
    BY <1>2, <1>3, <1>5, <2>i
  <2>3. LostInv'
    <3> SUFFICES ASSUME NEW l \in Conn, NEW d \in Sessions!Device \ sessionsCrossed, last[d] = l
                 PROVE  IF l \in broken
                        THEN ~online'[d] \/ ender'[l].pc = "none" \/ d \in Leaves(l)'
                        ELSE /\ online'[d] \/ d \in Ahead(l)
                             /\ \A o \in Conn : d \notin Leaves(o)'
                             /\ \A o \in Conn \ {l} : home[o] = home[l] => o \in broken /\ ender'[o].pc = "done"
      BY <1>1, <1>7 DEF LostInv
    <3>1. CASE l = c
      <4>1. ~online[d] \/ d \in Leaves(c)
        BY <1>1, <1>5, <2>i, <3>1 DEF LostInv
      <4> QED BY <1>3, <1>4, <1>5, <3>1, <4>1
    <3>2. CASE l # c /\ l \in broken
      <4>1. ~online[d] \/ ender[l].pc = "none" \/ d \in Leaves(l)
        BY <2>i, <3>2 DEF LostInv
      <4>2. ender'[l] = ender[l] /\ Leaves(l)' = Leaves(l)
        BY <1>5, <3>2
      <4> QED BY <1>4, <3>2, <4>1, <4>2
    <3>3. CASE l # c /\ l \notin broken
      <4>1. /\ online[d] \/ d \in Ahead(l)
            /\ \A o \in Conn : d \notin Leaves(o)
            /\ \A o \in Conn \ {l} : home[o] = home[l] => o \in broken /\ ender[o].pc = "done"
        BY <2>i, <3>3 DEF LostInv
      <4>2. d # d0 /\ home[c] # home[l]
        BY <1>1, <1>3, <3>3, <4>1
      <4>3. \A o \in Conn : Leaves(o)' \subseteq Leaves(o) /\ (o # c => ender'[o] = ender[o])
        BY <1>3, <1>5
      <4>4. \A o \in Conn \ {l} : home[o] = home[l] => o \in broken /\ ender'[o].pc = "done"
        BY <4>1, <4>2, <4>3
      <4>5. online'[d] \/ d \in Ahead(l)
        BY <1>4, <4>1, <4>2
      <4>6. \A o \in Conn : d \notin Leaves(o)'
        BY <4>1, <4>3
      <4> QED BY <3>3, <4>4, <4>5, <4>6
    <3> QED BY <3>1, <3>2, <3>3
  <2> QED BY <2>1, <2>2, <2>3
<1> QED BY <1>5, <1>6, <1>8, <1>9 DEF SessionsInv

LEMMA DisconnectStep ==
    ASSUME SessionsInv, NEW c \in Conn, Sessions!Disconnect(c)
    PROVE  SessionsInv'
<1> DEFINE x == [pc |-> "done", left |-> <<>>, all |-> <<>>]
           e == [pc |-> "done", left |-> <<>>]
<1>i. SessionTypes /\ LifeInv /\ LastInv /\ WebsocketInv /\ MqttInv
  BY DEF SessionsInv
<1>1. /\ kind = "mqtt" /\ kind # "websocket" /\ ender[c].pc = "none" /\ handler[c].pc = "read"
      /\ handler' = [handler EXCEPT ![c] = x] /\ ender' = [ender EXCEPT ![c] = e]
      /\ broken' = broken \cup {c}
      /\ sessionsCrossed' = sessionsCrossed \cup {d \in Sessions!Device : online[d]}
      /\ UNCHANGED <<kind, connector, home, mapping, listed, online, last>>
  BY DEF Sessions!Disconnect, Sessions!others, Sessions!maps, Sessions!At
<1>2. x \in HandlerState /\ e \in EnderState
  <2>1. <<>> \in Seq(Sessions!Device)
    OBVIOUS
  <2> QED BY <2>1 DEF HandlerState, EnderState
<1>3. x.pc = "done" /\ x.left = <<>> /\ x.all = <<>> /\ e.pc = "done" /\ e.left = <<>>
  OBVIOUS
<1> HIDE DEF x, e
<1>4. HandlerBecomes(c, x) /\ EnderBecomes(c, e) /\ handler'[c] = x /\ ender'[c] = e
  BY <1>1, <1>2, <1>i, HandlerGoes, EnderGoes DEF HandlerBecomes, EnderBecomes
<1>5. \A o \in Conn \ {c} : /\ handler'[o] = handler[o] /\ Handles(o)' = Handles(o) /\ Ahead(o)' = Ahead(o)
                            /\ ender'[o] = ender[o] /\ Leaves(o)' = Leaves(o)
  BY <1>4 DEF HandlerBecomes, EnderBecomes
<1>6. Handles(c)' = {} /\ Ahead(c)' = {} /\ Ahead(c) = {} /\ Leaves(c)' = {} /\ home[c] # 0
  <2>1. Handles(c)' = {} /\ Ahead(c)' = {} /\ Leaves(c)' = {}
    BY <1>3, <1>4 DEF Handles, Ahead, Leaves, Sessions!Range
  <2> QED BY <1>1, <1>i, <2>1, HandlerFacts DEF LifeInv
<1>7. SessionTypes'
  BY <1>1, <1>4, <1>i DEF SessionTypes, HandlerBecomes, EnderBecomes, Mappings
<1>8. LifeInv'
  <2> SUFFICES ASSUME NEW o \in Conn
               PROVE  /\ home[o] = 0 => handler'[o].pc = "none" /\ o \notin broken'
                      /\ ender'[o].pc # "none" => o \in broken'
                      /\ IF handler'[o].pc \in {"map", "export"}
                         THEN handler'[o].left # <<>> /\ Ahead(o)' \subseteq Handles(o)'
                         ELSE handler'[o].left = <<>> /\ handler'[o].all = <<>>
                      /\ ender'[o].pc \in {"drop", "offline"} <=> ender'[o].left # <<>>
    BY <1>1 DEF LifeInv
  <2>1. CASE o = c
    BY <1>1, <1>3, <1>4, <1>6, <2>1
  <2>2. CASE o # c
    BY <1>1, <1>5, <1>i, <2>2 DEF LifeInv
  <2> QED BY <2>1, <2>2
<1>9. LastInv'
  BY <1>1, <1>5, <1>6, <1>i DEF LastInv
<1>10. MqttInv'
  <2>i. SessionInv /\ LostInv
    BY <1>1, <1>i DEF MqttInv
  <2>1. SessionInv'
    BY <1>1, <2>i DEF SessionInv
  <2>2. \A o \in Conn : handler'[o].pc # "map" /\ ender'[o].pc # "drop"
    BY <1>1, <1>3, <1>4, <1>5, <1>i DEF MqttInv
  <2>3. LostInv'
    <3> SUFFICES ASSUME NEW l \in Conn, NEW d \in Sessions!Device \ sessionsCrossed', last[d] = l
                 PROVE  IF l \in broken'
                        THEN ~online[d] \/ ender'[l].pc = "none" \/ d \in Leaves(l)'
                        ELSE /\ online[d] \/ d \in Ahead(l)'
                             /\ \A o \in Conn : d \notin Leaves(o)'
                             /\ \A o \in Conn \ {l} : home[o] = home[l] => o \in broken' /\ ender'[o].pc = "done"
      BY <1>1 DEF LostInv
    <3>1. ~online[d] /\ d \notin sessionsCrossed
      BY <1>1
    <3>2. CASE l \in broken'
      BY <3>1, <3>2
    <3>3. CASE l \notin broken'
      <4>1. l # c /\ l \notin broken
        BY <1>1, <3>3
      <4>2. /\ d \in Ahead(l) /\ \A o \in Conn : d \notin Leaves(o)
            /\ \A o \in Conn \ {l} : home[o] = home[l] => o \in broken /\ ender[o].pc = "done"
        BY <2>i, <3>1, <4>1 DEF LostInv
      <4> QED BY <1>1, <1>3, <1>4, <1>5, <1>6, <3>3, <4>1, <4>2
    <3> QED BY <3>2, <3>3
  <2> QED BY <1>1, <1>i, <2>1, <2>2, <2>3 DEF MqttInv
<1>11. WebsocketInv'
  BY <1>1 DEF WebsocketInv
<1> QED BY <1>7, <1>8, <1>9, <1>10, <1>11 DEF SessionsInv

-----------------------------------------------------------------------------
\* Reloads and writes leave the connections, their goroutines and the devices alone.
LEMMA OthersStep ==
    ASSUME SessionsInv, connector' \in Sessions!Connector,
           UNCHANGED <<kind, home, mapping, listed, handler, ender, broken, online, last, sessionsCrossed>>
    PROVE  SessionsInv'
<1>i. SessionTypes /\ LifeInv /\ LastInv /\ WebsocketInv /\ MqttInv
  BY DEF SessionsInv
<1>1. SameHandlers /\ SameEnders
  BY HandlersStay, EndersStay
<1>2. SessionTypes'
  BY <1>i DEF SessionTypes, Mappings
<1>3. LifeInv' /\ LastInv'
  BY <1>1, <1>i DEF LifeInv, LastInv, SameHandlers, SameEnders
<1>4. WebsocketInv'
  BY <1>i, WebsocketStays
<1>5. MqttInv'
  BY <1>1, <1>i DEF MqttInv, SessionInv, LostInv, SameHandlers, SameEnders
<1> QED BY <1>2, <1>3, <1>4, <1>5 DEF SessionsInv

LEMMA SessionsStep == SessionsInv /\ [Sessions!Next]_sessionVars => SessionsInv'
<1> SUFFICES ASSUME SessionsInv, [Sessions!Next]_sessionVars PROVE SessionsInv'
  OBVIOUS
<1>1. connector \in Sessions!Connector /\ MaxReloads \in Nat
  BY SessionsAreConfigured DEF SessionsInv, SessionTypes
<1>2. CASE UNCHANGED sessionVars
  BY <1>1, <1>2, OthersStep DEF sessionVars
<1>3. CASE Sessions!Reload
  <2>1. connector' \in Sessions!Connector
    BY <1>1, <1>3 DEF Sessions!Reload, Sessions!Connector
  <2> QED BY <1>3, <2>1, OthersStep DEF Sessions!Reload, Sessions!maps, Sessions!ends
<1>4. ASSUME NEW w \in Writer, Sessions!Send(w) \/ Sessions!Sent(w) \/ \E d \in Sessions!Device : Sessions!Encode(w, d)
      PROVE  SessionsInv'
  BY <1>1, <1>4, OthersStep DEF Sessions!Send, Sessions!Sent, Sessions!Encode, Sessions!maps, Sessions!ends
<1> QED
  BY <1>2, <1>3, <1>4, ConnectStep, BreakStep, MapStep, ExportStep, EndStep, LostStep, DropStep,
     SetOfflineStep, DisconnectStep, MessageStep DEF Sessions!Next

-----------------------------------------------------------------------------
(***************************************************************************)
(* The theorems                                                            *)
(***************************************************************************)

LEMMA InvImpliesTypeOK == Inv => TypeOK
<1> SUFFICES ASSUME Inv PROVE TypeOK
  OBVIOUS
<1>1. \A c \in Callers : caller[c].tr \in 0 .. begun
  BY DEF Inv, Types, Numbers, CallerType
<1>2. chan \in [Objs -> 0 .. begun]
  BY DEF Inv, Types, Numbers
<1>3. space \in 0 .. size
  BY SizeFacts DEF Inv, Types
<1> QED BY <1>1, <1>2, <1>3 DEF Inv, Types, TypeOK, CallerType, Busy

LEMMA InvImpliesDistinct == Inv => TransactionsAreDistinct
<1> SUFFICES ASSUME Inv PROVE TransactionsAreDistinct
  OBVIOUS
<1> USE DEF Inv
<1>1. \A c, d \in Holding : c # d =>
          /\ caller[c].id # caller[d].id /\ caller[c].tr # caller[d].tr
          /\ states[caller[c].id] # states[caller[d].id]
  BY DEF Apart
<1>2. DOMAIN states = {caller[c].id : c \in Holding}
  <2>1. \A i \in DOMAIN states : i \in {caller[c].id : c \in Holding}
    BY DEF Apart
  <2>2. \A i \in {caller[c].id : c \in Holding} : i \in DOMAIN states
    BY DEF Apart
  <2> QED BY <2>1, <2>2
<1>3. free \in Seq(Ids) /\ DOMAIN free = 1 .. Len(free)
  BY DEF Types
<1>4. IsInjective(free)
  BY <1>3 DEF IsInjective, Queue
<1>5. Range(free) = Ids \ DOMAIN states
  BY <1>3 DEF Range, Queue
<1>6. space > 0 => free # <<>>
  <2>1. space > 0 => Len(free) > 0
    BY FS_CardinalityType, SizeFacts DEF Places, Types
  <2> QED BY <2>1
<1>7. space + Cardinality(Holding) = size /\ \A c \in Holding : chan[states[caller[c].id]] = caller[c].tr
  BY DEF Places, Apart
<1> QED BY <1>1, <1>2, <1>4, <1>5, <1>6, <1>7 DEF TransactionsAreDistinct

LEMMA InvImpliesOwn == Inv => TimelyAnswersAreOwn /\ WrongAnswersAreOld
BY DEF Inv, Timely, TimelyAnswersAreOwn, FarApart, WrongAnswersAreOld, Distance

\* The type invariant, for any callers, ids, states and datagrams.
THEOREM ClientTypeCorrect == Spec => []TypeOK
BY InvInit, InvStep, InvImpliesTypeOK, PTL DEF Spec

\* An answer reaches the request it answers as far as the ids can tell: no two transactions share
\* anything, none is lost, an answer in time is one's own, and a wrong one is older than the queue of
\* ids is long (tsm.ID, tsm.Put, tsm.Send).
THEOREM AnswersAlwaysGoHome == Spec => []AnswersGoHome
<1>1. Inv => AnswersGoHome
  BY InvImpliesDistinct, InvImpliesOwn DEF AnswersGoHome
<1> QED BY <1>1, InvInit, InvStep, PTL DEF Spec

\* One step of the whole is a step of each part, or leaves it as it is.
LEMMA PartsStep ==
    [MCNext]_<<vars, sessionVars, scriptVars, plcVars, lineVars, cronVars, part>>
        => /\ [Sessions!Next]_sessionVars /\ [Scripts!Next]_scriptVars /\ [Plc!Next]_plcVars
           /\ [Meter!Next]_lineVars /\ [Cron!Next]_cronVars
BY DEF MCNext

\* A device that no two goroutines had at once, and no two connectors, is online if and only if the
\* connection or session it reported over last is still there, once all goroutines are through with
\* it; and a connection that has ended has no device: for any devices, connections, messages and
\* reloads (websocket handleFunc, mqtt ConnectionLost).
THEOREM StatusIsAlwaysOfTheSession == MCSpec => []StatusIsOfTheSession
<1>1. MCInit => SessionsInv
  BY SessionsInit DEF MCInit
<1>2. SessionsInv => StatusIsOfTheSession
  BY SessionsStatus DEF StatusIsOfTheSession
<1> QED BY <1>1, <1>2, SessionsStep, PartsStep, PTL DEF MCSpec

LEMMA ScriptsStep == ScriptInv /\ [Scripts!Next]_scriptVars => ScriptInv'
BY ScriptStep, ScriptStill

\* The machines callers find are open and run the script as it was at the last start or later, none
\* is loaded twice, and no call ends in nothing unless a start overtook it, or it had stored its
\* machine into, or found it in, a map that a start had replaced: for any scripts, callers, methods,
\* versions and machines (library loadLibrary, UnloadDeviceDrivers, luautil CallLuaMethod).
THEOREM ScriptsAreAlwaysCurrent == MCSpec => []ScriptsAreCurrent
<1>1. MCInit => ScriptInv
  BY ScriptInit DEF MCInit
<1>2. ScriptInv => ScriptsAreCurrent
  BY ScriptsCurrent DEF ScriptsAreCurrent
<1> QED BY <1>1, <1>2, ScriptsStep, PartsStep, PTL DEF MCSpec

\* A value is exported under the name of the point it was read for, for any points of any devices;
\* a meter's point has the value of another only after a late answer, for any meters and points
\* (s7 and opcua processReadValues, dlt645 SendRawFrame).
THEOREM ValuesStayWithTheirPoints == MCSpec => []ValuesAreOfTheirPoints
<1>1. MCInit => PlcInv /\ LineInv
  BY PlcInit, LineInit DEF MCInit
<1>2. PlcInv /\ LineInv => ValuesAreOfTheirPoints
  BY DEF PlcInv, LineInv, ValuesAreOfTheirPoints
<1> QED BY <1>1, <1>2, PlcStep, LineStep, PartsStep, PTL DEF MCSpec

\* A write of a bit keeps the other bits of its octet, unless the controller itself writes the octet
\* between the client's read and its write, for any octets and bits and any number of goroutines that
\* send commands at once (s7 Send, writeBool).
THEOREM BitsAlwaysKeepNeighbours == MCSpec => BitsKeepNeighbours
<1> DEFINE Bit1 == \A c \in Commander : command[c].pc = "write" /\ command'[c].pc = "read" /\ ~raced[c] =>
                      \A o \in Octets, b \in Plc!Bits :
                         <<o, b>> # Plc!Target(c).node => ((b \in memory'[o]) <=> (b \in memory[o]))
<1>1. MCInit => PlcInv
  BY PlcInit DEF MCInit
<1>2. PlcInv /\ [Plc!Next]_plcVars => [Bit1]_(Plc!plcVars)
  <2> SUFFICES ASSUME PlcInv, [Plc!Next]_plcVars PROVE Bit1
    OBVIOUS
  <2> QED BY BitsStep
<1>3. BitsKeepNeighbours <=> [][Bit1]_(Plc!plcVars)
  BY PTL DEF BitsKeepNeighbours, Plc!BitsKeepNeighbours
<1> HIDE DEF Bit1
<1> QED BY <1>1, <1>2, <1>3, PlcStep, PartsStep, PTL DEF MCSpec

\* What was closed ends: a closed line stays closed, unless the job was opening it; a job that goes on
\* is in the list the next Clear walks, unless AddFunc met another AddFunc or a Clear; and one that is
\* disabled begins no call but those that were started before, a ticker's at most one: for any lines
\* and jobs (dlt645 Close, SendRawFrame; crontab AddFunc, Clear).
THEOREM ClosedAlwaysEnds == MCSpec => []ClosedMeansEnded
<1>1. MCInit => LineInv /\ CronInv
  BY LineInit, CronInit DEF MCInit
<1>2. LineInv /\ CronInv => ClosedMeansEnded
  <2> SUFFICES ASSUME LineInv, CronInv PROVE ClosedMeansEnded
    OBVIOUS
  <2>1. Cron!LateRuns
    <3> SUFFICES ASSUME NEW j \in Job, ~cronJob[j].enable
                 PROVE  cronJob[j].runs <= cronJob[j].late /\ (j \in Ticker => cronJob[j].runs <= 1)
      BY DEF Cron!LateRuns
    <3>1. cronJob[j].runs \in Nat /\ cronJob[j].started \in Nat /\ cronJob[j].late \in Nat
      BY DEF CronInv, CronTypes, JobState
    <3>2. LateOK(j, cronJob[j])
      BY DEF CronInv, LateInv
    <3> QED BY <3>1, <3>2 DEF LateOK
  <2> QED BY <2>1 DEF LineInv, CronInv, ClosedMeansEnded
<1> QED BY <1>1, <1>2, LineStep, CronStep, PartsStep, PTL DEF MCSpec

=============================================================================
