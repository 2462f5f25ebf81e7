-------------------------- MODULE Connectors_proofs --------------------------
(* Theorems about MCConnectors.  Of ModbusConnector: types, locks, and the   *)
(* bits of a register that several callers write.  Of BacnetConnector: how   *)
(* points are arranged in groups, how batches are written, and what is read  *)
(* after Close.                                                              *)
EXTENDS MCConnectors, WellFoundedInduction, TLAPS

Asking == Encoding \cup {"lock"}

\* A goroutine that writes has a request, and has come as far in it as its position says.
RequestOK(c) ==
    LET p == proc[c]
    IN  /\ p.at \notin Asking => p.todo = <<>>
        /\ p.at \in Asking => p.todo \in Requests[c]
        /\ p.at \in {"lock", "encode", "encoding"} => p.done < Len(p.todo) /\ p.result = "none"
        /\ p.at \in {"send"} \cup Counted => p.done = Len(p.todo)
        /\ p.at \in {"send", "try", "writing"} => p.result # "ok"
        /\ p.at \in {"try", "writing"} => p.tries > 0
        /\ p.done = 0 <=> p.value = NoValue

\* The part of the invariant that speaks of one goroutine at a time, and of its locks.
LocksInv == TypeOK /\ LocksAreHeldByTheirUsers /\ \A c \in Caller : RequestOK(c)

\* What the assumptions say of a request.
LEMMA RequestFacts ==
    ASSUME NEW c \in Caller, NEW r \in Requests[c]
    PROVE  /\ r \in Seq(Bit \X {0, 1}) /\ Len(r) \in Nat /\ Len(r) > 0
           /\ \A i \in 1..Len(r) : r[i][1] \in Bit /\ r[i][2] \in {0, 1}
           /\ \A i, j \in 1..Len(r) : r[i][1] = r[j][1] => i = j
           /\ r \in {<<>>} \cup UNION {Requests[d] : d \in Caller}
<1>1. r \in Seq(Bit \X {0, 1}) /\ Len(r) > 0 /\ \A i, j \in 1..Len(r) : r[i][1] = r[j][1] => i = j
  BY RequestsAssumption
<1>2. Len(r) \in Nat /\ \A i \in 1..Len(r) : r[i] \in Bit \X {0, 1}
  BY <1>1
<1> QED BY <1>1, <1>2

\* The next bit of a request, and the register that is made of it.
LEMMA NextBit ==
    ASSUME LocksInv, NEW c \in Caller, proc[c].at = "encoding"
    PROVE  LET i    == proc[c].done + 1
               next == proc[c].todo[i]
           IN  /\ i \in 1..Len(proc[c].todo) /\ next[1] \in Bit /\ next[2] \in {0, 1}
               /\ WithBit(register, next[1], next[2]) \in Value
               /\ Merge(proc[c].value, WithBit(register, next[1], next[2]), next[1]) \in Value
<1> DEFINE r == proc[c].todo
           i == proc[c].done + 1
<1>1. r \in Requests[c] /\ proc[c].done < Len(r)
  BY DEF LocksInv, RequestOK, Asking, Encoding
<1>2. proc[c] \in ProcType /\ register \in Value
  BY DEF LocksInv, TypeOK, Process
<1>3. proc[c].done \in Nat /\ proc[c].value \in Value \cup {NoValue}
  BY <1>2 DEF ProcType
<1>4. i \in 1..Len(r)
  BY <1>1, <1>3, RequestFacts
<1>5. r[i][1] \in Bit /\ r[i][2] \in {0, 1}
  BY <1>1, <1>4, RequestFacts
<1>6. WithBit(register, r[i][1], r[i][2]) \in Value
  BY <1>2, <1>5, WireAssumption DEF WithBit, Value
<1>7. Merge(proc[c].value, WithBit(register, r[i][1], r[i][2]), r[i][1]) \in Value
  BY <1>3, <1>5, <1>6 DEF Merge, Value
<1> QED BY <1>4, <1>5, <1>6, <1>7

\* Idle goroutines are of the type.
LEMMA IdleOK ==
    /\ Idle \in ProcType
    /\ \A q \in {"none", "ok", "error", "timeout"} : [Idle EXCEPT !.at = "after", !.result = q] \in ProcType
<1>1. 0 \in 0..Retry
  BY NumbersAssumption
<1> QED BY <1>1 DEF Idle, ProcType

LEMMA InitLocks == Init => LocksInv
<1> SUFFICES ASSUME Init PROVE LocksInv
  OBVIOUS
<1>1. TypeOK
  <2>1. MaxAge \in Nat
    BY NumbersAssumption DEF MaxAge
  <2>2. proc \in [Process -> ProcType]
    BY IdleOK DEF Init
  <2>3. age \in 0..MaxAge /\ asked \in [Caller -> 0..MaxAsks] /\ acked \in [Bit -> {0, 1, NoValue}]
    BY <2>1, NumbersAssumption DEF Init
  <2>4. keepAlive \in BOOLEAN /\ closed \in BOOLEAN /\ register \in Value
    BY DEF Init
  <2> QED BY <2>2, <2>3, <2>4 DEF Init, TypeOK
<1>2. \A p \in Process : proc[p] = Idle
  BY DEF Init
<1>3. LocksAreHeldByTheirUsers
  BY <1>2, GoroutinesAssumption
     DEF Init, LocksAreHeldByTheirUsers, Idle, Holding, Encoding, Counted, Process
<1>4. \A c \in Caller : RequestOK(c)
  BY <1>2 DEF RequestOK, Idle, Asking, Encoding, Counted, Process
<1> QED BY <1>1, <1>3, <1>4 DEF LocksInv

\* One goroutine moves on: what has to be shown of it, and of the locks, for the invariant to stay.
LEMMA Moves ==
    ASSUME LocksInv, NEW p \in Process, NEW x \in ProcType, proc' = [proc EXCEPT ![p] = x],
           \A q \in Process : mutex' = q <=> IF q = p THEN x.at \in Holding ELSE mutex = q,
           \A q \in Caller : writeEncodeMu' = q <=> IF q = p THEN x.at \in Encoding ELSE writeEncodeMu = q,
           writeSemaphore' = IF \/ p \in Caller /\ x.at \in Counted
                                \/ \E q \in Caller \ {p} : proc[q].at \in Counted
                             THEN 1 ELSE 0,
           p \in Caller => RequestOK(p)'
    PROVE  /\ proc' \in [Process -> ProcType]
           /\ LocksAreHeldByTheirUsers' /\ \A c \in Caller : RequestOK(c)'
<1>1. proc \in [Process -> ProcType] /\ LocksAreHeldByTheirUsers /\ \A c \in Caller : RequestOK(c)
  BY DEF LocksInv, TypeOK
<1>2. proc' \in [Process -> ProcType] /\ proc'[p] = x /\ \A q \in Process \ {p} : proc'[q] = proc[q]
  BY <1>1
<1>3. Caller \subseteq Process
  BY DEF Process
<1>4. LocksAreHeldByTheirUsers'
  <2>1. \A q \in Process : mutex' = q <=> proc'[q].at \in Holding
    BY <1>1, <1>2 DEF LocksAreHeldByTheirUsers
  <2>2. \A c \in Caller : writeEncodeMu' = c <=> proc'[c].at \in Encoding
    BY <1>1, <1>2, <1>3 DEF LocksAreHeldByTheirUsers
  <2>3. (\E c \in Caller : proc'[c].at \in Counted)
            <=> (p \in Caller /\ x.at \in Counted) \/ \E q \in Caller \ {p} : proc[q].at \in Counted
    BY <1>2, <1>3
  <2> QED BY <2>1, <2>2, <2>3 DEF LocksAreHeldByTheirUsers
<1>5. ASSUME NEW c \in Caller PROVE RequestOK(c)'
  <2>1. CASE c = p
    BY <2>1
  <2>2. CASE c # p
    BY <1>1, <1>2, <1>3, <2>2 DEF RequestOK
  <2> QED BY <2>1, <2>2
<1> QED BY <1>2, <1>4, <1>5

\* Who holds a lock and what the semaphore says, as long as a goroutine stays on one side of each.
LEMMA SameSide ==
    ASSUME LocksInv, NEW p \in Process, NEW x \in ProcType
    PROVE  /\ (x.at \in Holding <=> proc[p].at \in Holding) /\ mutex' = mutex
              => \A q \in Process : mutex' = q <=> IF q = p THEN x.at \in Holding ELSE mutex = q
           /\ (x.at \in Encoding <=> proc[p].at \in Encoding) /\ writeEncodeMu' = writeEncodeMu
              => \A q \in Caller : writeEncodeMu' = q
                    <=> IF q = p THEN x.at \in Encoding ELSE writeEncodeMu = q
           /\ (x.at \in Counted <=> proc[p].at \in Counted) /\ writeSemaphore' = writeSemaphore
              => writeSemaphore' = IF \/ p \in Caller /\ x.at \in Counted
                                      \/ \E q \in Caller \ {p} : proc[q].at \in Counted
                                   THEN 1 ELSE 0
<1>1. LocksAreHeldByTheirUsers
  BY DEF LocksInv
<1>2. (x.at \in Counted <=> proc[p].at \in Counted) =>
        ((\E c \in Caller : proc[c].at \in Counted)
            <=> (p \in Caller /\ x.at \in Counted) \/ \E q \in Caller \ {p} : proc[q].at \in Counted)
  OBVIOUS
<1>3. (x.at \in Counted <=> proc[p].at \in Counted) /\ writeSemaphore' = writeSemaphore
        => writeSemaphore' = IF \/ p \in Caller /\ x.at \in Counted
                                \/ \E q \in Caller \ {p} : proc[q].at \in Counted
                             THEN 1 ELSE 0
  BY <1>1, <1>2 DEF LocksAreHeldByTheirUsers
<1> QED BY <1>1, <1>3 DEF LocksAreHeldByTheirUsers

\* A lock that is taken or released by its one holder.
LEMMA LockChanges ==
    ASSUME LocksInv
    PROVE  /\ \A p \in Process : mutex = Nobody /\ mutex' = p
                  => \A q \in Process : mutex' = q <=> IF q = p THEN TRUE ELSE mutex = q
           /\ \A p \in Process : proc[p].at \in Holding /\ mutex' = Nobody
                  => \A q \in Process : mutex' = q <=> IF q = p THEN FALSE ELSE mutex = q
           /\ \A c \in Caller : writeEncodeMu = Nobody /\ writeEncodeMu' = c
                  => \A q \in Caller : writeEncodeMu' = q <=> IF q = c THEN TRUE ELSE writeEncodeMu = q
           /\ \A c \in Caller : proc[c].at \in Encoding /\ writeEncodeMu' = Nobody
                  => \A q \in Caller : writeEncodeMu' = q <=> IF q = c THEN FALSE ELSE writeEncodeMu = q
           /\ \A c, d \in Caller : proc[c].at \in Encoding /\ proc[d].at \in Counted => d = c
BY GoroutinesAssumption DEF LocksInv, LocksAreHeldByTheirUsers, Process, Encoding

\* The types of what an action leaves alone.
LEMMA Kept ==
    ASSUME TypeOK
    PROVE  /\ proc \in [Process -> ProcType] /\ mutex \in Process \cup {Nobody}
           /\ writeEncodeMu \in Caller \cup {Nobody} /\ writeSemaphore \in Nat
           /\ \A q \in Caller : q \in Process /\ proc[q] \in ProcType
BY DEF TypeOK, Process

\* The ways in which a step of one goroutine may touch the locks and the semaphore.
LEMMA StepOfOne ==
    ASSUME LocksInv, NEW p \in Process, NEW x \in ProcType, proc' = [proc EXCEPT ![p] = x],
           \/ mutex' = mutex /\ (x.at \in Holding <=> proc[p].at \in Holding)
           \/ mutex = Nobody /\ mutex' = p /\ x.at \in Holding
           \/ proc[p].at \in Holding /\ mutex' = Nobody /\ x.at \notin Holding,
           \/ writeEncodeMu' = writeEncodeMu /\ (x.at \in Encoding <=> proc[p].at \in Encoding)
           \/ p \in Caller /\ writeEncodeMu = Nobody /\ writeEncodeMu' = p /\ x.at \in Encoding
           \/ p \in Caller /\ proc[p].at \in Encoding /\ writeEncodeMu' = Nobody /\ x.at \notin Encoding,
           \/ writeSemaphore' = writeSemaphore /\ (x.at \in Counted <=> proc[p].at \in Counted)
           \/ /\ p \in Caller /\ writeSemaphore' = writeSemaphore + 1
              /\ proc[p].at \in Encoding \ Counted /\ x.at \in Counted
           \/ /\ p \in Caller /\ writeSemaphore' = writeSemaphore - 1
              /\ proc[p].at \in Counted /\ x.at \notin Counted,
           p \in Caller => RequestOK(p)'
    PROVE  /\ proc' \in [Process -> ProcType] /\ mutex' \in Process \cup {Nobody}
           /\ writeEncodeMu' \in Caller \cup {Nobody} /\ writeSemaphore' \in Nat
           /\ LocksAreHeldByTheirUsers' /\ \A c \in Caller : RequestOK(c)'
<1>1. TypeOK /\ LocksAreHeldByTheirUsers
  BY DEF LocksInv
<1>2. /\ \A q \in Process : mutex' = q <=> IF q = p THEN x.at \in Holding ELSE mutex = q
      /\ mutex' \in Process \cup {Nobody}
  BY <1>1, Kept, SameSide, LockChanges
<1>3. /\ \A q \in Caller : writeEncodeMu' = q <=> IF q = p THEN x.at \in Encoding ELSE writeEncodeMu = q
      /\ writeEncodeMu' \in Caller \cup {Nobody}
  BY <1>1, Kept, SameSide, LockChanges
<1>4. writeSemaphore' = IF \/ p \in Caller /\ x.at \in Counted
                           \/ \E q \in Caller \ {p} : proc[q].at \in Counted
                        THEN 1 ELSE 0
  <2>1. CASE writeSemaphore' = writeSemaphore /\ (x.at \in Counted <=> proc[p].at \in Counted)
    BY <2>1, SameSide
  <2>2. CASE /\ p \in Caller /\ writeSemaphore' = writeSemaphore + 1
             /\ proc[p].at \in Encoding \ Counted /\ x.at \in Counted
    <3>1. ~\E c \in Caller : proc[c].at \in Counted
      BY <2>2, LockChanges
    <3> QED BY <1>1, <2>2, <3>1 DEF LocksAreHeldByTheirUsers
  <2>3. CASE /\ p \in Caller /\ writeSemaphore' = writeSemaphore - 1
             /\ proc[p].at \in Counted /\ x.at \notin Counted
    <3>1. ~\E q \in Caller \ {p} : proc[q].at \in Counted
      BY <2>3, LockChanges DEF Encoding
    <3> QED BY <1>1, <2>3, <3>1 DEF LocksAreHeldByTheirUsers
  <2> QED BY <2>1, <2>2, <2>3
<1>5. writeSemaphore' \in Nat
  BY <1>4
<1> QED BY <1>2, <1>3, <1>4, <1>5, Moves

LEMMA AskWriteLocks == ASSUME LocksInv, NEW c \in Caller, AskWrite(c) PROVE LocksInv'
<1>1. PICK r \in Requests[c] : proc' = [proc EXCEPT ![c] = [Idle EXCEPT !.at = "lock", !.todo = r]]
  BY DEF AskWrite
<1>2. PICK x : x = [Idle EXCEPT !.at = "lock", !.todo = r]
  OBVIOUS
<1>3. /\ x.at = "lock" /\ x.todo = r /\ x.done = 0 /\ x.value = NoValue /\ x.result = "none"
      /\ x \in ProcType
  BY <1>2, IdleOK, RequestFacts DEF Idle, ProcType
<1>4. c \in Process /\ proc \in [Process -> ProcType] /\ TypeOK /\ proc[c].at = "idle"
  BY Kept DEF LocksInv, AskWrite
<1>5. proc' = [proc EXCEPT ![c] = x] /\ proc'[c] = x
  BY <1>1, <1>2, <1>4
<1>6. RequestOK(c)'
  BY <1>3, <1>5, RequestFacts DEF RequestOK, Asking, Encoding, Counted
<1>7. /\ x.at \notin Holding \cup Encoding /\ proc[c].at \notin Holding \cup Encoding
      /\ x.at \notin Counted /\ proc[c].at \notin Counted
  BY <1>3, <1>4 DEF Holding, Encoding, Counted
<1>8. /\ proc' \in [Process -> ProcType] /\ LocksAreHeldByTheirUsers' /\ \A d \in Caller : RequestOK(d)'
      /\ UNCHANGED <<mutex, writeEncodeMu, writeSemaphore>>
  BY <1>3, <1>4, <1>5, <1>6, <1>7, StepOfOne DEF AskWrite, client
<1>9. asked' \in [Caller -> 0..MaxAsks]
  BY <1>4, NumbersAssumption DEF TypeOK, AskWrite
<1>10. acked' \in [Bit -> {0, 1, NoValue}]
  BY <1>4 DEF TypeOK, AskWrite
<1>11. TypeOK'
  BY <1>4, <1>8, <1>9, <1>10 DEF TypeOK, AskWrite, client, group
<1> QED BY <1>8, <1>11 DEF LocksInv

\* A goroutine whose position alone changes.
LEMMA AtChanges ==
    ASSUME NEW q \in ProcType, NEW a \in {"idle", "lock", "ask", "fetch", "fetching", "after"} \cup Encoding
    PROVE  LET x == [q EXCEPT !.at = a]
           IN  /\ x \in ProcType /\ x.at = a /\ x.todo = q.todo /\ x.done = q.done
               /\ x.value = q.value /\ x.tries = q.tries /\ x.result = q.result
BY DEF ProcType

LEMMA LockEncodeLocks == ASSUME LocksInv, NEW c \in Caller, LockEncode(c) PROVE LocksInv'
<1>1. TypeOK /\ RequestOK(c) /\ proc[c].at = "lock" /\ proc[c] \in ProcType /\ c \in Process
  BY Kept DEF LocksInv, LockEncode
<1>2. PICK x : x = [proc[c] EXCEPT !.at = "encode"]
  OBVIOUS
<1>3. /\ x \in ProcType /\ x.at = "encode" /\ x.todo = proc[c].todo /\ x.done = proc[c].done
      /\ x.value = proc[c].value /\ x.result = proc[c].result
  BY <1>1, <1>2, AtChanges DEF Encoding
<1>4. proc' = [proc EXCEPT ![c] = x] /\ proc'[c] = x
  BY <1>1, <1>2, Kept DEF LockEncode
<1>5. RequestOK(c)'
  BY <1>1, <1>3, <1>4 DEF RequestOK, Asking, Encoding, Counted
<1>6. /\ x.at \notin Holding /\ proc[c].at \notin Holding /\ x.at \in Encoding
      /\ x.at \notin Counted /\ proc[c].at \notin Counted
  BY <1>1, <1>3 DEF Holding, Encoding, Counted
<1>7. /\ proc' \in [Process -> ProcType] /\ LocksAreHeldByTheirUsers' /\ \A d \in Caller : RequestOK(d)'
      /\ mutex' \in Process \cup {Nobody} /\ writeEncodeMu' \in Caller \cup {Nobody} /\ writeSemaphore' \in Nat
  BY <1>1, <1>3, <1>4, <1>5, <1>6, StepOfOne DEF LockEncode, client
<1>8. TypeOK'
  BY <1>1, <1>7 DEF TypeOK, LockEncode, client, group
<1> QED BY <1>7, <1>8 DEF LocksInv

\* What Open and its failure do to the client.
LEMMA ClientOpened ==
    ASSUME TypeOK
    PROVE  /\ \A p \in Process, a \in {"encoding", "writing", "fetching"} : Open(p, a) =>
                 /\ keepAlive' \in BOOLEAN /\ socket' \in {"closed", "open", "broken"}
                 /\ mutex = Nobody /\ mutex' = p /\ proc' = [proc EXCEPT ![p] = [proc[p] EXCEPT !.at = a]]
           /\ \A p \in Process : OpenFails(p) => UNCHANGED client
           /\ \A f \in BOOLEAN : Close(f) =>
                 /\ keepAlive' \in BOOLEAN /\ socket' \in {"closed", "open", "broken"} /\ mutex' = Nobody
<1>1. proc \in [Process -> ProcType]
  BY Kept
<1>2. \A p \in Process : proc[p] \in ProcType
  BY <1>1
<1>3. ASSUME NEW p \in Process, NEW a, Open(p, a)
      PROVE  proc' = [proc EXCEPT ![p] = [proc[p] EXCEPT !.at = a]]
  BY <1>3, <1>1, <1>2 DEF Open
<1> QED BY <1>3 DEF TypeOK, Open, OpenFails, Close, client

LEMMA OpenToEncodeLocks == ASSUME LocksInv, NEW c \in Caller, OpenToEncode(c) PROVE LocksInv'
<1>1. TypeOK /\ RequestOK(c) /\ proc[c].at = "encode" /\ proc[c] \in ProcType /\ c \in Process
  BY Kept DEF LocksInv, OpenToEncode
<1>2. proc \in [Process -> ProcType]
  BY <1>1, Kept
<1>3. CASE Open(c, "encoding") /\ UNCHANGED writeEncodeMu
  <2>1. PICK x : x = [proc[c] EXCEPT !.at = "encoding"]
    OBVIOUS
  <2>2. /\ x \in ProcType /\ x.at = "encoding" /\ x.todo = proc[c].todo /\ x.done = proc[c].done
        /\ x.value = proc[c].value /\ x.result = proc[c].result
    BY <1>1, <2>1, AtChanges DEF Encoding
  <2>3. proc' = [proc EXCEPT ![c] = x] /\ proc'[c] = x
    BY <1>1, <1>2, <1>3, <2>1, ClientOpened
  <2>4. RequestOK(c)'
    BY <1>1, <2>2, <2>3 DEF RequestOK, Asking, Encoding, Counted
  <2>5. /\ x.at \in Holding /\ x.at \in Encoding /\ proc[c].at \in Encoding
        /\ x.at \notin Counted /\ proc[c].at \notin Counted
    BY <1>1, <2>2 DEF Holding, Encoding, Counted
  <2>6. /\ proc' \in [Process -> ProcType] /\ LocksAreHeldByTheirUsers' /\ \A d \in Caller : RequestOK(d)'
        /\ mutex' \in Process \cup {Nobody} /\ writeEncodeMu' \in Caller \cup {Nobody} /\ writeSemaphore' \in Nat
    BY <1>1, <1>3, <2>2, <2>3, <2>4, <2>5, StepOfOne, ClientOpened DEF OpenToEncode
  <2>7. TypeOK'
    BY <1>1, <1>3, <2>6, ClientOpened DEF TypeOK, OpenToEncode, group
  <2> QED BY <2>6, <2>7 DEF LocksInv
<1>4. CASE OpenFails(c) /\ EncodeFails(c)
  <2>1. proc' = [proc EXCEPT ![c] = Idle] /\ proc'[c] = Idle
    BY <1>2, <1>1, <1>4 DEF EncodeFails
  <2>2. RequestOK(c)'
    BY <2>1 DEF RequestOK, Idle, Asking, Encoding, Counted
  <2>3. /\ Idle.at \notin Holding /\ proc[c].at \notin Holding /\ Idle.at \notin Encoding
        /\ proc[c].at \in Encoding /\ Idle.at \notin Counted /\ proc[c].at \notin Counted
    BY <1>1 DEF Idle, Holding, Encoding, Counted
  <2>4. /\ proc' \in [Process -> ProcType] /\ LocksAreHeldByTheirUsers' /\ \A d \in Caller : RequestOK(d)'
        /\ mutex' \in Process \cup {Nobody} /\ writeEncodeMu' \in Caller \cup {Nobody} /\ writeSemaphore' \in Nat
    BY <1>1, <1>4, <2>1, <2>2, <2>3, IdleOK, StepOfOne, ClientOpened DEF OpenToEncode, EncodeFails, client
  <2>5. TypeOK'
    BY <1>1, <1>4, <2>4, ClientOpened DEF TypeOK, OpenToEncode, group, client
  <2> QED BY <2>4, <2>5 DEF LocksInv
<1> QED BY <1>3, <1>4 DEF OpenToEncode

LEMMA EncodeBitLocks == ASSUME LocksInv, NEW c \in Caller, EncodeBit(c) PROVE LocksInv'
<1> DEFINE b == proc[c].todo[proc[c].done + 1][1]
           w == proc[c].todo[proc[c].done + 1][2]
           v == Merge(proc[c].value, WithBit(register, b, w), b)
           all == proc[c].done + 1 = Len(proc[c].todo)
<1>1. TypeOK /\ RequestOK(c) /\ proc[c].at = "encoding" /\ proc[c] \in ProcType /\ c \in Process
  BY Kept DEF LocksInv, EncodeBit
<1>2. proc \in [Process -> ProcType]
  BY <1>1, Kept
<1>3. v \in Value /\ proc[c].done + 1 \in 1..Len(proc[c].todo)
  BY <1>1, NextBit
<1>4. proc[c].done \in Nat
  BY <1>1 DEF ProcType
<1>5. Len(proc[c].todo) \in Nat
  BY <1>1, RequestFacts DEF RequestOK, Asking, Encoding
<1>6. CASE /\ proc' = [proc EXCEPT ![c].at = IF all THEN "send" ELSE "encode", ![c].done = @ + 1, ![c].value = v]
           /\ CloseRead(FALSE)
           /\ UNCHANGED writeEncodeMu
  <2>1. PICK x : x = [proc[c] EXCEPT !.at = IF all THEN "send" ELSE "encode", !.done = @ + 1, !.value = v]
    OBVIOUS
  <2>2. /\ x.at = (IF all THEN "send" ELSE "encode") /\ x.todo = proc[c].todo /\ x.done = proc[c].done + 1
        /\ x.value = v /\ x.result = proc[c].result /\ x \in ProcType
    <3>1. (IF all THEN "send" ELSE "encode") \in {"idle", "lock", "ask", "fetch", "fetching", "after"} \cup Encoding
      BY DEF Encoding
    <3>2. PICK a : a = IF all THEN "send" ELSE "encode"
      OBVIOUS
    <3>3. PICK d : d = proc[c].done + 1
      OBVIOUS
    <3>4. a \in {"idle", "lock", "ask", "fetch", "fetching", "after"} \cup Encoding /\ d \in Nat
      BY <1>4, <3>1, <3>2, <3>3
    <3> HIDE DEF v, all
    <3>5. x = [proc[c] EXCEPT !.at = a, !.done = d, !.value = v]
      BY <2>1, <3>2, <3>3
    <3>6. /\ x \in ProcType /\ x.at = a /\ x.todo = proc[c].todo /\ x.done = d
          /\ x.value = v /\ x.result = proc[c].result
      BY <1>1, <1>3, <3>4, <3>5 DEF ProcType
    <3> QED BY <3>2, <3>3, <3>6
  <2>3. proc' = [proc EXCEPT ![c] = x] /\ proc'[c] = x
    <3> HIDE DEF v, all
    <3> QED BY <1>1, <1>2, <1>6, <2>1
  <2>4. RequestOK(c)'
    <3>1. v # NoValue
      BY <1>3, NoValueAssumption
    <3>2. x.done # 0 /\ (x.at = "encode" => x.done < Len(x.todo)) /\ (x.at = "send" => x.done = Len(x.todo))
      BY <1>3, <1>4, <1>5, <2>2
    <3>3. x.at \in {"send", "encode"}
      BY <2>2
    <3> HIDE DEF v, all
    <3> QED BY <1>1, <2>2, <2>3, <3>1, <3>2, <3>3 DEF RequestOK, Asking, Encoding, Counted
  <2>5. /\ x.at \notin Holding /\ proc[c].at \in Holding /\ x.at \in Encoding /\ proc[c].at \in Encoding
        /\ x.at \notin Counted /\ proc[c].at \notin Counted
    BY <1>1, <2>2 DEF Holding, Encoding, Counted
  <2>6. /\ proc' \in [Process -> ProcType] /\ LocksAreHeldByTheirUsers' /\ \A d \in Caller : RequestOK(d)'
        /\ mutex' \in Process \cup {Nobody} /\ writeEncodeMu' \in Caller \cup {Nobody} /\ writeSemaphore' \in Nat
    BY <1>1, <1>6, <2>2, <2>3, <2>4, <2>5, StepOfOne, ClientOpened DEF EncodeBit, CloseRead
  <2>7. TypeOK'
    BY <1>1, <1>6, <2>6, ClientOpened DEF TypeOK, EncodeBit, CloseRead, group
  <2> QED BY <2>6, <2>7 DEF LocksInv
<1>7. CASE EncodeFails(c) /\ CloseRead(TRUE)
  <2>1. proc' = [proc EXCEPT ![c] = Idle] /\ proc'[c] = Idle
    BY <1>1, <1>2, <1>7 DEF EncodeFails
  <2>2. RequestOK(c)'
    BY <2>1 DEF RequestOK, Idle, Asking, Encoding, Counted
  <2>3. /\ Idle.at \notin Holding /\ proc[c].at \in Holding /\ Idle.at \notin Encoding
        /\ proc[c].at \in Encoding /\ Idle.at \notin Counted /\ proc[c].at \notin Counted
    BY <1>1 DEF Idle, Holding, Encoding, Counted
  <2>4. /\ proc' \in [Process -> ProcType] /\ LocksAreHeldByTheirUsers' /\ \A d \in Caller : RequestOK(d)'
        /\ mutex' \in Process \cup {Nobody} /\ writeEncodeMu' \in Caller \cup {Nobody} /\ writeSemaphore' \in Nat
    BY <1>1, <1>7, <2>1, <2>2, <2>3, IdleOK, StepOfOne, ClientOpened DEF EncodeBit, EncodeFails, CloseRead
  <2>5. TypeOK'
    BY <1>1, <1>7, <2>4, ClientOpened DEF TypeOK, EncodeBit, CloseRead, group
  <2> QED BY <2>4, <2>5 DEF LocksInv
<1> QED BY <1>6, <1>7 DEF EncodeBit

LEMMA BeginWriteLocks == ASSUME LocksInv, NEW c \in Caller, BeginWrite(c) PROVE LocksInv'
<1>1. TypeOK /\ RequestOK(c) /\ proc[c].at = "send" /\ proc[c] \in ProcType /\ c \in Process
  BY Kept DEF LocksInv, BeginWrite
<1>2. PICK x : x = [proc[c] EXCEPT !.at = "try", !.tries = Retry]
  OBVIOUS
<1>3. /\ x \in ProcType /\ x.at = "try" /\ x.todo = proc[c].todo /\ x.done = proc[c].done
      /\ x.value = proc[c].value /\ x.result = proc[c].result /\ x.tries > 0
  <2>1. "try" \in Encoding /\ Retry \in 0..Retry /\ Retry > 0
    BY NumbersAssumption DEF Encoding, Counted
  <2>2. "try" \in {"idle", "lock", "ask", "fetch", "fetching", "after"} \cup Encoding
    BY <2>1
  <2>3. /\ x \in ProcType /\ x.at = "try" /\ x.todo = proc[c].todo /\ x.done = proc[c].done
        /\ x.value = proc[c].value /\ x.tries = Retry /\ x.result = proc[c].result
    BY <1>1, <1>2, <2>1, <2>2 DEF ProcType
  <2> QED BY <2>1, <2>3
<1>4. proc' = [proc EXCEPT ![c] = x] /\ proc'[c] = x
  BY <1>1, <1>2, Kept DEF BeginWrite
<1>5. RequestOK(c)'
  BY <1>1, <1>3, <1>4 DEF RequestOK, Asking, Encoding, Counted
<1>6. /\ x.at \notin Holding /\ proc[c].at \notin Holding /\ x.at \in Encoding
      /\ x.at \in Counted /\ proc[c].at \in Encoding \ Counted
  BY <1>1, <1>3 DEF Holding, Encoding, Counted
<1>7. /\ proc' \in [Process -> ProcType] /\ LocksAreHeldByTheirUsers' /\ \A d \in Caller : RequestOK(d)'
      /\ mutex' \in Process \cup {Nobody} /\ writeEncodeMu' \in Caller \cup {Nobody} /\ writeSemaphore' \in Nat
  BY <1>1, <1>3, <1>4, <1>5, <1>6, StepOfOne DEF BeginWrite, client
<1>8. TypeOK'
  BY <1>1, <1>7 DEF TypeOK, BeginWrite, client, group
<1> QED BY <1>7, <1>8 DEF LocksInv

\* An attempt that failed leaves a goroutine that tries again, or has done with trying.
LEMMA AttemptedOK ==
    ASSUME LocksInv, NEW c \in Caller, proc[c].at \in {"try", "writing"}, Attempted(c)
    PROVE  \E x \in ProcType : /\ proc' = [proc EXCEPT ![c] = x] /\ RequestOK(c)'
                              /\ x.at \notin Holding /\ x.at \in Encoding /\ x.at \in Counted
<1>1. RequestOK(c) /\ proc[c] \in ProcType /\ c \in Process /\ proc \in [Process -> ProcType]
  BY Kept DEF LocksInv
<1>2. PICK x : x = [proc[c] EXCEPT !.at = IF proc[c].tries = 1 THEN "written" ELSE "try",
                                   !.tries = @ - 1, !.result = "error"]
  OBVIOUS
<1>3. proc[c].tries \in 1..Retry
  BY <1>1 DEF RequestOK, ProcType
<1>4. /\ x \in ProcType /\ x.at \in {"try", "written"} /\ x.todo = proc[c].todo /\ x.done = proc[c].done
      /\ x.value = proc[c].value /\ x.result = "error" /\ (x.at = "try" => x.tries > 0)
  <2>1. PICK a : a = IF proc[c].tries = 1 THEN "written" ELSE "try"
    OBVIOUS
  <2>2. PICK t : t = proc[c].tries - 1
    OBVIOUS
  <2>3. a \in Encoding /\ t \in 0..Retry /\ a \in {"try", "written"} /\ (a = "try" => t > 0)
    BY <1>3, <2>1, <2>2, NumbersAssumption DEF Encoding, Counted
  <2>4. x = [proc[c] EXCEPT !.at = a, !.tries = t, !.result = "error"]
    BY <1>2, <2>1, <2>2
  <2>5. a \in {"idle", "lock", "ask", "fetch", "fetching", "after"} \cup Encoding
    BY <2>3
  <2>6. /\ x \in ProcType /\ x.at = a /\ x.todo = proc[c].todo /\ x.done = proc[c].done
        /\ x.value = proc[c].value /\ x.tries = t /\ x.result = "error"
    BY <1>1, <2>3, <2>4, <2>5 DEF ProcType
  <2> QED BY <2>3, <2>6
<1>5. proc' = [proc EXCEPT ![c] = x] /\ proc'[c] = x
  BY <1>1, <1>2 DEF Attempted
<1>6. RequestOK(c)'
  BY <1>1, <1>4, <1>5 DEF RequestOK, Asking, Encoding, Counted
<1> QED BY <1>4, <1>5, <1>6 DEF Holding, Encoding, Counted

LEMMA OpenToWriteLocks == ASSUME LocksInv, NEW c \in Caller, OpenToWrite(c) PROVE LocksInv'
<1>1. TypeOK /\ RequestOK(c) /\ proc[c].at = "try" /\ proc[c] \in ProcType /\ c \in Process
  BY Kept DEF LocksInv, OpenToWrite
<1>2. proc \in [Process -> ProcType]
  BY <1>1, Kept
<1>3. CASE Open(c, "writing")
  <2>1. PICK x : x = [proc[c] EXCEPT !.at = "writing"]
    OBVIOUS
  <2>2. /\ x \in ProcType /\ x.at = "writing" /\ x.todo = proc[c].todo /\ x.done = proc[c].done
        /\ x.value = proc[c].value /\ x.result = proc[c].result /\ x.tries = proc[c].tries
    BY <1>1, <2>1, AtChanges DEF Encoding, Counted
  <2>3. proc' = [proc EXCEPT ![c] = x] /\ proc'[c] = x
    BY <1>1, <1>2, <1>3, <2>1, ClientOpened
  <2>4. RequestOK(c)'
    BY <1>1, <2>2, <2>3 DEF RequestOK, Asking, Encoding, Counted
  <2>5. /\ x.at \in Holding /\ x.at \in Encoding /\ proc[c].at \in Encoding
        /\ x.at \in Counted /\ proc[c].at \in Counted
    BY <1>1, <2>2 DEF Holding, Encoding, Counted
  <2>6. /\ proc' \in [Process -> ProcType] /\ LocksAreHeldByTheirUsers' /\ \A d \in Caller : RequestOK(d)'
        /\ mutex' \in Process \cup {Nobody} /\ writeEncodeMu' \in Caller \cup {Nobody} /\ writeSemaphore' \in Nat
    BY <1>1, <1>3, <2>2, <2>3, <2>4, <2>5, StepOfOne, ClientOpened DEF OpenToWrite
  <2>7. TypeOK'
    BY <1>1, <1>3, <2>6, ClientOpened DEF TypeOK, OpenToWrite, group
  <2> QED BY <2>6, <2>7 DEF LocksInv
<1>4. CASE OpenFails(c) /\ Attempted(c)
  <2>1. PICK x \in ProcType : /\ proc' = [proc EXCEPT ![c] = x] /\ RequestOK(c)'
                              /\ x.at \notin Holding /\ x.at \in Encoding /\ x.at \in Counted
    BY <1>1, <1>4, AttemptedOK
  <2>2. proc[c].at \notin Holding /\ proc[c].at \in Encoding /\ proc[c].at \in Counted
    BY <1>1 DEF Holding, Encoding, Counted
  <2>3. /\ proc' \in [Process -> ProcType] /\ LocksAreHeldByTheirUsers' /\ \A d \in Caller : RequestOK(d)'
        /\ mutex' \in Process \cup {Nobody} /\ writeEncodeMu' \in Caller \cup {Nobody} /\ writeSemaphore' \in Nat
    BY <1>1, <1>4, <2>1, <2>2, StepOfOne, ClientOpened DEF OpenToWrite, client
  <2>4. TypeOK'
    BY <1>1, <1>4, <2>3, ClientOpened DEF TypeOK, OpenToWrite, group, client
  <2> QED BY <2>3, <2>4 DEF LocksInv
<1> QED BY <1>3, <1>4 DEF OpenToWrite

\* What was asked of a bit is a value of it.
LEMMA AskedValue ==
    ASSUME LocksInv, NEW c \in Caller, NEW b \in Bit, Asks(c, b)
    PROVE  /\ proc[c].at \in Asking /\ ValueAsked(c, b) \in {0, 1}
           /\ \E i \in 1..Len(proc[c].todo) : proc[c].todo[i][1] = b /\ ValueAsked(c, b) = proc[c].todo[i][2]
<1>1. RequestOK(c) /\ proc[c].todo # <<>>
  BY DEF LocksInv, Asks
<1>2. proc[c].at \in Asking /\ proc[c].todo \in Requests[c]
  BY <1>1 DEF RequestOK
<1>3. \E i \in 1..Len(proc[c].todo) : proc[c].todo[i][1] = b /\ ValueAsked(c, b) = proc[c].todo[i][2]
  BY DEF Asks, ValueAsked
<1> QED BY <1>2, <1>3, RequestFacts

LEMMA WriteLocks == ASSUME LocksInv, NEW c \in Caller, Write(c) PROVE LocksInv'
<1>1. TypeOK /\ RequestOK(c) /\ proc[c].at = "writing" /\ proc[c] \in ProcType /\ c \in Process
  BY Kept DEF LocksInv, Write
<1>2. proc \in [Process -> ProcType]
  BY <1>1, Kept
<1>3. proc[c].value \in Value
  <2>1. proc[c].done = Len(proc[c].todo) /\ proc[c].todo \in Requests[c]
    BY <1>1 DEF RequestOK, Asking, Encoding, Counted
  <2>2. proc[c].done # 0
    BY <2>1, RequestFacts
  <2> QED BY <1>1, <2>2 DEF RequestOK, ProcType
<1>4. register' \in Value
  BY <1>1, <1>3 DEF Write, TypeOK
<1>5. acked' \in [Bit -> {0, 1, NoValue}]
  <2>1. CASE UNCHANGED acked
    BY <1>1, <2>1 DEF TypeOK
  <2>2. CASE acked' = [b \in Bit |-> IF Acknowledges(c, b) THEN ValueAsked(c, b) ELSE acked[b]]
    BY <1>1, <2>2, AskedValue DEF TypeOK, Acknowledges
  <2> QED BY <2>1, <2>2 DEF Write
<1>6. \E x \in ProcType : /\ proc' = [proc EXCEPT ![c] = x] /\ RequestOK(c)'
                         /\ x.at \notin Holding /\ x.at \in Encoding /\ x.at \in Counted
  <2>1. CASE proc' = [proc EXCEPT ![c].at = "written", ![c].result = "ok"]
    <3>1. PICK x : x = [proc[c] EXCEPT !.at = "written", !.result = "ok"]
      OBVIOUS
    <3>2. /\ x \in ProcType /\ x.at = "written" /\ x.todo = proc[c].todo /\ x.done = proc[c].done
          /\ x.value = proc[c].value
      BY <1>1, <3>1 DEF ProcType, Encoding, Counted
    <3>3. proc' = [proc EXCEPT ![c] = x] /\ proc'[c] = x
      BY <1>1, <1>2, <2>1, <3>1
    <3>4. RequestOK(c)'
      BY <1>1, <3>2, <3>3 DEF RequestOK, Asking, Encoding, Counted
    <3> QED BY <3>2, <3>3, <3>4 DEF Holding, Encoding, Counted
  <2>2. CASE Attempted(c)
    BY <1>1, <2>2, AttemptedOK
  <2> QED BY <2>1, <2>2 DEF Write
<1>7. PICK x \in ProcType : /\ proc' = [proc EXCEPT ![c] = x] /\ RequestOK(c)'
                            /\ x.at \notin Holding /\ x.at \in Encoding /\ x.at \in Counted
  BY <1>6
<1>8. proc[c].at \in Holding /\ proc[c].at \in Encoding /\ proc[c].at \in Counted
  BY <1>1 DEF Holding, Encoding, Counted
<1>9. /\ proc' \in [Process -> ProcType] /\ LocksAreHeldByTheirUsers' /\ \A d \in Caller : RequestOK(d)'
      /\ mutex' \in Process \cup {Nobody} /\ writeEncodeMu' \in Caller \cup {Nobody} /\ writeSemaphore' \in Nat
  BY <1>1, <1>7, <1>8, StepOfOne, ClientOpened DEF Write, CloseWrite
<1>10. TypeOK'
  BY <1>1, <1>4, <1>5, <1>9, ClientOpened DEF TypeOK, Write, CloseWrite, group
<1> QED BY <1>9, <1>10 DEF LocksInv

LEMMA EndWriteLocks == ASSUME LocksInv, NEW c \in Caller, EndWrite(c) PROVE LocksInv'
<1>1. TypeOK /\ proc[c].at = "written" /\ c \in Process /\ proc \in [Process -> ProcType]
  BY Kept DEF LocksInv, EndWrite
<1>2. proc' = [proc EXCEPT ![c] = Idle] /\ proc'[c] = Idle
  BY <1>1 DEF EndWrite
<1>3. RequestOK(c)'
  BY <1>2 DEF RequestOK, Idle, Asking, Encoding, Counted
<1>4. /\ Idle.at \notin Holding /\ proc[c].at \notin Holding /\ Idle.at \notin Encoding
      /\ proc[c].at \in Encoding /\ Idle.at \notin Counted /\ proc[c].at \in Counted
  BY <1>1 DEF Idle, Holding, Encoding, Counted
<1>5. /\ proc' \in [Process -> ProcType] /\ LocksAreHeldByTheirUsers' /\ \A d \in Caller : RequestOK(d)'
      /\ mutex' \in Process \cup {Nobody} /\ writeEncodeMu' \in Caller \cup {Nobody} /\ writeSemaphore' \in Nat
  BY <1>1, <1>2, <1>3, <1>4, IdleOK, StepOfOne DEF EndWrite, client
<1>6. TypeOK'
  BY <1>1, <1>5 DEF TypeOK, EndWrite, group, client
<1> QED BY <1>5, <1>6 DEF LocksInv

Reading == {"idle", "ask", "fetch", "fetching", "after"}

\* A goroutine that does not write moves on.
LEMMA ReaderMoves ==
    ASSUME LocksInv, NEW p \in Process, NEW a \in Reading, proc[p].at \in Reading,
           proc' = [proc EXCEPT ![p].at = a]
    PROVE  \E x \in ProcType : /\ proc' = [proc EXCEPT ![p] = x] /\ (p \in Caller => RequestOK(p)')
                              /\ x.at = a /\ x.at \notin Encoding /\ x.at \notin Counted
                              /\ proc[p].at \notin Encoding /\ proc[p].at \notin Counted
<1>1. proc \in [Process -> ProcType] /\ proc[p] \in ProcType /\ (p \in Caller => RequestOK(p))
  BY Kept DEF LocksInv
<1>2. PICK x : x = [proc[p] EXCEPT !.at = a]
  OBVIOUS
<1>3. /\ x \in ProcType /\ x.at = a /\ x.todo = proc[p].todo /\ x.done = proc[p].done
      /\ x.value = proc[p].value /\ x.result = proc[p].result
  <2>1. a \in {"idle", "lock", "ask", "fetch", "fetching", "after"} \cup Encoding
    BY DEF Reading
  <2> QED BY <1>1, <1>2, <2>1, AtChanges
<1>4. proc' = [proc EXCEPT ![p] = x] /\ proc'[p] = x
  BY <1>1, <1>2
<1>5. a \notin Asking /\ a \notin Counted /\ proc[p].at \notin Asking /\ proc[p].at \notin Counted
  BY DEF Reading, Asking, Encoding, Counted
<1>6. p \in Caller => RequestOK(p)'
  BY <1>1, <1>3, <1>4, <1>5 DEF RequestOK, Asking, Encoding, Counted
<1> QED BY <1>3, <1>4, <1>5, <1>6 DEF Asking

\* A reader that has its result.
LEMMA ReaderReturns ==
    ASSUME LocksInv, NEW p \in Process, proc[p].at \in Reading,
           NEW q \in {"ok", "error", "timeout"}, Returns(p, q)
    PROVE  \E x \in ProcType : /\ proc' = [proc EXCEPT ![p] = x] /\ (p \in Caller => RequestOK(p)')
                              /\ x.at \notin Holding /\ x.at \notin Encoding /\ x.at \notin Counted
                              /\ proc[p].at \notin Encoding /\ proc[p].at \notin Counted
<1>1. proc \in [Process -> ProcType]
  BY Kept DEF LocksInv
<1>2. PICK x : x = IF p = Collector THEN [Idle EXCEPT !.at = "after", !.result = q] ELSE Idle
  OBVIOUS
<1>3. x \in ProcType /\ x.at \in {"idle", "after"} /\ (p \in Caller => x = Idle)
  <2>1. CASE p = Collector
    BY <1>2, <2>1, IdleOK, GoroutinesAssumption DEF Idle
  <2>2. CASE p # Collector
    BY <1>2, <2>2, IdleOK DEF Idle
  <2> QED BY <2>1, <2>2
<1>4. proc' = [proc EXCEPT ![p] = x] /\ proc'[p] = x
  BY <1>1, <1>2 DEF Returns
<1>5. p \in Caller => RequestOK(p)'
  BY <1>3, <1>4 DEF RequestOK, Idle, Asking, Encoding, Counted
<1>6. proc[p].at \notin Encoding /\ proc[p].at \notin Counted
  BY DEF Reading, Encoding, Counted
<1>7. x.at \notin Holding /\ x.at \notin Encoding /\ x.at \notin Counted
  BY <1>3 DEF Holding, Encoding, Counted
<1> QED BY <1>3, <1>4, <1>5, <1>6, <1>7

LEMMA AskReadLocks == ASSUME LocksInv, NEW c \in Caller, AskRead(c) PROVE LocksInv'
<1>1. TypeOK /\ c \in Process /\ proc[c].at = "idle"
  BY Kept DEF LocksInv, AskRead
<1>2. PICK x \in ProcType : /\ proc' = [proc EXCEPT ![c] = x] /\ RequestOK(c)' /\ x.at = "ask"
                            /\ x.at \notin Encoding /\ x.at \notin Counted
                            /\ proc[c].at \notin Encoding /\ proc[c].at \notin Counted
  BY <1>1, ReaderMoves DEF AskRead, Reading
<1>3. x.at \notin Holding /\ proc[c].at \notin Holding
  BY <1>1, <1>2 DEF Holding
<1>4. /\ proc' \in [Process -> ProcType] /\ LocksAreHeldByTheirUsers' /\ \A d \in Caller : RequestOK(d)'
      /\ mutex' \in Process \cup {Nobody} /\ writeEncodeMu' \in Caller \cup {Nobody} /\ writeSemaphore' \in Nat
  BY <1>1, <1>2, <1>3, StepOfOne DEF AskRead, client
<1>5. asked' \in [Caller -> 0..MaxAsks]
  BY <1>1, NumbersAssumption DEF TypeOK, AskRead
<1>6. TypeOK'
  BY <1>1, <1>4, <1>5 DEF TypeOK, AskRead, client, group
<1> QED BY <1>4, <1>6 DEF LocksInv

LEMMA GiveWayLocks == ASSUME LocksInv, NEW p \in Process, GiveWay(p) PROVE LocksInv'
<1>1. TypeOK /\ proc[p].at = "ask"
  BY DEF LocksInv, GiveWay
<1>2. PICK x \in ProcType : /\ proc' = [proc EXCEPT ![p] = x] /\ (p \in Caller => RequestOK(p)')
                            /\ x.at \notin Holding /\ x.at \notin Encoding /\ x.at \notin Counted
                            /\ proc[p].at \notin Encoding /\ proc[p].at \notin Counted
  BY <1>1, ReaderReturns DEF GiveWay, Reading
<1>3. proc[p].at \notin Holding
  BY <1>1 DEF Holding
<1>4. /\ proc' \in [Process -> ProcType] /\ LocksAreHeldByTheirUsers' /\ \A d \in Caller : RequestOK(d)'
      /\ mutex' \in Process \cup {Nobody} /\ writeEncodeMu' \in Caller \cup {Nobody} /\ writeSemaphore' \in Nat
  BY <1>1, <1>2, <1>3, StepOfOne DEF GiveWay, client
<1>5. age' \in 0..MaxAge
  BY NumbersAssumption DEF GiveWay, MaxAge
<1>6. TypeOK'
  BY <1>1, <1>4, <1>5 DEF TypeOK, GiveWay, client
<1> QED BY <1>4, <1>6 DEF LocksInv

LEMMA BeginReadLocks == ASSUME LocksInv, NEW p \in Process, BeginRead(p) PROVE LocksInv'
<1>1. TypeOK /\ proc[p].at = "ask"
  BY DEF LocksInv, BeginRead
<1>2. PICK x \in ProcType : /\ proc' = [proc EXCEPT ![p] = x] /\ (p \in Caller => RequestOK(p)')
                            /\ x.at = "fetch" /\ x.at \notin Encoding /\ x.at \notin Counted
                            /\ proc[p].at \notin Encoding /\ proc[p].at \notin Counted
  BY <1>1, ReaderMoves DEF BeginRead, Reading
<1>3. x.at \notin Holding /\ proc[p].at \notin Holding
  BY <1>1, <1>2 DEF Holding
<1>4. /\ proc' \in [Process -> ProcType] /\ LocksAreHeldByTheirUsers' /\ \A d \in Caller : RequestOK(d)'
      /\ mutex' \in Process \cup {Nobody} /\ writeEncodeMu' \in Caller \cup {Nobody} /\ writeSemaphore' \in Nat
  BY <1>1, <1>2, <1>3, StepOfOne DEF BeginRead, client
<1>5. TypeOK'
  BY <1>1, <1>4 DEF TypeOK, BeginRead, client, group
<1> QED BY <1>4, <1>5 DEF LocksInv

LEMMA OpenToReadLocks == ASSUME LocksInv, NEW p \in Process, OpenToRead(p) PROVE LocksInv'
<1>1. TypeOK /\ proc[p].at = "fetch"
  BY DEF LocksInv, OpenToRead
<1>2. CASE Open(p, "fetching")
  <2>1. PICK x \in ProcType : /\ proc' = [proc EXCEPT ![p] = x] /\ (p \in Caller => RequestOK(p)')
                              /\ x.at = "fetching" /\ x.at \notin Encoding /\ x.at \notin Counted
                              /\ proc[p].at \notin Encoding /\ proc[p].at \notin Counted
    BY <1>1, <1>2, ReaderMoves DEF Open, Reading
  <2>2. x.at \in Holding
    BY <2>1 DEF Holding
  <2>3. /\ proc' \in [Process -> ProcType] /\ LocksAreHeldByTheirUsers' /\ \A d \in Caller : RequestOK(d)'
        /\ mutex' \in Process \cup {Nobody} /\ writeEncodeMu' \in Caller \cup {Nobody} /\ writeSemaphore' \in Nat
    BY <1>1, <1>2, <2>1, <2>2, StepOfOne, ClientOpened DEF OpenToRead
  <2>4. TypeOK'
    BY <1>1, <1>2, <2>3, ClientOpened DEF TypeOK, OpenToRead, group
  <2> QED BY <2>3, <2>4 DEF LocksInv
<1>3. CASE OpenFails(p) /\ Returns(p, "error")
  <2>1. PICK x \in ProcType : /\ proc' = [proc EXCEPT ![p] = x] /\ (p \in Caller => RequestOK(p)')
                              /\ x.at \notin Holding /\ x.at \notin Encoding /\ x.at \notin Counted
                              /\ proc[p].at \notin Encoding /\ proc[p].at \notin Counted
    BY <1>1, <1>3, ReaderReturns DEF Reading
  <2>2. proc[p].at \notin Holding
    BY <1>1 DEF Holding
  <2>3. /\ proc' \in [Process -> ProcType] /\ LocksAreHeldByTheirUsers' /\ \A d \in Caller : RequestOK(d)'
        /\ mutex' \in Process \cup {Nobody} /\ writeEncodeMu' \in Caller \cup {Nobody} /\ writeSemaphore' \in Nat
    BY <1>1, <1>3, <2>1, <2>2, StepOfOne, ClientOpened DEF OpenToRead, client
  <2>4. TypeOK'
    BY <1>1, <1>3, <2>3, ClientOpened DEF TypeOK, OpenToRead, group, client
  <2> QED BY <2>3, <2>4 DEF LocksInv
<1> QED BY <1>2, <1>3 DEF OpenToRead

LEMMA ReadLocks == ASSUME LocksInv, NEW p \in Process, Read(p) PROVE LocksInv'
<1>1. TypeOK /\ proc[p].at = "fetching"
  BY DEF LocksInv, Read
<1>2. PICK q \in {"ok", "error", "timeout"}, f \in BOOLEAN : Returns(p, q) /\ Close(f)
  BY DEF Read, CloseRead
<1>3. PICK x \in ProcType : /\ proc' = [proc EXCEPT ![p] = x] /\ (p \in Caller => RequestOK(p)')
                            /\ x.at \notin Holding /\ x.at \notin Encoding /\ x.at \notin Counted
                            /\ proc[p].at \notin Encoding /\ proc[p].at \notin Counted
  BY <1>1, <1>2, ReaderReturns DEF Reading
<1>4. proc[p].at \in Holding
  BY <1>1 DEF Holding
<1>5. /\ proc' \in [Process -> ProcType] /\ LocksAreHeldByTheirUsers' /\ \A d \in Caller : RequestOK(d)'
      /\ mutex' \in Process \cup {Nobody} /\ writeEncodeMu' \in Caller \cup {Nobody} /\ writeSemaphore' \in Nat
  BY <1>1, <1>2, <1>3, <1>4, StepOfOne, ClientOpened DEF Read
<1>6. TypeOK'
  BY <1>1, <1>2, <1>5, ClientOpened DEF TypeOK, Read, group
<1> QED BY <1>5, <1>6 DEF LocksInv

LEMMA CollectLocks == ASSUME LocksInv, Collect PROVE LocksInv'
<1>1. TypeOK /\ Collector \in Process /\ proc[Collector].at = "idle" /\ Collector \notin Caller
  BY GoroutinesAssumption DEF LocksInv, Collect, Process
<1>2. PICK a \in {"idle", "ask"} : proc' = [proc EXCEPT ![Collector].at = a]
  <2>1. proc = [proc EXCEPT ![Collector].at = "idle"]
    <3>1. proc \in [Process -> ProcType] /\ proc[Collector] \in ProcType
      BY <1>1, Kept
    <3>2. proc[Collector] = [proc[Collector] EXCEPT !.at = "idle"]
      BY <1>1, <3>1 DEF ProcType
    <3> QED BY <3>1, <3>2
  <2> QED BY <2>1 DEF Collect
<1>3. PICK x \in ProcType : /\ proc' = [proc EXCEPT ![Collector] = x]
                            /\ x.at = a /\ x.at \notin Encoding /\ x.at \notin Counted
                            /\ proc[Collector].at \notin Encoding /\ proc[Collector].at \notin Counted
  <2>1. proc[Collector].at \in Reading /\ a \in Reading
    BY <1>1, <1>2 DEF Reading
  <2>2. \E x \in ProcType : /\ proc' = [proc EXCEPT ![Collector] = x]
                             /\ (Collector \in Caller => RequestOK(Collector)')
                             /\ x.at = a /\ x.at \notin Encoding /\ x.at \notin Counted
                             /\ proc[Collector].at \notin Encoding /\ proc[Collector].at \notin Counted
    BY <1>1, <1>2, <2>1, ReaderMoves
  <2> QED BY <2>2
<1>4. x.at \notin Holding /\ proc[Collector].at \notin Holding
  BY <1>1, <1>2, <1>3 DEF Holding
<1>5. /\ proc' \in [Process -> ProcType] /\ LocksAreHeldByTheirUsers' /\ \A d \in Caller : RequestOK(d)'
      /\ mutex' \in Process \cup {Nobody} /\ writeEncodeMu' \in Caller \cup {Nobody} /\ writeSemaphore' \in Nat
  BY <1>1, <1>3, <1>4, StepOfOne DEF Collect, client
<1>6. timeOutCount' \in Nat
  BY <1>1 DEF Collect, TypeOK
<1>7. TypeOK'
  BY <1>1, <1>5, <1>6 DEF TypeOK, Collect, client
<1> QED BY <1>5, <1>7 DEF LocksInv

LEMMA CollectedLocks == ASSUME LocksInv, Collected PROVE LocksInv'
<1>1. TypeOK /\ Collector \in Process /\ proc[Collector].at = "after" /\ Collector \notin Caller
  BY GoroutinesAssumption DEF LocksInv, Collected, Process
<1>2. proc' = [proc EXCEPT ![Collector] = Idle]
  BY DEF Collected
<1>3. /\ Idle.at \notin Holding /\ proc[Collector].at \notin Holding /\ Idle.at \notin Encoding
      /\ proc[Collector].at \notin Encoding /\ Idle.at \notin Counted /\ proc[Collector].at \notin Counted
  BY <1>1 DEF Idle, Holding, Encoding, Counted
<1>4. /\ proc' \in [Process -> ProcType] /\ LocksAreHeldByTheirUsers' /\ \A d \in Caller : RequestOK(d)'
      /\ mutex' \in Process \cup {Nobody} /\ writeEncodeMu' \in Caller \cup {Nobody} /\ writeSemaphore' \in Nat
  BY <1>1, <1>2, <1>3, IdleOK, StepOfOne DEF Collected, client
<1>5. timeOutCount' \in Nat /\ age' \in 0..MaxAge
  <2>1. MaxAge \in Nat
    BY NumbersAssumption DEF MaxAge
  <2> QED BY <1>1, <2>1 DEF Collected, TypeOK
<1>6. TypeOK'
  BY <1>1, <1>4, <1>5 DEF TypeOK, Collected, client
<1> QED BY <1>4, <1>6 DEF LocksInv

\* No goroutine moves, and no lock changes hands.
LEMMA OthersLocks ==
    ASSUME LocksInv,
           CloseConnector \/ Break \/ Tick \/ (\E b \in Bit : DeviceChanges(b)) \/ UNCHANGED vars
    PROVE  LocksInv'
<1>1. TypeOK
  BY DEF LocksInv
<1>2. UNCHANGED <<proc, mutex, writeEncodeMu, writeSemaphore>>
  BY DEF CloseConnector, Break, Tick, DeviceChanges, vars, client
<1>3. LocksAreHeldByTheirUsers' /\ \A c \in Caller : RequestOK(c)'
  BY <1>2 DEF LocksInv, LocksAreHeldByTheirUsers, RequestOK
<1>4. TypeOK'
  <2>1. CASE CloseConnector
    BY <1>1, <2>1 DEF TypeOK, CloseConnector, group
  <2>2. CASE Break
    BY <1>1, <2>2 DEF TypeOK, Break, group
  <2>3. CASE Tick
    <3>1. MaxAge \in Nat
      BY NumbersAssumption DEF MaxAge
    <3> QED BY <1>1, <2>3, <3>1 DEF TypeOK, Tick, client
  <2>4. ASSUME NEW b \in Bit, DeviceChanges(b) PROVE TypeOK'
    <3>1. wire[b] \in Bit
      BY WireAssumption
    <3>2. register' \in Value
      BY <1>1, <2>4, <3>1 DEF TypeOK, DeviceChanges, Value
    <3>3. acked' \in [Bit -> {0, 1, NoValue}]
      BY <1>1, <2>4 DEF TypeOK, DeviceChanges
    <3> QED BY <1>1, <2>4, <3>2, <3>3 DEF TypeOK, DeviceChanges, client, group
  <2>5. CASE UNCHANGED vars
    BY <1>1, <2>5 DEF TypeOK, vars, client, group
  <2> QED BY <2>1, <2>2, <2>3, <2>4, <2>5
<1> QED BY <1>3, <1>4 DEF LocksInv

LEMMA LocksStep == LocksInv /\ [Next]_vars => LocksInv'
<1> SUFFICES ASSUME LocksInv, [Next]_vars PROVE LocksInv'
  OBVIOUS
<1>1. ASSUME NEW c \in Caller, AskWrite(c) \/ AskRead(c) \/ CallerStep(c) PROVE LocksInv'
  BY <1>1, AskWriteLocks, AskReadLocks, LockEncodeLocks, OpenToEncodeLocks, EncodeBitLocks, BeginWriteLocks,
     OpenToWriteLocks, WriteLocks, EndWriteLocks DEF CallerStep
<1>2. ASSUME NEW p \in Process, ReadStep(p) PROVE LocksInv'
  BY <1>2, GiveWayLocks, BeginReadLocks, OpenToReadLocks, ReadLocks DEF ReadStep
<1>3. CASE Collect \/ Collected
  BY <1>3, CollectLocks, CollectedLocks
<1>4. CASE CloseConnector \/ Break \/ Tick \/ (\E b \in Bit : DeviceChanges(b)) \/ UNCHANGED vars
  BY <1>4, OthersLocks
<1> QED BY <1>1, <1>2, <1>3, <1>4 DEF Next

\* The state of the goroutines, the locks and the counts is always of its type, on every path through
\* plugins/modbus/internal/connector.go and adapter.go.
THEOREM ConnectorTypeCorrect == Spec => []TypeOK
<1>1. LocksInv => TypeOK
  BY DEF LocksInv
<1> QED BY <1>1, InitLocks, LocksStep, PTL DEF Spec

\* Nobody but its holder is inside a lock, no lock is left behind, and the semaphore counts the writes
\* under way, with any number of callers and attempts (connector.go:422-426, 525-553; adapter.go:40, 92).
THEOREM LocksAlwaysMatch == Spec => []LocksAreHeldByTheirUsers
<1>1. LocksInv => LocksAreHeldByTheirUsers
  BY DEF LocksInv
<1> QED BY <1>1, InitLocks, LocksStep, PTL DEF Spec

-----------------------------------------------------------------------------
(* The bits of the register *)

\* A request that is merged in the right order of bytes.
Straight(c) == Len(proc[c].todo) = 1 \/ \A a \in Bit : wire[a] = a

\* Nobody takes a bit that c is about to write for settled; what c is going to write has every bit that is
\* settled, and those that c was asked for as far as it has come.
BitsOK(c) ==
    LET p == proc[c]
    IN  /\ \A b \in Bit : Asks(c, b) /\ p.result # "ok" => acked[b] = NoValue
        /\ p.at = "lock" => p.value = NoValue
        /\ p.at \in Encoding /\ p.value # NoValue /\ p.result # "ok"
              => \A b \in Bit : acked[b] # NoValue => p.value[wire[b]] = acked[b]
        /\ p.at \in Encoding /\ p.value # NoValue /\ Straight(c)
              => \A i \in 1..p.done : p.value[wire[p.todo[i][1]]] = p.todo[i][2]

BitsInv == LocksInv /\ AcknowledgedBitsStay /\ \A c \in Caller : BitsOK(c)

LEMMA InitBits == Init => BitsInv
<1> SUFFICES ASSUME Init PROVE BitsInv
  OBVIOUS
<1>1. \A c \in Caller : proc[c] = Idle
  BY DEF Init, Process
<1>2. \A b \in Bit : acked[b] = NoValue
  BY DEF Init
<1>3. \A c \in Caller : BitsOK(c)
  <2>1. Idle.value = NoValue /\ Idle.at \notin Encoding
    BY DEF Idle, Encoding, Counted
  <2> QED BY <1>1, <1>2, <2>1 DEF BitsOK
<1> QED BY <1>2, <1>3, InitLocks DEF BitsInv, AcknowledgedBitsStay

\* Of what c is about, nothing changes that its bits depend on, or it is done.
Steady(c) ==
    LET p == proc[c]  q == proc'[c]
    IN  \/ q.todo = <<>> /\ q.at \notin Asking
        \/ /\ q.todo = p.todo /\ q.done = p.done /\ q.value = p.value
           /\ q.result # "ok" => p.result # "ok"
           /\ q.at \in Encoding => p.at \in Encoding \/ p.value = NoValue
           /\ q.at = "lock" => p.at = "lock"

LEMMA SteadyBits ==
    ASSUME BitsInv, LocksInv', UNCHANGED acked, UNCHANGED register \/ AcknowledgedBitsStay',
           \A c \in Caller : Steady(c)
    PROVE  BitsInv'
<1>1. AcknowledgedBitsStay'
  BY DEF BitsInv, AcknowledgedBitsStay
<1>2. ASSUME NEW c \in Caller PROVE BitsOK(c)'
  <2>1. BitsOK(c) /\ Steady(c)
    BY DEF BitsInv
  <2>2. CASE proc'[c].todo = <<>> /\ proc'[c].at \notin Asking
    BY <2>2 DEF BitsOK, Asks, Asking
  <2>3. CASE /\ proc'[c].todo = proc[c].todo /\ proc'[c].done = proc[c].done /\ proc'[c].value = proc[c].value
             /\ proc'[c].result # "ok" => proc[c].result # "ok"
             /\ proc'[c].at \in Encoding => proc[c].at \in Encoding \/ proc[c].value = NoValue
             /\ proc'[c].at = "lock" => proc[c].at = "lock"
    <3>1. \A b \in Bit : Asks(c, b)' <=> Asks(c, b)
      BY <2>3 DEF Asks
    <3>2. Straight(c)' <=> Straight(c)
      BY <2>3 DEF Straight
    <3> QED BY <2>1, <2>3, <3>1, <3>2 DEF BitsOK
  <2> QED BY <2>1, <2>2, <2>3 DEF Steady
<1> QED BY <1>1, <1>2 DEF BitsInv

\* One goroutine moves.
LEMMA SteadyStep ==
    ASSUME BitsInv, LocksInv', UNCHANGED acked, UNCHANGED register \/ AcknowledgedBitsStay', NEW p \in Process,
           \A c \in Caller \ {p} : proc'[c] = proc[c], p \in Caller => Steady(p)
    PROVE  BitsInv'
<1>1. \A c \in Caller : Steady(c)
  BY DEF Steady
<1> QED BY <1>1, SteadyBits

\* The steps that neither write the register nor build its value.
LEMMA WriterBits ==
    ASSUME BitsInv, LocksInv', NEW c \in Caller,
           LockEncode(c) \/ OpenToEncode(c) \/ BeginWrite(c) \/ OpenToWrite(c) \/ EndWrite(c)
    PROVE  BitsInv'
<1>1. /\ proc \in [Process -> ProcType] /\ c \in Process /\ proc[c] \in ProcType /\ RequestOK(c)
      /\ BitsOK(c)
  BY Kept DEF BitsInv, LocksInv
<1>2. UNCHANGED <<register, acked>>
  BY DEF LockEncode, OpenToEncode, BeginWrite, OpenToWrite, EndWrite
<1>3. CASE \E a \in Encoding : proc' = [proc EXCEPT ![c].at = a]
  <2>1. PICK a \in Encoding : proc' = [proc EXCEPT ![c].at = a]
    BY <1>3
  <2>2. proc[c].at \in Encoding \/ proc[c].value = NoValue
    <3>1. proc[c].at \in Asking
      BY DEF LockEncode, OpenToEncode, BeginWrite, OpenToWrite, EndWrite, Asking, Encoding, Counted
    <3> QED BY <1>1, <3>1 DEF BitsOK, Asking
  <2>3. a # "lock"
    BY DEF Encoding, Counted
  <2>4. PICK x : x = [proc[c] EXCEPT !.at = a]
    OBVIOUS
  <2>5. /\ x.at = a /\ x.todo = proc[c].todo /\ x.done = proc[c].done
        /\ x.value = proc[c].value /\ x.result = proc[c].result
    BY <1>1, <2>4, AtChanges
  <2>6. proc'[c] = x /\ \A d \in Caller \ {c} : proc'[d] = proc[d]
    BY <1>1, <2>1, <2>4 DEF Process
  <2>7. Steady(c)
    BY <2>2, <2>3, <2>5, <2>6 DEF Steady
  <2> QED BY <1>1, <1>2, <2>6, <2>7, SteadyStep
<1>4. CASE proc' = [proc EXCEPT ![c] = Idle]
  <2>1. proc'[c] = Idle /\ \A d \in Caller \ {c} : proc'[d] = proc[d]
    BY <1>1, <1>4 DEF Process
  <2>2. Steady(c)
    BY <2>1 DEF Steady, Idle, Asking, Encoding, Counted
  <2> QED BY <1>1, <1>2, <2>1, <2>2, SteadyStep
<1>5. CASE BeginWrite(c)
  <2>1. PICK x : x = [proc[c] EXCEPT !.at = "try", !.tries = Retry]
    OBVIOUS
  <2>2. /\ x.at = "try" /\ x.todo = proc[c].todo /\ x.done = proc[c].done
        /\ x.value = proc[c].value /\ x.result = proc[c].result
    BY <1>1, <2>1 DEF ProcType
  <2>3. proc'[c] = x /\ \A d \in Caller \ {c} : proc'[d] = proc[d]
    BY <1>1, <1>5, <2>1 DEF Process, BeginWrite
  <2>4. proc[c].at \in Encoding
    BY <1>5 DEF BeginWrite, Encoding
  <2>5. Steady(c)
    BY <2>2, <2>3, <2>4 DEF Steady
  <2> QED BY <1>1, <1>2, <2>3, <2>5, SteadyStep
<1>6. CASE proc[c].at = "try" /\ Attempted(c)
  <2>1. proc[c].at \in Encoding /\ proc[c].result # "ok"
    BY <1>1, <1>6 DEF RequestOK, Encoding, Counted
  <2>2. PICK x : x = [proc[c] EXCEPT !.at = IF proc[c].tries = 1 THEN "written" ELSE "try",
                                     !.tries = @ - 1, !.result = "error"]
    OBVIOUS
  <2>3. /\ x.at # "lock" /\ x.todo = proc[c].todo /\ x.done = proc[c].done /\ x.value = proc[c].value
    BY <1>1, <2>2 DEF ProcType
  <2>4. proc'[c] = x /\ \A d \in Caller \ {c} : proc'[d] = proc[d]
    BY <1>1, <1>6, <2>2 DEF Process, Attempted
  <2>5. Steady(c)
    BY <2>1, <2>3, <2>4 DEF Steady
  <2> QED BY <1>1, <1>2, <2>4, <2>5, SteadyStep
<1>7. CASE LockEncode(c)
  BY <1>3, <1>7 DEF LockEncode, Encoding
<1>8. CASE OpenToEncode(c)
  BY <1>3, <1>4, <1>8 DEF OpenToEncode, Open, EncodeFails, Encoding
<1>9. CASE OpenToWrite(c)
  BY <1>3, <1>6, <1>9 DEF OpenToWrite, Open, Encoding, Counted
<1>10. CASE EndWrite(c)
  BY <1>4, <1>10 DEF EndWrite
<1> QED BY <1>5, <1>7, <1>8, <1>9, <1>10

LEMMA ReaderBits ==
    ASSUME BitsInv, LocksInv',
           \/ \E c \in Caller : AskRead(c)
           \/ \E p \in Process : ReadStep(p)
           \/ Collect \/ Collected \/ CloseConnector \/ Break \/ Tick \/ UNCHANGED vars
    PROVE  BitsInv'
<1>1. /\ proc \in [Process -> ProcType] /\ Caller \subseteq Process /\ Collector \notin Caller
      /\ \A c \in Caller : proc[c] \in ProcType /\ RequestOK(c)
  BY Kept, GoroutinesAssumption DEF BitsInv, LocksInv, Process
<1>2. UNCHANGED <<register, acked>>
  BY DEF AskRead, ReadStep, GiveWay, BeginRead, OpenToRead, Read, Collect, Collected, CloseConnector, Break,
         Tick, vars
<1>3. ASSUME NEW c \in Caller, NEW a \in Reading, proc' = [proc EXCEPT ![c].at = a], proc[c].at \in Reading
      PROVE  BitsInv'
  <2>1. PICK x : x = [proc[c] EXCEPT !.at = a]
    OBVIOUS
  <2>2. x.at = a /\ x.todo = proc[c].todo
    BY <1>1, <2>1 DEF ProcType
  <2>3. proc'[c] = x /\ \A d \in Caller \ {c} : proc'[d] = proc[d]
    BY <1>1, <1>3, <2>1
  <2>4. proc[c].todo = <<>>
    BY <1>1, <1>3 DEF RequestOK, Reading, Asking, Encoding, Counted
  <2>5. Steady(c)
    BY <2>2, <2>3, <2>4 DEF Steady, Reading, Asking, Encoding, Counted
  <2> QED BY <1>1, <1>2, <2>3, <2>5, SteadyStep
<1>4. ASSUME NEW c \in Caller, proc' = [proc EXCEPT ![c] = Idle] PROVE BitsInv'
  <2>1. proc'[c] = Idle /\ \A d \in Caller \ {c} : proc'[d] = proc[d]
    BY <1>1, <1>4
  <2>2. Steady(c)
    BY <2>1 DEF Steady, Idle, Asking, Encoding, Counted
  <2> QED BY <1>1, <1>2, <2>1, <2>2, SteadyStep
<1>5. CASE \A c \in Caller : proc'[c] = proc[c]
  <2>1. Collector \in Process
    BY DEF Process
  <2> QED BY <1>1, <1>2, <1>5, <2>1, SteadyStep
<1>6. ASSUME NEW c \in Caller, AskRead(c) PROVE BitsInv'
  BY <1>3, <1>6 DEF AskRead, Reading
<1>7. ASSUME NEW p \in Process, ReadStep(p) PROVE BitsInv'
  <2>1. \/ \E a \in Reading : proc' = [proc EXCEPT ![p].at = a]
        \/ \E q \in {"ok", "error", "timeout"} : Returns(p, q)
    BY <1>7 DEF ReadStep, GiveWay, BeginRead, OpenToRead, Read, Open, Reading
  <2>2. proc[p].at \in Reading
    BY <1>7 DEF ReadStep, GiveWay, BeginRead, OpenToRead, Read, Reading
  <2>3. CASE p = Collector
    <3>1. \A c \in Caller : proc'[c] = proc[c]
      BY <1>1, <2>1, <2>3 DEF Returns
    <3> QED BY <1>5, <3>1
  <2>4. CASE p # Collector
    <3>1. p \in Caller
      BY <2>4 DEF Process
    <3>2. (\E a \in Reading : proc' = [proc EXCEPT ![p].at = a]) \/ proc' = [proc EXCEPT ![p] = Idle]
      BY <2>1, <2>4 DEF Returns
    <3> QED BY <1>3, <1>4, <2>2, <3>1, <3>2
  <2> QED BY <2>3, <2>4
<1>8. CASE Collect \/ Collected \/ CloseConnector \/ Break \/ Tick \/ UNCHANGED vars
  <2>1. \A c \in Caller : proc'[c] = proc[c]
    BY <1>1, <1>8 DEF Collect, Collected, CloseConnector, Break, Tick, vars
  <2> QED BY <1>5, <2>1
<1> QED BY <1>6, <1>7, <1>8

LEMMA EncodeBitBits == ASSUME BitsInv, LocksInv', NEW c \in Caller, EncodeBit(c) PROVE BitsInv'
<1> DEFINE i == proc[c].done + 1
           b == proc[c].todo[i][1]
           w == proc[c].todo[i][2]
           reg == WithBit(register, b, w)
           v == Merge(proc[c].value, reg, b)
<1>1. /\ proc \in [Process -> ProcType] /\ c \in Process /\ proc[c] \in ProcType /\ RequestOK(c)
      /\ BitsOK(c) /\ proc[c].at = "encoding" /\ LocksInv
  BY Kept DEF BitsInv, LocksInv, EncodeBit
<1>2. /\ i \in 1..Len(proc[c].todo) /\ b \in Bit /\ w \in {0, 1} /\ reg \in Value /\ v \in Value
  BY <1>1, NextBit
<1>3. /\ proc[c].todo \in Requests[c] /\ proc[c].result = "none" /\ proc[c].done < Len(proc[c].todo)
      /\ proc[c].done = 0 <=> proc[c].value = NoValue
  BY <1>1 DEF RequestOK, Asking, Encoding
<1>4. /\ proc[c].done \in Nat /\ proc[c].value \in Value \cup {NoValue} /\ register \in Value
  BY <1>1 DEF ProcType, LocksInv, TypeOK
<1>5. reg[wire[b]] = w /\ \A a \in Bit \ {b} : reg[wire[a]] = register[wire[a]]
  BY <1>2, <1>4, WireAssumption DEF WithBit, Value
<1>6. UNCHANGED <<register, acked>>
  BY DEF EncodeBit
<1>7. CASE EncodeFails(c) /\ CloseRead(TRUE)
  <2>1. proc'[c] = Idle /\ \A d \in Caller \ {c} : proc'[d] = proc[d]
    BY <1>1, <1>7 DEF Process, EncodeFails
  <2>2. Steady(c)
    BY <2>1 DEF Steady, Idle, Asking, Encoding, Counted
  <2> QED BY <1>1, <1>6, <2>1, <2>2, SteadyStep
<1>8. CASE proc' = [proc EXCEPT ![c].at = IF i = Len(proc[c].todo) THEN "send" ELSE "encode",
                                ![c].done = @ + 1, ![c].value = v]
  <2> HIDE DEF i, b, w, reg, v
  <2>1. PICK x : x = [proc[c] EXCEPT !.at = IF i = Len(proc[c].todo) THEN "send" ELSE "encode",
                                     !.done = @ + 1, !.value = v]
    OBVIOUS
  <2>2. /\ x.at \in {"send", "encode"} /\ x.todo = proc[c].todo /\ x.done = proc[c].done + 1
        /\ x.value = v /\ x.result = proc[c].result
    BY <1>1, <2>1 DEF ProcType
  <2>3. proc'[c] = x /\ \A d \in Caller \ {c} : proc'[d] = proc[d]
    BY <1>1, <1>8, <2>1 DEF Process
  <2>4. Asks(c, b)
    BY <1>2 DEF Asks, i, b
  <2>5. \A a \in Bit : acked[a] # NoValue => a # b /\ reg[wire[a]] = acked[a]
    <3>1. \A a \in Bit : acked[a] # NoValue => a # b /\ register[wire[a]] = acked[a]
      BY <1>1, <1>2, <1>3, <2>4 DEF BitsOK, BitsInv, AcknowledgedBitsStay
    <3> QED BY <1>5, <3>1
  <2>6. \A a \in Bit : acked[a] # NoValue => v[wire[a]] = acked[a]
    <3>1. CASE proc[c].value = NoValue
      BY <2>5, <3>1 DEF v, Merge
    <3>2. CASE proc[c].value # NoValue
      <4>1. proc[c].value \in Value /\ v = [proc[c].value EXCEPT ![b] = reg[b]]
        BY <1>4, <3>2 DEF v, Merge
      <4>2. \A a \in Bit : acked[a] # NoValue => proc[c].value[wire[a]] = acked[a]
        BY <1>1, <1>3, <3>2 DEF BitsOK, Encoding
      <4>3. ASSUME NEW a \in Bit, acked[a] # NoValue PROVE v[wire[a]] = acked[a]
        <5>1. wire[a] \in Bit
          BY WireAssumption
        <5> QED BY <1>2, <2>5, <4>1, <4>2, <4>3, <5>1 DEF Value
      <4> QED BY <4>3
    <3> QED BY <3>1, <3>2
  <2>7. ASSUME Straight(c), NEW k \in 1..i PROVE v[wire[proc[c].todo[k][1]]] = proc[c].todo[k][2]
    <3>1. CASE proc[c].value = NoValue
      <4>1. k = i /\ v = reg
        BY <1>3, <2>7, <3>1 DEF i, v, Merge
      <4> QED BY <1>5, <4>1 DEF b, w
    <3>2. CASE proc[c].value # NoValue
      <4>1. proc[c].value \in Value /\ v = [proc[c].value EXCEPT ![b] = reg[b]]
        BY <1>4, <3>2 DEF v, Merge
      <4>2. Len(proc[c].todo) # 1
        BY <1>2, <1>3, <1>4, <3>2, RequestFacts DEF i
      <4>3. \A a \in Bit : wire[a] = a
        BY <2>7, <4>2 DEF Straight
      <4>4. CASE k = i
        <5>1. v[b] = reg[b] /\ wire[b] = b
          BY <1>2, <4>1, <4>3 DEF Value
        <5> QED BY <1>5, <4>4, <5>1 DEF b, w
      <4>5. CASE k # i
        <5>1. k \in 1..proc[c].done /\ k \in 1..Len(proc[c].todo)
          BY <1>2, <1>4, <2>7, <4>5 DEF i
        <5>2. proc[c].todo[k][1] \in Bit /\ proc[c].todo[k][1] # b
          BY <1>2, <1>3, <4>5, <5>1, RequestFacts DEF b
        <5>3. proc[c].value[wire[proc[c].todo[k][1]]] = proc[c].todo[k][2]
          BY <1>1, <2>7, <3>2, <5>1 DEF BitsOK, Encoding
        <5>4. wire[proc[c].todo[k][1]] = proc[c].todo[k][1]
          BY <4>3, <5>2
        <5> QED BY <4>1, <5>2, <5>3, <5>4 DEF Value
      <4> QED BY <4>4, <4>5
    <3> QED BY <3>1, <3>2
  <2>8. BitsOK(c)'
    <3>1. (\A a \in Bit : Asks(c, a)' <=> Asks(c, a)) /\ (Straight(c)' <=> Straight(c))
      BY <2>2, <2>3 DEF Asks, Straight
    <3>2. \A a \in Bit : Asks(c, a) => acked[a] = NoValue
      BY <1>1, <1>3 DEF BitsOK
    <3>3. Straight(c) => \A k \in 1..x.done : x.value[wire[x.todo[k][1]]] = x.todo[k][2]
      BY <2>2, <2>7 DEF i
    <3> QED BY <1>6, <2>2, <2>3, <2>6, <3>1, <3>2, <3>3 DEF BitsOK
  <2>9. \A d \in Caller \ {c} : BitsOK(d)'
    BY <1>6, <2>3 DEF BitsInv, BitsOK, Asks, Straight
  <2>10. AcknowledgedBitsStay'
    BY <1>6 DEF BitsInv, AcknowledgedBitsStay
  <2> QED BY <2>8, <2>9, <2>10 DEF BitsInv
<1> QED BY <1>7, <1>8 DEF EncodeBit

LEMMA WriteBits == ASSUME BitsInv, LocksInv', NEW c \in Caller, Write(c) PROVE BitsInv'
<1>1. /\ proc \in [Process -> ProcType] /\ c \in Process /\ proc[c] \in ProcType /\ RequestOK(c)
      /\ BitsOK(c) /\ proc[c].at = "writing" /\ LocksInv
  BY Kept DEF BitsInv, LocksInv, Write
<1>2. proc[c].at \in Encoding /\ proc[c].result # "ok" /\ proc[c].done = Len(proc[c].todo)
  BY <1>1 DEF RequestOK, Encoding, Counted
<1>3. proc[c].value # NoValue
  <2>1. proc[c].todo \in Requests[c]
    BY <1>1, <1>2 DEF RequestOK, Asking
  <2>2. proc[c].done # 0
    BY <1>2, <2>1, RequestFacts
  <2> QED BY <1>1, <2>2 DEF RequestOK
<1>4. \A b \in Bit : acked[b] # NoValue => proc[c].value[wire[b]] = acked[b]
  BY <1>1, <1>2, <1>3 DEF BitsOK
<1>5. CASE Attempted(c) /\ UNCHANGED acked
  <2>1. PICK x : x = [proc[c] EXCEPT !.at = IF proc[c].tries = 1 THEN "written" ELSE "try",
                                     !.tries = @ - 1, !.result = "error"]
    OBVIOUS
  <2>2. x.at # "lock" /\ x.todo = proc[c].todo /\ x.done = proc[c].done /\ x.value = proc[c].value
    BY <1>1, <2>1 DEF ProcType
  <2>3. proc'[c] = x /\ \A d \in Caller \ {c} : proc'[d] = proc[d]
    BY <1>1, <1>5, <2>1 DEF Process, Attempted
  <2>4. Steady(c)
    BY <1>2, <2>2, <2>3 DEF Steady
  <2>5. AcknowledgedBitsStay'
    <3>1. register' \in {register, proc[c].value}
      BY DEF Write
    <3> QED BY <1>4, <1>5, <3>1 DEF BitsInv, AcknowledgedBitsStay
  <2> QED BY <1>1, <1>5, <2>3, <2>4, <2>5, SteadyStep
<1>6. CASE /\ register' = proc[c].value
           /\ proc' = [proc EXCEPT ![c].at = "written", ![c].result = "ok"]
           /\ acked' = [b \in Bit |-> IF Acknowledges(c, b) THEN ValueAsked(c, b) ELSE acked[b]]
  <2>1. PICK x : x = [proc[c] EXCEPT !.at = "written", !.result = "ok"]
    OBVIOUS
  <2>2. /\ x.at = "written" /\ x.todo = proc[c].todo /\ x.done = proc[c].done
        /\ x.value = proc[c].value /\ x.result = "ok"
    BY <1>1, <2>1 DEF ProcType
  <2>3. proc'[c] = x /\ \A d \in Caller \ {c} : proc'[d] = proc[d]
    BY <1>1, <1>6, <2>1 DEF Process
  <2>4. \A b \in Bit : acked'[b] = IF Acknowledges(c, b) THEN ValueAsked(c, b) ELSE acked[b]
    BY <1>6
  <2>5. AcknowledgedBitsStay'
    <3>1. ASSUME NEW b \in Bit, Acknowledges(c, b) PROVE register'[wire[b]] = acked'[b]
      <4>1. PICK k \in 1..Len(proc[c].todo) :
                proc[c].todo[k][1] = b /\ ValueAsked(c, b) = proc[c].todo[k][2]
        BY <1>1, <3>1, AskedValue DEF Acknowledges
      <4>2. Straight(c)
        BY <3>1 DEF Acknowledges, Straight
      <4>3. proc[c].value[wire[b]] = ValueAsked(c, b)
        BY <1>1, <1>2, <1>3, <4>1, <4>2 DEF BitsOK
      <4> QED BY <1>6, <2>4, <3>1, <4>3
    <3> QED BY <1>4, <1>6, <2>4, <3>1 DEF AcknowledgedBitsStay
  <2>6. BitsOK(c)'
    <3>1. Straight(c)' <=> Straight(c)
      BY <2>2, <2>3 DEF Straight
    <3> QED BY <1>1, <1>2, <1>3, <2>2, <2>3, <3>1 DEF BitsOK
  <2>7. ASSUME NEW d \in Caller \ {c} PROVE BitsOK(d)'
    <3>1. BitsOK(d) /\ proc'[d] = proc[d] /\ d \in Caller /\ d # c
      BY <2>3, <2>7 DEF BitsInv
    <3>2. proc[d].at \notin Encoding
      BY <1>1, <1>2, <3>1 DEF LocksInv, LocksAreHeldByTheirUsers
    <3>3. \A b \in Bit : (Asks(d, b)' <=> Asks(d, b)) /\ (Asks(d, b) => acked'[b] = acked[b])
      BY <2>4, <3>1 DEF Asks, Acknowledges
    <3> QED BY <3>1, <3>2, <3>3 DEF BitsOK
  <2> QED BY <2>5, <2>6, <2>7 DEF BitsInv
<1> QED BY <1>5, <1>6 DEF Write

LEMMA AskWriteBits == ASSUME BitsInv, LocksInv', NEW c \in Caller, AskWrite(c) PROVE BitsInv'
<1>1. proc \in [Process -> ProcType] /\ c \in Process
  BY Kept DEF BitsInv, LocksInv
<1>2. PICK r \in Requests[c] :
          /\ proc' = [proc EXCEPT ![c] = [Idle EXCEPT !.at = "lock", !.todo = r]]
          /\ acked' = [b \in Bit |-> IF \E i \in 1..Len(r) : r[i][1] = b THEN NoValue ELSE acked[b]]
  BY DEF AskWrite
<1>3. PICK x : x = [Idle EXCEPT !.at = "lock", !.todo = r]
  OBVIOUS
<1>4. x.at = "lock" /\ x.todo = r /\ x.value = NoValue
  BY <1>3 DEF Idle
<1>5. proc'[c] = x /\ \A d \in Caller \ {c} : proc'[d] = proc[d]
  BY <1>1, <1>2, <1>3 DEF Process
<1>6. \A b \in Bit : acked'[b] \in {NoValue, acked[b]}
  BY <1>2
<1>7. AcknowledgedBitsStay'
  BY <1>6 DEF BitsInv, AcknowledgedBitsStay, AskWrite
<1>8. BitsOK(c)'
  <2>1. \A b \in Bit : Asks(c, b)' => acked'[b] = NoValue
    BY <1>2, <1>4, <1>5 DEF Asks
  <2> QED BY <1>4, <1>5, <2>1 DEF BitsOK
<1>9. ASSUME NEW d \in Caller \ {c} PROVE BitsOK(d)'
  <2>1. BitsOK(d) /\ proc'[d] = proc[d]
    BY <1>5, <1>9 DEF BitsInv
  <2>2. (\A b \in Bit : Asks(d, b)' <=> Asks(d, b)) /\ (Straight(d)' <=> Straight(d))
    BY <2>1 DEF Asks, Straight
  <2> QED BY <1>6, <2>1, <2>2 DEF BitsOK
<1> QED BY <1>7, <1>8, <1>9 DEF BitsInv

LEMMA DeviceBits == ASSUME BitsInv, LocksInv', NEW b \in Bit, DeviceChanges(b) PROVE BitsInv'
<1>1. acked' = [acked EXCEPT ![b] = NoValue] /\ register' = [register EXCEPT ![wire[b]] = 1 - @] /\ proc' = proc
  BY DEF DeviceChanges
<1>2. acked \in [Bit -> {0, 1, NoValue}] /\ register \in Value
  BY DEF BitsInv, LocksInv, TypeOK
<1>3. acked'[b] = NoValue /\ \A a \in Bit \ {b} : acked'[a] = acked[a]
  BY <1>1, <1>2
<1>4. \A a \in Bit \ {b} : register'[wire[a]] = register[wire[a]]
  BY <1>1, <1>2, WireAssumption DEF Value
<1>5. AcknowledgedBitsStay'
  BY <1>3, <1>4 DEF BitsInv, AcknowledgedBitsStay
<1>6. ASSUME NEW d \in Caller PROVE BitsOK(d)'
  <2>1. BitsOK(d) /\ proc'[d] = proc[d]
    BY <1>1 DEF BitsInv
  <2>2. (\A a \in Bit : Asks(d, a)' <=> Asks(d, a)) /\ (Straight(d)' <=> Straight(d))
    BY <2>1 DEF Asks, Straight
  <2>3. \A a \in Bit : acked'[a] \in {NoValue, acked[a]}
    BY <1>3
  <2> QED BY <2>1, <2>2, <2>3 DEF BitsOK
<1> QED BY <1>5, <1>6 DEF BitsInv

LEMMA BitsStep == BitsInv /\ [Next]_vars => BitsInv'
<1> SUFFICES ASSUME BitsInv, [Next]_vars PROVE BitsInv'
  OBVIOUS
<1>1. LocksInv'
  BY LocksStep DEF BitsInv
<1>2. ASSUME NEW c \in Caller, AskWrite(c) \/ AskRead(c) \/ CallerStep(c) PROVE BitsInv'
  BY <1>1, <1>2, AskWriteBits, ReaderBits, WriterBits, EncodeBitBits, WriteBits DEF CallerStep
<1>3. CASE \/ \E p \in Process : ReadStep(p)
           \/ Collect \/ Collected \/ CloseConnector \/ Break \/ Tick \/ UNCHANGED vars
  BY <1>1, <1>3, ReaderBits
<1>4. ASSUME NEW b \in Bit, DeviceChanges(b) PROVE BitsInv'
  BY <1>1, <1>4, DeviceBits
<1> QED BY <1>2, <1>3, <1>4 DEF Next

\* Whatever other callers write to the register meanwhile, with failures and attempts in any order, an
\* acknowledged bit stays (getWriteValue, adapter.go:182-217): writeEncodeMu covers the time from the
\* reading of the register to the last attempt to write it.
THEOREM AcknowledgedBitsAlwaysStay == Spec => []AcknowledgedBitsStay
<1>1. BitsInv => AcknowledgedBitsStay
  BY DEF BitsInv
<1> QED BY <1>1, InitBits, BitsStep, PTL DEF Spec

-----------------------------------------------------------------------------
(***************************************************************************)
(* How points are arranged                                                 *)
(***************************************************************************)
Points == UNION {{c[i] : i \in DOMAIN c} : c \in Configs}
Names == {p.name : p \in Points}
AnyObject == [type : {p.type : p \in Points}, inst : {p.inst : p \in Points},
              points : UNION {[D -> Names] : D \in SUBSET {p.dev : p \in Points}}]
AnyGroup == [dur : Int, objs : Seq(AnyObject)]

\* p is the point that d reads from object o of a group with period dur.
Source(p, id, dur, o, d) ==
    /\ Bacnet!Wanted(p) /\ p.id = id /\ p.dev = d /\ p.name = o.points[d]
    /\ p.type = o.type /\ p.inst = o.inst /\ Bacnet!DurationOf(p) = dur

Lists(o, p) == p.dev \in DOMAIN o.points /\ o.points[p.dev] = p.name /\ o.inst = p.inst

\* A group before the last one of its period is full, so a point that finds room is on no later one.
Sized(groups) ==
    /\ \A g \in 1 .. Len(groups) : Len(groups[g].objs) \in 1 .. GroupSize
    /\ \A g, h \in 1 .. Len(groups) : g < h /\ groups[g].dur = groups[h].dur => Len(groups[g].objs) = GroupSize

Sourced(id, groups, P) ==
    \A g \in 1 .. Len(groups) : \A n \in 1 .. Len(groups[g].objs) :
        LET o == groups[g].objs[n]
        IN DOMAIN o.points # {} /\ \A d \in DOMAIN o.points : \E p \in P : Source(p, id, groups[g].dur, o, d)

Separate(groups) ==
    \A g, h \in 1 .. Len(groups) : \A n \in 1 .. Len(groups[g].objs), m \in 1 .. Len(groups[h].objs) :
        groups[g].dur = groups[h].dur /\ groups[g].objs[n].inst = groups[h].objs[m].inst => g = h /\ n = m

Placed(groups, p) == \E g \in 1 .. Len(groups) : \E n \in 1 .. Len(groups[g].objs) : Lists(groups[g].objs[n], p)

\* The groups of the device id, when the points of P have been arranged.
GroupsOK(id, groups, P) ==
    /\ groups \in Seq(AnyGroup) /\ Sized(groups) /\ Sourced(id, groups, P) /\ Separate(groups)
    /\ \A p \in P : Bacnet!Wanted(p) /\ p.id = id => Placed(groups, p) \/ \E q \in P : Bacnet!Rival(p, q)

\* A set of points, of which those of a model device have different names.
Distinct(P) == P \subseteq Points /\ \A p, q \in P : p.dev = q.dev /\ p.name = q.name => p = q

LEMMA NoGroups == ASSUME NEW id PROVE GroupsOK(id, <<>>, {})
BY DEF GroupsOK, Sized, Sourced, Separate

LEMMA SamePlace ==
    ASSUME NEW groups, Separate(groups), NEW g \in 1 .. Len(groups), NEW h \in 1 .. Len(groups),
           NEW n \in 1 .. Len(groups[g].objs), NEW m \in 1 .. Len(groups[h].objs),
           groups[g].dur = groups[h].dur, groups[g].objs[n].inst = groups[h].objs[m].inst
    PROVE  g = h /\ n = m
BY DEF Separate

\* A point that is not arranged for the device changes nothing.
LEMMA OtherPoint ==
    ASSUME NEW id, NEW groups, NEW P, NEW p, GroupsOK(id, groups, P), ~Bacnet!Wanted(p) \/ p.id # id
    PROVE  GroupsOK(id, groups, P \cup {p})
<1>1. Sourced(id, groups, P \cup {p})
  BY DEF GroupsOK, Sourced
<1>2. ASSUME NEW q \in P \cup {p}, Bacnet!Wanted(q), q.id = id
      PROVE  Placed(groups, q) \/ \E r \in P \cup {p} : Bacnet!Rival(q, r)
  <2>1. q \in P
    BY <1>2
  <2> QED BY <1>2, <2>1 DEF GroupsOK
<1> QED BY <1>1, <1>2 DEF GroupsOK

LEMMA LeastNat ==
    ASSUME NEW S \in SUBSET Nat, S # {}
    PROVE  \E x \in S : \A y \in S : x <= y
<1>1. IsWellFoundedOn(OpToRel(<, Nat), Nat)
  BY NatLessThanWellFounded, Zenon
<1> DEFINE R == OpToRel(<, Nat)
<1>2. \A x, y \in Nat : y < x => <<y, x>> \in R
  BY DEF OpToRel
<1> HIDE DEF R
<1>3. PICK x \in S : \A y \in S : <<y, x>> \notin R
  BY <1>1, WFMin, Zenon DEF R
<1>4. \A y \in S : ~(y < x)
  <2> TAKE y \in S
  <2>1. x \in Nat /\ y \in Nat
    OBVIOUS
  <2> QED BY <1>2, <1>3, <2>1, Zenon
<1>5. \A y \in S : x <= y
  <2> TAKE y \in S
  <2>1. x \in Nat /\ y \in Nat /\ ~(y < x)
    BY <1>4
  <2> QED BY <2>1
<1> QED BY <1>3, <1>5, Zenon

LEMMA LeastOf ==
    ASSUME NEW n \in Nat, NEW S \in SUBSET (1 .. n), S # {}
    PROVE  Bacnet!Min(S) \in S /\ \A y \in S : Bacnet!Min(S) <= y
<1>1. S \in SUBSET Nat
  OBVIOUS
<1>2. \E x \in S : \A y \in S : x <= y
  BY <1>1, LeastNat
<1> QED BY <1>2 DEF Bacnet!Min

LEMMA ObjectTypes ==
    ASSUME NEW p \in Points
    PROVE  /\ Bacnet!Object(p) \in AnyObject
           /\ \A o \in AnyObject : Bacnet!Join(o, p) \in AnyObject
<1>1. Bacnet!Object(p) \in AnyObject
  <2>1. {p.dev} \in SUBSET {q.dev : q \in Points} /\ [d \in {p.dev} |-> p.name] \in [{p.dev} -> Names]
    BY DEF Names
  <2> QED BY <2>1 DEF Bacnet!Object, AnyObject
<1>2. ASSUME NEW o \in AnyObject PROVE Bacnet!Join(o, p) \in AnyObject
  <2>1. PICK D \in SUBSET {q.dev : q \in Points} : o.points \in [D -> Names]
    BY DEF AnyObject
  <2> DEFINE f == [d \in DOMAIN o.points \cup {p.dev} |-> IF d = p.dev THEN p.name ELSE o.points[d]]
  <2>2. D \cup {p.dev} \in SUBSET {q.dev : q \in Points} /\ f \in [D \cup {p.dev} -> Names]
    BY <2>1 DEF Names
  <2>3. f \in UNION {[E -> Names] : E \in SUBSET {q.dev : q \in Points}}
    BY <2>2
  <2>4. [o EXCEPT !.points = f] \in AnyObject
    <3> HIDE DEF f
    <3> QED BY <2>3 DEF AnyObject
  <2> QED BY <2>4 DEF Bacnet!Join
<1> QED BY <1>1, <1>2

\* How the groups with another point differ from those without: at object m of group g.
Same(groups, new, g, m) ==
    /\ g \in 1 .. Len(new) /\ m \in 1 .. Len(new[g].objs)
    /\ \A h \in 1 .. Len(new) : \A k \in 1 .. Len(new[h].objs) :
          h # g \/ k # m => /\ h \in 1 .. Len(groups) /\ k \in 1 .. Len(groups[h].objs)
                            /\ new[h].objs[k] = groups[h].objs[k]
    /\ \A h \in 1 .. Len(groups) : /\ h \in 1 .. Len(new) /\ new[h].dur = groups[h].dur
                                   /\ \A k \in 1 .. Len(groups[h].objs) : k \in 1 .. Len(new[h].objs)

IsNew(groups, new, p, g, m) ==
    /\ new[g].objs[m] = Bacnet!Object(p)
    /\ g \in 1 .. Len(groups) => m \notin 1 .. Len(groups[g].objs)
    /\ \A h \in 1 .. Len(groups) : \A k \in 1 .. Len(groups[h].objs) :
          groups[h].dur = Bacnet!DurationOf(p) => groups[h].objs[k].inst # p.inst

IsJoined(groups, new, p, g, m) ==
    /\ g \in 1 .. Len(groups) /\ m \in 1 .. Len(groups[g].objs) /\ groups[g].objs[m].inst = p.inst
    /\ new[g].objs[m] = Bacnet!Join(groups[g].objs[m], p)

PlacedAt(groups, new, p, g, m) ==
    /\ new \in Seq(AnyGroup) /\ Len(new) <= Len(groups) + 1 /\ Sized(new)
    /\ Same(groups, new, g, m) /\ new[g].dur = Bacnet!DurationOf(p)
    /\ IsNew(groups, new, p, g, m) \/ IsJoined(groups, new, p, g, m)

LEMMA PlaceWhere ==
    ASSUME NEW id, NEW groups, NEW P, GroupsOK(id, groups, P), NEW p \in Points
    PROVE  \E g, m : PlacedAt(groups, Bacnet!Place(groups, p), p, g, m)
<1> DEFINE takers == {g \in DOMAIN groups : Bacnet!Takes(groups[g], p)}
           new == Bacnet!Place(groups, p)
           dur == Bacnet!DurationOf(p)
<1>1. /\ groups \in Seq(AnyGroup) /\ Len(groups) \in Nat /\ DOMAIN groups = 1 .. Len(groups) /\ Sized(groups)
      /\ \A g \in 1 .. Len(groups) : /\ groups[g] \in AnyGroup /\ groups[g].objs \in Seq(AnyObject)
                                     /\ Len(groups[g].objs) \in Nat /\ groups[g].dur \in Int
                                     /\ DOMAIN groups[g].objs = 1 .. Len(groups[g].objs)
  <2>1. groups \in Seq(AnyGroup) /\ Sized(groups)
    BY DEF GroupsOK
  <2>2. \A g \in 1 .. Len(groups) : groups[g] \in AnyGroup
    BY <2>1
  <2>3. \A x \in AnyGroup : x.objs \in Seq(AnyObject) /\ x.dur \in Int
    BY DEF AnyGroup
  <2> QED BY <2>1, <2>2, <2>3
<1>2. dur \in Int /\ GroupSize \in Nat /\ GroupSize >= 1
  <2>1. PICK c \in Configs : \E i \in DOMAIN c : p = c[i]
    BY DEF Points
  <2>2. p.dur \in Int
    BY <2>1, BacnetAssumption
  <2> QED BY <2>2, BacnetAssumption DEF Bacnet!DurationOf
<1>3. Bacnet!Object(p) \in AnyObject /\ Bacnet!Object(p).inst = p.inst
  BY ObjectTypes DEF Bacnet!Object
<1>4. CASE takers = {}
  <2> DEFINE fresh == [dur |-> dur, objs |-> <<Bacnet!Object(p)>>]
  <2>1. new = Append(groups, fresh)
    BY <1>4 DEF Bacnet!Place
  <2>2. fresh \in AnyGroup /\ fresh.dur = dur /\ fresh.objs = <<Bacnet!Object(p)>> /\ Len(fresh.objs) = 1
    BY <1>2, <1>3 DEF AnyGroup
  <2> HIDE DEF fresh
  <2>3. /\ new \in Seq(AnyGroup) /\ Len(new) = Len(groups) + 1 /\ new[Len(groups) + 1] = fresh
        /\ \A h \in 1 .. Len(groups) : new[h] = groups[h]
    BY <1>1, <2>1, <2>2
  <2> HIDE DEF new
  <2>4. \A h \in 1 .. Len(groups) : groups[h].dur = dur =>
           /\ Len(groups[h].objs) = GroupSize
           /\ \A k \in 1 .. Len(groups[h].objs) : groups[h].objs[k].inst # p.inst
    <3> TAKE h \in 1 .. Len(groups)
    <3> HAVE groups[h].dur = dur
    <3>1. ~Bacnet!Takes(groups[h], p)
      BY <1>1, <1>4
    <3>2. Bacnet!SameInstance(groups[h], p) = {} /\ ~(Len(groups[h].objs) < GroupSize)
      BY <3>1 DEF Bacnet!Takes
    <3> QED BY <1>1, <1>2, <3>2 DEF Bacnet!SameInstance, Sized
  <2>5. Sized(new)
    <3>1. \A h \in 1 .. Len(new) : /\ h \in 1 .. Len(groups) => new[h] = groups[h]
                                   /\ h \notin 1 .. Len(groups) => h = Len(groups) + 1 /\ new[h] = fresh
      BY <1>1, <2>3
    <3>2. \A h \in 1 .. Len(new) : Len(new[h].objs) \in 1 .. GroupSize
      <4> TAKE h \in 1 .. Len(new)
      <4>1. CASE h \in 1 .. Len(groups)
        BY <1>1, <3>1, <4>1 DEF Sized
      <4>2. CASE h \notin 1 .. Len(groups)
        <5>1. Len(new[h].objs) = 1
          BY <2>2, <3>1, <4>2
        <5> QED BY <1>2, <5>1
      <4> QED BY <4>1, <4>2
    <3>3. ASSUME NEW h \in 1 .. Len(new), NEW l \in 1 .. Len(new), h < l, new[h].dur = new[l].dur
          PROVE  Len(new[h].objs) = GroupSize
      <4>1. h \in 1 .. Len(groups) /\ new[h] = groups[h]
        BY <1>1, <2>3, <3>1, <3>3
      <4>2. CASE l \in 1 .. Len(groups)
        BY <1>1, <3>1, <3>3, <4>1, <4>2 DEF Sized
      <4>3. CASE l \notin 1 .. Len(groups)
        BY <2>2, <2>4, <3>1, <3>3, <4>1, <4>3
      <4> QED BY <4>2, <4>3
    <3> QED BY <3>2, <3>3 DEF Sized
  <2>6. Same(groups, new, Len(groups) + 1, 1)
    <3>0. Len(groups) \in Nat /\ Len(new) = Len(groups) + 1
      BY <1>1, <2>3
    <3>1. \A h \in 1 .. Len(new) : h # Len(groups) + 1 => h \in 1 .. Len(groups) /\ new[h] = groups[h]
      <4>1. \A h \in 1 .. Len(new) : h # Len(groups) + 1 => h \in 1 .. Len(groups)
        BY <3>0
      <4> QED BY <2>3, <4>1
    <3>2. Len(groups) + 1 \in 1 .. Len(new) /\ 1 \in 1 .. Len(new[Len(groups) + 1].objs)
      <4>1. Len(new[Len(groups) + 1].objs) = 1
        BY <2>2, <2>3
      <4> QED BY <3>0, <4>1
    <3>3. \A k \in 1 .. Len(new[Len(groups) + 1].objs) : k = 1
      <4>1. Len(new[Len(groups) + 1].objs) = 1
        BY <2>2, <2>3
      <4> QED BY <4>1
    <3>4. \A h \in 1 .. Len(groups) : h \in 1 .. Len(new) /\ new[h] = groups[h]
      BY <1>1, <2>3
    <3>5. \A h \in 1 .. Len(new) : \A k \in 1 .. Len(new[h].objs) :
             h # Len(groups) + 1 \/ k # 1 => h \in 1 .. Len(groups) /\ new[h] = groups[h]
      BY <3>1, <3>3
    <3> QED BY <3>2, <3>4, <3>5 DEF Same
  <2>7. IsNew(groups, new, p, Len(groups) + 1, 1)
    BY <1>1, <2>2, <2>3, <2>4 DEF IsNew
  <2>8. PlacedAt(groups, new, p, Len(groups) + 1, 1)
    BY <1>1, <2>2, <2>3, <2>5, <2>6, <2>7 DEF PlacedAt
  <2> QED BY <2>8 DEF new
<1>5. CASE takers # {}
  <2> DEFINE g == Bacnet!Min(takers)
             same == Bacnet!SameInstance(groups[g], p)
  <2>1. takers \in SUBSET (1 .. Len(groups))
    BY <1>1
  <2>2. g \in takers /\ \A h \in takers : g <= h
    <3> HIDE DEF takers
    <3> QED BY <1>1, <1>5, <2>1, LeastOf
  <2>3. new = IF same = {} THEN [groups EXCEPT ![g].objs = Append(@, Bacnet!Object(p))]
              ELSE [groups EXCEPT ![g].objs[Bacnet!Min(same)] = Bacnet!Join(@, p)]
    BY <1>5 DEF Bacnet!Place
  <2>4. g \in 1 .. Len(groups) /\ Bacnet!Takes(groups[g], p)
    BY <1>1, <2>2
  <2>5. groups[g].dur = dur
    BY <2>4 DEF Bacnet!Takes
  <2>6. same \in SUBSET (1 .. Len(groups[g].objs)) /\ \A k \in same : groups[g].objs[k].inst = p.inst
    BY <1>1, <2>4 DEF Bacnet!SameInstance
  <2>7. CASE same = {}
    <3> DEFINE m == Len(groups[g].objs) + 1
    <3>1. Len(groups[g].objs) < GroupSize
      BY <2>4, <2>7 DEF Bacnet!Takes
    <3>2. new = [groups EXCEPT ![g].objs = Append(@, Bacnet!Object(p))]
      BY <2>3, <2>7
    <3>3. \A h \in 1 .. Len(groups) : groups[h].dur = dur =>
             \A k \in 1 .. Len(groups[h].objs) : groups[h].objs[k].inst # p.inst
      <4> TAKE h \in 1 .. Len(groups)
      <4> HAVE groups[h].dur = dur
      <4> TAKE k \in 1 .. Len(groups[h].objs)
      <4>1. SUFFICES ASSUME groups[h].objs[k].inst = p.inst PROVE FALSE
        OBVIOUS
      <4>2. k \in Bacnet!SameInstance(groups[h], p)
        BY <1>1, <4>1 DEF Bacnet!SameInstance
      <4>3. h \in takers
        BY <1>1, <4>2 DEF Bacnet!Takes
      <4>4. h # g
        BY <2>7, <4>2
      <4>5. g < h
        <5> HIDE DEF g, takers
        <5> QED BY <1>1, <2>1, <2>2, <2>4, <4>3, <4>4
      <4>6. Len(groups[g].objs) = GroupSize
        <5> HIDE DEF g, takers, same
        <5> QED BY <1>1, <2>4, <2>5, <4>5 DEF Sized
      <4> HIDE DEF g
      <4> QED BY <1>1, <1>2, <2>4, <3>1, <4>6
    <3> HIDE DEF g, takers, same, new
    <3>4. /\ new \in Seq(AnyGroup) /\ Len(new) = Len(groups)
          /\ \A h \in 1 .. Len(groups) : h # g => new[h] = groups[h]
          /\ new[g] = [groups[g] EXCEPT !.objs = Append(groups[g].objs, Bacnet!Object(p))]
      <4>1. Append(groups[g].objs, Bacnet!Object(p)) \in Seq(AnyObject)
        BY <1>1, <1>3, <2>4
      <4>2. [groups[g] EXCEPT !.objs = Append(groups[g].objs, Bacnet!Object(p))] \in AnyGroup
        BY <1>1, <2>4, <4>1 DEF AnyGroup
      <4> QED BY <1>1, <2>4, <3>2, <4>2
    <3>5. /\ new[g].dur = dur /\ new[g].objs = Append(groups[g].objs, Bacnet!Object(p))
          /\ Len(new[g].objs) = m /\ new[g].objs[m] = Bacnet!Object(p) /\ m \in Nat /\ m >= 1
          /\ \A k \in 1 .. Len(groups[g].objs) : new[g].objs[k] = groups[g].objs[k]
      <4>1. new[g].dur = dur /\ new[g].objs = Append(groups[g].objs, Bacnet!Object(p))
        BY <1>1, <2>4, <2>5, <3>4 DEF AnyGroup
      <4> QED BY <1>1, <1>3, <2>4, <4>1
    <3>6. Sized(new)
      <4>1. \A h \in 1 .. Len(new) : /\ new[h].dur = groups[h].dur /\ Len(new[h].objs) \in 1 .. GroupSize
                                     /\ h # g => Len(new[h].objs) = Len(groups[h].objs)
        <5> TAKE h \in 1 .. Len(new)
        <5>1. h \in 1 .. Len(groups) /\ Len(groups[h].objs) \in 1 .. GroupSize
          BY <1>1, <3>4 DEF Sized
        <5>2. CASE h = g
          BY <1>1, <1>2, <2>4, <2>5, <3>1, <3>5, <5>2
        <5>3. CASE h # g
          BY <3>4, <5>1, <5>3
        <5> QED BY <5>2, <5>3
      <4>2. ASSUME NEW h \in 1 .. Len(new), NEW l \in 1 .. Len(new), h < l, new[h].dur = new[l].dur
            PROVE  Len(new[h].objs) = GroupSize
        <5>1. Len(groups[h].objs) = GroupSize
          BY <1>1, <3>4, <4>1, <4>2 DEF Sized
        <5>2. h # g
          BY <1>1, <1>2, <2>4, <3>1, <5>1
        <5> QED BY <4>1, <5>1, <5>2
      <4> QED BY <4>1, <4>2 DEF Sized
    <3>7. Same(groups, new, g, m)
      <4>1. \A k \in 1 .. Len(new[g].objs) : k # m => k \in 1 .. Len(groups[g].objs)
        BY <1>1, <2>4, <3>5
      <4>2. \A k \in 1 .. Len(groups[g].objs) : k \in 1 .. Len(new[g].objs)
        BY <1>1, <2>4, <3>5
      <4>3. g \in 1 .. Len(new) /\ m \in 1 .. Len(new[g].objs)
        BY <1>1, <2>4, <3>4, <3>5
      <4> HIDE DEF m
      <4> QED BY <1>1, <2>4, <2>5, <3>4, <3>5, <4>1, <4>2, <4>3 DEF Same
    <3>8. IsNew(groups, new, p, g, m)
      BY <1>1, <2>4, <3>3, <3>5 DEF IsNew
    <3>9. PlacedAt(groups, new, p, g, m)
      BY <1>1, <3>4, <3>5, <3>6, <3>7, <3>8 DEF PlacedAt
    <3> QED BY <3>9 DEF new
  <2>8. CASE same # {}
    <3> DEFINE m == Bacnet!Min(same)
               joined == Bacnet!Join(groups[g].objs[m], p)
    <3>1. m \in same
      <4> HIDE DEF same, g
      <4> QED BY <1>1, <2>4, <2>6, <2>8, LeastOf
    <3>2. new = [groups EXCEPT ![g].objs[m] = Bacnet!Join(@, p)]
      BY <2>3, <2>8
    <3> HIDE DEF m, g, takers, same, new
    <3>3. m \in 1 .. Len(groups[g].objs) /\ groups[g].objs[m].inst = p.inst /\ groups[g].objs[m] \in AnyObject
      BY <1>1, <2>4, <2>6, <3>1
    <3>4. joined \in AnyObject
      BY <3>3, ObjectTypes
    <3> DEFINE objs == [groups[g].objs EXCEPT ![m] = joined]
    <3>5. /\ objs \in Seq(AnyObject) /\ Len(objs) = Len(groups[g].objs) /\ objs[m] = joined
          /\ \A k \in 1 .. Len(groups[g].objs) : k # m => objs[k] = groups[g].objs[k]
      <4> HIDE DEF joined
      <4> QED BY <1>1, <2>4, <3>3, <3>4
    <3>6. new = [groups EXCEPT ![g] = [groups[g] EXCEPT !.objs = objs]]
      BY <3>2
    <3> HIDE DEF joined, objs
    <3>7. /\ new \in Seq(AnyGroup) /\ Len(new) = Len(groups)
          /\ \A h \in 1 .. Len(groups) : h # g => new[h] = groups[h]
          /\ new[g].dur = dur /\ new[g].objs = objs
      <4>1. [groups[g] EXCEPT !.objs = objs] \in AnyGroup
        BY <1>1, <2>4, <3>5 DEF AnyGroup
      <4>2. /\ [groups[g] EXCEPT !.objs = objs].dur = groups[g].dur
            /\ [groups[g] EXCEPT !.objs = objs].objs = objs
        BY <1>1, <2>4 DEF AnyGroup
      <4> QED BY <1>1, <2>4, <2>5, <3>6, <4>1, <4>2
    <3>8. Sized(new)
      <4>1. \A h \in 1 .. Len(new) : new[h].dur = groups[h].dur /\ Len(new[h].objs) = Len(groups[h].objs)
        BY <1>1, <2>4, <2>5, <3>5, <3>7
      <4> QED BY <1>1, <3>7, <4>1 DEF Sized
    <3>9. Same(groups, new, g, m)
      BY <1>1, <2>4, <2>5, <3>3, <3>5, <3>7 DEF Same
    <3>10. IsJoined(groups, new, p, g, m)
      BY <2>4, <3>3, <3>5, <3>7 DEF IsJoined, joined
    <3>11. PlacedAt(groups, new, p, g, m)
      BY <1>1, <3>7, <3>8, <3>9, <3>10 DEF PlacedAt
    <3> QED BY <3>11 DEF new
  <2> QED BY <2>7, <2>8
<1> QED BY <1>4, <1>5

\* The lemma about one point: the groups stay in order, and no point falls out of them but for a
\* rival that takes its place.
LEMMA PointPlaced ==
    ASSUME NEW id, NEW groups, NEW P, GroupsOK(id, groups, P), NEW p \in Points, Distinct(P \cup {p}),
           Bacnet!Wanted(p), p.id = id
    PROVE  /\ GroupsOK(id, Bacnet!Place(groups, p), P \cup {p})
           /\ Len(Bacnet!Place(groups, p)) <= Len(groups) + 1
<1> DEFINE new == Bacnet!Place(groups, p)
           Q == P \cup {p}
           dur == Bacnet!DurationOf(p)
<1>1. PICK g, m : PlacedAt(groups, new, p, g, m)
  BY PlaceWhere
<1> HIDE DEF new
<1>2. /\ new \in Seq(AnyGroup) /\ Len(new) <= Len(groups) + 1 /\ Sized(new) /\ Same(groups, new, g, m)
      /\ new[g].dur = dur /\ g \in 1 .. Len(new) /\ m \in 1 .. Len(new[g].objs)
  BY <1>1 DEF PlacedAt, Same
<1>3. \A h \in 1 .. Len(new) : \A k \in 1 .. Len(new[h].objs) :
         h # g \/ k # m => /\ h \in 1 .. Len(groups) /\ k \in 1 .. Len(groups[h].objs)
                           /\ new[h].objs[k] = groups[h].objs[k] /\ new[h].dur = groups[h].dur
  BY <1>2 DEF Same
<1>4. \A h \in 1 .. Len(groups) : \A k \in 1 .. Len(groups[h].objs) :
         h \in 1 .. Len(new) /\ k \in 1 .. Len(new[h].objs) /\ new[h].dur = groups[h].dur
  BY <1>2 DEF Same
<1> DEFINE o == new[g].objs[m]
<1>5. \/ IsNew(groups, new, p, g, m)
      \/ IsJoined(groups, new, p, g, m)
  BY <1>1 DEF PlacedAt
<1>6. ASSUME IsJoined(groups, new, p, g, m)
      PROVE  LET old == groups[g].objs[m]
             IN /\ g \in 1 .. Len(groups) /\ m \in 1 .. Len(groups[g].objs)
                /\ o.inst = p.inst /\ o.inst = old.inst /\ o.type = old.type /\ groups[g].dur = dur
                /\ IF old.type # p.type THEN o = old
                   ELSE /\ DOMAIN o.points = DOMAIN old.points \cup {p.dev} /\ o.points[p.dev] = p.name
                        /\ \A d \in DOMAIN old.points : d # p.dev => o.points[d] = old.points[d]
  <2> DEFINE old == groups[g].objs[m]
  <2>1. /\ g \in 1 .. Len(groups) /\ m \in 1 .. Len(groups[g].objs) /\ old.inst = p.inst
        /\ o = Bacnet!Join(old, p)
    BY <1>6 DEF IsJoined
  <2>2. groups[g].dur = dur
    BY <1>2, <1>4, <2>1
  <2>3. old \in AnyObject
    <3>1. groups[g] \in AnyGroup
      BY <2>1 DEF GroupsOK
    <3>2. groups[g].objs \in Seq(AnyObject)
      BY <3>1 DEF AnyGroup
    <3> QED BY <2>1, <3>2
  <2> HIDE DEF o, old
  <2>4. CASE old.type # p.type
    BY <2>1, <2>2, <2>4 DEF Bacnet!Join, old
  <2>5. CASE old.type = p.type
    <3>1. o = [old EXCEPT !.points = [d \in DOMAIN old.points \cup {p.dev} |->
                                        IF d = p.dev THEN p.name ELSE old.points[d]]]
      BY <2>1, <2>5 DEF Bacnet!Join
    <3>2. /\ o.inst = old.inst /\ o.type = old.type
          /\ o.points = [d \in DOMAIN old.points \cup {p.dev} |-> IF d = p.dev THEN p.name ELSE old.points[d]]
      BY <2>3, <3>1 DEF AnyObject
    <3> QED BY <2>1, <2>2, <2>5, <3>2 DEF old
  <2> QED BY <2>4, <2>5 DEF o, old
<1>7. ASSUME IsNew(groups, new, p, g, m)
      PROVE  /\ o.type = p.type /\ o.inst = p.inst /\ DOMAIN o.points = {p.dev} /\ o.points[p.dev] = p.name
             /\ \A h \in 1 .. Len(groups) : \A k \in 1 .. Len(groups[h].objs) :
                   /\ groups[h].dur = dur => groups[h].objs[k].inst # p.inst
                   /\ h # g \/ k # m
  BY <1>7 DEF IsNew, Bacnet!Object
<1> HIDE DEF o
<1>8. Sourced(id, new, Q)
  <2> SUFFICES ASSUME NEW h \in 1 .. Len(new), NEW k \in 1 .. Len(new[h].objs)
               PROVE  /\ DOMAIN new[h].objs[k].points # {}
                      /\ \A d \in DOMAIN new[h].objs[k].points :
                            \E q \in Q : Source(q, id, new[h].dur, new[h].objs[k], d)
    BY DEF Sourced
  <2>1. CASE h # g \/ k # m
    <3>1. /\ h \in 1 .. Len(groups) /\ k \in 1 .. Len(groups[h].objs)
          /\ new[h].objs[k] = groups[h].objs[k] /\ new[h].dur = groups[h].dur
      BY <1>3, <2>1
    <3>2. /\ DOMAIN groups[h].objs[k].points # {}
          /\ \A d \in DOMAIN groups[h].objs[k].points :
                \E q \in P : Source(q, id, groups[h].dur, groups[h].objs[k], d)
      BY <3>1 DEF GroupsOK, Sourced
    <3> QED BY <3>1, <3>2
  <2>2. CASE h = g /\ k = m
    <3>1. DOMAIN o.points # {} /\ \A d \in DOMAIN o.points : \E q \in Q : Source(q, id, dur, o, d)
      <4>1. CASE IsNew(groups, new, p, g, m)
        BY <1>7, <4>1 DEF Source
      <4>2. CASE IsJoined(groups, new, p, g, m)
        <5> DEFINE old == groups[g].objs[m]
        <5>1. /\ DOMAIN old.points # {}
              /\ \A d \in DOMAIN old.points : \E q \in P : Source(q, id, dur, old, d)
          BY <1>6, <4>2 DEF GroupsOK, Sourced
        <5>2. CASE old.type # p.type
          BY <1>6, <4>2, <5>1, <5>2
        <5>3. CASE old.type = p.type
          <6>1. /\ DOMAIN o.points = DOMAIN old.points \cup {p.dev} /\ o.points[p.dev] = p.name
                /\ \A d \in DOMAIN old.points : d # p.dev => o.points[d] = old.points[d]
                /\ o.inst = p.inst /\ o.inst = old.inst /\ o.type = old.type
            BY <1>6, <4>2, <5>3
          <6>2. Source(p, id, dur, o, p.dev)
            BY <5>3, <6>1 DEF Source
          <6>3. ASSUME NEW d \in DOMAIN old.points, d # p.dev
                PROVE  \E q \in P : Source(q, id, dur, o, d)
            <7>1. PICK q \in P : Source(q, id, dur, old, d)
              BY <5>1
            <7>2. Source(q, id, dur, o, d)
              BY <6>1, <6>3, <7>1 DEF Source
            <7> QED BY <7>2
          <6> QED BY <6>1, <6>2, <6>3
        <5> QED BY <5>2, <5>3
      <4> QED BY <1>5, <4>1, <4>2
    <3> QED BY <1>2, <2>2, <3>1 DEF o
  <2> QED BY <2>1, <2>2
<1>9. Separate(new)
  <2>1. \A h \in 1 .. Len(new) : \A k \in 1 .. Len(new[h].objs) :
           (h # g \/ k # m) /\ new[h].dur = dur => new[h].objs[k].inst # p.inst
    <3> SUFFICES ASSUME NEW h \in 1 .. Len(new), NEW k \in 1 .. Len(new[h].objs), h # g \/ k # m, new[h].dur = dur,
                        new[h].objs[k].inst = p.inst
                 PROVE  FALSE
      OBVIOUS
    <3>1. /\ h \in 1 .. Len(groups) /\ k \in 1 .. Len(groups[h].objs)
          /\ groups[h].objs[k].inst = p.inst /\ groups[h].dur = dur
      BY <1>3
    <3>2. CASE IsNew(groups, new, p, g, m)
      BY <1>7, <3>1, <3>2
    <3>3. CASE IsJoined(groups, new, p, g, m)
      <4>1. g \in 1 .. Len(groups) /\ m \in 1 .. Len(groups[g].objs) /\ groups[g].dur = dur
            /\ groups[g].objs[m].inst = p.inst
        BY <1>6, <3>3
      <4> QED BY <3>1, <4>1 DEF GroupsOK, Separate
    <3> QED BY <1>5, <3>2, <3>3
  <2>2. o.inst = p.inst
    BY <1>5, <1>6, <1>7
  <2> SUFFICES ASSUME NEW h \in 1 .. Len(new), NEW l \in 1 .. Len(new),
                      NEW k \in 1 .. Len(new[h].objs), NEW j \in 1 .. Len(new[l].objs),
                      new[h].dur = new[l].dur, new[h].objs[k].inst = new[l].objs[j].inst
               PROVE  h = l /\ k = j
    BY DEF Separate
  <2>3. CASE h = g /\ k = m
    BY <1>2, <2>1, <2>2, <2>3 DEF o
  <2>4. CASE l = g /\ j = m
    BY <1>2, <2>1, <2>2, <2>4 DEF o
  <2>5. CASE (h # g \/ k # m) /\ (l # g \/ j # m)
    <3>1. /\ h \in 1 .. Len(groups) /\ k \in 1 .. Len(groups[h].objs)
          /\ new[h].objs[k] = groups[h].objs[k] /\ new[h].dur = groups[h].dur
      BY <1>3, <2>5
    <3>2. /\ l \in 1 .. Len(groups) /\ j \in 1 .. Len(groups[l].objs)
          /\ new[l].objs[j] = groups[l].objs[j] /\ new[l].dur = groups[l].dur
      BY <1>3, <2>5
    <3>3. Separate(groups)
      BY DEF GroupsOK
    <3>4. groups[h].dur = groups[l].dur /\ groups[h].objs[k].inst = groups[l].objs[j].inst
      BY <3>1, <3>2
    <3> QED BY <3>1, <3>2, <3>3, <3>4, SamePlace
  <2> QED BY <2>3, <2>4, <2>5
<1>10. ASSUME NEW q \in Q, Bacnet!Wanted(q), q.id = id
       PROVE  Placed(new, q) \/ \E r \in Q : Bacnet!Rival(q, r)
  <2>1. CASE q = p
    <3>1. CASE Lists(o, p)
      BY <1>2, <2>1, <3>1 DEF Placed, o
    <3>2. CASE ~Lists(o, p)
      <4>1. IsJoined(groups, new, p, g, m)
        BY <1>5, <1>7, <3>2 DEF Lists
      <4> DEFINE old == groups[g].objs[m]
      <4>2. old.type # p.type /\ old.inst = p.inst /\ g \in 1 .. Len(groups) /\ m \in 1 .. Len(groups[g].objs)
            /\ groups[g].dur = dur
        BY <1>6, <3>2, <4>1 DEF Lists
      <4>3. PICK d \in DOMAIN old.points : \E r \in P : Source(r, id, dur, old, d)
        BY <4>2 DEF GroupsOK, Sourced
      <4>4. PICK r \in P : Source(r, id, dur, old, d)
        BY <4>3
      <4>5. Bacnet!Rival(p, r)
        BY <4>2, <4>4 DEF Bacnet!Rival, Source
      <4> QED BY <2>1, <4>5
    <3> QED BY <3>1, <3>2
  <2>2. CASE q # p
    <3>1. q \in P
      BY <2>2
    <3>2. CASE \E r \in P : Bacnet!Rival(q, r)
      BY <3>2
    <3>3. CASE Placed(groups, q)
      <4>0. PICK h \in 1 .. Len(groups) : \E k \in 1 .. Len(groups[h].objs) : Lists(groups[h].objs[k], q)
        BY <3>3 DEF Placed
      <4>1. PICK k \in 1 .. Len(groups[h].objs) : Lists(groups[h].objs[k], q)
        BY <4>0
      <4>2. h \in 1 .. Len(new) /\ k \in 1 .. Len(new[h].objs) /\ new[h].dur = groups[h].dur
        BY <1>4
      <4>3. CASE h # g \/ k # m
        BY <1>3, <4>1, <4>2, <4>3 DEF Placed
      <4>4. CASE h = g /\ k = m
        <5>1. IsJoined(groups, new, p, g, m)
          BY <1>5, <1>7, <4>4
        <5> DEFINE old == groups[g].objs[m]
        <5>2. Lists(old, q)
          BY <4>1, <4>4
        <5>3. CASE old.type # p.type \/ q.dev # p.dev
          <6>1. Lists(o, q)
            BY <1>6, <5>1, <5>2, <5>3 DEF Lists
          <6> QED BY <1>2, <6>1 DEF Placed, o
        <5>4. CASE old.type = p.type /\ q.dev = p.dev
          <6>1. PICK r \in P : Source(r, id, dur, old, q.dev)
            BY <1>6, <5>1, <5>2 DEF GroupsOK, Sourced, Lists
          <6>2. r = q
            BY <3>1, <5>2, <6>1 DEF Distinct, Source, Lists
          <6>3. Bacnet!Rival(q, p)
            BY <2>2, <5>4, <6>1, <6>2, <1>6, <5>1 DEF Bacnet!Rival, Source
          <6> QED BY <6>3
        <5> QED BY <5>3, <5>4
      <4> QED BY <4>3, <4>4
    <3> QED BY <1>10, <3>1, <3>2, <3>3 DEF GroupsOK
  <2> QED BY <2>1, <2>2
<1> QED BY <1>2, <1>8, <1>9, <1>10 DEF GroupsOK, new

-----------------------------------------------------------------------------
Ids == {p.id : p \in Points}

Arranged == {config[i] : i \in 1 .. Len(config) - Len(todo)}

\* The points that have been arranged are in the groups of their devices, until the process ends.
ArrangeInv ==
    /\ config \in Configs /\ alive \in BOOLEAN
    /\ todo \in Seq(Points) /\ Len(todo) <= Len(config)
    /\ \A i \in 1 .. Len(todo) : todo[i] = config[Len(config) - Len(todo) + i]
    /\ stage = "run" => todo = <<>>
    /\ stage = "run" \/ alive =>
          /\ DOMAIN devices \subseteq Ids
          /\ \A id \in Ids : /\ GroupsOK(id, Bacnet!GroupsOf(id), Arranged)
                             /\ Len(Bacnet!GroupsOf(id)) <= Len(config) - Len(todo)

LEMMA ConfigFacts ==
    ASSUME NEW c \in Configs
    PROVE  c \in Seq(Points) /\ \A i, j \in 1 .. Len(c) : c[i].dev = c[j].dev /\ c[i].name = c[j].name => c[i] = c[j]
<1>1. c \in Seq({c[i] : i \in DOMAIN c}) /\ {c[i] : i \in DOMAIN c} \subseteq Points
  BY BacnetAssumption DEF Points
<1>2. c \in Seq(Points) /\ DOMAIN c = 1 .. Len(c)
  BY <1>1
<1> QED BY <1>2, BacnetAssumption

LEMMA ArrangeInit == Bacnet!Init => ArrangeInv
<1> SUFFICES ASSUME Bacnet!Init PROVE ArrangeInv
  OBVIOUS
<1>1. /\ config \in Configs /\ alive = TRUE /\ todo = config /\ devices = <<>> /\ stage = "new"
  BY DEF Bacnet!Init
<1>2. config \in Seq(Points) /\ Len(config) \in Nat
  BY <1>1, ConfigFacts
<1>3. Arranged = {}
  BY <1>1, <1>2 DEF Arranged
<1>4. \A id : Bacnet!GroupsOf(id) = <<>>
  BY <1>1 DEF Bacnet!GroupsOf
<1> QED BY <1>1, <1>2, <1>3, <1>4, NoGroups DEF ArrangeInv

LEMMA AddPointArranges == ArrangeInv /\ Bacnet!AddPoint => ArrangeInv'
<1> SUFFICES ASSUME ArrangeInv, Bacnet!AddPoint PROVE ArrangeInv'
  OBVIOUS
<1> DEFINE p == Head(todo)
           n == Len(config) - Len(todo)
<1>1. /\ config \in Configs /\ alive /\ todo \in Seq(Points) /\ Len(todo) <= Len(config) /\ todo # <<>>
      /\ \A i \in 1 .. Len(todo) : todo[i] = config[n + i]
      /\ todo' = Tail(todo) /\ stage = "init" /\ UNCHANGED <<config, stage>>
  BY DEF ArrangeInv, Bacnet!AddPoint
<1>2. config \in Seq(Points) /\ \A i, j \in 1 .. Len(config) : config[i].dev = config[j].dev /\ config[i].name = config[j].name
                                                               => config[i] = config[j]
  BY <1>1, ConfigFacts
<1>3. Len(config) \in Nat /\ Len(todo) \in Nat /\ Len(todo) >= 1 /\ Len(todo') = Len(todo) - 1 /\ n \in Nat
  BY <1>1, <1>2
<1>4. todo' \in Seq(Points) /\ \A i \in 1 .. Len(todo') : todo'[i] = todo[i + 1]
  BY <1>1
<1>5. p = config[n + 1] /\ p \in Points /\ n + 1 \in 1 .. Len(config)
  <2>1. p = todo[1] /\ 1 \in 1 .. Len(todo)
    BY <1>1, <1>3
  <2> HIDE DEF p
  <2> QED BY <1>1, <1>3, <2>1
<1>6. Arranged' = Arranged \cup {p} /\ Len(config') - Len(todo') = n + 1
  <2>1. Len(config') - Len(todo') = n + 1
    BY <1>1, <1>3
  <2>2. 1 .. n + 1 = (1 .. n) \cup {n + 1}
    BY <1>3
  <2> HIDE DEF p, n
  <2>3. Arranged' = {config[i] : i \in 1 .. n + 1}
    BY <1>1, <2>1 DEF Arranged
  <2>4. Arranged = {config[i] : i \in 1 .. n}
    BY DEF Arranged, n
  <2> QED BY <1>5, <2>1, <2>2, <2>3, <2>4
<1>7. Distinct(Arranged \cup {p})
  <2>1. \A q \in Arranged \cup {p} : \E i \in 1 .. Len(config) : q = config[i]
    BY <1>3, <1>5 DEF Arranged
  <2>2. \A i \in 1 .. Len(config) : config[i] \in Points
    BY <1>2
  <2> DEFINE S == Arranged \cup {p}
  <2>3. S \subseteq Points
    BY <2>1, <2>2
  <2> HIDE DEF p, S
  <2>4. ASSUME NEW q \in S, NEW r \in S, q.dev = r.dev, q.name = r.name PROVE q = r
    <3>1. PICK i \in 1 .. Len(config) : q = config[i]
      BY <2>1 DEF S
    <3>2. PICK j \in 1 .. Len(config) : r = config[j]
      BY <2>1 DEF S
    <3> QED BY <1>2, <2>4, <3>1, <3>2
  <2> QED BY <2>3, <2>4 DEF Distinct, S
<1>8. \A i \in 1 .. Len(todo') : todo'[i] = config'[Len(config') - Len(todo') + i]
  <2> TAKE i \in 1 .. Len(todo')
  <2>1. i + 1 \in 1 .. Len(todo) /\ n + (i + 1) = n + 1 + i
    BY <1>3
  <2>2. todo[i + 1] = config[n + (i + 1)]
    BY <1>1, <2>1
  <2> QED BY <1>1, <1>4, <1>6, <2>1, <2>2
<1>9. alive' \in BOOLEAN
  BY DEF Bacnet!AddPoint
<1>10. ASSUME alive'
       PROVE  /\ DOMAIN devices' \subseteq Ids
              /\ \A id \in Ids : /\ GroupsOK(id, Bacnet!GroupsOf(id)', Arranged \cup {p})
                                 /\ Len(Bacnet!GroupsOf(id)') <= n + 1
  <2>1. /\ DOMAIN devices \subseteq Ids
        /\ \A id \in Ids : GroupsOK(id, Bacnet!GroupsOf(id), Arranged) /\ Len(Bacnet!GroupsOf(id)) <= n
    BY <1>1 DEF ArrangeInv
  <2>2. \A id \in Ids : Len(Bacnet!GroupsOf(id)) \in Nat
    BY <2>1 DEF GroupsOK
  <2>3. CASE Bacnet!Wanted(p)
    <3>1. devices' = [id \in DOMAIN devices \cup {p.id} |->
                         IF id = p.id THEN Bacnet!Place(Bacnet!GroupsOf(id), p) ELSE devices[id]]
      <4>1. p.id \in DOMAIN devices \/ p.addr
        BY <1>10, <2>3 DEF Bacnet!AddPoint
      <4> QED BY <2>3, <4>1 DEF Bacnet!AddPoint
    <3> HIDE DEF p, n
    <3>2. p.id \in Ids
      BY <1>5 DEF Ids
    <3>3. DOMAIN devices' = DOMAIN devices \cup {p.id}
      BY <3>1
    <3>4. ASSUME NEW id \in Ids
          PROVE  GroupsOK(id, Bacnet!GroupsOf(id)', Arranged \cup {p}) /\ Len(Bacnet!GroupsOf(id)') <= n + 1
      <4>1. CASE id = p.id
        <5>1. Bacnet!GroupsOf(id)' = Bacnet!Place(Bacnet!GroupsOf(id), p)
          BY <3>1, <4>1 DEF Bacnet!GroupsOf
        <5>2. /\ GroupsOK(id, Bacnet!Place(Bacnet!GroupsOf(id), p), Arranged \cup {p})
              /\ Len(Bacnet!Place(Bacnet!GroupsOf(id), p)) <= Len(Bacnet!GroupsOf(id)) + 1
          BY <1>5, <1>7, <2>1, <2>3, <4>1, PointPlaced
        <5>3. Len(Bacnet!Place(Bacnet!GroupsOf(id), p)) \in Nat
          BY <5>2 DEF GroupsOK
        <5> QED BY <1>3, <2>1, <2>2, <5>1, <5>2, <5>3 DEF n
      <4>2. CASE id # p.id
        <5>1. Bacnet!GroupsOf(id)' = Bacnet!GroupsOf(id)
          BY <3>1, <4>2 DEF Bacnet!GroupsOf
        <5>2. GroupsOK(id, Bacnet!GroupsOf(id), Arranged \cup {p})
          BY <2>1, <4>2, OtherPoint
        <5> QED BY <1>3, <2>1, <2>2, <5>1, <5>2 DEF n
      <4> QED BY <4>1, <4>2
    <3> QED BY <2>1, <3>2, <3>3, <3>4
  <2>4. CASE ~Bacnet!Wanted(p)
    <3>1. devices' = devices
      BY <2>4 DEF Bacnet!AddPoint
    <3>2. \A id : Bacnet!GroupsOf(id)' = Bacnet!GroupsOf(id)
      BY <3>1 DEF Bacnet!GroupsOf
    <3> HIDE DEF p, n
    <3>3. \A id \in Ids : GroupsOK(id, Bacnet!GroupsOf(id), Arranged \cup {p})
      BY <2>1, <2>4, OtherPoint
    <3>4. \A id \in Ids : Len(Bacnet!GroupsOf(id)) <= n + 1
      BY <1>3, <2>1, <2>2 DEF n
    <3> QED BY <2>1, <3>1, <3>2, <3>3, <3>4
  <2> QED BY <2>3, <2>4
<1> HIDE DEF p, n
<1>11. stage' # "run" /\ Len(todo') <= Len(config')
  BY <1>1, <1>3
<1> QED BY <1>1, <1>4, <1>6, <1>8, <1>9, <1>10, <1>11 DEF ArrangeInv

\* Nothing else arranges points.
LEMMA ArrangeStep == ArrangeInv /\ [Bacnet!Next]_bacnetVars => ArrangeInv'
<1> SUFFICES ASSUME ArrangeInv, [Bacnet!Next]_bacnetVars PROVE ArrangeInv'
  OBVIOUS
<1>1. CASE Bacnet!AddPoint
  BY <1>1, AddPointArranges
<1>2. CASE /\ UNCHANGED <<config, todo, devices>> /\ alive' \in BOOLEAN
           /\ stage' = "run" => todo = <<>>
           /\ stage' = "run" \/ alive' => stage = "run" \/ alive
  <2>1. Arranged' = Arranged /\ \A id : Bacnet!GroupsOf(id)' = Bacnet!GroupsOf(id)
    BY <1>2 DEF Arranged, Bacnet!GroupsOf
  <2> QED BY <1>2, <2>1 DEF ArrangeInv
<1>3. alive \in BOOLEAN /\ (stage = "run" => todo = <<>>)
  BY DEF ArrangeInv
<1>4. CASE Bacnet!InitConnector \/ Bacnet!StartTask
  BY <1>2, <1>3, <1>4 DEF Bacnet!InitConnector, Bacnet!StartTask
<1>5. CASE Bacnet!Answer
  BY <1>2, <1>3, <1>5 DEF Bacnet!Answer, Bacnet!Running, Bacnet!setup
<1>6. CASE \/ Bacnet!JobBegin \/ Bacnet!NextDevice \/ Bacnet!NextGroup \/ Bacnet!JobEnd \/ Bacnet!Pass
           \/ Bacnet!Command \/ Bacnet!PreOp \/ Bacnet!Transform \/ Bacnet!Encoded \/ Bacnet!Send \/ Bacnet!Close
  <2>1. UNCHANGED <<Bacnet!setup, alive>>
    BY <1>6 DEF Bacnet!JobBegin, Bacnet!NextDevice, Bacnet!NextGroup, Bacnet!JobEnd, Bacnet!Pass, Bacnet!Command,
       Bacnet!PreOp, Bacnet!Transform, Bacnet!Encoded, Bacnet!Send, Bacnet!Close
  <2> QED BY <1>2, <1>3, <2>1 DEF Bacnet!setup
<1>7. CASE UNCHANGED bacnetVars
  BY <1>2, <1>3, <1>7 DEF bacnetVars
<1> QED BY <1>1, <1>4, <1>5, <1>6, <1>7 DEF Bacnet!Next

\* Object n of group g shows points that it is read for, and is the only one of its instance and period.
Filled(id, groups, g, n, P) ==
    /\ \A d \in DOMAIN groups[g].objs[n].points : \E p \in P : Source(p, id, groups[g].dur, groups[g].objs[n], d)
    /\ \A h \in DOMAIN groups : \A m \in DOMAIN groups[h].objs :
          groups[h].dur = groups[g].dur /\ groups[h].objs[m].inst = groups[g].objs[n].inst => h = g /\ m = n

LEMMA ArrangedIsHeld == ArrangeInv => Bacnet!GroupsHoldPoints
<1> SUFFICES ASSUME ArrangeInv, stage = "run" PROVE Bacnet!GroupsHoldPoints
  BY DEF Bacnet!GroupsHoldPoints
<1> DEFINE P == Bacnet!Elements(config)
<1>1. config \in Configs /\ todo = <<>> /\ DOMAIN devices \subseteq Ids
  BY DEF ArrangeInv
<1>2. config \in Seq(Points) /\ \A i, j \in 1 .. Len(config) : config[i].dev = config[j].dev /\ config[i].name = config[j].name
                                                               => config[i] = config[j]
  BY <1>1, ConfigFacts
<1>3. Len(config) \in Nat /\ DOMAIN config = 1 .. Len(config) /\ Len(todo) = 0
  BY <1>1, <1>2
<1>4. P = Arranged /\ Distinct(P)
  <2>1. P = {config[i] : i \in 1 .. Len(config)}
    BY <1>3 DEF Bacnet!Elements
  <2>2. Len(config) - Len(todo) = Len(config)
    BY <1>3
  <2> HIDE DEF P
  <2> QED BY <1>2, <2>1, <2>2 DEF Arranged, Distinct
<1> HIDE DEF P
<1>5. \A id \in Ids : GroupsOK(id, Bacnet!GroupsOf(id), P) /\ Len(Bacnet!GroupsOf(id)) <= Len(config)
  BY <1>3, <1>4 DEF ArrangeInv
<1>6. ASSUME NEW p \in P, Bacnet!Wanted(p)
      PROVE  \/ \E place \in Bacnet!PlacesOf(p) : Bacnet!PlacesOf(p) = {place}
             \/ Bacnet!PlacesOf(p) = {} /\ \E q \in P : Bacnet!Rival(p, q)
  <2> DEFINE groups == Bacnet!GroupsOf(p.id)
  <2>1. p \in Points /\ p.id \in Ids
    BY <1>4 DEF Distinct, Ids
  <2>2. GroupsOK(p.id, groups, P) /\ Len(groups) <= Len(config)
    BY <1>5, <2>1
  <2> HIDE DEF groups
  <2>3. /\ Len(groups) \in Nat /\ DOMAIN groups = 1 .. Len(groups)
        /\ \A g \in 1 .. Len(groups) : /\ DOMAIN groups[g].objs = 1 .. Len(groups[g].objs)
                                       /\ Len(groups[g].objs) \in 1 .. GroupSize
    <3>1. groups \in Seq(AnyGroup) /\ Sized(groups)
      BY <2>2 DEF GroupsOK
    <3>2. \A x \in AnyGroup : x.objs \in Seq(AnyObject)
      BY DEF AnyGroup
    <3> QED BY <3>1, <3>2 DEF Sized
  <2>4. \A g, n : Bacnet!ListedAt(p, g, n) <=> /\ g \in 1 .. Len(groups) /\ n \in 1 .. Len(groups[g].objs)
                                               /\ Lists(groups[g].objs[n], p)
    BY <2>3 DEF Bacnet!ListedAt, Lists, groups
  <2>5. ASSUME NEW g, NEW n, Bacnet!ListedAt(p, g, n) PROVE groups[g].dur = Bacnet!DurationOf(p)
    <3>1. g \in 1 .. Len(groups) /\ n \in 1 .. Len(groups[g].objs) /\ Lists(groups[g].objs[n], p)
      BY <2>4, <2>5
    <3>2. PICK q \in P : Source(q, p.id, groups[g].dur, groups[g].objs[n], p.dev)
      BY <2>2, <3>1 DEF GroupsOK, Sourced, Lists
    <3>3. q = p
      BY <1>4, <3>1, <3>2 DEF Distinct, Source, Lists
    <3> QED BY <3>2, <3>3 DEF Source
  <2>6. ASSUME NEW g, NEW n, NEW h, NEW m, Bacnet!ListedAt(p, g, n), Bacnet!ListedAt(p, h, m)
        PROVE  g = h /\ n = m
    <3>1. groups[g].dur = groups[h].dur
      BY <2>5, <2>6
    <3>2. /\ g \in 1 .. Len(groups) /\ n \in 1 .. Len(groups[g].objs) /\ groups[g].objs[n].inst = p.inst
          /\ h \in 1 .. Len(groups) /\ m \in 1 .. Len(groups[h].objs) /\ groups[h].objs[m].inst = p.inst
      BY <2>4, <2>6 DEF Lists
    <3>3. Separate(groups)
      BY <2>2 DEF GroupsOK
    <3>4. groups[g].objs[n].inst = groups[h].objs[m].inst
      BY <3>2
    <3> QED BY <3>1, <3>2, <3>3, <3>4, SamePlace
  <2>7. \A g, n : Bacnet!ListedAt(p, g, n) => <<g, n>> \in (1 .. Len(config)) \X (1 .. GroupSize)
    <3> SUFFICES ASSUME NEW g, NEW n, Bacnet!ListedAt(p, g, n)
                 PROVE  g \in 1 .. Len(config) /\ n \in 1 .. GroupSize
      OBVIOUS
    <3>1. g \in 1 .. Len(groups) /\ n \in 1 .. Len(groups[g].objs) /\ Len(groups[g].objs) \in 1 .. GroupSize
      BY <2>3, <2>4
    <3> QED BY <1>3, <2>2, <2>3, <3>1, BacnetAssumption
  <2>8. CASE Placed(groups, p)
    <3>1. PICK g \in 1 .. Len(groups) : \E n \in 1 .. Len(groups[g].objs) : Lists(groups[g].objs[n], p)
      BY <2>8 DEF Placed
    <3>2. PICK n \in 1 .. Len(groups[g].objs) : Lists(groups[g].objs[n], p)
      BY <3>1
    <3>3. Bacnet!ListedAt(p, g, n)
      BY <2>4, <3>2
    <3>4. <<g, n>> \in Bacnet!PlacesOf(p)
      BY <2>7, <3>3 DEF Bacnet!PlacesOf
    <3>5. ASSUME NEW place \in Bacnet!PlacesOf(p) PROVE place = <<g, n>>
      <4>1. place \in (1 .. Len(config)) \X (1 .. GroupSize) /\ Bacnet!ListedAt(p, place[1], place[2])
        BY DEF Bacnet!PlacesOf
      <4>2. place[1] = g /\ place[2] = n
        BY <2>6, <3>3, <4>1
      <4> QED BY <4>1, <4>2
    <3>6. Bacnet!PlacesOf(p) = {<<g, n>>}
      BY <3>4, <3>5
    <3> QED BY <3>4, <3>6
  <2>9. CASE ~Placed(groups, p)
    <3>1. \E q \in P : Bacnet!Rival(p, q)
      BY <1>6, <2>2, <2>9 DEF GroupsOK
    <3>2. \A g, n : ~Bacnet!ListedAt(p, g, n)
      BY <2>4, <2>9 DEF Placed
    <3>3. Bacnet!PlacesOf(p) = {}
      BY <3>2 DEF Bacnet!PlacesOf
    <3> QED BY <3>1, <3>3
  <2> QED BY <2>8, <2>9
<1>7. ASSUME NEW id \in DOMAIN devices, NEW g \in DOMAIN devices[id]
      PROVE  /\ Len(devices[id][g].objs) \in 1 .. GroupSize
             /\ \A n \in DOMAIN devices[id][g].objs : Filled(id, devices[id], g, n, P)
  <2> DEFINE groups == devices[id]
  <2>1. groups = Bacnet!GroupsOf(id)
    BY DEF Bacnet!GroupsOf
  <2>2. GroupsOK(id, groups, P)
    BY <1>1, <1>5, <2>1
  <2>3. g \in DOMAIN groups
    OBVIOUS
  <2> HIDE DEF groups
  <2>4. groups \in Seq(AnyGroup) /\ Sized(groups) /\ Sourced(id, groups, P) /\ Separate(groups)
    BY <2>2 DEF GroupsOK
  <2>5. /\ DOMAIN groups = 1 .. Len(groups)
        /\ \A h \in 1 .. Len(groups) : DOMAIN groups[h].objs = 1 .. Len(groups[h].objs)
    <3>1. \A x \in AnyGroup : x.objs \in Seq(AnyObject)
      BY DEF AnyGroup
    <3> QED BY <2>4, <3>1
  <2>6. Len(groups[g].objs) \in 1 .. GroupSize
    BY <2>3, <2>4, <2>5 DEF Sized
  <2>7. ASSUME NEW n \in DOMAIN groups[g].objs PROVE Filled(id, groups, g, n, P)
    <3>1. g \in 1 .. Len(groups) /\ n \in 1 .. Len(groups[g].objs)
      BY <2>3, <2>5
    <3>2. ASSUME NEW d \in DOMAIN groups[g].objs[n].points
          PROVE  \E p \in P : Source(p, id, groups[g].dur, groups[g].objs[n], d)
      BY <2>4, <3>1, <3>2 DEF Sourced
    <3>3. ASSUME NEW h \in DOMAIN groups, NEW m \in DOMAIN groups[h].objs,
                 groups[h].dur = groups[g].dur, groups[h].objs[m].inst = groups[g].objs[n].inst
          PROVE  h = g /\ m = n
      <4>1. h \in 1 .. Len(groups) /\ m \in 1 .. Len(groups[h].objs)
        BY <2>5
      <4> QED BY <2>4, <3>1, <3>3, <4>1, SamePlace
    <3> QED BY <3>2, <3>3 DEF Filled
  <2> QED BY <2>6, <2>7 DEF groups
<1>8. \A p \in P : Bacnet!Wanted(p)
         => (\E place \in Bacnet!PlacesOf(p) : Bacnet!PlacesOf(p) = {place})
              \/ (Bacnet!PlacesOf(p) = {} /\ \E q \in P : Bacnet!Rival(p, q))
  BY <1>6
<1>9. \A id \in DOMAIN devices : \A g \in DOMAIN devices[id] :
          /\ Len(devices[id][g].objs) \in 1 .. GroupSize
          /\ \A n \in DOMAIN devices[id][g].objs :
                LET o == devices[id][g].objs[n]
                IN /\ \A d \in DOMAIN o.points : \E p \in P :
                         /\ Bacnet!Wanted(p) /\ p.id = id /\ p.dev = d /\ p.name = o.points[d]
                         /\ p.type = o.type /\ p.inst = o.inst /\ Bacnet!DurationOf(p) = devices[id][g].dur
                   /\ \A h \in DOMAIN devices[id] : \A m \in DOMAIN devices[id][h].objs :
                         devices[id][h].dur = devices[id][g].dur /\ devices[id][h].objs[m].inst = o.inst
                             => <<h, m>> = <<g, n>>
  <2> TAKE id \in DOMAIN devices
  <2> TAKE g \in DOMAIN devices[id]
  <2>1. Len(devices[id][g].objs) \in 1 .. GroupSize /\ \A n \in DOMAIN devices[id][g].objs : Filled(id, devices[id], g, n, P)
    BY <1>7
  <2>2. ASSUME NEW n \in DOMAIN devices[id][g].objs
        PROVE  LET o == devices[id][g].objs[n]
               IN /\ \A d \in DOMAIN o.points : \E p \in P :
                        /\ Bacnet!Wanted(p) /\ p.id = id /\ p.dev = d /\ p.name = o.points[d]
                        /\ p.type = o.type /\ p.inst = o.inst /\ Bacnet!DurationOf(p) = devices[id][g].dur
                  /\ \A h \in DOMAIN devices[id] : \A m \in DOMAIN devices[id][h].objs :
                        devices[id][h].dur = devices[id][g].dur /\ devices[id][h].objs[m].inst = o.inst
                            => <<h, m>> = <<g, n>>
    BY <2>1 DEF Filled, Source
  <2> QED BY <2>1, <2>2, Zenon
<1> QED BY <1>8, <1>9, Zenon DEF Bacnet!GroupsHoldPoints, P

-----------------------------------------------------------------------------
(***************************************************************************)
(* How batches are written                                                 *)
(***************************************************************************)
CommandType == [pc : {"idle", "encode", "send", "ok", "error"}, id : {b.id : b \in Batches} \cup {0},
                batch : {b.values : b \in Batches} \cup {<<>>}, i : Nat, k : Nat]

\* The command's writes that its position has passed.
Passed(w) ==
    CASE cmd.pc = "encode" -> w[2] # 0 /\ (w[1] < cmd.i \/ (w[1] = cmd.i /\ w[2] < cmd.k))
      [] cmd.pc = "send"   -> w[2] # 0 \/ w[1] < cmd.i
      [] OTHER             -> TRUE

\* A value that can be written, and whose preceding writes can be encoded.
Clean(v) == v.fits /\ \A k \in DOMAIN v.pre : v.pre[k]

CommandOK ==
    /\ \E b \in Batches : b.id = cmd.id /\ b.values = cmd.batch
    /\ cmd.i > 0 /\ cmd.k > 0
    /\ cmd.pc \in {"encode", "send"} => cmd.i <= Len(cmd.batch) + 1
    /\ cmd.pc = "encode" =>
          /\ \A j \in DOMAIN cmd.batch : j < cmd.i => Clean(cmd.batch[j])
          /\ cmd.i \in DOMAIN cmd.batch =>
                /\ cmd.k <= Len(cmd.batch[cmd.i].pre) + 1
                /\ \A k \in DOMAIN cmd.batch[cmd.i].pre : k < cmd.k => cmd.batch[cmd.i].pre[k]
          /\ cmd.i \notin DOMAIN cmd.batch => cmd.k = 1
    /\ cmd.pc \in {"send", "ok"} => \A j \in DOMAIN cmd.batch : Clean(cmd.batch[j])
    /\ cmd.pc # "error" =>
          /\ Bacnet!InOrder(written)
          /\ Bacnet!Elements(written) = IF cmd.id \in DOMAIN devices /\ ~virtual
                                        THEN {w \in Bacnet!Writes : Passed(w)} ELSE {}
    /\ cmd.pc = "error" => \A n \in DOMAIN written : written[n][2] # 0

BatchInv ==
    /\ cmd \in CommandType /\ written \in Seq(Nat \X Nat)
    /\ cmd.pc # "idle" => stage = "run" /\ CommandOK

LEMMA BatchFacts ==
    ASSUME NEW b \in Batches
    PROVE  /\ DOMAIN b.values = 1 .. Len(b.values) /\ Len(b.values) \in Nat
           /\ \A j \in 1 .. Len(b.values) :
                 /\ DOMAIN b.values[j].pre = 1 .. Len(b.values[j].pre) /\ Len(b.values[j].pre) \in Nat
                 /\ b.values[j].fits \in BOOLEAN
<1>1. b.values \in Seq({b.values[i] : i \in DOMAIN b.values})
  BY BacnetAssumption
<1>2. DOMAIN b.values = 1 .. Len(b.values) /\ Len(b.values) \in Nat
  BY <1>1
<1>3. \A j \in DOMAIN b.values : b.values[j].fits \in BOOLEAN /\ b.values[j].pre \in Seq(BOOLEAN)
  BY BacnetAssumption
<1> QED BY <1>2, <1>3

\* Which writes a command has.
LEMMA WritesAre ==
    ASSUME NEW n \in Nat, DOMAIN cmd.batch = 1 .. n
    PROVE  \A w : w \in Bacnet!Writes
                    <=> \E j \in 1 .. n : \E k \in 0 .. Len(cmd.batch[j].pre) : w = <<j, k>>
BY DEF Bacnet!Writes

LEMMA OneMoreWrite ==
    ASSUME NEW s \in Seq(Nat \X Nat), NEW w \in Nat \X Nat, Bacnet!InOrder(s),
           \A v \in Bacnet!Elements(s) : Bacnet!Precedes(v, w)
    PROVE  /\ s \o <<w>> \in Seq(Nat \X Nat) /\ Bacnet!InOrder(s \o <<w>>)
           /\ Bacnet!Elements(s \o <<w>>) = Bacnet!Elements(s) \cup {w}
<1> DEFINE t == s \o <<w>>
<1>1. /\ t \in Seq(Nat \X Nat) /\ Len(s) \in Nat /\ DOMAIN s = 1 .. Len(s) /\ DOMAIN t = 1 .. Len(s) + 1
      /\ t[Len(s) + 1] = w /\ \A n \in 1 .. Len(s) : t[n] = s[n]
  OBVIOUS
<1> HIDE DEF t
<1>2. Bacnet!Elements(t) = Bacnet!Elements(s) \cup {w}
  <2>1. ASSUME NEW v \in Bacnet!Elements(t) PROVE v \in Bacnet!Elements(s) \cup {w}
    <3>1. PICK n \in 1 .. Len(s) + 1 : v = t[n]
      BY <1>1 DEF Bacnet!Elements
    <3>2. n \in 1 .. Len(s) \/ n = Len(s) + 1
      BY <1>1
    <3> QED BY <1>1, <3>1, <3>2 DEF Bacnet!Elements
  <2>2. w \in Bacnet!Elements(t)
    <3>1. Len(s) + 1 \in 1 .. Len(s) + 1
      BY <1>1
    <3> QED BY <1>1, <3>1 DEF Bacnet!Elements
  <2>3. ASSUME NEW v \in Bacnet!Elements(s) PROVE v \in Bacnet!Elements(t)
    <3>1. PICK n \in 1 .. Len(s) : v = s[n]
      BY <1>1 DEF Bacnet!Elements
    <3>2. n \in 1 .. Len(s) + 1
      BY <1>1
    <3> QED BY <1>1, <3>1, <3>2 DEF Bacnet!Elements
  <2> QED BY <2>1, <2>2, <2>3
<1>3. ASSUME NEW m \in DOMAIN t, NEW n \in DOMAIN t, m < n PROVE Bacnet!Precedes(t[m], t[n])
  <2>1. m \in 1 .. Len(s) /\ (n \in 1 .. Len(s) \/ n = Len(s) + 1)
    <3>1. Len(s) \in Nat /\ m \in 1 .. Len(s) + 1 /\ n \in 1 .. Len(s) + 1
      BY <1>1
    <3> QED BY <1>3, <3>1
  <2>2. CASE n \in 1 .. Len(s)
    BY <1>1, <1>3, <2>1, <2>2 DEF Bacnet!InOrder
  <2>3. CASE n = Len(s) + 1
    <3>1. t[m] \in Bacnet!Elements(s)
      BY <1>1, <2>1 DEF Bacnet!Elements
    <3> QED BY <1>1, <2>3, <3>1
  <2> QED BY <2>1, <2>2, <2>3
<1> QED BY <1>1, <1>2, <1>3 DEF t, Bacnet!InOrder

LEMMA BatchInit == Bacnet!Init => BatchInv
BY DEF Bacnet!Init, BatchInv, CommandType, Bacnet!NoCommand

LEMMA CommandBatch == BatchInv /\ Bacnet!Command => BatchInv'
<1> SUFFICES ASSUME BatchInv, Bacnet!Command PROVE BatchInv'
  OBVIOUS
<1>1. PICK b \in Batches : cmd' = [Bacnet!NoCommand EXCEPT !.pc = "encode", !.id = b.id, !.batch = b.values]
  BY DEF Bacnet!Command
<1>2. /\ cmd'.pc = "encode" /\ cmd'.id = b.id /\ cmd'.batch = b.values /\ cmd'.i = 1 /\ cmd'.k = 1
      /\ cmd' \in CommandType
  BY <1>1 DEF Bacnet!NoCommand, CommandType
<1>3. written' = <<>> /\ stage' = "run"
  BY DEF Bacnet!Command, Bacnet!Running, Bacnet!setup
<1>4. /\ DOMAIN cmd'.batch = 1 .. Len(cmd'.batch) /\ Len(cmd'.batch) \in Nat
      /\ \A j \in 1 .. Len(cmd'.batch) : /\ DOMAIN cmd'.batch[j].pre = 1 .. Len(cmd'.batch[j].pre)
                                         /\ Len(cmd'.batch[j].pre) \in Nat
  BY <1>2, BatchFacts
<1>5. {w \in Bacnet!Writes' : Passed(w)'} = {}
  <2>1. \A w \in Bacnet!Writes' : \E j \in 1 .. Len(cmd'.batch) : \E k \in 0 .. Len(cmd'.batch[j].pre) : w = <<j, k>>
    BY <1>4 DEF Bacnet!Writes
  <2>2. ASSUME NEW w \in Bacnet!Writes' PROVE ~Passed(w)'
    <3>1. PICK j \in 1 .. Len(cmd'.batch) : \E k \in 0 .. Len(cmd'.batch[j].pre) : w = <<j, k>>
      BY <2>1
    <3>2. PICK k \in 0 .. Len(cmd'.batch[j].pre) : w = <<j, k>>
      BY <3>1
    <3>3. j \in Nat /\ j >= 1 /\ k \in Nat /\ w[1] = j /\ w[2] = k
      BY <1>4, <3>2
    <3> QED BY <1>2, <3>3 DEF Passed
  <2> QED BY <2>2
<1>6. CommandOK'
  <2>1. Bacnet!InOrder(written)' /\ Bacnet!Elements(written)' = {}
    BY <1>3 DEF Bacnet!InOrder, Bacnet!Elements
  <2>2. \A j \in DOMAIN cmd'.batch : ~(j < cmd'.i)
    BY <1>2, <1>4
  <2>3. cmd'.i \in DOMAIN cmd'.batch =>
           /\ cmd'.k <= Len(cmd'.batch[cmd'.i].pre) + 1
           /\ \A k \in DOMAIN cmd'.batch[cmd'.i].pre : ~(k < cmd'.k)
    BY <1>2, <1>4
  <2> QED BY <1>2, <1>4, <1>5, <2>1, <2>2, <2>3 DEF CommandOK
<1> QED BY <1>2, <1>3, <1>6 DEF BatchInv

\* What every step of a command under way knows.
CommandFacts ==
    /\ cmd \in CommandType /\ written \in Seq(Nat \X Nat) /\ stage = "run" /\ CommandOK
    /\ DOMAIN cmd.batch = 1 .. Len(cmd.batch) /\ Len(cmd.batch) \in Nat /\ cmd.i \in Nat /\ cmd.k \in Nat
    /\ \A j \in 1 .. Len(cmd.batch) :
          /\ DOMAIN cmd.batch[j].pre = 1 .. Len(cmd.batch[j].pre) /\ Len(cmd.batch[j].pre) \in Nat
          /\ cmd.batch[j].fits \in BOOLEAN

LEMMA UnderWay == BatchInv /\ cmd.pc # "idle" => CommandFacts
<1> SUFFICES ASSUME BatchInv, cmd.pc # "idle" PROVE CommandFacts
  OBVIOUS
<1>1. cmd \in CommandType /\ written \in Seq(Nat \X Nat) /\ stage = "run" /\ CommandOK
  BY DEF BatchInv
<1>2. cmd.i \in Nat /\ cmd.k \in Nat
  BY <1>1 DEF CommandType
<1>3. PICK b \in Batches : b.values = cmd.batch
  BY <1>1 DEF CommandOK
<1>4. /\ DOMAIN cmd.batch = 1 .. Len(cmd.batch) /\ Len(cmd.batch) \in Nat
      /\ \A j \in 1 .. Len(cmd.batch) :
            /\ DOMAIN cmd.batch[j].pre = 1 .. Len(cmd.batch[j].pre) /\ Len(cmd.batch[j].pre) \in Nat
            /\ cmd.batch[j].fits \in BOOLEAN
  BY <1>3, BatchFacts
<1> QED BY <1>1, <1>2, <1>4 DEF CommandFacts

\* A write that is sent, or not, at its place: those passed before it precede it, and it is the one
\* passed more.
LEMMA WriteSent ==
    ASSUME BatchInv, cmd.pc \in {"encode", "send"}, CommandFacts,
           NEW j \in 1 .. Len(cmd.batch), NEW k \in 0 .. Len(cmd.batch[j].pre),
           written' = written \o Bacnet!Written(<<j, k>>), UNCHANGED <<devices, virtual>>,
           cmd'.batch = cmd.batch, cmd'.id = cmd.id, cmd'.pc = cmd.pc,
           \A w \in Bacnet!Writes : Passed(w) => Bacnet!Precedes(w, <<j, k>>),
           \A w \in Bacnet!Writes : Passed(w)' <=> (Passed(w) \/ w = <<j, k>>)
    PROVE  /\ written' \in Seq(Nat \X Nat) /\ Bacnet!InOrder(written')
           /\ Bacnet!Elements(written') = IF cmd'.id \in DOMAIN devices' /\ ~virtual'
                                          THEN {w \in Bacnet!Writes' : Passed(w)'} ELSE {}
<1> DEFINE v == <<j, k>>
<1>1. /\ Bacnet!InOrder(written)
      /\ Bacnet!Elements(written) = IF cmd.id \in DOMAIN devices /\ ~virtual
                                    THEN {w \in Bacnet!Writes : Passed(w)} ELSE {}
      /\ written \in Seq(Nat \X Nat)
  BY DEF CommandFacts, CommandOK
<1>2. Bacnet!Writes' = Bacnet!Writes
  BY DEF Bacnet!Writes
<1>3. v \in Bacnet!Writes /\ v \in Nat \X Nat
  <2>1. j \in Nat /\ k \in Nat
    BY DEF CommandFacts
  <2>2. v \in Bacnet!Writes
    BY WritesAre DEF CommandFacts
  <2> QED BY <2>1, <2>2
<1>4. CASE cmd.id \in DOMAIN devices /\ ~virtual
  <2>1. written' = written \o <<v>>
    BY <1>4 DEF Bacnet!Written
  <2> HIDE DEF v
  <2>2. \A w \in Bacnet!Elements(written) : Bacnet!Precedes(w, v)
    BY <1>1, <1>4 DEF v
  <2>3. /\ written' \in Seq(Nat \X Nat) /\ Bacnet!InOrder(written')
        /\ Bacnet!Elements(written') = Bacnet!Elements(written) \cup {v}
    BY <1>1, <1>3, <2>1, <2>2, OneMoreWrite
  <2>4. {w \in Bacnet!Writes' : Passed(w)'} = {w \in Bacnet!Writes : Passed(w)} \cup {v}
    BY <1>2, <1>3 DEF v
  <2> QED BY <1>1, <1>4, <2>3, <2>4
<1>5. CASE ~(cmd.id \in DOMAIN devices /\ ~virtual)
  <2>1. written' = written
    BY <1>1, <1>5 DEF Bacnet!Written
  <2> QED BY <1>1, <1>5, <2>1
<1> QED BY <1>4, <1>5

LEMMA WriteFacts ==
    CommandFacts => \A w \in Bacnet!Writes : /\ w = <<w[1], w[2]>> /\ w[1] \in 1 .. Len(cmd.batch)
                                             /\ w[2] \in 0 .. Len(cmd.batch[w[1]].pre) /\ w[1] \in Nat /\ w[2] \in Nat
<1> SUFFICES ASSUME CommandFacts, NEW w \in Bacnet!Writes
             PROVE  /\ w = <<w[1], w[2]>> /\ w[1] \in 1 .. Len(cmd.batch)
                    /\ w[2] \in 0 .. Len(cmd.batch[w[1]].pre) /\ w[1] \in Nat /\ w[2] \in Nat
  OBVIOUS
<1>1. PICK j \in 1 .. Len(cmd.batch) : \E k \in 0 .. Len(cmd.batch[j].pre) : w = <<j, k>>
  BY WritesAre DEF CommandFacts
<1>2. PICK k \in 0 .. Len(cmd.batch[j].pre) : w = <<j, k>>
  BY <1>1
<1> QED BY <1>2 DEF CommandFacts

\* A step that sends nothing, at a place before and after which the same writes are passed.
LEMMA NothingSent ==
    ASSUME CommandFacts, cmd.pc # "error", UNCHANGED <<written, devices, virtual>>,
           cmd'.batch = cmd.batch, cmd'.id = cmd.id, \A w \in Bacnet!Writes : Passed(w)' <=> Passed(w)
    PROVE  /\ written' \in Seq(Nat \X Nat) /\ Bacnet!InOrder(written')
           /\ Bacnet!Elements(written') = IF cmd'.id \in DOMAIN devices' /\ ~virtual'
                                          THEN {w \in Bacnet!Writes' : Passed(w)'} ELSE {}
<1>1. /\ Bacnet!InOrder(written)
      /\ Bacnet!Elements(written) = IF cmd.id \in DOMAIN devices /\ ~virtual
                                    THEN {w \in Bacnet!Writes : Passed(w)} ELSE {}
      /\ written \in Seq(Nat \X Nat)
  BY DEF CommandFacts, CommandOK
<1>2. Bacnet!Writes' = Bacnet!Writes
  BY DEF Bacnet!Writes
<1>3. {w \in Bacnet!Writes' : Passed(w)'} = {w \in Bacnet!Writes : Passed(w)}
  BY <1>2
<1> QED BY <1>1, <1>3

LEMMA ErrorBatch ==
    ASSUME CommandFacts, cmd.pc = "encode", cmd' = [cmd EXCEPT !.pc = "error"], UNCHANGED <<written, stage>>
    PROVE  BatchInv'
<1>1. cmd' \in CommandType /\ cmd'.pc = "error" /\ cmd'.id = cmd.id /\ cmd'.batch = cmd.batch /\ cmd'.i = cmd.i /\ cmd'.k = cmd.k
  BY DEF CommandFacts, CommandType
<1>2. ASSUME NEW n \in DOMAIN written PROVE written[n][2] # 0
  <2>1. written[n] \in Bacnet!Elements(written)
    BY DEF Bacnet!Elements
  <2>2. Passed(written[n])
    BY <2>1 DEF CommandFacts, CommandOK
  <2> QED BY <2>2 DEF Passed
<1>3. CommandOK'
  BY <1>1, <1>2 DEF CommandFacts, CommandOK
<1> QED BY <1>1, <1>3 DEF BatchInv, CommandFacts

LEMMA PreOpBatch == BatchInv /\ Bacnet!PreOp => BatchInv'
<1> SUFFICES ASSUME BatchInv, Bacnet!PreOp PROVE BatchInv'
  OBVIOUS
<1> DEFINE pre == cmd.batch[cmd.i].pre
<1>1. /\ cmd.pc = "encode" /\ cmd.i <= Len(cmd.batch) /\ cmd.k <= Len(pre)
      /\ UNCHANGED <<stage, devices, virtual>>
  BY DEF Bacnet!PreOp, Bacnet!Value, Bacnet!setup
<1>2. CommandFacts
  BY <1>1, UnderWay
<1>3. cmd.i \in 1 .. Len(cmd.batch) /\ cmd.k \in 1 .. Len(pre) /\ Len(pre) \in Nat /\ DOMAIN pre = 1 .. Len(pre)
  <2>1. cmd.i > 0 /\ cmd.k > 0
    BY <1>2 DEF CommandFacts, CommandOK
  <2>2. cmd.i \in 1 .. Len(cmd.batch)
    BY <1>1, <1>2, <2>1 DEF CommandFacts
  <2> QED BY <1>1, <1>2, <2>1, <2>2 DEF CommandFacts
<1>4. CASE pre[cmd.k]
  <2>1. cmd' = [cmd EXCEPT !.k = @ + 1] /\ written' = written \o Bacnet!Written(<<cmd.i, cmd.k>>)
    BY <1>4 DEF Bacnet!PreOp, Bacnet!Value
  <2>2. /\ cmd' \in CommandType /\ cmd'.pc = "encode" /\ cmd'.id = cmd.id /\ cmd'.batch = cmd.batch
        /\ cmd'.i = cmd.i /\ cmd'.k = cmd.k + 1
    <3>1. cmd \in CommandType /\ cmd.k + 1 \in Nat
      BY <1>2 DEF CommandFacts
    <3> QED BY <1>1, <2>1, <3>1 DEF CommandType
  <2>3. \A w \in Bacnet!Writes : w[1] \in Nat /\ w[2] \in Nat /\ w = <<w[1], w[2]>>
    BY <1>2, WriteFacts
  <2>4. \A w \in Bacnet!Writes : Passed(w) => Bacnet!Precedes(w, <<cmd.i, cmd.k>>)
    BY <1>1, <1>3, <2>3 DEF Passed, Bacnet!Precedes
  <2>5. \A w \in Bacnet!Writes : Passed(w)' <=> (Passed(w) \/ w = <<cmd.i, cmd.k>>)
    <3> SUFFICES ASSUME NEW w \in Bacnet!Writes PROVE Passed(w)' <=> (Passed(w) \/ w = <<cmd.i, cmd.k>>)
      OBVIOUS
    <3>1. Passed(w)' <=> w[2] # 0 /\ (w[1] < cmd.i \/ (w[1] = cmd.i /\ w[2] < cmd.k + 1))
      BY <2>2 DEF Passed
    <3>2. Passed(w) <=> w[2] # 0 /\ (w[1] < cmd.i \/ (w[1] = cmd.i /\ w[2] < cmd.k))
      BY <1>1 DEF Passed
    <3>3. w = <<cmd.i, cmd.k>> <=> w[1] = cmd.i /\ w[2] = cmd.k
      BY <2>3
    <3>4. w[2] \in Nat /\ cmd.k \in Nat /\ cmd.k # 0
      BY <1>3, <2>3
    <3> QED BY <3>1, <3>2, <3>3, <3>4
  <2>6. /\ written' \in Seq(Nat \X Nat) /\ Bacnet!InOrder(written')
        /\ Bacnet!Elements(written') = IF cmd'.id \in DOMAIN devices' /\ ~virtual'
                                       THEN {w \in Bacnet!Writes' : Passed(w)'} ELSE {}
    <3>1. cmd.k \in 0 .. Len(cmd.batch[cmd.i].pre)
      BY <1>3
    <3> QED BY <1>1, <1>2, <1>3, <2>1, <2>2, <2>4, <2>5, <3>1, WriteSent
  <2>7. CommandOK'
    <3>1. \A k \in DOMAIN pre : k < cmd.k + 1 => pre[k]
      <4>1. \A k \in DOMAIN pre : k < cmd.k => pre[k]
        BY <1>1, <1>2, <1>3 DEF CommandFacts, CommandOK
      <4>2. \A k \in DOMAIN pre : k < cmd.k + 1 => k < cmd.k \/ k = cmd.k
        BY <1>3
      <4> QED BY <1>4, <4>1, <4>2
    <3>2. /\ \E b \in Batches : b.id = cmd'.id /\ b.values = cmd'.batch
          /\ cmd'.i > 0 /\ cmd'.k > 0 /\ cmd'.i <= Len(cmd'.batch) + 1
      BY <1>2, <1>3, <2>2 DEF CommandFacts, CommandOK
    <3>3. \A j \in DOMAIN cmd'.batch : j < cmd'.i => Clean(cmd'.batch[j])
      BY <1>1, <1>2, <2>2 DEF CommandFacts, CommandOK
    <3>4. /\ cmd'.i \in DOMAIN cmd'.batch
          /\ cmd'.k <= Len(cmd'.batch[cmd'.i].pre) + 1
          /\ \A k \in DOMAIN cmd'.batch[cmd'.i].pre : k < cmd'.k => cmd'.batch[cmd'.i].pre[k]
      <4>1. cmd'.batch[cmd'.i].pre = pre /\ cmd'.k = cmd.k + 1 /\ cmd'.i = cmd.i /\ cmd'.batch = cmd.batch
        BY <2>2
      <4>2. cmd.i \in DOMAIN cmd.batch
        BY <1>2, <1>3 DEF CommandFacts
      <4> HIDE DEF pre
      <4>3. cmd.k + 1 <= Len(pre) + 1
        BY <1>3
      <4> QED BY <3>1, <4>1, <4>2, <4>3
    <3> QED BY <2>2, <2>6, <3>2, <3>3, <3>4 DEF CommandOK
  <2> QED BY <1>1, <1>2, <2>2, <2>6, <2>7 DEF BatchInv, CommandFacts
<1>5. CASE ~pre[cmd.k]
  <2>1. cmd' = [cmd EXCEPT !.pc = "error"] /\ written' = written
    BY <1>5 DEF Bacnet!PreOp, Bacnet!Value
  <2> QED BY <1>1, <1>2, <2>1, ErrorBatch
<1> QED BY <1>4, <1>5

LEMMA TransformBatch == BatchInv /\ Bacnet!Transform => BatchInv'
<1> SUFFICES ASSUME BatchInv, Bacnet!Transform PROVE BatchInv'
  OBVIOUS
<1> DEFINE value == cmd.batch[cmd.i]
<1>1. /\ cmd.pc = "encode" /\ cmd.i <= Len(cmd.batch) /\ cmd.k > Len(value.pre)
      /\ UNCHANGED <<stage, devices, virtual, written>>
  BY DEF Bacnet!Transform, Bacnet!Value, Bacnet!setup
<1>2. CommandFacts
  BY <1>1, UnderWay
<1>3. /\ cmd.i \in 1 .. Len(cmd.batch) /\ cmd.i \in Nat /\ cmd.k \in Nat /\ Len(cmd.batch) \in Nat
      /\ Len(value.pre) \in Nat /\ DOMAIN value.pre = 1 .. Len(value.pre)
  <2>1. cmd.i > 0 /\ cmd.i \in Nat /\ cmd.k \in Nat /\ Len(cmd.batch) \in Nat
    BY <1>2 DEF CommandFacts, CommandOK
  <2>2. cmd.i \in 1 .. Len(cmd.batch)
    BY <1>1, <2>1
  <2> QED BY <1>2, <2>1, <2>2 DEF CommandFacts
<1>4. CASE value.fits
  <2>1. cmd' = [cmd EXCEPT !.i = @ + 1, !.k = 1]
    BY <1>4 DEF Bacnet!Transform, Bacnet!Value
  <2>2. /\ cmd' \in CommandType /\ cmd'.pc = "encode" /\ cmd'.id = cmd.id /\ cmd'.batch = cmd.batch
        /\ cmd'.i = cmd.i + 1 /\ cmd'.k = 1
    <3>1. cmd \in CommandType /\ cmd.i + 1 \in Nat
      BY <1>2, <1>3 DEF CommandFacts
    <3> QED BY <1>1, <2>1, <3>1 DEF CommandType
  <2>3. ASSUME NEW w \in Bacnet!Writes PROVE Passed(w)' <=> Passed(w)
    <3>1. w[1] \in Nat /\ w[2] \in Nat /\ (w[1] = cmd.i => w[2] <= Len(value.pre))
      BY <1>2, WriteFacts
    <3>2. Passed(w)' <=> w[2] # 0 /\ (w[1] < cmd.i + 1 \/ (w[1] = cmd.i + 1 /\ w[2] < 1))
      BY <2>2 DEF Passed
    <3>3. Passed(w) <=> w[2] # 0 /\ (w[1] < cmd.i \/ (w[1] = cmd.i /\ w[2] < cmd.k))
      BY <1>1 DEF Passed
    <3> HIDE DEF value
    <3> QED BY <1>1, <1>3, <3>1, <3>2, <3>3
  <2>4. /\ written' \in Seq(Nat \X Nat) /\ Bacnet!InOrder(written')
        /\ Bacnet!Elements(written') = IF cmd'.id \in DOMAIN devices' /\ ~virtual'
                                       THEN {w \in Bacnet!Writes' : Passed(w)'} ELSE {}
    BY <1>1, <1>2, <2>2, <2>3, NothingSent
  <2>5. CommandOK'
    <3>1. Clean(value)
      <4>1. \A k \in DOMAIN value.pre : k < cmd.k => value.pre[k]
        BY <1>1, <1>2, <1>3 DEF CommandFacts, CommandOK
      <4>2. \A k \in DOMAIN value.pre : k < cmd.k
        BY <1>1, <1>3
      <4> QED BY <1>4, <4>1, <4>2 DEF Clean
    <3>2. /\ \E b \in Batches : b.id = cmd'.id /\ b.values = cmd'.batch
          /\ cmd'.i > 0 /\ cmd'.k > 0 /\ cmd'.i <= Len(cmd'.batch) + 1
      BY <1>2, <1>3, <2>2 DEF CommandFacts, CommandOK
    <3>3. \A j \in DOMAIN cmd'.batch : j < cmd'.i => Clean(cmd'.batch[j])
      <4>1. \A j \in DOMAIN cmd.batch : j < cmd.i => Clean(cmd.batch[j])
        BY <1>1, <1>2 DEF CommandFacts, CommandOK
      <4>2. \A j \in DOMAIN cmd.batch : j < cmd.i + 1 => j < cmd.i \/ j = cmd.i
        BY <1>2, <1>3 DEF CommandFacts
      <4> QED BY <2>2, <3>1, <4>1, <4>2
    <3>4. cmd'.i \in DOMAIN cmd'.batch =>
             /\ cmd'.k <= Len(cmd'.batch[cmd'.i].pre) + 1
             /\ \A k \in DOMAIN cmd'.batch[cmd'.i].pre : ~(k < cmd'.k)
      <4> SUFFICES ASSUME cmd'.i \in DOMAIN cmd'.batch
                   PROVE  /\ cmd'.k <= Len(cmd'.batch[cmd'.i].pre) + 1
                          /\ \A k \in DOMAIN cmd'.batch[cmd'.i].pre : ~(k < cmd'.k)
        OBVIOUS
      <4> DEFINE pre == cmd'.batch[cmd'.i].pre
      <4>1. DOMAIN pre = 1 .. Len(pre) /\ Len(pre) \in Nat
        BY <1>2, <2>2 DEF CommandFacts
      <4> HIDE DEF pre
      <4>2. 1 <= Len(pre) + 1 /\ \A k \in DOMAIN pre : ~(k < 1)
        BY <4>1
      <4> QED BY <2>2, <4>2 DEF pre
    <3> QED BY <2>2, <2>4, <3>2, <3>3, <3>4 DEF CommandOK
  <2> QED BY <1>1, <1>2, <2>2, <2>4, <2>5 DEF BatchInv, CommandFacts
<1>5. CASE ~value.fits
  <2>1. cmd' = [cmd EXCEPT !.pc = "error"]
    BY <1>5 DEF Bacnet!Transform, Bacnet!Value
  <2> QED BY <1>1, <1>2, <2>1, ErrorBatch
<1> QED BY <1>4, <1>5

LEMMA EncodedBatch == BatchInv /\ Bacnet!Encoded => BatchInv'
<1> SUFFICES ASSUME BatchInv, Bacnet!Encoded PROVE BatchInv'
  OBVIOUS
<1>1. /\ cmd.pc = "encode" /\ cmd.i > Len(cmd.batch) /\ cmd' = [cmd EXCEPT !.pc = "send", !.i = 1]
      /\ UNCHANGED <<stage, devices, virtual, written>>
  BY DEF Bacnet!Encoded, Bacnet!setup
<1>2. CommandFacts
  BY <1>1, UnderWay
<1>3. /\ cmd' \in CommandType /\ cmd'.pc = "send" /\ cmd'.id = cmd.id /\ cmd'.batch = cmd.batch
      /\ cmd'.i = 1 /\ cmd'.k = cmd.k
  <2>1. cmd \in CommandType
    BY <1>2 DEF CommandFacts
  <2> QED BY <1>1, <2>1 DEF CommandType
<1>4. ASSUME NEW w \in Bacnet!Writes PROVE Passed(w)' <=> Passed(w)
  <2>1. w[1] \in 1 .. Len(cmd.batch) /\ w[2] \in Nat /\ Len(cmd.batch) \in Nat /\ cmd.i \in Nat
    BY <1>2, WriteFacts DEF CommandFacts
  <2>2. Passed(w)' <=> w[2] # 0 \/ w[1] < 1
    BY <1>3 DEF Passed
  <2>3. Passed(w) <=> w[2] # 0 /\ (w[1] < cmd.i \/ (w[1] = cmd.i /\ w[2] < cmd.k))
    BY <1>1 DEF Passed
  <2> QED BY <1>1, <2>1, <2>2, <2>3
<1>5. /\ written' \in Seq(Nat \X Nat) /\ Bacnet!InOrder(written')
      /\ Bacnet!Elements(written') = IF cmd'.id \in DOMAIN devices' /\ ~virtual'
                                     THEN {w \in Bacnet!Writes' : Passed(w)'} ELSE {}
  BY <1>1, <1>2, <1>3, <1>4, NothingSent
<1>6. CommandOK'
  <2>1. \A j \in DOMAIN cmd'.batch : Clean(cmd'.batch[j])
    <3>1. \A j \in DOMAIN cmd.batch : j < cmd.i => Clean(cmd.batch[j])
      BY <1>1, <1>2 DEF CommandFacts, CommandOK
    <3>2. \A j \in DOMAIN cmd.batch : j < cmd.i
      BY <1>1, <1>2 DEF CommandFacts
    <3> QED BY <1>3, <3>1, <3>2
  <2>2. /\ \E b \in Batches : b.id = cmd'.id /\ b.values = cmd'.batch
        /\ cmd'.i > 0 /\ cmd'.k > 0 /\ cmd'.i <= Len(cmd'.batch) + 1
    BY <1>2, <1>3 DEF CommandFacts, CommandOK
  <2> QED BY <1>3, <1>5, <2>1, <2>2 DEF CommandOK
<1> QED BY <1>1, <1>2, <1>3, <1>5, <1>6 DEF BatchInv, CommandFacts

LEMMA SendBatch == BatchInv /\ Bacnet!Send => BatchInv'
<1> SUFFICES ASSUME BatchInv, Bacnet!Send PROVE BatchInv'
  OBVIOUS
<1>1. cmd.pc = "send" /\ UNCHANGED <<stage, devices, virtual>>
  BY DEF Bacnet!Send, Bacnet!setup
<1>2. CommandFacts
  BY <1>1, UnderWay
<1>3. /\ \A w \in Bacnet!Writes : w[1] \in 1 .. Len(cmd.batch) /\ w[2] \in Nat /\ w = <<w[1], w[2]>>
      /\ Len(cmd.batch) \in Nat /\ cmd.i \in Nat /\ cmd.i > 0 /\ cmd \in CommandType
      /\ \A w : Passed(w) <=> w[2] # 0 \/ w[1] < cmd.i
  BY <1>1, <1>2, WriteFacts DEF CommandFacts, CommandOK, Passed
<1>4. /\ \E b \in Batches : b.id = cmd.id /\ b.values = cmd.batch
      /\ cmd.k > 0 /\ \A j \in DOMAIN cmd.batch : Clean(cmd.batch[j])
  BY <1>1, <1>2 DEF CommandFacts, CommandOK
<1>5. CASE cmd.i > Len(cmd.batch)
  <2>1. cmd' = [cmd EXCEPT !.pc = "ok"] /\ written' = written
    BY <1>5 DEF Bacnet!Send
  <2>2. /\ cmd' \in CommandType /\ cmd'.pc = "ok" /\ cmd'.id = cmd.id /\ cmd'.batch = cmd.batch
        /\ cmd'.i = cmd.i /\ cmd'.k = cmd.k
    BY <1>3, <2>1 DEF CommandType
  <2>3. \A w \in Bacnet!Writes : Passed(w)' <=> Passed(w)
    <3>1. \A w : Passed(w)'
      BY <2>2 DEF Passed
    <3>2. ASSUME NEW w \in Bacnet!Writes PROVE w[1] < cmd.i
      BY <1>3, <1>5
    <3> QED BY <1>3, <3>1, <3>2
  <2>4. /\ written' \in Seq(Nat \X Nat) /\ Bacnet!InOrder(written')
        /\ Bacnet!Elements(written') = IF cmd'.id \in DOMAIN devices' /\ ~virtual'
                                       THEN {w \in Bacnet!Writes' : Passed(w)'} ELSE {}
    BY <1>1, <1>2, <2>1, <2>2, <2>3, NothingSent
  <2>5. CommandOK'
    BY <1>3, <1>4, <2>2, <2>4 DEF CommandOK
  <2> QED BY <1>1, <1>2, <2>2, <2>4, <2>5 DEF BatchInv, CommandFacts
<1>6. CASE ~(cmd.i > Len(cmd.batch))
  <2>1. cmd' = [cmd EXCEPT !.i = @ + 1] /\ written' = written \o Bacnet!Written(<<cmd.i, 0>>)
    BY <1>6 DEF Bacnet!Send
  <2>2. /\ cmd' \in CommandType /\ cmd'.pc = "send" /\ cmd'.id = cmd.id /\ cmd'.batch = cmd.batch
        /\ cmd'.i = cmd.i + 1 /\ cmd'.k = cmd.k
    <3>1. cmd.i + 1 \in Nat
      BY <1>3
    <3> QED BY <1>1, <1>3, <2>1, <3>1 DEF CommandType
  <2>3. cmd.i \in 1 .. Len(cmd.batch) /\ 0 \in 0 .. Len(cmd.batch[cmd.i].pre)
    <3>1. cmd.i \in 1 .. Len(cmd.batch)
      BY <1>3, <1>6
    <3> QED BY <1>2, <3>1 DEF CommandFacts
  <2>4. \A w \in Bacnet!Writes : Passed(w) => Bacnet!Precedes(w, <<cmd.i, 0>>)
    BY <1>3 DEF Bacnet!Precedes
  <2>5. ASSUME NEW w \in Bacnet!Writes PROVE Passed(w)' <=> (Passed(w) \/ w = <<cmd.i, 0>>)
    <3>1. Passed(w)' <=> w[2] # 0 \/ w[1] < cmd.i + 1
      BY <2>2 DEF Passed
    <3>2. w = <<cmd.i, 0>> <=> w[1] = cmd.i /\ w[2] = 0
      BY <1>3
    <3>3. w[1] \in Nat /\ w[2] \in Nat
      BY <1>3
    <3>4. Passed(w) <=> w[2] # 0 \/ w[1] < cmd.i
      BY <1>3
    <3> QED BY <1>3, <3>1, <3>2, <3>3, <3>4
  <2>6. /\ written' \in Seq(Nat \X Nat) /\ Bacnet!InOrder(written')
        /\ Bacnet!Elements(written') = IF cmd'.id \in DOMAIN devices' /\ ~virtual'
                                       THEN {w \in Bacnet!Writes' : Passed(w)'} ELSE {}
    BY <1>1, <1>2, <2>1, <2>2, <2>3, <2>4, <2>5, WriteSent
  <2>7. CommandOK'
    <3>1. cmd'.i > 0 /\ cmd'.i <= Len(cmd'.batch) + 1
      BY <1>3, <1>6, <2>2
    <3> QED BY <1>4, <2>2, <2>6, <3>1 DEF CommandOK
  <2> QED BY <1>1, <1>2, <2>2, <2>6, <2>7 DEF BatchInv, CommandFacts
<1> QED BY <1>5, <1>6

\* Groups are arranged before the first command.
LEMMA BatchStep == BatchInv /\ [Bacnet!Next]_bacnetVars => BatchInv'
<1> SUFFICES ASSUME BatchInv, [Bacnet!Next]_bacnetVars PROVE BatchInv'
  OBVIOUS
<1>1. CASE Bacnet!Command \/ Bacnet!PreOp \/ Bacnet!Transform \/ Bacnet!Encoded \/ Bacnet!Send
  BY <1>1, CommandBatch, PreOpBatch, TransformBatch, EncodedBatch, SendBatch
<1>2. CASE UNCHANGED <<cmd, written, devices, virtual, stage>>
  <2>1. Bacnet!Writes' = Bacnet!Writes /\ \A w : Passed(w)' <=> Passed(w)
    BY <1>2 DEF Bacnet!Writes, Passed
  <2> QED BY <1>2, <2>1 DEF BatchInv, CommandOK
<1>3. CASE Bacnet!InitConnector \/ Bacnet!AddPoint \/ Bacnet!StartTask
  <2>1. stage # "run" /\ UNCHANGED <<cmd, written>>
    BY <1>3 DEF Bacnet!InitConnector, Bacnet!AddPoint, Bacnet!StartTask, Bacnet!writing
  <2>2. cmd.pc = "idle"
    BY <2>1 DEF BatchInv
  <2> QED BY <2>1, <2>2 DEF BatchInv
<1>4. CASE \/ Bacnet!JobBegin \/ Bacnet!NextDevice \/ Bacnet!NextGroup \/ Bacnet!Answer \/ Bacnet!JobEnd \/ Bacnet!Pass
           \/ Bacnet!Close
  <2>1. UNCHANGED <<Bacnet!setup, Bacnet!writing>>
    BY <1>4 DEF Bacnet!JobBegin, Bacnet!NextDevice, Bacnet!NextGroup, Bacnet!Answer, Bacnet!JobEnd, Bacnet!Pass,
       Bacnet!Close
  <2> QED BY <1>2, <2>1 DEF Bacnet!setup, Bacnet!writing
<1>5. CASE UNCHANGED bacnetVars
  BY <1>2, <1>5 DEF bacnetVars
<1> QED BY <1>1, <1>3, <1>4, <1>5 DEF Bacnet!Next

LEMMA BatchesAreWhole == BatchInv => Bacnet!BatchIsWhole
<1> SUFFICES ASSUME BatchInv PROVE Bacnet!BatchIsWhole
  OBVIOUS
<1>1. CASE cmd.pc = "ok"
  <2>1. CommandOK /\ DOMAIN cmd.batch = 1 .. Len(cmd.batch)
    BY <1>1, UnderWay DEF CommandFacts
  <2>2. \A w : Passed(w)
    BY <1>1 DEF Passed
  <2>3. Bacnet!Elements(written) = IF cmd.id \in DOMAIN devices /\ ~virtual THEN Bacnet!Writes ELSE {}
    BY <1>1, <2>1, <2>2 DEF CommandOK
  <2>4. \A v \in Bacnet!Elements(cmd.batch) : v.fits /\ \A k \in DOMAIN v.pre : v.pre[k]
    BY <1>1, <2>1 DEF CommandOK, Clean, Bacnet!Elements
  <2>5. Bacnet!InOrder(written) /\ \E b \in Batches : b.id = cmd.id /\ b.values = cmd.batch
    BY <1>1, <2>1 DEF CommandOK
  <2> QED BY <1>1, <2>3, <2>4, <2>5 DEF Bacnet!BatchIsWhole
<1>2. CASE cmd.pc = "error"
  <2>1. \A n \in DOMAIN written : written[n][2] # 0
    BY <1>2 DEF BatchInv, CommandOK
  <2> QED BY <1>2, <2>1 DEF Bacnet!BatchIsWhole
<1> QED BY <1>1, <1>2 DEF Bacnet!BatchIsWhole

-----------------------------------------------------------------------------
(***************************************************************************)
(* Reads after Close, and the theorem                                      *)
(***************************************************************************)

\* The job sees the flag before it begins a read: only the one that has begun is late.
LateInv ==
    /\ "pc" \in DOMAIN job /\ late \in {0, 1}
    /\ ~close \/ job.pc = "ask" => late = 0

LEMMA LateInit == Bacnet!Init => LateInv
BY DEF Bacnet!Init, LateInv, Bacnet!NoJob

LEMMA LateStep == LateInv /\ [Bacnet!Next]_bacnetVars => LateInv'
<1> SUFFICES ASSUME LateInv, [Bacnet!Next]_bacnetVars PROVE LateInv'
  OBVIOUS
<1> USE DEF LateInv
<1>1. CASE UNCHANGED <<job, late>> /\ (close => close')
  BY <1>1
<1>2. CASE Bacnet!InitConnector \/ Bacnet!AddPoint \/ Bacnet!StartTask \/ Bacnet!Pass \/ Bacnet!Command
           \/ Bacnet!PreOp \/ Bacnet!Transform \/ Bacnet!Encoded \/ Bacnet!Send
  <2>1. UNCHANGED <<job, late, close>>
    BY <1>2 DEF Bacnet!InitConnector, Bacnet!AddPoint, Bacnet!StartTask, Bacnet!Pass, Bacnet!Command, Bacnet!PreOp,
       Bacnet!Transform, Bacnet!Encoded, Bacnet!Send, Bacnet!reading, Bacnet!ending
  <2> QED BY <1>1, <2>1
<1>3. CASE Bacnet!Close
  BY <1>1, <1>3 DEF Bacnet!Close, Bacnet!reading
<1>4. CASE Bacnet!JobBegin \/ Bacnet!NextDevice \/ Bacnet!JobEnd
  <2>1. UNCHANGED <<late, close>>
    BY <1>4 DEF Bacnet!JobBegin, Bacnet!NextDevice, Bacnet!JobEnd, Bacnet!ending
  <2>2. "pc" \in DOMAIN job' /\ job'.pc # "ask"
    <3>1. CASE Bacnet!JobBegin
      <4>1. job' = [Bacnet!NoJob EXCEPT !.pc = "walk", !.left = DOMAIN devices]
        BY <3>1 DEF Bacnet!JobBegin
      <4> QED BY <4>1 DEF Bacnet!NoJob
    <3>2. CASE Bacnet!NextDevice
      <4>1. \E id \in job.left : job' = [pc |-> "groups", left |-> job.left \ {id}, id |-> id, g |-> 1]
        BY <3>2 DEF Bacnet!NextDevice
      <4> QED BY <4>1
    <3>3. CASE Bacnet!JobEnd
      BY <3>3 DEF Bacnet!JobEnd, Bacnet!NoJob
    <3> QED BY <1>4, <3>1, <3>2, <3>3
  <2> QED BY <2>1, <2>2
<1>5. CASE Bacnet!NextGroup
  <2>1. UNCHANGED <<late, close>> /\ "pc" \in DOMAIN job' /\ (close => job'.pc = "walk")
    BY <1>5 DEF Bacnet!NextGroup, Bacnet!ending
  <2> QED BY <2>1
<1>6. CASE Bacnet!Answer
  <2>1. /\ job.pc = "ask" /\ "pc" \in DOMAIN job' /\ job'.pc = "groups" /\ UNCHANGED close
        /\ late' = IF close THEN late + 1 ELSE late
    BY <1>6 DEF Bacnet!Answer, Bacnet!ending
  <2> QED BY <2>1
<1>7. CASE UNCHANGED bacnetVars
  BY <1>1, <1>7 DEF bacnetVars
<1> QED BY <1>2, <1>3, <1>4, <1>5, <1>6, <1>7 DEF Bacnet!Next

\* Readable points are read once a period, within the limit of a request; a batch is written whole
\* and in order or not at all; a closed connection begins no read (BacnetConnector).
THEOREM PlansAreAlwaysWhole == MCSpec => []PlansAreWhole
<1>1. MCInit => ArrangeInv /\ BatchInv /\ LateInv
  BY ArrangeInit, BatchInit, LateInit DEF MCInit
<1>2. /\ ArrangeInv /\ BatchInv /\ LateInv /\ [MCNext]_<<vars, bacnetVars, part>>
      => (ArrangeInv /\ BatchInv /\ LateInv)'
  <2>1. [MCNext]_<<vars, bacnetVars, part>> => [Bacnet!Next]_bacnetVars
    BY DEF MCNext
  <2> QED BY <2>1, ArrangeStep, BatchStep, LateStep
<1>3. ArrangeInv /\ BatchInv /\ LateInv => PlansAreWhole
  BY ArrangedIsHeld, BatchesAreWhole DEF LateInv, PlansAreWhole, Bacnet!OneReadAfterClose
<1> QED BY <1>1, <1>2, <1>3, PTL DEF MCSpec
=============================================================================
