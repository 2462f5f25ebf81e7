--------------------------- MODULE ModbusConnector --------------------------
(***************************************************************************)
(* The goroutines of one Modbus connection (plugins/modbus/internal):      *)
(* callers that write bits of a register or read it, and the collection,   *)
(* share one client.  writeEncodeMu is held from Encode to the end of Send *)
(* in write mode, mutex while the client is open for one exchange, and     *)
(* writeSemaphore counts the writes that reads give way to.                *)
(*                                                                         *)
(* The slave has one group of one holding register, whose bits are points. *)
(* Groups and values of several registers are in ModbusPoints.             *)
(***************************************************************************)
EXTENDS Integers, Sequences

CONSTANTS
    Caller, Collector,  \* goroutines
    Nobody,             \* no goroutine
    Bit,                \* bits of the register
    wire,               \* where a bit is in what the slave sends: byteSwap exchanges the bytes
    Requests,           \* the values that a caller may write: bits and their values, in order
    Mode,               \* "rtu", or another
    Retry,              \* attempts of a write
    Duration, Minute,   \* of the group, and the most that a wait may be, in ticks
    Width,              \* durations are signed integers of this width: 64 in the code
    MaxAsks,            \* bound: requests of a caller
    NoValue

Value == [Bit -> {0, 1}]

ASSUME GoroutinesAssumption == Collector \notin Caller /\ Nobody \notin Caller \cup {Collector}
ASSUME WireAssumption       == wire \in [Bit -> Bit] /\ \A a, b \in Bit : wire[a] = wire[b] => a = b
\* The points of a request are different.
ASSUME RequestsAssumption   ==
    /\ Requests \in [Caller -> SUBSET Seq(Bit \X {0, 1})]
    /\ \A c \in Caller : \A r \in Requests[c] :
          /\ Len(r) > 0
          /\ \A i, j \in 1..Len(r) : r[i][1] = r[j][1] => i = j
ASSUME NumbersAssumption    ==
    /\ Retry \in Nat /\ Retry > 0 /\ MaxAsks \in Nat /\ Width \in Nat
    /\ Duration \in Nat /\ Duration > 0 /\ Minute \in Nat
ASSUME NoValueAssumption    == NoValue \notin Value \cup {0, 1}

VARIABLES
    proc,           \* what each goroutine is about
    mutex,          \* who holds it
    writeEncodeMu,  \* who holds it
    writeSemaphore,
    keepAlive,      \* is the client taken for open?
    socket,         \* what it is: "closed", "open" or "broken"
    closed,         \* connector.close
    register,       \* what the slave holds, as it sends it
    age,            \* ticks since LatestTime of the group, up to the longest wait
    timeOutCount,   \* of the group
    asked,          \* requests of each caller
    acked           \* history: the value of a bit that was written last, if nobody asked for another

client == <<mutex, keepAlive, socket>>
group  == <<age, timeOutCount>>
vars   == <<proc, client, writeEncodeMu, writeSemaphore, closed, register, group, asked, acked>>

Process == Caller \cup {Collector}

Idle == [at |-> "idle", todo |-> <<>>, done |-> 0, value |-> NoValue, tries |-> 0, result |-> "none"]

Holding  == {"encoding", "writing", "fetching"}
Counted  == {"try", "writing", "written"}
Encoding == {"encode", "encoding", "send"} \cup Counted

MaxAge == IF Duration > Minute THEN Duration ELSE Minute

Asks(c, b) == \E i \in 1..Len(proc[c].todo) : proc[c].todo[i][1] = b

Init ==
    /\ proc = [p \in Process |-> Idle]
    /\ mutex = Nobody /\ writeEncodeMu = Nobody /\ writeSemaphore = 0
    /\ keepAlive = FALSE /\ socket = "closed" /\ closed = FALSE
    /\ register \in Value
    /\ age = MaxAge /\ timeOutCount = 0
    /\ asked = [c \in Caller |-> 0]
    /\ acked = [b \in Bit |-> NoValue]

-----------------------------------------------------------------------------
(* The client *)

\* openModbusClient succeeds.
Open(p, next) ==
    /\ mutex = Nobody
    /\ mutex' = p
    /\ keepAlive' = TRUE
    /\ socket' = IF keepAlive THEN socket ELSE "open"
    /\ proc' = [proc EXCEPT ![p].at = next]

\* Mutant of OpenFails: An early return keeps the lock.
OpenFails_Mutant(p) ==
    /\ mutex = Nobody /\ ~keepAlive
    /\ mutex' = p
    /\ UNCHANGED <<keepAlive, socket>>

\* The client cannot be opened: the lock is released at once.
OpenFails(p) ==
    /\ mutex = Nobody /\ ~keepAlive
    /\ UNCHANGED client

\* closeModbusClient: a serial line stays open as long as no error is known.
Close(failed) ==
    /\ mutex' = Nobody
    /\ IF Mode # "rtu" \/ failed THEN keepAlive' = FALSE /\ socket' = "closed"
                                 ELSE UNCHANGED <<keepAlive, socket>>

\* Mutant of CloseRead: The argument is evaluated before the exchange.
CloseRead_Mutant(failed) == Close(FALSE)

\* The deferred call in read sees the result of the exchange.
CloseRead(failed) == Close(failed)

\* In write it is given the error of openModbusClient, which is none.
CloseWrite == Close(FALSE)

-----------------------------------------------------------------------------
(* Writing *)

\* A caller writes bits.
AskWrite(c) ==
    /\ proc[c].at = "idle" /\ asked[c] < MaxAsks
    /\ \E r \in Requests[c] :
          /\ proc' = [proc EXCEPT ![c] = [Idle EXCEPT !.at = "lock", !.todo = r]]
          /\ acked' = [b \in Bit |-> IF \E i \in 1..Len(r) : r[i][1] = b THEN NoValue ELSE acked[b]]
    /\ asked' = [asked EXCEPT ![c] = @ + 1]
    /\ UNCHANGED <<client, writeEncodeMu, writeSemaphore, closed, register, group>>

LockEncode(c) ==
    /\ proc[c].at = "lock" /\ writeEncodeMu = Nobody
    /\ writeEncodeMu' = c
    /\ proc' = [proc EXCEPT ![c].at = "encode"]
    /\ UNCHANGED <<client, writeSemaphore, closed, register, group, asked, acked>>

\* Encode returns an error: it releases the lock, and Send is not called.
EncodeFails(c) ==
    /\ writeEncodeMu' = Nobody
    /\ proc' = [proc EXCEPT ![c] = Idle]

OpenToEncode(c) ==
    /\ proc[c].at = "encode"
    /\ \/ Open(c, "encoding") /\ UNCHANGED writeEncodeMu
       \/ OpenFails(c) /\ EncodeFails(c)
    /\ UNCHANGED <<writeSemaphore, closed, register, group, asked, acked>>

\* The register with bit b set to v, in the order of its own bytes.
WithBit(reg, b, v) == [reg EXCEPT ![wire[b]] = v]

\* The next bit of a request joins those before it; its mask is not in the order of the bytes.
Merge(value, reg, b) == IF value = NoValue THEN reg ELSE [value EXCEPT ![b] = reg[b]]

\* Mutant of EncodeBit: Encode gives the lock back when it has encoded all bits.
EncodeBit_Mutant(c) ==
    LET next == proc[c].todo[proc[c].done + 1]
        all  == proc[c].done + 1 = Len(proc[c].todo)
    IN  /\ proc[c].at = "encoding"
        /\ \/ /\ socket = "open"
              /\ proc' = [proc EXCEPT ![c].at = IF all THEN "send" ELSE "encode", ![c].done = @ + 1,
                              ![c].value = Merge(@, WithBit(register, next[1], next[2]), next[1])]
              /\ CloseRead(FALSE)
              /\ writeEncodeMu' = IF all THEN Nobody ELSE writeEncodeMu
           \/ EncodeFails(c) /\ CloseRead(TRUE)
        /\ UNCHANGED <<writeSemaphore, closed, register, group, asked, acked>>

\* The register is read to change the next bit of the request in it.
EncodeBit(c) ==
    LET next == proc[c].todo[proc[c].done + 1]
        all  == proc[c].done + 1 = Len(proc[c].todo)
    IN  /\ proc[c].at = "encoding"
        /\ \/ /\ socket = "open"
              /\ proc' = [proc EXCEPT ![c].at = IF all THEN "send" ELSE "encode", ![c].done = @ + 1,
                              ![c].value = Merge(@, WithBit(register, next[1], next[2]), next[1])]
              /\ CloseRead(FALSE)
              /\ UNCHANGED writeEncodeMu
           \/ EncodeFails(c) /\ CloseRead(TRUE)
        /\ UNCHANGED <<writeSemaphore, closed, register, group, asked, acked>>

\* sendWriteCommand begins.
BeginWrite(c) ==
    /\ proc[c].at = "send"
    /\ writeSemaphore' = writeSemaphore + 1
    /\ proc' = [proc EXCEPT ![c].at = "try", ![c].tries = Retry]
    /\ UNCHANGED <<client, writeEncodeMu, closed, register, group, asked, acked>>

\* An attempt has failed.
Attempted(c) ==
    proc' = [proc EXCEPT ![c].at = IF proc[c].tries = 1 THEN "written" ELSE "try",
                         ![c].tries = @ - 1, ![c].result = "error"]

OpenToWrite(c) ==
    /\ proc[c].at = "try"
    /\ \/ Open(c, "writing")
       \/ OpenFails(c) /\ Attempted(c)
    /\ UNCHANGED <<writeEncodeMu, writeSemaphore, closed, register, group, asked, acked>>

\* The bits of c whose values it is going to acknowledge: nobody else has asked for them since, and
\* they were not merged in the wrong order of bytes.
Acknowledges(c, b) ==
    /\ Asks(c, b)
    /\ \A d \in Caller \ {c} : ~Asks(d, b)
    /\ Len(proc[c].todo) = 1 \/ \A a \in Bit : wire[a] = a

ValueAsked(c, b) == LET i == CHOOSE i \in 1..Len(proc[c].todo) : proc[c].todo[i][1] = b
                    IN  proc[c].todo[i][2]

\* The register is written, with or without an answer, or it is not.
Write(c) ==
    /\ proc[c].at = "writing"
    /\ \/ /\ socket = "open" /\ register' = proc[c].value
          /\ proc' = [proc EXCEPT ![c].at = "written", ![c].result = "ok"]
          /\ acked' = [b \in Bit |-> IF Acknowledges(c, b) THEN ValueAsked(c, b) ELSE acked[b]]
       \/ socket = "open" /\ register' = proc[c].value /\ Attempted(c) /\ UNCHANGED acked
       \/ UNCHANGED <<register, acked>> /\ Attempted(c)
    /\ CloseWrite
    /\ UNCHANGED <<writeEncodeMu, writeSemaphore, closed, group, asked>>

\* Mutant of EndWrite: A failed write is not counted down.
EndWrite_Mutant(c) ==
    /\ proc[c].at = "written"
    /\ writeSemaphore' = IF proc[c].result = "ok" THEN writeSemaphore - 1 ELSE writeSemaphore
    /\ writeEncodeMu' = Nobody
    /\ proc' = [proc EXCEPT ![c] = Idle]
    /\ UNCHANGED <<client, closed, register, group, asked, acked>>

\* sendWriteCommand and Send return: the caller has its answer.
EndWrite(c) ==
    /\ proc[c].at = "written"
    /\ writeSemaphore' = writeSemaphore - 1
    /\ writeEncodeMu' = Nobody
    /\ proc' = [proc EXCEPT ![c] = Idle]
    /\ UNCHANGED <<client, closed, register, group, asked, acked>>

-----------------------------------------------------------------------------
(* Reading *)

AskRead(c) ==
    /\ proc[c].at = "idle" /\ asked[c] < MaxAsks
    /\ asked' = [asked EXCEPT ![c] = @ + 1]
    /\ proc' = [proc EXCEPT ![c].at = "ask"]
    /\ UNCHANGED <<client, writeEncodeMu, writeSemaphore, closed, register, group, acked>>

\* Twice the duration for every timeout, in the arithmetic of the type, but a minute at most.
Product(n) == LET m == (Duration * 2 ^ n) % (2 ^ Width)
              IN  IF m < 2 ^ (Width - 1) THEN m ELSE m - 2 ^ Width
Overflow(n) == n > 0 /\ Product(n) < 0

Wait(n) == IF n = 0 \/ Overflow(n) THEN Duration
           ELSE IF Product(n) > Minute THEN Minute ELSE Product(n)

\* The task of the collection runs: it looks at the group, and reads it if it is time and nobody
\* writes.  (latestWriteTime is compared in nanoseconds: no other step is that quick.)
Collect ==
    /\ proc[Collector].at = "idle" /\ ~closed
    /\ timeOutCount' = IF Overflow(timeOutCount) THEN 0 ELSE timeOutCount
    /\ proc' = IF age >= Wait(timeOutCount) /\ writeSemaphore = 0
               THEN [proc EXCEPT ![Collector].at = "ask"] ELSE proc
    /\ UNCHANGED <<client, writeEncodeMu, writeSemaphore, closed, register, age, asked, acked>>

\* sendReadCommand returns: a caller has its answer, the collection is not done yet.
Returns(p, result) ==
    proc' = [proc EXCEPT ![p] = IF p = Collector THEN [Idle EXCEPT !.at = "after", !.result = result]
                                ELSE Idle]

\* A read meets a write: it returns without an error, and the group is due at once (resetCollectTime).
GiveWay(p) ==
    /\ proc[p].at = "ask" /\ writeSemaphore > 0
    /\ age' = Duration
    /\ Returns(p, "ok")
    /\ UNCHANGED <<client, writeEncodeMu, writeSemaphore, closed, register, timeOutCount, asked, acked>>

BeginRead(p) ==
    /\ proc[p].at = "ask" /\ writeSemaphore = 0
    /\ proc' = [proc EXCEPT ![p].at = "fetch"]
    /\ UNCHANGED <<client, writeEncodeMu, writeSemaphore, closed, register, group, asked, acked>>

OpenToRead(p) ==
    /\ proc[p].at = "fetch"
    /\ \/ Open(p, "fetching")
       \/ OpenFails(p) /\ Returns(p, "error")
    /\ UNCHANGED <<writeEncodeMu, writeSemaphore, closed, register, group, asked, acked>>

\* The group is read, or the read fails.
Read(p) ==
    /\ proc[p].at = "fetching"
    /\ \/ socket = "open" /\ Returns(p, "ok") /\ CloseRead(FALSE)
       \/ socket = "open" /\ Returns(p, "timeout") /\ CloseRead(TRUE)
       \/ Returns(p, "error") /\ CloseRead(TRUE)
    /\ UNCHANGED <<writeEncodeMu, writeSemaphore, closed, register, group, asked, acked>>

\* The collection notes when, and whether the read timed out.
Collected ==
    LET result == proc[Collector].result
    IN  /\ proc[Collector].at = "after"
        /\ timeOutCount' = IF result = "timeout" THEN timeOutCount + 1
                           ELSE IF result = "ok" THEN 0 ELSE timeOutCount
        /\ age' = 0
        /\ proc' = [proc EXCEPT ![Collector] = Idle]
        /\ UNCHANGED <<client, writeEncodeMu, writeSemaphore, closed, register, asked, acked>>

-----------------------------------------------------------------------------
(* The rest of the world *)

\* connector.Close, without a lock: the client is closed under whoever uses it.
CloseConnector ==
    /\ ~closed
    /\ closed' = TRUE
    /\ socket' = IF keepAlive THEN "closed" ELSE socket
    /\ UNCHANGED <<proc, mutex, keepAlive, writeEncodeMu, writeSemaphore, register, group, asked, acked>>

Break ==
    /\ socket = "open"
    /\ socket' = "broken"
    /\ UNCHANGED <<proc, mutex, keepAlive, writeEncodeMu, writeSemaphore, closed, register, group, asked, acked>>

\* The device itself changes a bit.
DeviceChanges(b) ==
    /\ register' = [register EXCEPT ![wire[b]] = 1 - @]
    /\ acked' = [acked EXCEPT ![b] = NoValue]
    /\ UNCHANGED <<proc, client, writeEncodeMu, writeSemaphore, closed, group, asked>>

Tick ==
    /\ age < MaxAge
    /\ age' = age + 1
    /\ UNCHANGED <<proc, client, writeEncodeMu, writeSemaphore, closed, register, timeOutCount, asked, acked>>

CallerStep(c) == LockEncode(c) \/ OpenToEncode(c) \/ EncodeBit(c) \/ BeginWrite(c) \/ OpenToWrite(c)
                    \/ Write(c) \/ EndWrite(c)
ReadStep(p)   == GiveWay(p) \/ BeginRead(p) \/ OpenToRead(p) \/ Read(p)

Next ==
    \/ \E c \in Caller : AskWrite(c) \/ AskRead(c) \/ CallerStep(c)
    \/ \E p \in Process : ReadStep(p)
    \/ Collect \/ Collected
    \/ CloseConnector \/ Break \/ Tick
    \/ \E b \in Bit : DeviceChanges(b)

Spec == Init /\ [][Next]_vars

\* Goroutines go on, exchanges end by an answer or a timeout, the task of the collection runs again and
\* again, and those who wait for a lock get it (a sync.Mutex does not starve).
Fairness ==
    /\ \A c \in Caller : SF_vars(CallerStep(c))
    /\ \A p \in Process : SF_vars(ReadStep(p))
    /\ WF_vars(Collect) /\ WF_vars(Collected) /\ WF_vars(Tick)

FairSpec == Spec /\ Fairness

-----------------------------------------------------------------------------
(* Properties *)

ProcType == [at : {"idle", "lock", "ask", "fetch", "fetching", "after"} \cup Encoding,
             todo : {<<>>} \cup UNION {Requests[c] : c \in Caller}, done : Nat,
             value : Value \cup {NoValue}, tries : 0..Retry, result : {"none", "ok", "error", "timeout"}]

\* Goroutines, locks and the client are in states that the code knows, and counts are natural numbers.
TypeOK ==
    /\ proc \in [Process -> ProcType]
    /\ mutex \in Process \cup {Nobody} /\ writeEncodeMu \in Caller \cup {Nobody}
    /\ writeSemaphore \in Nat /\ timeOutCount \in Nat /\ age \in 0..MaxAge
    /\ keepAlive \in BOOLEAN /\ closed \in BOOLEAN /\ socket \in {"closed", "open", "broken"}
    /\ register \in Value
    /\ asked \in [Caller -> 0..MaxAsks]
    /\ acked \in [Bit -> {0, 1, NoValue}]

\* A bit that was written and acknowledged keeps its value until someone writes that bit or the device
\* changes it, whoever writes other bits of the register meanwhile: reading, changing and writing back
\* do not interfere (getWriteValue, adapter.go:182-217, under writeEncodeMu).  Bits merged in a request
\* of a point with byteSwap are the exception.
AcknowledgedBitsStay == \A b \in Bit : acked[b] # NoValue => register[wire[b]] = acked[b]

\* Each lock is held by the one goroutine that is between its Lock and its Unlock, and the semaphore counts
\* the writes under way, on every path through errors, retries and a closing connector
\* (connector.go:208, 422-426, 525-553; adapter.go:40, 92).
LocksAreHeldByTheirUsers ==
    /\ \A p \in Process : mutex = p <=> proc[p].at \in Holding
    /\ \A c \in Caller : writeEncodeMu = c <=> proc[c].at \in Encoding
    /\ writeSemaphore = IF \E c \in Caller : proc[c].at \in Counted THEN 1 ELSE 0

\* Every request is answered, though it waits for locks that others hold while they exchange, fail and
\* try again (Encode, Send).
RequestsAreAnswered == \A c \in Caller : proc[c].at # "idle" ~> proc[c].at = "idle"

\* The collection reads on, unless the connector is closed or writes keep coming for ever: what gives way
\* is not forgotten (initCollectTask, connector.go:85-93).
CollectionGoesOn ==
    \/ []<>(closed \/ proc[Collector].at = "fetch")
    \/ \E c \in Caller : []<>(proc[c].at = "lock")

\* A broken line is opened anew, since reads close the client when they fail (read, connector.go:490-497);
\* writes do not.  When the connector is closed, nobody need read any more.
BrokenLineIsReopened == socket = "broken" ~> socket # "broken" \/ closed
=============================================================================
