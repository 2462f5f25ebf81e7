--------------------------- MODULE BacnetClient ---------------------------
(***************************************************************************)
(* Confirmed requests of the BACnet client (plugins/bacnet/internal/       *)
(* bacnet: tsm, device.go, readprop.go, readmulti.go, writeprop.go,        *)
(* writemulti.go).                                                         *)
(*                                                                         *)
(* A request takes one of the places and an invoke id, registers a         *)
(* state with a new channel, sends, waits for what the handlers put into   *)
(* the channel, perhaps sends again, and gives everything back.  Every     *)
(* datagram is handled in a goroutine of its own, which finds the state by *)
(* the invoke id alone, reads the state's channel, and then waits until    *)
(* somebody receives from it: or ends the process, when the channel is     *)
(* closed by then.                                                         *)
(*                                                                         *)
(* Transactions are numbered in the order they begin.  The number of a     *)
(* transaction stands for its channel, and says of an answer which request *)
(* it answers, which the program cannot see.  A datagram is delivered      *)
(* late, out of order, or never; it is not duplicated.                     *)
(***************************************************************************)
EXTENDS Naturals, Sequences, FiniteSets, Functions

CONSTANTS
    Callers,        \* goroutines that send requests
    Kind,           \* what each sends: "read", "multi" (both multi services) or "write"
    MaxTransaction, \* the invoke ids are 1 .. MaxTransaction - 1
    Sizes,          \* what tsm.New may be given: the transactions that may be open at once
    Objs,           \* the states sync.Pool hands out, pooled or new
    MaxMoves,       \* bound: requests made, and requests of other devices that arrive here
    MaxPending      \* bound: datagrams under way or being handled

ASSUME SizeAssumption ==
    /\ MaxTransaction \in Nat /\ IsFiniteSet(Objs)
    /\ Sizes \subseteq 1 .. MaxTransaction - 1
    /\ \A n \in Sizes : n <= Cardinality(Objs)
    /\ Kind \in [Callers -> {"read", "multi", "write"}]
    /\ MaxMoves \in Nat /\ MaxPending \in Nat

VARIABLES
    caller,   \* each caller's request: where it is, its id, transaction, tries left and last answer
    moves,    \* requests made, and requests of other devices
    size,     \* the size tsm.New was given
    free,     \* the queue of free invoke ids
    space,    \* the places left
    states,   \* the state of each id in use
    chan,     \* the channel each state holds
    begun,    \* transactions begun
    net,      \* datagrams under way to the client
    handlers, \* goroutines of handleMsg that have found a state
    late,     \* a receive has timed out, or a stray request arrived
    crashed   \* a send on a closed channel has ended the process

vars == <<caller, moves, size, free, space, states, chan, begun, net, handlers, late, crashed>>
queues == <<size, free, space, states, chan, begun>>
traffic == <<net, handlers>>

Ids == 1 .. MaxTransaction - 1
NoAnswer == [of |-> 0, id |-> 0, at |-> 0, kind |-> "none"]
Idle == [pc |-> "idle", id |-> 0, tr |-> 0, left |-> 0, got |-> NoAnswer]

\* How often a request is sent: retryCount, maxReattempt, and the literal of WriteProperty.
Tries(k) == IF k = "read" THEN 1 ELSE 2

\* The channel of a transaction is open until its Put.
Open == {caller[c].tr : c \in {d \in Callers : caller[d].pc \in {"send", "wait", "end"}}}

TypeOK ==
    /\ DOMAIN caller = Callers
    /\ \A c \in Callers :
          /\ caller[c].pc \in {"idle", "space", "send", "wait", "end"}
          /\ caller[c].id \in 0 .. MaxTransaction - 1
          /\ caller[c].tr \in 0 .. begun
    /\ moves \in 0 .. MaxMoves
    /\ free \in Seq(Ids) /\ size \in Sizes /\ space \in 0 .. size
    /\ DOMAIN states \subseteq Ids /\ \A i \in DOMAIN states : states[i] \in Objs
    /\ chan \in [Objs -> 0 .. begun]
    /\ late \in BOOLEAN /\ crashed \in BOOLEAN

Init ==
    /\ caller = [c \in Callers |-> Idle]
    /\ moves = 0
    /\ free = [i \in Ids |-> i] /\ size \in Sizes /\ space = size
    /\ states = <<>> /\ chan = [o \in Objs |-> 0] /\ begun = 0
    /\ net = {} /\ handlers = {}
    /\ late = FALSE /\ crashed = FALSE

----------------------------------------------------------------------------
(***************************************************************************)
(* A caller's request                                                      *)
(***************************************************************************)
Ask(c) ==
    /\ caller[c].pc = "idle" /\ moves < MaxMoves
    /\ caller' = [caller EXCEPT ![c] = [Idle EXCEPT !.pc = "space"]]
    /\ moves' = moves + 1
    /\ UNCHANGED <<queues, traffic, late, crashed>>

\* The context of ID ends while it waits for a place; nothing is held then.
GiveUp(c) ==
    /\ caller[c].pc = "space"
    /\ caller' = [caller EXCEPT ![c] = Idle]
    /\ UNCHANGED <<moves, queues, traffic, late, crashed>>

\* A place, and with it always an id: the oldest free one; a state that nobody else has, and a new channel in it.
Begin_Mutant(c) ==
    /\ caller[c].pc = "space" /\ space > 0 /\ free # <<>>
    /\ begun' = begun + 1 /\ free' = Tail(free) /\ space' = space - 1
    /\ \E o \in Objs :
          /\ states' = [i \in DOMAIN states \union {Head(free)} |-> IF i = Head(free) THEN o ELSE states[i]]
          /\ chan' = [chan EXCEPT ![o] = begun + 1]
    /\ caller' = [caller EXCEPT ![c] = [@ EXCEPT !.pc = "send", !.id = Head(free), !.tr = begun + 1,
                                                 !.left = Tries(Kind[c])]]
    /\ UNCHANGED <<moves, size, traffic, late, crashed>>

Begin_OldChannel(c) ==
    /\ caller[c].pc = "space" /\ space > 0 /\ free # <<>>
    /\ begun' = begun + 1 /\ free' = Tail(free) /\ space' = space - 1
    /\ \E o \in Objs \ {states[i] : i \in DOMAIN states} :
          /\ states' = [i \in DOMAIN states \union {Head(free)} |-> IF i = Head(free) THEN o ELSE states[i]]
          /\ chan' = IF chan[o] = 0 THEN [chan EXCEPT ![o] = begun + 1] ELSE chan
    /\ caller' = [caller EXCEPT ![c] = [@ EXCEPT !.pc = "send", !.id = Head(free), !.tr = begun + 1,
                                                 !.left = Tries(Kind[c])]]
    /\ UNCHANGED <<moves, size, traffic, late, crashed>>

Begin(c) ==
    /\ caller[c].pc = "space" /\ space > 0 /\ free # <<>>
    /\ begun' = begun + 1 /\ free' = Tail(free) /\ space' = space - 1
    /\ \E o \in Objs \ {states[i] : i \in DOMAIN states} :
          /\ states' = [i \in DOMAIN states \union {Head(free)} |-> IF i = Head(free) THEN o ELSE states[i]]
          /\ chan' = [chan EXCEPT ![o] = begun + 1]
    /\ caller' = [caller EXCEPT ![c] = [@ EXCEPT !.pc = "send", !.id = Head(free), !.tr = begun + 1,
                                                 !.left = Tries(Kind[c])]]
    /\ UNCHANGED <<moves, size, traffic, late, crashed>>

\* What the loop of a request does next, after a try that has failed.
Again(c) == IF caller[c].left > 0 THEN "send" ELSE "end"

Room == Cardinality(net) + Cardinality(handlers) < MaxPending

\* The request leaves, and the device answers it with a result, an error or nothing.
Send(c) ==
    /\ caller[c].pc = "send"
    /\ caller' = [caller EXCEPT ![c].pc = "wait", ![c].left = @ - 1]
    /\ \E k \in IF Room THEN {"ack", "error", "nothing"} ELSE {"nothing"} :
          net' = IF k = "nothing" THEN net
                 ELSE net \union {[kind |-> k, id |-> caller[c].id, of |-> caller[c].tr, try |-> caller[c].left]}
    /\ UNCHANGED <<moves, queues, handlers, late, crashed>>

\* The socket refuses the datagram: a failed try.
SendFails(c) ==
    /\ caller[c].pc = "send"
    /\ caller' = [caller EXCEPT ![c].left = @ - 1, ![c].pc = IF caller[c].left > 1 THEN "send" ELSE "end"]
    /\ UNCHANGED <<moves, queues, traffic, late, crashed>>

TimeOut(c) ==
    /\ caller[c].pc = "wait"
    /\ caller' = [caller EXCEPT ![c].pc = Again(c)]
    /\ late' = TRUE
    /\ UNCHANGED <<moves, queues, traffic, crashed>>

\* Put closes the channel, which every handler that holds it will notice.
Put_Mutant(c) ==
    /\ caller[c].pc = "end"
    /\ states' = [i \in DOMAIN states \ {caller[c].id} |-> states[i]]
    /\ free' = <<caller[c].id>> \o free /\ space' = space + 1
    /\ caller' = [caller EXCEPT ![c] = Idle]
    /\ UNCHANGED <<moves, size, chan, begun, traffic, late, crashed>>

Put(c) ==
    /\ caller[c].pc = "end"
    /\ states' = [i \in DOMAIN states \ {caller[c].id} |-> states[i]]
    /\ free' = Append(free, caller[c].id) /\ space' = space + 1
    /\ caller' = [caller EXCEPT ![c] = Idle]
    /\ UNCHANGED <<moves, size, chan, begun, traffic, late, crashed>>

----------------------------------------------------------------------------
(***************************************************************************)
(* The handlers of datagrams                                               *)
(***************************************************************************)
\* Another device sends a confirmed request of its own, with any invoke id.
StrayRequest(i) ==
    /\ moves < MaxMoves /\ Room
    /\ net' = net \union {[kind |-> "request", id |-> i, of |-> 0, try |-> moves]}
    /\ moves' = moves + 1 /\ late' = TRUE
    /\ UNCHANGED <<caller, queues, handlers, crashed>>

\* TSM.Send finds the state of the id under the mutex; without one the datagram is dropped.
LookUp(m) ==
    /\ net' = net \ {m}
    /\ handlers' = IF m.id \notin DOMAIN states THEN handlers
                   ELSE handlers \union {[msg |-> m, obj |-> states[m.id], at |-> chan[states[m.id]], ch |-> 0]}
    /\ UNCHANGED <<caller, moves, queues, late, crashed>>

\* It then reads the state's channel without the mutex: it may be another transaction's by now.
Evaluate(h) ==
    /\ h.ch = 0
    /\ handlers' = (handlers \ {h}) \union {[h EXCEPT !.ch = chan[h.obj]]}
    /\ UNCHANGED <<caller, moves, queues, net, late, crashed>>

\* A try ends the request unless it is of a multi service and was answered by an error,
\* or by the answer of another transaction that does not decode.
Ends(c, h, decodes) ==
    \/ Kind[c] \in {"read", "write"}
    \/ h.msg.kind # "error" /\ decodes

Deliver(c, h) ==
    /\ caller[c].pc = "wait" /\ h.ch = caller[c].tr
    /\ \E decodes \in IF h.msg.of \in {0, caller[c].tr} THEN {TRUE} ELSE BOOLEAN :
          caller' = [caller EXCEPT ![c] = [@ EXCEPT
              !.pc = IF Ends(c, h, decodes) THEN "end" ELSE Again(c),
              !.got = [of |-> h.msg.of, id |-> h.msg.id, at |-> h.at, kind |-> h.msg.kind]]]
    /\ handlers' = handlers \ {h}
    /\ UNCHANGED <<moves, queues, net, late, crashed>>

\* A send on a closed channel panics, and nothing in the goroutine recovers.
Panic(h) ==
    /\ h.ch # 0 /\ h.ch \notin Open
    /\ crashed' = TRUE
    /\ UNCHANGED <<caller, moves, queues, traffic, late>>

----------------------------------------------------------------------------
Next ==
    /\ ~crashed
    /\ \/ \E c \in Callers : Ask(c) \/ GiveUp(c) \/ Begin(c) \/ Send(c) \/ SendFails(c) \/ TimeOut(c) \/ Put(c)
       \/ \E c \in Callers : \E h \in handlers : Deliver(c, h)
       \/ \E i \in Ids : StrayRequest(i)
       \/ \E m \in net : LookUp(m)
       \/ \E h \in handlers : Evaluate(h) \/ Panic(h)

Spec == Init /\ [][Next]_vars

----------------------------------------------------------------------------
(***************************************************************************)
(* Properties                                                              *)
(***************************************************************************)
Holding == {c \in Callers : caller[c].pc \in {"send", "wait", "end"}}

\* No two transactions share an id, a state or a channel; an id is free or held by one of them
\* and never both; and no place is lost, whatever fails (tsm.ID, tsm.Put, the deferred Puts).
TransactionsAreDistinct ==
    /\ \A c, d \in Holding : c # d =>
          /\ caller[c].id # caller[d].id /\ caller[c].tr # caller[d].tr
          /\ states[caller[c].id] # states[caller[d].id]
    /\ DOMAIN states = {caller[c].id : c \in Holding}
    /\ \A c \in Holding : chan[states[caller[c].id]] = caller[c].tr
    /\ IsInjective(free) /\ Range(free) = Ids \ DOMAIN states
    /\ space + Cardinality(Holding) = size
    /\ space > 0 => free # <<>>

\* While every answer comes in time and no device sends requests of its own, a request only
\* ever gets an answer to itself, and no handler meets a closed channel.
TimelyAnswersAreOwn ==
    ~late => /\ ~crashed
             /\ \A c \in Callers : caller[c].got.of \in {0, caller[c].tr}

\* The queue of ids delays the reuse of an id as long as it can: the answer to an earlier
\* request is taken for one's own only if its handler had found the earlier request's state,
\* or if all ids that were free have been used in between.
WrongAnswersAreOld ==
    \A c \in Callers :
        LET g == caller[c].got IN
        g.of \notin {0, caller[c].tr} =>
            \/ g.at = g.of
            \/ g.at - g.of > MaxTransaction - 1 - size

\* The three together: an answer reaches the request it answers, as far as the ids can tell.
AnswersGoHome == TransactionsAreDistinct /\ TimelyAnswersAreOwn /\ WrongAnswersAreOld
=============================================================================
