----------------------- MODULE BacnetSubscriptions -----------------------
(***************************************************************************)
(* Unconfirmed answers of the BACnet client (plugins/bacnet/internal/      *)
(* bacnet: utsm, whois.go, whatnetwork.go, whoisrouter.go).                *)
(*                                                                         *)
(* Who-Is, What-Is-Network-Number and Who-Is-Router-To-Network broadcast a *)
(* question and subscribe to the answers.  Every answer is published by    *)
(* the goroutine that handles its datagram, which holds the manager's      *)
(* mutex while it serves all subscribers, and a subscriber's mutex while   *)
(* it puts the answer into a channel of one place.  The subscriber takes   *)
(* its own mutex before every wait, to read when it last heard something,  *)
(* and the manager's mutex to leave.                                       *)
(*                                                                         *)
(* The broadcast itself leaves in a third goroutine, whose result the      *)
(* caller takes after the subscription, and is left out: answers come or   *)
(* do not.  Time is left out: a wait may end at any moment.                *)
(***************************************************************************)
EXTENDS Naturals, Sequences, FiniteSets, SequencesExt

CONSTANTS
    Sub,     \* calls of Subscribe
    Span,   \* the instances, or network numbers, each is interested in
    Answer,  \* datagrams with an answer
    IdOf,    \* the instance or network number of each
    Nobody

VARIABLES
    sub,     \* each call: where it is, its channel, and what it has stored
    subs,    \* the manager's list
    pub,     \* the goroutine of each answer: where it is, and the place in the list it has reached
    mMutex,  \* who holds the manager's mutex
    sMutex   \* who holds each subscriber's

vars == <<sub, subs, pub, mMutex, sMutex>>

Init ==
    /\ sub = [s \in Sub |-> [pc |-> "idle", data |-> <<>>, store |-> <<>>]]
    /\ subs = <<>>
    /\ pub = [a \in Answer |-> [pc |-> "away", i |-> 0]]
    /\ mMutex = Nobody /\ sMutex = [s \in Sub |-> Nobody]

----------------------------------------------------------------------------
\* The question is asked, and the subscriber enters the list under the manager's mutex.
Subscribe(s) ==
    /\ sub[s].pc = "idle" /\ mMutex = Nobody
    /\ subs' = Append(subs, s)
    /\ sub' = [sub EXCEPT ![s].pc = "timeout"]
    /\ UNCHANGED <<pub, mMutex, sMutex>>

\* getTimeout takes the subscriber's mutex for a moment, before each wait.
GetTimeout(s) ==
    /\ sub[s].pc = "timeout" /\ sMutex[s] = Nobody
    /\ sub' = [sub EXCEPT ![s].pc = "select"]
    /\ UNCHANGED <<subs, pub, mMutex, sMutex>>

Take(s) ==
    /\ sub[s].pc = "select" /\ sub[s].data # <<>>
    /\ sub' = [sub EXCEPT ![s] = [pc |-> "timeout", data |-> <<>>, store |-> Append(@.store, Head(@.data))]]
    /\ UNCHANGED <<subs, pub, mMutex, sMutex>>

Expire(s) ==
    /\ sub[s].pc = "select"
    /\ sub' = [sub EXCEPT ![s].pc = "leave"]
    /\ UNCHANGED <<subs, pub, mMutex, sMutex>>

RemoveSubscriber(s) ==
    /\ sub[s].pc = "leave" /\ mMutex = Nobody
    /\ subs' = SelectSeq(subs, LAMBDA t : t # s)
    /\ sub' = [sub EXCEPT ![s].pc = "done"]
    /\ UNCHANGED <<pub, mMutex, sMutex>>

----------------------------------------------------------------------------
Arrive(a) ==
    /\ pub[a].pc = "away"
    /\ pub' = [pub EXCEPT ![a].pc = "lock"]
    /\ UNCHANGED <<sub, subs, mMutex, sMutex>>

Lock(a) ==
    /\ pub[a].pc = "lock" /\ mMutex = Nobody
    /\ mMutex' = a
    /\ pub' = [pub EXCEPT ![a] = [pc |-> "serve", i |-> 1]]
    /\ UNCHANGED <<sub, subs, sMutex>>

\* The next subscriber in the list: passed over, or its mutex taken.
Serve(a) ==
    /\ pub[a].pc = "serve" /\ pub[a].i <= Len(subs)
    /\ LET s == subs[pub[a].i] IN
       \/ /\ IdOf[a] \notin Span[s]
          /\ pub' = [pub EXCEPT ![a].i = @ + 1] /\ UNCHANGED sMutex
       \/ /\ IdOf[a] \in Span[s] /\ sMutex[s] = Nobody
          /\ sMutex' = [sMutex EXCEPT ![s] = a]
          /\ pub' = [pub EXCEPT ![a].pc = "send"]
    /\ UNCHANGED <<sub, subs, mMutex>>

\* The subscriber's mutex kept.
Send_Mutant(a) ==
    /\ pub[a].pc = "send"
    /\ LET s == subs[pub[a].i] IN sub[s].data = <<>> /\ sub' = [sub EXCEPT ![s].data = <<a>>]
    /\ pub' = [pub EXCEPT ![a] = [pc |-> "serve", i |-> @.i + 1]]
    /\ UNCHANGED <<subs, mMutex, sMutex>>

\* The send waits for room in the channel, with both mutexes held.
Send(a) ==
    /\ pub[a].pc = "send"
    /\ LET s == subs[pub[a].i] IN
       /\ sub[s].data = <<>>
       /\ sub' = [sub EXCEPT ![s].data = <<a>>]
       /\ sMutex' = [sMutex EXCEPT ![s] = Nobody]
    /\ pub' = [pub EXCEPT ![a] = [pc |-> "serve", i |-> @.i + 1]]
    /\ UNCHANGED <<subs, mMutex>>

Unlock(a) ==
    /\ pub[a].pc = "serve" /\ pub[a].i > Len(subs)
    /\ mMutex' = Nobody
    /\ pub' = [pub EXCEPT ![a].pc = "done"]
    /\ UNCHANGED <<sub, subs, sMutex>>

----------------------------------------------------------------------------
SubStep(s) == GetTimeout(s) \/ Take(s) \/ Expire(s) \/ RemoveSubscriber(s)
PubStep(a) == Lock(a) \/ Serve(a) \/ Send(a) \/ Unlock(a)

Next ==
    \/ \E s \in Sub : Subscribe(s) \/ SubStep(s)
    \/ \E a \in Answer : Arrive(a) \/ PubStep(a)

Spec == Init /\ [][Next]_vars

----------------------------------------------------------------------------
\* A publisher that waits for room, with a subscriber that will not make any.
Jammed == \E a \in Answer : /\ pub[a].pc = "send"
                            /\ sub[subs[pub[a].i]].data # <<>>
                            /\ sub[subs[pub[a].i]].pc \in {"timeout", "leave"}

\* When someone still waits and nobody can take a step, a publisher waits for room in the
\* channel of a subscriber that waits for a mutex: there is no other way to wait for ever
\* (utsm.Publish, Subscribe).
OnlyAFullChannelJams ==
    /\ \E s \in Sub : sub[s].pc \notin {"idle", "done"}
    /\ ~ENABLED \E s \in Sub : SubStep(s)
    /\ ~ENABLED \E a \in Answer : PubStep(a)
    => Jammed
=============================================================================
