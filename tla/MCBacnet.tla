------------------------------ MODULE MCBacnet ------------------------------
(***************************************************************************)
(* The BACnet plugin: a connection that collects, the frames it exchanges, *)
(* and the subscriptions to unconfirmed answers, side by side.  A          *)
(* behaviour exercises one of them, part, and leaves the others where they *)
(* start: they share no state, and one run has the sum of their states.    *)
(* The client's confirmed requests are in MCProtocols, a connection that   *)
(* is commanded beside its collection in MCConnectors.                     *)
(*                                                                         *)
(* Connection: two BACnet devices, model devices that share objects, two   *)
(* objects to a group; no command.                                         *)
(***************************************************************************)
EXTENDS BacnetConnector, TLC

CONSTANTS s1, s2, a1, a2, a3

CONSTANTS Requests, Answers, Sub, Span, Datagram, IdOf, Nobody

VARIABLES
    msg, frame, cut, got, exchange,
    sub, subs, pub, mMutex, sMutex,
    part

frames == <<msg, frame, cut, got, exchange>>
subscriptions == <<sub, subs, pub, mMutex, sMutex>>

Frames == INSTANCE BacnetFrames WITH wire <- frame, stage <- exchange
Subs == INSTANCE BacnetSubscriptions WITH Answer <- Datagram

MCSpan == (s1 :> {1, 2}) @@ (s2 :> {2})
MCIdOf == (a1 :> 1) @@ (a2 :> 2) @@ (a3 :> 2)

----------------------------------------------------------------------------
Object1(d, n, i, t, x, u, r) ==
    [dev |-> d, name |-> n, id |-> i, type |-> t, inst |-> x, dur |-> u, read |-> r, addr |-> TRUE]

\* A full group, an object that two model devices share; types, then periods that differ on one
\* object, a point of an unknown type; a device whose address is wrong.
SharedObject ==
    <<Object1("d", "a", 1, "analog", 1, 0, TRUE), Object1("d", "b", 1, "binary", 2, -1, TRUE),
      Object1("e", "a", 1, "analog", 1, 1, TRUE), Object1("e", "b", 1, "multi", 3, 1, TRUE),
      Object1("f", "a", 2, "large", 1, 5, TRUE)>>
TwoTypes ==
    <<Object1("d", "a", 1, "analog", 1, 2, TRUE), Object1("d", "b", 1, "binary", 2, 1, TRUE),
      Object1("d", "c", 1, "analog", 3, 2, TRUE), Object1("e", "b", 1, "binary", 1, 2, TRUE),
      Object1("e", "c", 1, "analog", 1, 1, FALSE)>>
TwoPeriods ==
    <<Object1("d", "a", 1, "analog", 1, 1, TRUE), Object1("d", "b", 1, "analog", 1, 1, TRUE),
      Object1("e", "b", 1, "none", 2, 1, TRUE), Object1("e", "c", 1, "binary", 2, 1, TRUE),
      Object1("d", "c", 1, "analog", 1, 3, TRUE)>>
BadAddress ==
    <<Object1("d", "a", 1, "analog", 1, 1, TRUE), [Object1("e", "a", 2, "analog", 1, 1, TRUE) EXCEPT !.addr = FALSE]>>

MCConfigs == {SharedObject, TwoTypes, TwoPeriods, BadAddress}

\* Which devices are commanded matters, not with what.
MCBatches == {[id |-> i, values |-> <<>>] : i \in {1, 2}}

----------------------------------------------------------------------------
(***************************************************************************)
(* Messages                                                                *)
(***************************************************************************)
ArrayAll == -1

Near == [net |-> 0, adr |-> <<>>, mac |-> <<>>, id |-> 0]
Behind == [net |-> 300, adr |-> <<7>>, mac |-> <<>>, id |-> 0]
ByMac == [net |-> 5, adr |-> <<>>, mac |-> <<10, 0, 0, 9, 186, 192>>, id |-> 600]
All == [net |-> 65535, adr |-> <<>>, mac |-> <<>>, id |-> 0]

To(dest) == [dest |-> dest, reply |-> TRUE]
AI1 == [type |-> 0, instance |-> 1]
BV9 == [type |-> 5, instance |-> 70000]
Own == [type |-> 600, instance |-> 4194302]

Vals == {[t |-> "null", v |-> <<>>], [t |-> "bool", v |-> <<1>>], [t |-> "real", v |-> <<66, 0, 0, 1>>],
         [t |-> "uint", v |-> <<255>>], [t |-> "uint", v |-> <<256>>], [t |-> "uint", v |-> <<-1>>],
         [t |-> "int", v |-> <<-5>>], [t |-> "int", v |-> <<127>>], [t |-> "int", v |-> <<300>>],
         [t |-> "enum", v |-> <<70000>>], [t |-> "object", v |-> <<5, 70000>>],
         [t |-> "string", v |-> <<65, 66, 67, 68>>], [t |-> "double", v |-> <<64, 9, 0, 0, 0, 0, 0, 1>>],
         [t |-> "int", v |-> <<200>>]}

Read(o, p, i, d) == [kind |-> "read", id |-> 7, obj |-> o, prop |-> p, idx |-> i, npdu |-> To(d)]
ReadP(p, i) == [prop |-> p, idx |-> i]
WriteP(p, x, prio) == [prop |-> p, idx |-> ArrayAll, val |-> x, prio |-> prio]

MCRequests ==
    {Read(o, p, i, d) : o \in {AI1, BV9, Own}, p \in {85, 512}, i \in {ArrayAll, 0, 5}, d \in {Near, Behind}}
    \cup {[kind |-> "write", id |-> 255, obj |-> o, prop |-> 85, idx |-> ArrayAll, val |-> x, prio |-> n, npdu |-> To(d)] :
             o \in {AI1}, x \in Vals, n \in {0, 8}, d \in {Near, ByMac}}
    \cup {[kind |-> "write", id |-> 1, obj |-> BV9, prop |-> 85, idx |-> ArrayAll, val |-> [t |-> "uint", v |-> <<1>>],
           prio |-> n, npdu |-> To(Behind)] : n \in {0, 16}}
    \cup {[kind |-> "readmulti", id |-> 0, npdu |-> To(Near),
           objs |-> <<[obj |-> AI1, props |-> <<ReadP(77, ArrayAll), ReadP(85, 3)>>],
                      [obj |-> Own, props |-> <<ReadP(p, ArrayAll)>>]>>] : p \in {28, 117}}
    \cup {[kind |-> "writemulti", id |-> 2, npdu |-> To(Near),
           objs |-> <<[obj |-> AI1, props |-> <<WriteP(85, x, n)>>], [obj |-> Own, props |-> <<WriteP(85, x, 0)>>]>>] :
             x \in Vals, n \in {0, 8}}
    \cup {[kind |-> "whois", low |-> r[1], high |-> r[2], npdu |-> [dest |-> d, reply |-> FALSE]] :
             r \in {<<-1, -1>>, <<0, 300>>}, d \in {All, Near}}

FromNear == [net |-> 0, adr |-> <<>>]
FromBehind == [net |-> 300, adr |-> <<7>>]

Sent == {[t |-> "null", v |-> <<>>], [t |-> "bool", v |-> <<0>>], [t |-> "real", v |-> <<66, 0, 0, 1>>],
         [t |-> "uint", v |-> <<70000>>], [t |-> "int", v |-> <<-5>>], [t |-> "int", v |-> <<200>>], [t |-> "enum", v |-> <<3>>],
         [t |-> "double", v |-> <<64, 9, 0, 0, 0, 0, 0, 1>>], [t |-> "octets", v |-> <<1, 2, 3>>],
         [t |-> "string", v |-> <<65, 66, 67, 68>>], [t |-> "bits", v |-> <<1, 0, 1, 1, 0, 0, 0, 0, 1>>],
         [t |-> "date", v |-> <<124, 2, 29, 4>>], [t |-> "object", v |-> <<5, 70000>>]}

One == [t |-> "uint", v |-> <<1>>]
AckP(p, i, vals, e) == [prop |-> p, idx |-> i, vals |-> vals, error |-> e]

MCAnswers ==
    {[kind |-> "readack", id |-> 7, obj |-> o, prop |-> p, idx |-> i, vals |-> vals, src |-> FromBehind] :
        o \in {BV9}, p \in {85, 512}, i \in {ArrayAll, 5}, vals \in {<<x>> : x \in Sent} \cup {<<>>} \cup {<<One, x>> : x \in Sent}}
    \cup {[kind |-> "readmultiack", id |-> 9, src |-> FromNear,
           objs |-> <<[obj |-> AI1, props |-> <<AckP(77, ArrayAll, <<x>>, FALSE), AckP(85, 3, <<One, x>>, e)>>],
                      [obj |-> Own, props |-> <<AckP(512, ArrayAll, v, FALSE)>>]>>] :
             x \in Sent, e \in BOOLEAN, v \in {<<>>, <<One>>}}
    \cup {[kind |-> k, id |-> 3, src |-> s] : k \in {"writeack", "error"}, s \in {FromNear, FromBehind}}
    \cup {[kind |-> "iam", obj |-> BV9, maxApdu |-> 480, seg |-> 3, vendor |-> 260, src |-> s] : s \in {FromNear, FromBehind}}
    \cup {[kind |-> "routers", nets |-> n, src |-> FromNear] : n \in {<<5>>, <<5, 6>>, <<5, 6, 7>>, <<5, 6, 7, 8>>}}

----------------------------------------------------------------------------
AnyMessage == CHOOSE m \in Requests : TRUE

\* The parts that are left out have one state.
MCInit ==
    /\ part \in {"connection", "frames", "subscriptions"}
    /\ Init /\ Subs!Init
    /\ virtual => config \in {TwoPeriods, BadAddress}
    /\ part # "connection" => virtual /\ config = BadAddress
    /\ IF part = "frames" THEN Frames!Init
       ELSE msg = AnyMessage /\ frame = <<>> /\ cut = FALSE /\ got = <<>> /\ exchange = "meant"

MCNext ==
    /\ UNCHANGED part
    /\ \/ part = "connection" /\ Next /\ UNCHANGED <<frames, subscriptions>>
       \/ part = "frames" /\ Frames!Next /\ UNCHANGED <<bacnetVars, subscriptions>>
       \/ part = "subscriptions" /\ Subs!Next /\ UNCHANGED <<bacnetVars, frames>>

MCSpec == MCInit /\ [][MCNext]_<<bacnetVars, frames, subscriptions, part>>
            /\ WF_bacnetVars(part = "connection" /\ JobStep)

\* A device that follows the standard reads of a request what the caller meant; the client reads
\* of a whole answer what the device meant, and ends; a cut answer never shows a value that was
\* not sent, nor reaches another call (encoding, Encoder and Decoder; device.go handleMsg).
MessagesAreUnderstood ==
    Frames!RequestsAreUnderstood /\ Frames!AnswersAreUnderstood /\ Frames!CutAnswersOnlyLose

\* Subscribers and publishers wait for ever only when a channel is full (utsm.Publish).
OnlyAFullChannelJams == Subs!OnlyAFullChannelJams
=============================================================================
