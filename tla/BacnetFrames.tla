--------------------------- MODULE BacnetFrames ---------------------------
(***************************************************************************)
(* The frames of BACnet/IP as the client writes and reads them             *)
(* (plugins/bacnet/internal/bacnet/encoding), octet by octet.              *)
(*                                                                         *)
(* A run takes one message.  A request is written by the client's Encoder  *)
(* and read by the device, which follows the standard: TagsOf reads any    *)
(* frame of tags, and Service is the standard's production of each         *)
(* service.  An answer is written by the device (Wire of the production),  *)
(* may arrive cut short, as a datagram longer than the read buffer does,   *)
(* and is read by the client's Decoder.                                    *)
(*                                                                         *)
(* Numbers of 32 bits are signed here: 2^32 - 1, which is ArrayAll, is -1. *)
(* A value has a type and a sequence: a number, an object's type and       *)
(* instance, octets, characters.  Left out are values in context tags      *)
(* (tagTypeInContext), time stamps, and the text of errors.  A decoder     *)
(* that would never return is the result "hangs".                          *)
(***************************************************************************)
EXTENDS Integers, Sequences, FiniteSets, SequencesExt

CONSTANTS
    Requests, \* messages the client sends
    Answers   \* messages devices send

VARIABLES msg, wire, cut, got, stage

vars == <<msg, wire, cut, got, stage>>

ArrayAll == -1
MaxInstance == 4194303

----------------------------------------------------------------------------
(***************************************************************************)
(* Numbers and tags, written                                               *)
(***************************************************************************)
Octets(v, n) == [i \in 1 .. n |-> (v \div 256 ^ (n - i)) % 256]

valueLength(v) ==
    IF v \in 0 .. 255 THEN 1 ELSE IF v \in 0 .. 65535 THEN 2 ELSE IF v \in 0 .. 16777215 THEN 3 ELSE 4

EncUnsigned(v) == Octets(v, valueLength(v))

\* tagNum: the number beside the low four bits, or in an octet of its own.
tagNum(num, low) == IF num <= 14 THEN <<16 * num + low>> ELSE <<240 + low, num>>

openingTag(num) == tagNum(num, 14)
closingTag(num) == tagNum(num, 15)

\* The length, or value, of a tag: up to four beside the number, else behind it.
EncTag_Mutant(num, context, value) ==
    tagNum(num, (IF context THEN 8 ELSE 0) + IF value <= 5 THEN value ELSE 5) \o
    (IF value <= 5 THEN <<>> ELSE IF value <= 253 THEN <<value>>
     ELSE IF value <= 65535 THEN <<254>> \o Octets(value, 2) ELSE <<255>> \o Octets(value, 4))

EncTag(num, context, value) ==
    tagNum(num, (IF context THEN 8 ELSE 0) + IF value <= 4 THEN value ELSE 5) \o
    (IF value <= 4 THEN <<>> ELSE IF value <= 253 THEN <<value>>
     ELSE IF value <= 65535 THEN <<254>> \o Octets(value, 2) ELSE <<255>> \o Octets(value, 4))

contextUnsigned(num, v) == EncTag(num, TRUE, valueLength(v)) \o EncUnsigned(v)

\* The type in the upper ten bits, the instance in the lower twenty-two.
ObjectId(o) ==
    LET type == o.type % 1024 instance == o.instance % 4194304 IN
    <<type \div 4, (type % 4) * 64 + instance \div 65536>> \o Octets(instance % 65536, 2)

contextObjectID(num, o) == EncTag(num, TRUE, 4) \o ObjectId(o)

\* An application value.  Output and value objects that are binary write their present value
\* as an enumeration.
EncAppData(x, typeBVBO) ==
    IF x.t = "null" THEN EncTag(0, FALSE, 0)
    ELSE IF typeBVBO THEN EncTag(9, FALSE, valueLength(x.v[1])) \o EncUnsigned(x.v[1])
    ELSE CASE x.t = "real"   -> EncTag(4, FALSE, 4) \o x.v
           [] x.t = "bool"   -> EncTag(1, FALSE, x.v[1])
           [] x.t = "string" -> EncTag(7, FALSE, Len(x.v) + 1) \o <<0>> \o x.v
           [] x.t = "uint"   -> EncTag(2, FALSE, valueLength(x.v[1])) \o EncUnsigned(x.v[1])
           [] x.t = "int"    -> EncTag(3, FALSE, valueLength(x.v[1])) \o EncUnsigned(x.v[1])
           [] x.t = "enum"   -> EncTag(9, FALSE, valueLength(x.v[1])) \o EncUnsigned(x.v[1])
           [] x.t = "double" -> EncTag(5, FALSE, 4) \o x.v
           [] x.t = "object" -> EncTag(12, FALSE, 4) \o ObjectId([type |-> x.v[1], instance |-> x.v[2]])

----------------------------------------------------------------------------
(***************************************************************************)
(* Requests, written                                                       *)
(***************************************************************************)
\* encodeMaxSegsMaxApdu of no segments and 1476 octets, the only use.
MaxSegsMaxApdu == 5

apduConfirmed(id, service) == <<0, MaxSegsMaxApdu, id, service>>

readPropertyHeader(m) ==
    contextObjectID(0, m.obj) \o contextUnsigned(1, m.prop)
    \o IF m.idx # ArrayAll THEN contextUnsigned(2, m.idx) ELSE <<>>

pointTypeBOBV(m) == m.obj.type \in {4, 5} /\ m.prop = 85

EncReadProperty(m) == apduConfirmed(m.id, 12) \o readPropertyHeader(m)

EncWriteProperty(m) ==
    apduConfirmed(m.id, 15) \o readPropertyHeader(m)
    \o openingTag(3) \o EncAppData(m.val, pointTypeBOBV(m)) \o closingTag(3)
    \o IF m.prio # 0 THEN contextUnsigned(4, m.prio) ELSE <<>>

\* The priority of a multi write follows under the tag of the value, 2.
EncProperties(props, write) ==
    FlattenSeq([i \in 1 .. Len(props) |->
        LET p == props[i] IN
        contextUnsigned(0, p.prop)
        \o (IF p.idx # ArrayAll THEN contextUnsigned(1, p.idx) ELSE <<>>)
        \o IF write THEN openingTag(2) \o EncAppData(p.val, FALSE) \o closingTag(2)
                         \o (IF p.prio # 0 THEN contextUnsigned(2, p.prio) ELSE <<>>)
                    ELSE <<>>])

EncObjects(objs, write) ==
    FlattenSeq([i \in 1 .. Len(objs) |->
        contextObjectID(0, objs[i].obj) \o openingTag(1) \o EncProperties(objs[i].props, write) \o closingTag(1)])

EncReadMultiple(m) == apduConfirmed(m.id, 14) \o EncObjects(m.objs, FALSE)
EncWriteMultiple(m) == apduConfirmed(m.id, 16) \o EncObjects(m.objs, TRUE)

\* The range is left out when it is not within the instances.
EncWhoIs(m) ==
    <<16, 8>> \o IF m.low \in 0 .. MaxInstance - 1 /\ m.high \in 0 .. MaxInstance - 1
                 THEN contextUnsigned(0, m.low) \o contextUnsigned(1, m.high) ELSE <<>>

\* The network header.  A device behind a router is addressed by its own address, of one
\* octet, or by four octets of the router's and its instance.
EncNPDU(n) ==
    <<1, (IF n.dest.net # 0 THEN 32 ELSE 0) + IF n.reply THEN 4 ELSE 0>>
    \o IF n.dest.net = 0 THEN <<>>
       ELSE LET len == IF n.dest.adr # <<>> THEN 1 ELSE Len(n.dest.mac) IN
            Octets(n.dest.net, 2) \o <<len>>
            \o (IF len = Len(n.dest.adr) THEN n.dest.adr
                ELSE IF len = Len(n.dest.mac) THEN SubSeq(n.dest.mac, 1, 4) \o Octets(n.dest.id, 2) ELSE <<>>)
            \o <<255>>

EncAPDU(m) ==
    CASE m.kind = "read"       -> EncReadProperty(m)
      [] m.kind = "write"      -> EncWriteProperty(m)
      [] m.kind = "readmulti"  -> EncReadMultiple(m)
      [] m.kind = "writemulti" -> EncWriteMultiple(m)
      [] m.kind = "whois"      -> EncWhoIs(m)

\* client.Send puts the link header in front: broadcast for every network, and for a network
\* whose station has no address.
EncFrame(m) ==
    LET d == m.npdu.dest
        broadcast == d.net = 65535 \/ (d.net > 0 /\ d.adr = <<>> /\ d.mac = <<>>)
        framed(data) == <<129, IF broadcast THEN 11 ELSE 10>> \o Octets(4 + Len(data), 2) \o data
    IN framed(EncNPDU(m.npdu) \o EncAPDU(m))

----------------------------------------------------------------------------
(***************************************************************************)
(* Numbers and tags, read.  A decoder is what is left, and whether there   *)
(* has been an error: then nothing is read, and zeros are found.           *)
(***************************************************************************)
Dec(octets) == [rest |-> octets, err |-> FALSE]

\* Of the last octets as many as there are.
Take_Mutant(d, n) ==
    IF d.err \/ d.rest = <<>>
    THEN [v |-> [i \in 1 .. n |-> 0], d |-> [rest |-> <<>>, err |-> TRUE]]
    ELSE [v |-> [i \in 1 .. n |-> IF i <= Len(d.rest) THEN d.rest[i] ELSE 0],
          d |-> [d EXCEPT !.rest = SubSeq(@, n + 1, Len(@))]]

Take(d, n) ==
    IF d.err \/ Len(d.rest) < n
    THEN [v |-> [i \in 1 .. n |-> 0], d |-> [rest |-> IF d.err THEN d.rest ELSE <<>>, err |-> TRUE]]
    ELSE [v |-> SubSeq(d.rest, 1, n), d |-> [d EXCEPT !.rest = SubSeq(@, n + 1, Len(@))]]

NumberOf(o) ==
    FoldLeft(LAMBDA a, b : a * 256 + b, IF o[1] >= 128 /\ Len(o) = 4 THEN o[1] - 256 ELSE o[1], Tail(o))

isOpening(meta) == meta % 8 \in {6, 7}
isClosing(meta) == meta % 8 = 7
isContext(meta) == (meta \div 8) % 2 = 1

\* A number of fifteen and more has an octet of its own.
tagNumber(d) ==
    LET of(meta, num) == [tag |-> num.v[1], meta |-> meta, d |-> num.d]
        first(m) == IF m.v[1] >= 240 THEN of(m.v[1], Take(m.d, 1)) ELSE of(m.v[1], [m EXCEPT !.v = <<@[1] \div 16>>])
    IN first(Take(d, 1))

AsNumber(x) == [v |-> NumberOf(x.v), d |-> x.d]

DecValue(d, meta) ==
    LET long(b) == AsNumber(IF b.v[1] = 255 THEN Take(b.d, 4) ELSE IF b.v[1] = 254 THEN Take(b.d, 2) ELSE b)
    IN IF meta % 8 = 5 THEN long(Take(d, 1)) ELSE [v |-> IF isOpening(meta) THEN 0 ELSE meta % 8, d |-> d]

\* A tag with the number behind it: a length, or a value.
WithValue(t) == DecValue(t.d, t.meta) @@ t
tagNumberAndValue(d) == WithValue(tagNumber(d))

DecUnsigned(d, n) == IF n \in 1 .. 4 THEN AsNumber(Take(d, n)) ELSE [v |-> 0, d |-> d]

\* Of one, two and four octets the first bit is the sign; of three it is not.
DecSigned(d, n) ==
    LET signed(x) == IF n \in {1, 2} /\ x >= 2 ^ (8 * n - 1) THEN x - 2 ^ (8 * n) ELSE x
    IN [DecUnsigned(d, n) EXCEPT !.v = signed(@)]

DecObject(d) ==
    LET of(w) == [type |-> (w \div 4194304) % 1024, instance |-> w % 4194304]
    IN [AsNumber(Take(d, 4)) EXCEPT !.v = of(@)]

\* The bits of a bit string, the first bit of each octet first; up to MaxBitStringBytes octets.
DecBits(d, n) ==
    LET used(o) == IF n - 1 <= 15 THEN (n - 1) * 8 - (o[1] % 8) ELSE 0
        bits(o) == [i \in 1 .. used(o) |-> (o[((i - 1) \div 8) + 2] \div 2 ^ (7 - ((i - 1) % 8))) % 2]
    IN IF n = 0 THEN [v |-> <<>>, d |-> d] ELSE [Take(d, n) EXCEPT !.v = bits(@)]

\* A string: one octet for its alphabet, and characters of one octet or of two.
DecString(d, n) ==
    LET wide(o) == [i \in 1 .. Len(o) \div 2 |-> 256 * o[2 * i - 1] + o[2 * i]]
        of(alphabet, b) == [v |-> IF alphabet = 4 THEN wide(b.v) ELSE b.v, d |-> b.d,
                            ok |-> alphabet \in {0, 4} /\ ~b.d.err]
        t == Take(d, 1)
    IN of(t.v[1], Take(t.d, n - 1))

\* A date or a time is read with Read, which is content with fewer octets, but not with none.
ReadUpTo(d, n) ==
    IF n = 0 THEN [v |-> <<>>, d |-> d]
    ELSE [v |-> [i \in 1 .. n |-> IF i <= Len(d.rest) THEN d.rest[i] ELSE 0],
          d |-> [rest |-> SubSeq(d.rest, n + 1, Len(d.rest)), err |-> d.rest = <<>>]]

Good(t, x) == [x |-> [t |-> t, v |-> x.v], d |-> x.d, ok |-> ~x.d.err]
GoodNumber(t, x) == Good(t, [x EXCEPT !.v = <<@>>])
Text(s) == [x |-> [t |-> "string", v |-> s.v], d |-> s.d, ok |-> s.ok]

\* Integers read as unsigned numbers.
AppDataOfTag_Mutant(d, tag, n) ==
    CASE tag = 0 -> [x |-> [t |-> "null", v |-> <<>>], d |-> d, ok |-> TRUE]
      [] tag = 1 -> Good("bool", [v |-> <<IF n > 0 THEN 1 ELSE 0>>, d |-> d])
      [] tag \in {2, 9} -> GoodNumber("uint", DecUnsigned(d, n))
      [] tag = 3 -> GoodNumber("int", DecUnsigned(d, n))
      [] tag = 4 -> Good("real", Take(d, 4))
      [] tag = 7 -> Text(DecString(d, n))
      [] tag = 8 -> Good("bits", DecBits(d, n))
      [] tag = 12 -> Good("object", [DecObject(d) EXCEPT !.v = <<@.type, @.instance>>])
      [] OTHER -> [x |-> [t |-> "none", v |-> <<>>], d |-> d, ok |-> FALSE]

\* A value of the tag's type, of n octets.
AppDataOfTag(d, tag, n) ==
    CASE tag = 0 -> [x |-> [t |-> "null", v |-> <<>>], d |-> d, ok |-> TRUE]
      [] tag = 1 -> Good("bool", [v |-> <<IF n > 0 THEN 1 ELSE 0>>, d |-> d])
      [] tag \in {2, 9} -> GoodNumber("uint", DecUnsigned(d, n))
      [] tag = 3 -> GoodNumber("int", DecSigned(d, n))
      [] tag = 4 -> Good("real", Take(d, 4))
      [] tag = 5 -> Good("double", Take(d, 8))
      [] tag = 6 -> Good("octets", Take(d, n))
      [] tag = 7 -> Text(DecString(d, n))
      [] tag = 8 -> Good("bits", DecBits(d, n))
      [] tag \in {10, 11} -> Good("date", ReadUpTo(d, n))
      [] tag = 12 -> Good("object", [DecObject(d) EXCEPT !.v = <<@.type, @.instance>>])
      [] OTHER -> [x |-> [t |-> "none", v |-> <<>>], d |-> d, ok |-> FALSE]

DecAppData(d) == LET of(t) == AppDataOfTag(t.d, t.tag, t.v) IN of(tagNumberAndValue(d))

----------------------------------------------------------------------------
(***************************************************************************)
(* Answers, read                                                           *)
(***************************************************************************)
Values(objs) == [is |-> "values", objs |-> objs]
Failure == [is |-> "error"]
Hangs == [is |-> "hangs"]

\* The values between the opening tag 3 and the last octet, taken to be the closing tag.
RECURSIVE ValuesToTheEnd(_, _)
ValuesToTheEnd(d, vals) ==
    LET with(a) == IF a.ok THEN ValuesToTheEnd(a.d, Append(vals, a.x)) ELSE [ok |-> FALSE, vals |-> vals]
    IN IF Len(d.rest) <= 1 THEN [ok |-> ~d.err, vals |-> vals] ELSE with(DecAppData(d))

\* A number in tag t.
NumberIn(t) == LET l == DecValue(t.d, t.meta) IN DecUnsigned(l.d, l.v)

\* The answer to a single read: object, property, index when there is one, and after the opening
\* tag 3 the values.
ReadAckValues(obj, prop, idx, last) ==
    LET one(vals) == Values(<<[obj |-> obj, props |-> <<[prop |-> prop, idx |-> idx, vals |-> vals]>>]>>)
        with(found) == IF found.ok THEN one(found.vals) ELSE Failure
    IN IF last.tag = 3 THEN with(ValuesToTheEnd(last.d, <<>>)) ELSE IF last.d.err THEN Failure ELSE one(<<>>)

TagIfAny(d) == IF d.rest = <<>> THEN [tag |-> 0, meta |-> 0, d |-> d] ELSE tagNumber(d)

ReadAckIndex(obj, p, t) ==
    LET indexed(i) == ReadAckValues(obj, p.v, i.v, TagIfAny(i.d)) IN
    IF t.d.rest = <<>> /\ t.tag < 2 THEN ReadAckValues(obj, p.v, ArrayAll, [tag |-> 0, d |-> p.d])
    ELSE IF t.tag = 2 THEN indexed(NumberIn(t))
    ELSE ReadAckValues(obj, p.v, ArrayAll, WithValue(t))

ReadAckProperty(obj, t) ==
    LET with(p) == ReadAckIndex(obj, p, TagIfAny(p.d)) IN IF t.tag = 1 THEN with(NumberIn(t)) ELSE Failure

DecReadProperty(d) ==
    LET of(o) == ReadAckProperty(o.v, tagNumber(o.d))
        first(t) == IF t.tag = 0 /\ isContext(t.meta) THEN of(DecObject(t.d)) ELSE Failure
    IN IF Len(d.rest) < 7 THEN Failure ELSE first(tagNumber(d))

\* The values of a property of a multiple answer, after tag t has been read.  The end of the
\* octets reads as tag 0, which is Null, again and again; a closing tag that is not the
\* property's is put back and read again.
RECURSIVE ValuesToClosing(_, _)
ValuesToClosing(t, vals) ==
    LET of(n) == AppDataOfTag(n.d, t.tag, n.v)
        next(more, n) == IF isClosing(n.meta) /\ n.tag = 4 THEN [is |-> "closed", vals |-> more, d |-> n.d]
                         ELSE ValuesToClosing(n, more)
        with(a) == IF a.ok THEN next(Append(vals, a.x), tagNumber(a.d)) ELSE [is |-> "error"]
    IN IF t.d.err \/ (isClosing(t.meta) /\ t.tag # 4) THEN Hangs
       ELSE IF isClosing(t.meta) THEN [is |-> "closed", vals |-> vals, d |-> t.d]
       ELSE with(of(DecValue(t.d, t.meta)))

RECURSIVE DecProperties(_, _)

\* The values of a property, in tag 4, and the properties after it.
DecPropertyValues(prop, idx, t, props) ==
    LET p(vals) == [prop |-> prop, idx |-> idx, vals |-> vals]
        with(found) == IF found.is = "closed"
                       THEN DecProperties(tagNumberAndValue(found.d), Append(props, p(found.vals)))
                       ELSE [is |-> found.is]
        from(first) == IF first.d.err THEN [is |-> "error"] ELSE with(ValuesToClosing(first, <<>>))
    IN IF t.tag = 4 /\ isOpening(t.meta) THEN from(tagNumber(t.d)) ELSE [is |-> "error"]

\* The index of a property, in tag 3, when there is one.  Another tag 2 is a property again, of
\* the length read for the last one.
DecPropertyIndex(prop, t, props) ==
    LET indexed(i) == DecPropertyValues(prop, i.v, tagNumber(i.d), props) IN
    IF t.tag = 2 THEN DecProperties(t, props)
    ELSE IF t.tag # 3 THEN DecPropertyValues(prop, ArrayAll, t, props)
    ELSE IF isContext(t.meta) THEN indexed(NumberIn(t)) ELSE [is |-> "error"]

\* The properties of an object, after the tag and length t of the next has been read.
DecProperties(t, props) ==
    LET with(p) == DecPropertyIndex(p.v, [v |-> t.v] @@ tagNumber(p.d), props) IN
    IF t.d.rest = <<>> \/ t.tag # 2 \/ isClosing(t.meta) THEN [is |-> "end", props |-> props, d |-> t.d]
    ELSE IF isContext(t.meta) THEN with(DecUnsigned(t.d, t.v)) ELSE [is |-> "error"]

\* One object after another.  A property with an error ends the reading with that error.
RECURSIVE DecObjectsWithData(_, _)
DecNextObject(obj, found, objs) ==
    IF found.is = "end" THEN DecObjectsWithData(found.d, Append(objs, [obj |-> obj, props |-> found.props]))
    ELSE [is |-> found.is]

DecObjectProperties(obj, t, objs) ==
    IF t.tag = 2 THEN DecNextObject(obj, DecProperties(t, <<>>), objs) ELSE Failure

DecObjectOpening(obj, t, objs) ==
    IF t.tag = 1 /\ isOpening(t.meta) THEN DecObjectProperties(obj, tagNumberAndValue(t.d), objs) ELSE Failure

DecObjectHeader(t, objs) ==
    LET o == DecObject(t.d) IN
    IF t.tag = 0 /\ isContext(t.meta) THEN DecObjectOpening(o.v, tagNumber(o.d), objs) ELSE Failure

DecObjectsWithData(d, objs) ==
    IF d.err THEN Failure ELSE IF d.rest = <<>> THEN Values(objs) ELSE DecObjectHeader(tagNumberAndValue(d), objs)

----------------------------------------------------------------------------
(***************************************************************************)
(* Frames, read: handleMsg, and the caller its answer goes to              *)
(***************************************************************************)
\* A network and an address of the header, when the bit says there is one.
DecAddress(d, present) ==
    LET of(net, len) == [net |-> net, adr |-> Take(len.d, len.v[1]).v, d |-> Take(len.d, len.v[1]).d]
        with(net) == of(net.v, Take(net.d, 1))
    IN IF present THEN with(AsNumber(Take(d, 2))) ELSE [net |-> 0, adr |-> <<>>, d |-> d]

\* The header of the network layer, up to a message of that layer (type) or an APDU.
DecNPDU(d0) ==
    LET start == Take(d0, 2)
        has(bit) == (start.v[2] \div bit) % 2 = 1
        message(src, t) == [type |-> t.v[1], src |-> [net |-> src.net, adr |-> src.adr],
                            d |-> IF t.v[1] > 128 THEN Take(t.d, 2).d ELSE t.d]
        after(src, hop) == message(src, IF has(128) THEN Take(hop, 1) ELSE [v |-> <<-1>>, d |-> hop])
        from(src) == after(src, IF has(32) THEN Take(src.d, 1).d ELSE src.d)
    IN from(DecAddress(DecAddress(start.d, has(32)).d, has(8)))

NetworkIs == 19
IamRouterToNetwork == 1

\* The networks of a router: the first and one more, whatever the list's length.
DecNetworks(d) ==
    LET of(a, b) == [at |-> b.v, nets |-> IF a = b.v THEN <<a>> ELSE <<a, b.v>>, d |-> b.d]
        with(a) == of(a.v, AsNumber(Take(a.d, 2)))
    IN with(AsNumber(Take(d, 2)))

\* An I-Am: object, largest APDU, segmentation, vendor.  A value of another type is passed over.
DecIAm(d, src) ==
    LET number(a) == IF a.x.t = "uint" THEN a.x.v[1] ELSE 0
        object(a) == IF a.x.t = "object" THEN [type |-> a.x.v[1], instance |-> a.x.v[2]]
                     ELSE [type |-> 0, instance |-> 0]
        of(id, apdu, seg, vendor) ==
            IF ~id.ok \/ vendor.d.err THEN <<>>
            ELSE <<[is |-> "iam", id |-> object(id), maxApdu |-> number(apdu), seg |-> number(seg),
                    vendor |-> number(vendor), src |-> src]>>
        third(id, apdu, seg) == of(id, apdu, seg, DecAppData(seg.d))
        second(id, apdu) == third(id, apdu, DecAppData(apdu.d))
        first(id) == second(id, DecAppData(id.d))
    IN first(DecAppData(d))

\* What the caller of a service finds in an answer to it.
DecAnswer(service, d) ==
    CASE service = "read"      -> DecReadProperty(d)
      [] service = "readmulti" -> DecObjectsWithData(d, <<>>)
      [] OTHER                 -> [is |-> "done"]

\* Whose answer it is, and what is left of it.  A request is answered without octets.
WhoseAnswer(type, d) ==
    LET two == Take(d, 2) three == Take(d, 3) IN
    IF type = 0 THEN [id |-> three.v[2], d |-> [three.d EXCEPT !.rest = <<>>]] ELSE [id |-> two.v[1], d |-> two.d]

ToCaller(w, found) == IF w.d.err THEN <<>> ELSE <<[is |-> "answer", id |-> w.id, found |-> found]>>

\* The APDU goes to whom it is for: an I-Am to the subscribers, an answer to the caller of
\* its id, who is waiting for service; an error is one whatever is left of it.
DecAPDUOf(type, d, src, service) ==
    LET one == Take(d, 1) w == WhoseAnswer(type, d) IN
    CASE type = 1           -> IF one.d.err \/ one.v[1] # 0 THEN <<>> ELSE DecIAm(one.d, src)
      [] type \in {0, 2, 3} -> ToCaller(w, DecAnswer(service, w.d))
      [] type = 5           -> ToCaller([w EXCEPT !.d.err = FALSE], Failure)
      [] OTHER              -> <<>>

DecAPDU(d, src, service) ==
    LET meta == Take(d, 1) IN
    IF meta.d.err THEN <<>> ELSE DecAPDUOf(meta.v[1] \div 16, meta.d, src, service)

\* What a message of the network layer tells, and what is left; then the rest is read as an APDU.
NetworkMessage(n) ==
    LET r == DecNetworks(n.d) number == AsNumber(Take(n.d, 2)) IN
    CASE n.type = IamRouterToNetwork -> [found |-> <<[is |-> "networks", at |-> r.at, nets |-> r.nets]>>, d |-> r.d]
      [] n.type = NetworkIs          -> [found |-> <<[is |-> "network", at |-> number.v]>>, d |-> number.d]
      [] OTHER                       -> [found |-> <<>>, d |-> n.d]

handleAPDU(m, src, service) == IF m.d.err THEN <<>> ELSE m.found \o DecAPDU(m.d, src, service)
handleNPDU(n, service) == IF n.d.err THEN <<>> ELSE handleAPDU(NetworkMessage(n), n.src, service)

\* What a frame leads to, in order.
handleMsg(o, service) ==
    LET link == Take(Dec(o), 4) IN
    IF link.d.err \/ link.v[2] \notin {4, 10, 11} THEN <<>> ELSE handleNPDU(DecNPDU(link.d), service)

----------------------------------------------------------------------------
(***************************************************************************)
(* The device: the standard's tags, and its production of each service.    *)
(* A tag has a number, a class and its octets; a Boolean has one octet.    *)
(***************************************************************************)
Tag(num, class, octets) == [num |-> num, class |-> class, octets |-> octets]
Open(num) == Tag(num, "open", <<>>)
Close(num) == Tag(num, "close", <<>>)

StdUnsigned(v) ==
    IF v \in 0 .. 255 THEN <<v>>
    ELSE IF v \in 0 .. 65535 THEN <<v \div 256, v % 256>>
    ELSE Octets(v, IF v \in 0 .. 16777215 THEN 3 ELSE 4)

\* Devices take a negative number in four octets, though the standard's form is the shortest.
StdSigned(v) ==
    Octets(v, IF v < 0 THEN 4 ELSE IF v < 128 THEN 1 ELSE IF v < 32768 THEN 2 ELSE IF v < 8388608 THEN 3 ELSE 4)

StdObject(o) ==
    <<o.type \div 4, (o.type % 4) * 64 + o.instance \div 65536, (o.instance \div 256) % 256, o.instance % 256>>

StdBits(bits) ==
    LET octets == (Len(bits) + 7) \div 8
        bit(i) == IF i <= Len(bits) THEN bits[i] ELSE 0
    IN <<8 * octets - Len(bits)>> \o
       [k \in 1 .. octets |-> FoldLeft(LAMBDA a, i : 2 * a + bit(8 * (k - 1) + i), 0, [i \in 1 .. 8 |-> i])]

ValueTag(x) ==
    CASE x.t = "null"   -> Tag(0, "app", <<>>)
      [] x.t = "bool"   -> Tag(1, "app", x.v)
      [] x.t = "uint"   -> Tag(2, "app", StdUnsigned(x.v[1]))
      [] x.t = "int"    -> Tag(3, "app", StdSigned(x.v[1]))
      [] x.t = "real"   -> Tag(4, "app", x.v)
      [] x.t = "double" -> Tag(5, "app", x.v)
      [] x.t = "octets" -> Tag(6, "app", x.v)
      [] x.t = "string" -> Tag(7, "app", <<0>> \o x.v)
      [] x.t = "bits"   -> Tag(8, "app", StdBits(x.v))
      [] x.t = "enum"   -> Tag(9, "app", StdUnsigned(x.v[1]))
      [] x.t = "date"   -> Tag(10, "app", x.v)
      [] x.t = "object" -> Tag(12, "app", StdObject([type |-> x.v[1], instance |-> x.v[2]]))

\* A tag on the wire, of at most 253 octets, and the tags of a wire.
Wire(t) ==
    LET low == CASE t.class = "open" -> 14 [] t.class = "close" -> 15
                 [] t.class = "app" /\ t.num = 1 -> t.octets[1]
                 [] OTHER -> (IF t.class = "ctx" THEN 8 ELSE 0) + IF Len(t.octets) < 5 THEN Len(t.octets) ELSE 5
    IN (IF t.num < 15 THEN <<16 * t.num + low>> ELSE <<240 + low, t.num>>)
       \o (IF Len(t.octets) < 5 THEN <<>> ELSE <<Len(t.octets)>>)
       \o (IF t.class = "app" /\ t.num = 1 THEN <<>> ELSE t.octets)

WireOf(tags) == FlattenSeq([i \in 1 .. Len(tags) |-> Wire(tags[i])])

RECURSIVE TagsOf(_)
TagsOf(o) ==
    IF o = <<>> THEN <<>>
    ELSE
    LET wide == o[1] >= 240
        num == IF wide THEN o[2] ELSE o[1] \div 16
        body == SubSeq(o, IF wide THEN 3 ELSE 2, Len(o))
        low == o[1] % 8
        class == IF (o[1] \div 8) % 2 = 0 THEN "app"
                 ELSE IF low = 6 THEN "open" ELSE IF low = 7 THEN "close" ELSE "ctx"
        long == low = 5 /\ body # <<>>
        flag == class = "app" /\ num = 1
        len == IF flag \/ class \in {"open", "close"} THEN 0 ELSE IF long THEN body[1] ELSE low
        from == IF long THEN 2 ELSE 1
    IN IF Len(body) < from - 1 + len THEN <<Tag(0, "malformed", <<>>)>>
       ELSE <<Tag(num, class, IF flag THEN <<low>> ELSE SubSeq(body, from, from - 1 + len))>>
            \o TagsOf(SubSeq(body, from + len, Len(body)))

IndexTag(num, idx) == IF idx = ArrayAll THEN <<>> ELSE <<Tag(num, "ctx", StdUnsigned(idx))>>
PriorityTag(num, prio) == IF prio = 0 THEN <<>> ELSE <<Tag(num, "ctx", StdUnsigned(prio))>>
ValueTags(vals) == [i \in 1 .. Len(vals) |-> ValueTag(vals[i])]

PropertyHeader(m) ==
    <<Tag(0, "ctx", StdObject(m.obj)), Tag(1, "ctx", StdUnsigned(m.prop))>> \o IndexTag(2, m.idx)

\* The objects of a request (first = 0) and of an answer (first = 2), with their properties.
ObjectTags(objs, first, rest(_)) ==
    FlattenSeq([i \in 1 .. Len(objs) |->
        <<Tag(0, "ctx", StdObject(objs[i].obj)), Open(1)>>
        \o FlattenSeq([j \in 1 .. Len(objs[i].props) |->
              LET p == objs[i].props[j] IN
              <<Tag(first, "ctx", StdUnsigned(p.prop))>> \o IndexTag(first + 1, p.idx) \o rest(p)])
        \o <<Close(1)>>])

\* A binary object's present value is an enumeration to the device.
Meant(x, obj, prop) == IF obj.type \in {4, 5} /\ prop = 85 /\ x.t = "uint" THEN [x EXCEPT !.t = "enum"] ELSE x

Service(m) ==
    CASE m.kind = "read"      -> PropertyHeader(m)
      [] m.kind = "write"     -> PropertyHeader(m) \o <<Open(3), ValueTag(Meant(m.val, m.obj, m.prop)), Close(3)>>
                                 \o PriorityTag(4, m.prio)
      [] m.kind = "readmulti" -> ObjectTags(m.objs, 0, LAMBDA p : <<>>)
      [] m.kind = "writemulti" ->
            ObjectTags(m.objs, 0, LAMBDA p : <<Open(2), ValueTag(p.val), Close(2)>> \o PriorityTag(3, p.prio))
      [] m.kind = "whois"     -> IF m.low < 0 THEN <<>>
                                 ELSE <<Tag(0, "ctx", StdUnsigned(m.low)), Tag(1, "ctx", StdUnsigned(m.high))>>
      [] m.kind = "readack"   -> PropertyHeader(m) \o <<Open(3)>> \o ValueTags(m.vals) \o <<Close(3)>>
      [] m.kind = "readmultiack" ->
            ObjectTags(m.objs, 2, LAMBDA p :
                IF p.error THEN <<Open(5), Tag(9, "app", <<2>>), Tag(9, "app", <<32>>), Close(5)>>
                ELSE <<Open(4)>> \o ValueTags(p.vals) \o <<Close(4)>>)
      [] m.kind = "iam"       -> <<Tag(12, "app", StdObject(m.obj)), Tag(2, "app", StdUnsigned(m.maxApdu)),
                                   Tag(9, "app", <<m.seg>>), Tag(2, "app", StdUnsigned(m.vendor))>>
      [] m.kind = "error"     -> <<Tag(9, "app", <<2>>), Tag(9, "app", <<32>>)>>
      [] OTHER -> <<>>

Header(m) ==
    CASE m.kind = "read"         -> <<0, MaxSegsMaxApdu, m.id, 12>>
      [] m.kind = "readmulti"    -> <<0, MaxSegsMaxApdu, m.id, 14>>
      [] m.kind = "write"        -> <<0, MaxSegsMaxApdu, m.id, 15>>
      [] m.kind = "writemulti"   -> <<0, MaxSegsMaxApdu, m.id, 16>>
      [] m.kind = "whois"        -> <<16, 8>>
      [] m.kind = "iam"          -> <<16, 0>>
      [] m.kind = "writeack"     -> <<32, m.id, 15>>
      [] m.kind = "readack"      -> <<48, m.id, 12>>
      [] m.kind = "readmultiack" -> <<48, m.id, 14>>
      [] m.kind = "error"        -> <<80, m.id, 12>>
      [] m.kind = "routers"      -> <<>>

\* A request as its device reads it: link, network layer, header and tags.
Understood(o) ==
    LET remote == (o[6] \div 32) % 2 = 1
        adr == IF remote THEN SubSeq(o, 10, 9 + o[9]) ELSE <<>>
        apdu == SubSeq(o, IF remote THEN 11 + o[9] ELSE 7, Len(o))
        head == IF apdu[1] = 16 THEN 2 ELSE 4
    IN [link |-> <<o[1], o[2]>>, whole |-> o[3] * 256 + o[4] = Len(o), reply |-> (o[6] \div 4) % 2 = 1,
        net |-> IF remote THEN 256 * o[7] + o[8] ELSE 0, adr |-> adr,
        header |-> SubSeq(apdu, 1, head), tags |-> TagsOf(SubSeq(apdu, head + 1, Len(apdu)))]

Intended(m) ==
    LET d == m.npdu.dest IN
    [link |-> <<129, IF d.net = 65535 THEN 11 ELSE 10>>, whole |-> TRUE, reply |-> m.npdu.reply,
     net |-> d.net, adr |-> IF d.net = 0 THEN <<>> ELSE IF d.adr # <<>> THEN d.adr
                            ELSE IF d.mac # <<>> THEN SubSeq(d.mac, 1, 4) \o Octets(d.id, 2) ELSE <<>>,
     header |-> Header(m), tags |-> Service(m)]

\* An answer as its device writes it; one from behind a router names its network and address.
AnswerFrame(m) ==
    LET behind == m.src.net # 0
        framed(data) == <<129, 10>> \o Octets(4 + Len(data), 2) \o data
    IN framed(<<1, (IF behind THEN 8 ELSE 0) + IF m.kind = "routers" THEN 128 ELSE 0>>
              \o (IF behind THEN Octets(m.src.net, 2) \o <<Len(m.src.adr)>> \o m.src.adr ELSE <<>>)
              \o (IF m.kind = "routers"
                  THEN <<IamRouterToNetwork>> \o FlattenSeq([i \in 1 .. Len(m.nets) |-> Octets(m.nets[i], 2)])
                  ELSE Header(m) \o WireOf(Service(m))))

----------------------------------------------------------------------------
(***************************************************************************)
(* A message on its way                                                    *)
(***************************************************************************)
Init ==
    /\ msg \in Requests \cup Answers
    /\ wire = <<>> /\ cut = FALSE /\ got = <<>>
    /\ stage = "meant"

\* The client writes a request and sends it.
SendRequest ==
    /\ stage = "meant" /\ msg \in Requests
    /\ wire' = EncFrame(msg)
    /\ stage' = "sent"
    /\ UNCHANGED <<msg, cut, got>>

\* A device writes an answer.
SendAnswer ==
    /\ stage = "meant" /\ msg \in Answers
    /\ wire' = AnswerFrame(msg)
    /\ stage' = "sent"
    /\ UNCHANGED <<msg, cut, got>>

\* The socket hands over no more octets of a datagram than the read buffer has: only answers
\* to reads are that long.
CutShort(n) ==
    /\ stage = "sent" /\ msg \in Answers /\ ~cut
    /\ msg.kind \in {"readack", "readmultiack"}
    /\ n < Len(wire)
    /\ wire' = SubSeq(wire, 1, n)
    /\ cut' = TRUE
    /\ UNCHANGED <<msg, got, stage>>

\* The device reads the request.
ReadRequest ==
    /\ stage = "sent" /\ msg \in Requests
    /\ got' = <<Understood(wire)>>
    /\ stage' = "read"
    /\ UNCHANGED <<msg, wire, cut>>

\* The service the caller of an answer's id is waiting for.
Asked(m) == CASE m.kind = "readack" -> "read" [] m.kind = "readmultiack" -> "readmulti" [] OTHER -> "write"

\* The client reads the answer.
ReadAnswer ==
    /\ stage = "sent" /\ msg \in Answers
    /\ got' = handleMsg(wire, Asked(msg))
    /\ stage' = "read"
    /\ UNCHANGED <<msg, wire, cut>>

Next ==
    \/ SendRequest \/ SendAnswer \/ ReadRequest \/ ReadAnswer
    \/ \E n \in 4 .. 60 : CutShort(n)

Spec == Init /\ [][Next]_vars

----------------------------------------------------------------------------
(***************************************************************************)
(* Properties                                                              *)
(***************************************************************************)
\* Values that are not written as they are meant: a positive int32 whose first bit would be
\* its sign, and a double, which gets the length of a real (encoding/appdata.go).
Unwritable(x) ==
    \/ x.t = "double"
    \/ x.t = "int" /\ (x.v[1] \in 128 .. 255 \/ x.v[1] \in 32768 .. 65535 \/ x.v[1] \in 8388608 .. 16777215)

\* A priority in a multi write is written with the wrong tag (encoding/readmultiple.go).
Written(m) ==
    CASE m.kind = "write" -> ~Unwritable(m.val)
      [] m.kind = "writemulti" ->
            \A i \in 1 .. Len(m.objs) : \A j \in 1 .. Len(m.objs[i].props) :
                LET p == m.objs[i].props[j] IN p.prio = 0 /\ ~Unwritable(p.val)
      [] OTHER -> TRUE

\* A device that follows the standard reads of a request what the caller meant: the address
\* of the device behind a router, the objects, the array index and the value with its type.
RequestsAreUnderstood ==
    stage = "read" /\ msg \in Requests /\ Written(msg) => got = <<Intended(msg)>>

\* The value the client shows for one it was sent: enumerations are unsigned numbers.
Shown(x) == IF x.t = "enum" THEN [x EXCEPT !.t = "uint"] ELSE x

SentObjects(m) ==
    LET vals(p) == [i \in 1 .. Len(p.vals) |-> Shown(p.vals[i])]
        shown(p) == [prop |-> p.prop, idx |-> p.idx, vals |-> vals(p)]
    IN IF m.kind = "readack" THEN <<[obj |-> m.obj, props |-> <<shown(m)>>]>>
       ELSE [i \in 1 .. Len(m.objs) |->
               [obj |-> m.objs[i].obj,
                props |-> [j \in 1 .. Len(m.objs[i].props) |-> shown(m.objs[i].props[j])]]]

HasError(m) == \E i \in 1 .. Len(m.objs) : \E j \in 1 .. Len(m.objs[i].props) : m.objs[i].props[j].error

Expected(m) ==
    CASE m.kind = "readack" -> <<[is |-> "answer", id |-> m.id, found |-> Values(SentObjects(m))]>>
      [] m.kind = "readmultiack" ->
            <<[is |-> "answer", id |-> m.id, found |-> IF HasError(m) THEN Failure ELSE Values(SentObjects(m))]>>
      [] m.kind = "writeack" -> <<[is |-> "answer", id |-> m.id, found |-> [is |-> "done"]]>>
      [] m.kind = "error" -> <<[is |-> "answer", id |-> m.id, found |-> Failure]>>
      [] m.kind = "iam" -> <<[is |-> "iam", id |-> m.obj, maxApdu |-> m.maxApdu, seg |-> m.seg,
                              vendor |-> m.vendor, src |-> m.src]>>
      [] m.kind = "routers" -> <<[is |-> "networks", at |-> m.nets[2], nets |-> m.nets]>>

\* An answer that arrives whole is read as it was meant, for the call it answers, and the
\* reading ends.  One object that has an error makes a multi read fail as a whole.  A list of
\* networks is read right only when it has two (encoding/npdu.go).
AnswersAreUnderstood ==
    stage = "read" /\ msg \in Answers /\ ~cut /\ (msg.kind = "routers" => Len(msg.nets) = 2)
        => got = Expected(msg)

\* The values found in a cut answer: none that was not sent, but a last date may have lost
\* octets.
FirstValues(found, sent) ==
    /\ Len(found) <= Len(sent)
    /\ \A i \in 1 .. Len(found) : found[i] = sent[i] \/ (i = Len(found) /\ sent[i].t = "date")

FirstObjects(found, sent) ==
    /\ Len(found) <= Len(sent)
    /\ \A i \in 1 .. Len(found) :
        /\ found[i].obj = sent[i].obj
        /\ Len(found[i].props) <= Len(sent[i].props)
        /\ \A j \in 1 .. Len(found[i].props) :
            LET f == found[i].props[j] s == sent[i].props[j] IN
            f.prop = s.prop /\ (f.vals = <<>> \/ f.idx = s.idx) /\ FirstValues(f.vals, s.vals)

\* An answer that arrives cut short is dropped, is an error to its own call, keeps the call
\* reading for ever, or shows some of its values: it never shows another value, and another
\* call never gets it.
CutAnswersOnlyLose ==
    stage = "read" /\ cut =>
        \/ got = <<>>
        \/ /\ Len(got) = 1 /\ got[1].is = "answer" /\ got[1].id = msg.id
           /\ \/ got[1].found.is \in {"error", "hangs"}
              \/ got[1].found.is = "values" /\ FirstObjects(got[1].found.objs, SentObjects(msg))
====
