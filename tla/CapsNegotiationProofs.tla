------------------------ MODULE CapsNegotiationProofs ------------------------
(***************************************************************************)
(* CapsNegotiation for any number of subflows and formats: the stages of a *)
(* CAPS event agree on the source pad until the application changes the    *)
(* pads.  Each stage leaves the next what it found out about OtherPad;     *)
(* Agreed, the inductive invariant, says what that is.                     *)
(***************************************************************************)
EXTENDS CapsNegotiation, SequenceTheorems, TLAPS

\* The pad exists, its template and its peer take the event's format.
Suits(p) ==
  /\ p \in SrcPads
  /\ event.format \in Template(p)
  /\ p \in linked => event.format \in accepts[p]

Agreed ==
  quiet =>
    /\ event.at = "answer" => event.asked = OtherPad
    /\ event.at \in {"setcaps", "transform", "accept", "set", "pool", "allocate"}
         => Suits(OtherPad)
    /\ event.at \in {"transform", "accept", "set"} => event.pad = OtherPad
    /\ event.at \in {"pool", "allocate"} => caps[OtherPad] = event.format
    /\ event.at = "accept" => event.asked = OtherPad
    /\ event.at = "allocate" => event.asked = OtherPad

UnderWay == event.at # "done" => event.outcome = "none" /\ event.format \in Formats

IInv == TypeOK /\ Agreed /\ UnderWay /\ AcceptedIsTransformed /\ NegotiatedAlike

-----------------------------------------------------------------------------
\* The head of the list, or what stands in for it.
LEMMA HeadIsListed ==
  ASSUME TypeOK, NEW p
  PROVE  /\ HeadOr(p) \in Subflows \union {p}
         /\ HeadOr(p) = p \/ HeadOr(p) \in Listed
         /\ (HeadOr(p) = p /\ p \notin Subflows) => Listed = {}
<1>1. CASE subflows = <<>>
  BY <1>1 DEF HeadOr, Listed
<1>2. CASE subflows # <<>>
  <2>1. 1 \in DOMAIN subflows /\ subflows[1] \in Subflows
    BY <1>2 DEF TypeOK
  <2>. QED
    BY <1>2, <2>1 DEF HeadOr, Listed
<1>. QED
  BY <1>1, <1>2

\* The three ways to work out the pad find the same one as soon as there is
\* one; without one the fallbacks differ.
LEMMA PadsAgree ==
  ASSUME TypeOK, OtherPad # NoPad
  PROVE  OtherPad \in SrcPads /\ TransformPad = OtherPad /\ PoolPad = OtherPad
BY HeadIsListed, PadsAssumption
   DEF OtherPad, TransformPad, PoolPad, HeadOr, SrcPads

\* What the choices range over, and when do_bufferpool has none.
LEMMA PadsTyped ==
  ASSUME TypeOK
  PROVE  /\ OtherPad \in SrcPads \union {NoPad}
         /\ TransformPad \in SrcPads
         /\ PoolPad \in SrcPads \union {Wild}
         /\ PoolPad = Wild => Listed = {} /\ RtcpSrc \notin linked
BY HeadIsListed, PadsAssumption DEF OtherPad, TransformPad, PoolPad, SrcPads

\* ACCEPT_CAPS, if it comes to an answer, says yes only to a format that suits
\* the pad it asked.
LEMMA AcceptedSuits ==
  ASSUME TypeOK, NEW o \in SrcPads \union {NoPad}, NEW f \in Formats,
         ~ QueryFaults(RtcpSink, o, {f}), AcceptCaps(o, f)
  PROVE  o \in SrcPads /\ f \in Template(o) /\ (o \in linked => f \in accepts[o])
<1>1. Template(o) \subseteq Formats /\ Template(RtcpSink) = Formats
  BY FormatsAssumption, PadsAssumption DEF Template
<1>2. Narrow({f}, RtcpSink) = {f}
  BY <1>1, FormatsAssumption DEF Narrow
<1>3. o \in SrcPads
  BY <1>2 DEF QueryFaults
<1>4. {f} # NoCaps /\ f \in QueryCaps(RtcpSink, o, {f})
  BY FormatsAssumption DEF AcceptCaps
<1>5. f \in PeerQueryCaps(o, Narrow({f}, o)) \intersect Template(o)
  BY <1>2, <1>4 DEF QueryCaps, TransformCaps
<1>6. Narrow({f}, o) = {f}
  BY <1>4, <1>5 DEF Narrow
<1>7. f \in PeerCaps(o)
  BY <1>4, <1>5, <1>6 DEF PeerQueryCaps, TransformCaps
<1>8. o \in linked => f \in accepts[o]
  BY <1>3, <1>7, PadsAssumption DEF PeerCaps, SrcPads
<1>. QED
  BY <1>3, <1>5, <1>8

\* The ways an event goes on keep its type.
LEMMA EventTyped ==
  ASSUME TypeOK
  PROVE  /\ \A stage \in Stages : \A p \in SrcPads \union {NoPad, Wild} :
              Ask(stage, p) => event' \in Event
         /\ \A stage \in Stages : \A p \in SrcPads \union {NoPad} :
              Proceed(stage, p) => event' \in Event
         /\ \A outcome \in Outcomes : Finish(outcome) => event' \in Event
<1>1. event \in Event /\ "done" \in Stages
  BY DEF TypeOK, Stages
<1>2. ASSUME NEW stage \in Stages, NEW p \in SrcPads \union {NoPad, Wild}, Ask(stage, p)
      PROVE  event' \in Event
  BY <1>1, <1>2 DEF Ask, Event
<1>3. ASSUME NEW stage \in Stages, NEW p \in SrcPads \union {NoPad}, Proceed(stage, p)
      PROVE  event' \in Event
  BY <1>1, <1>3 DEF Proceed, Event
<1>4. ASSUME NEW outcome \in Outcomes, Finish(outcome)
      PROVE  event' \in Event
  BY <1>1, <1>4 DEF Finish, Event
<1>. QED
  BY <1>2, <1>3, <1>4

-----------------------------------------------------------------------------
\* The start: no pad, no event.
LEMMA InitHolds == Init => IInv
BY DEF Init, IInv, TypeOK, Event, Agreed, UnderWay, AcceptedIsTransformed,
       NegotiatedAlike, Stages, Outcomes, SrcPads

\* The application's steps.
Application ==
  \/ \E s \in Subflows : RequestNewPad(s) \/ Activate(s) \/ Release(s)
  \/ \E p \in SrcPads : Unlink(p) \/ \E fs \in SUBSET Formats : Link(p, fs)

\* They end the quiet, and only change the pads.
LEMMA TopologyStep == ASSUME IInv, Application PROVE IInv'
<1>1. TypeOK /\ UnderWay
  BY DEF IInv
<1>2. quiet' = FALSE /\ UNCHANGED <<alloc, event>>
  BY DEF Application, RequestNewPad, Activate, Release, Link, Unlink, Disturb
<1>3. Agreed' /\ UnderWay' /\ AcceptedIsTransformed' /\ NegotiatedAlike'
  BY <1>1, <1>2 DEF Agreed, UnderWay, AcceptedIsTransformed, NegotiatedAlike
<1>4. ASSUME NEW s \in Subflows, RequestNewPad(s) PROVE TypeOK'
  <2>1. subflows' = <<s>> \o subflows /\ UNCHANGED <<linked, accepts, life, caps>>
    BY <1>4 DEF RequestNewPad
  <2>2. <<s>> \in Seq(Subflows) /\ Len(<<s>>) = 1
    OBVIOUS
  <2>3. /\ subflows' \in Seq(Subflows)
        /\ \A i \in DOMAIN subflows :
             i + 1 \in DOMAIN subflows' /\ subflows'[i + 1] = subflows[i]
    BY <1>1, <2>1, <2>2, ConcatProperties, Z3 DEF TypeOK
  <2>4. Listed \subseteq Listed'
    BY <2>3 DEF Listed
  <2>. QED
    BY <1>1, <1>2, <2>1, <2>3, <2>4 DEF TypeOK
<1>5. ASSUME NEW s \in Subflows, Activate(s) \/ Release(s) PROVE TypeOK'
  <2>1. UNCHANGED <<subflows, linked, accepts>> /\ Listed' = Listed
    BY <1>5 DEF Activate, Release, Listed
  <2>2. s \in Listed
    BY <1>1, <1>5 DEF Activate, Release, TypeOK
  <2>3. /\ life' \in [Subflows -> {"new", "active", "released"}]
        /\ caps' \in [SrcPads -> Formats \union {NoFormat}]
        /\ life'[s] # "new"
        /\ life'[s] # "active" => caps'[s] = NoFormat
        /\ \A t \in Subflows \ {s} : life'[t] = life[t] /\ caps'[t] = caps[t]
    BY <1>1, <1>5 DEF Activate, Release, TypeOK, SrcPads
  <2>. QED
    BY <1>1, <1>2, <2>1, <2>2, <2>3 DEF TypeOK
<1>6. ASSUME NEW p \in SrcPads, Unlink(p) \/ \E fs \in SUBSET Formats : Link(p, fs)
      PROVE  TypeOK'
  <2>1. UNCHANGED <<subflows, life, caps>> /\ Listed' = Listed
    BY <1>6 DEF Link, Unlink, Listed
  <2>2. /\ linked' \subseteq SrcPads
        /\ accepts' \in [SrcPads -> SUBSET Formats]
        /\ \A s \in Subflows : life[s] = "new" => s \notin linked'
    BY <1>1, <1>6 DEF TypeOK, Link, Unlink
  <2>. QED
    BY <1>1, <1>2, <2>1, <2>2 DEF TypeOK
<1>. QED
  BY <1>3, <1>4, <1>5, <1>6 DEF Application, IInv

\* A new event starts a quiet of its own.
LEMMA CapsArriveStep ==
  ASSUME IInv, NEW f \in Upstream, CapsArrive(f)
  PROVE  IInv'
BY FormatsAssumption
   DEF IInv, CapsArrive, TypeOK, Event, Agreed, UnderWay, AcceptedIsTransformed,
       NegotiatedAlike, topology, Listed, SrcPads, Stages, Outcomes

\* query_caps picks the pad that ACCEPT_CAPS asks.
LEMMA QueryStep == ASSUME IInv, Query PROVE IInv'
<1>1. TypeOK'
  BY PadsTyped DEF IInv, Query, Ask, QueryPad, TypeOK, Event, topology, Listed, Stages
<1>2. OtherPad' = OtherPad
  BY DEF Query, topology, OtherPad, HeadOr
<1>. QED
  BY <1>1, <1>2 DEF IInv, Query, Ask, QueryPad, TypeOK, Event, Agreed, UnderWay,
       AcceptedIsTransformed, NegotiatedAlike, topology

\* The answer: a format that suits the pad, or the end, one way or another.
LEMMA AnswerStep == ASSUME IInv, Answer PROVE IInv'
<1>1. TypeOK /\ Agreed /\ UnderWay
  BY DEF IInv
<1>2. /\ UNCHANGED <<topology, quiet>>
      /\ OtherPad' = OtherPad
      /\ event.outcome = "none" /\ event.format \in Formats
  BY <1>1 DEF Answer, topology, OtherPad, HeadOr, UnderWay
<1>3. /\ ~ QueryFaults(RtcpSink, event.asked, {event.format})
      /\ AcceptCaps(event.asked, event.format)
      => (quiet => Suits(OtherPad))
  BY <1>1, <1>2, AcceptedSuits, PadsTyped DEF Answer, Agreed, Suits, TypeOK, Event
<1>4. /\ event'.format = event.format
      /\ \/ /\ event'.at = "setcaps" /\ event'.outcome = event.outcome
            /\ ~ QueryFaults(RtcpSink, event.asked, {event.format})
            /\ AcceptCaps(event.asked, event.format)
         \/ event'.at = "fault" /\ event'.outcome = event.outcome
         \/ /\ event'.at = "done" /\ event'.outcome = "not_accepted"
  BY <1>1 DEF Answer, Ask, Finish, TypeOK, Event
<1>5. TypeOK'
  <2>1. event' \in Event
    BY <1>1, EventTyped, PadsTyped DEF Answer, TypeOK, Event, Stages, Outcomes
  <2>. QED
    BY <1>1, <1>2, <2>1 DEF Answer, TypeOK, topology, Listed
<1>6. Suits(OtherPad) => Suits(OtherPad)'
  BY <1>2, <1>4 DEF topology, Suits, Template
<1>7. Agreed'
  BY <1>1, <1>2, <1>3, <1>4, <1>6 DEF Answer, Ask, Finish, TypeOK, Event, Agreed
<1>8. UnderWay'
  BY <1>2, <1>4 DEF UnderWay
<1>9. AcceptedIsTransformed'
  BY <1>2, <1>3, <1>4 DEF AcceptedIsTransformed
<1>10. NegotiatedAlike'
  BY <1>2, <1>3, <1>4, <1>6 DEF NegotiatedAlike, topology, Suits
<1>. QED
  BY <1>5, <1>7, <1>8, <1>9, <1>10 DEF IInv

\* setcaps picks its pad.
LEMMA SetCapsPadStep == ASSUME IInv, SetCapsPad PROVE IInv'
<1>1. TypeOK /\ Agreed /\ UnderWay
  BY DEF IInv
<1>2. /\ UNCHANGED <<topology, quiet>>
      /\ OtherPad' = OtherPad
      /\ event.outcome = "none" /\ event.format \in Formats
  BY <1>1 DEF SetCapsPad, topology, OtherPad, HeadOr, UnderWay
<1>3. quiet => Suits(OtherPad)
  BY <1>1 DEF SetCapsPad, Agreed
<1>4. /\ event'.format = event.format
      /\ event'.at = "transform" /\ event'.outcome = event.outcome
      /\ event'.pad = OtherPad
  BY <1>1 DEF SetCapsPad, Proceed, TypeOK, Event
<1>5. TypeOK'
  <2>1. event' \in Event
    BY <1>1, EventTyped, PadsTyped DEF SetCapsPad, TypeOK, Event, Stages, Outcomes
  <2>. QED
    BY <1>1, <1>2, <2>1 DEF SetCapsPad, TypeOK, topology, Listed
<1>6. Suits(OtherPad) => Suits(OtherPad)'
  BY <1>2, <1>4 DEF topology, Suits, Template
<1>7. Agreed'
  BY <1>1, <1>2, <1>3, <1>4, <1>6 DEF SetCapsPad, Proceed, TypeOK, Event, Agreed
<1>8. UnderWay'
  BY <1>2, <1>4 DEF UnderWay
<1>9. AcceptedIsTransformed'
  BY <1>2, <1>3, <1>4 DEF AcceptedIsTransformed
<1>10. NegotiatedAlike'
  BY <1>2, <1>3, <1>4, <1>6 DEF NegotiatedAlike, topology, Suits
<1>. QED
  BY <1>5, <1>7, <1>8, <1>9, <1>10 DEF IInv

\* find_transform picks its pad, the same one.
LEMMA FindTransformStep == ASSUME IInv, FindTransform PROVE IInv'
<1>1. TypeOK /\ Agreed /\ UnderWay
  BY DEF IInv
<1>2. /\ UNCHANGED <<topology, quiet>>
      /\ OtherPad' = OtherPad
      /\ event.outcome = "none" /\ event.format \in Formats
  BY <1>1 DEF FindTransform, topology, OtherPad, HeadOr, UnderWay
<1>3. quiet => event.format \in Template(TransformPad) /\ TransformPad = OtherPad
  BY <1>1, PadsAgree, PadsAssumption DEF FindTransform, Agreed, Suits, SrcPads
<1>4. /\ event'.format = event.format
      /\ \/ /\ event'.at = "accept" /\ event'.outcome = event.outcome
            /\ event'.asked = TransformPad /\ event'.pad = event.pad
         \/ /\ event'.at = "done" /\ event'.outcome = "no_transform"
            /\ event.format \notin Template(TransformPad)
  BY <1>1 DEF FindTransform, Ask, Finish, TypeOK, Event
<1>5. TypeOK'
  <2>1. event' \in Event
    BY <1>1, EventTyped, PadsTyped DEF FindTransform, TypeOK, Event, Stages, Outcomes
  <2>. QED
    BY <1>1, <1>2, <2>1 DEF FindTransform, TypeOK, topology, Listed
<1>6. Suits(OtherPad) => Suits(OtherPad)'
  BY <1>2, <1>4 DEF topology, Suits, Template
<1>7. Agreed'
  BY <1>1, <1>2, <1>3, <1>4, <1>6 DEF FindTransform, Ask, Finish, TypeOK, Event, Agreed
<1>8. UnderWay'
  BY <1>2, <1>4 DEF UnderWay
<1>9. AcceptedIsTransformed'
  BY <1>2, <1>3, <1>4 DEF AcceptedIsTransformed
<1>10. NegotiatedAlike'
  BY <1>2, <1>3, <1>4, <1>6 DEF NegotiatedAlike, topology, Suits
<1>. QED
  BY <1>5, <1>7, <1>8, <1>9, <1>10 DEF IInv

\* The peer accepts what it allowed in its answer.
LEMMA PeerAcceptsStep == ASSUME IInv, PeerAccepts PROVE IInv'
<1>1. TypeOK /\ Agreed /\ UnderWay
  BY DEF IInv
<1>2. /\ UNCHANGED <<topology, quiet>>
      /\ OtherPad' = OtherPad
      /\ event.outcome = "none" /\ event.format \in Formats
  BY <1>1 DEF PeerAccepts, topology, OtherPad, HeadOr, UnderWay
<1>3. quiet => (event.asked \in linked => event.format \in accepts[event.asked])
  BY <1>1 DEF PeerAccepts, Agreed, Suits
<1>4. /\ event'.format = event.format
      /\ \/ /\ event'.at = "set" /\ event'.outcome = event.outcome
            /\ event'.pad = event.pad
         \/ /\ event'.at = "done" /\ event'.outcome = "no_transform"
            /\ ~ (event.asked \in linked => event.format \in accepts[event.asked])
  BY <1>1 DEF PeerAccepts, Ask, Finish, TypeOK, Event
<1>5. TypeOK'
  <2>1. event' \in Event
    BY <1>1, EventTyped, PadsTyped DEF PeerAccepts, TypeOK, Event, Stages, Outcomes
  <2>. QED
    BY <1>1, <1>2, <2>1 DEF PeerAccepts, TypeOK, topology, Listed
<1>6. Suits(OtherPad) => Suits(OtherPad)'
  BY <1>2, <1>4 DEF topology, Suits, Template
<1>7. Agreed'
  BY <1>1, <1>2, <1>3, <1>4, <1>6 DEF PeerAccepts, Ask, Finish, TypeOK, Event, Agreed
<1>8. UnderWay'
  BY <1>2, <1>4 DEF UnderWay
<1>9. AcceptedIsTransformed'
  BY <1>2, <1>3, <1>4 DEF AcceptedIsTransformed
<1>10. NegotiatedAlike'
  BY <1>2, <1>3, <1>4, <1>6 DEF NegotiatedAlike, topology, Suits
<1>. QED
  BY <1>5, <1>7, <1>8, <1>9, <1>10 DEF IInv

\* The pad carries the event's caps from here on, or the event ends for want of
\* a pad that takes them.
LEMMA SetCapsStep == ASSUME IInv, SetCaps PROVE IInv'
<1>1. TypeOK /\ Agreed /\ UnderWay
  BY DEF IInv
<1>2. /\ UNCHANGED <<topology, quiet>>
      /\ OtherPad' = OtherPad
      /\ event.outcome = "none" /\ event.format \in Formats
  BY <1>1 DEF SetCaps, topology, OtherPad, HeadOr, UnderWay
<1>3. quiet => event.pad = OtherPad /\ event.pad # NoPad
  BY <1>1, PadsAssumption DEF SetCaps, Agreed, Suits, SrcPads
<1>4. \/ /\ Ask("pool", NoPad)
         /\ event.pad \in SrcPads /\ caps[event.pad] = event.format /\ UNCHANGED caps
      \/ /\ Ask("pool", NoPad)
         /\ event.pad \in SrcPads /\ Active(event.pad)
         /\ caps' = [caps EXCEPT ![event.pad] = event.format]
      \/ Finish("no_pad") /\ event.pad = NoPad /\ UNCHANGED caps
      \/ Finish("not_set") /\ event.pad \in SrcPads /\ ~ Active(event.pad) /\ UNCHANGED caps
  BY <1>1 DEF SetCaps, PadSetCaps, HasNewCaps, TypeOK, Event
<1>5. /\ event'.format = event.format
      /\ \/ /\ event'.at = "pool" /\ event'.outcome = event.outcome
            /\ event.pad \in SrcPads /\ caps'[event.pad] = event.format
         \/ /\ event'.at = "done" /\ event'.outcome = "no_pad"
            /\ event.pad = NoPad
         \/ /\ event'.at = "done" /\ event'.outcome = "not_set"
            /\ ~ Active(event.pad)
  BY <1>1, <1>4 DEF Ask, Finish, TypeOK, Event
<1>6. TypeOK'
  <2>1. event' \in Event
    BY <1>1, <1>4, EventTyped DEF Stages, Outcomes
  <2>2. /\ caps' \in [SrcPads -> Formats \union {NoFormat}]
        /\ \A s \in Subflows : life[s] # "active" => caps'[s] = caps[s]
    BY <1>1, <1>2, <1>4, PadsAssumption DEF TypeOK, Active, SrcPads
  <2>. QED
    BY <1>1, <1>2, <2>1, <2>2 DEF TypeOK, topology, Listed, SetCaps
<1>7. Suits(OtherPad) => Suits(OtherPad)'
  BY <1>2, <1>5 DEF topology, Suits, Template
<1>8. Agreed'
  BY <1>1, <1>2, <1>3, <1>5, <1>7 DEF SetCaps, Agreed
<1>9. UnderWay'
  BY <1>2, <1>5 DEF UnderWay
<1>10. AcceptedIsTransformed'
  <2>1. quiet /\ ~ Active(event.pad) =>
          RtcpSrc \notin linked /\ Listed # {} /\ life[subflows[1]] # "active"
    BY <1>1, <1>3, HeadIsListed DEF Active, OtherPad, HeadOr, Listed
  <2>2. Listed' = Listed
    BY <1>2 DEF topology, Listed
  <2>. QED
    BY <1>2, <1>3, <1>5, <2>1, <2>2 DEF AcceptedIsTransformed, topology
<1>11. NegotiatedAlike'
  BY <1>2, <1>5 DEF NegotiatedAlike
<1>. QED
  BY <1>6, <1>8, <1>9, <1>10, <1>11 DEF IInv

\* do_bufferpool picks its pad, the same one.
LEMMA AllocationPadStep == ASSUME IInv, AllocationPad PROVE IInv'
<1>1. TypeOK /\ Agreed /\ UnderWay
  BY DEF IInv
<1>2. /\ UNCHANGED <<topology, quiet>>
      /\ OtherPad' = OtherPad
      /\ event.outcome = "none" /\ event.format \in Formats
  BY <1>1 DEF AllocationPad, topology, OtherPad, HeadOr, UnderWay
<1>3. quiet => PoolPad = OtherPad
  BY <1>1, PadsAgree, PadsAssumption DEF AllocationPad, Agreed, Suits, SrcPads
<1>4. /\ event'.format = event.format
      /\ event'.at = "allocate" /\ event'.outcome = event.outcome
      /\ event'.asked = PoolPad
  BY <1>1 DEF AllocationPad, Ask, TypeOK, Event
<1>5. TypeOK'
  <2>1. event' \in Event
    BY <1>1, EventTyped, PadsTyped DEF AllocationPad, TypeOK, Event, Stages, Outcomes
  <2>. QED
    BY <1>1, <1>2, <2>1 DEF AllocationPad, TypeOK, topology, Listed
<1>6. Suits(OtherPad) => Suits(OtherPad)'
  BY <1>2, <1>4 DEF topology, Suits, Template
<1>7. Agreed'
  BY <1>1, <1>2, <1>3, <1>4, <1>6 DEF AllocationPad, Ask, TypeOK, Event, Agreed
<1>8. UnderWay'
  BY <1>2, <1>4 DEF UnderWay
<1>9. AcceptedIsTransformed'
  BY <1>2, <1>3, <1>4 DEF AcceptedIsTransformed
<1>10. NegotiatedAlike'
  BY <1>2, <1>3, <1>4, <1>6 DEF NegotiatedAlike, topology, Suits
<1>. QED
  BY <1>5, <1>7, <1>8, <1>9, <1>10 DEF IInv

\* The allocation is stored, or the event fails and leaves the old one.
LEMMA AllocateStep == ASSUME IInv, Allocate PROVE IInv'
<1>1. TypeOK /\ Agreed /\ UnderWay
  BY DEF IInv
<1>2. /\ UNCHANGED <<topology, quiet>>
      /\ OtherPad' = OtherPad
      /\ event.outcome = "none" /\ event.format \in Formats
  BY <1>1 DEF Allocate, topology, OtherPad, HeadOr, UnderWay
<1>3. quiet => event.asked = OtherPad /\ Suits(OtherPad) /\ caps[OtherPad] = event.format
  BY <1>1 DEF Allocate, Agreed
<1>0. /\ UNCHANGED caps
      /\ \/ Finish("no_allocation") /\ UNCHANGED alloc
         \/ \E pool \in {"none", "own", "peer"} :
              /\ alloc' = [pool |-> pool, format |-> event.format, pad |-> event.asked]
              /\ Finish("ok")
  <2>1. PICK o \in Offers \union {NoOffer} :
          IF DecidedPool(o) = "failed"
          THEN Finish("no_allocation") /\ UNCHANGED alloc
          ELSE /\ alloc' = [pool |-> DecidedPool(o), format |-> event.format,
                            pad |-> event.asked]
               /\ Finish("ok")
    BY DEF Allocate
  <2>2. DecidedPool(o) \in {"none", "own", "peer", "failed"}
    BY DEF DecidedPool, Offers, NoOffer
  <2>. QED
    BY <2>1, <2>2 DEF Allocate
<1>4. /\ event'.format = event.format
      /\ \/ /\ event'.at = "done" /\ event'.outcome = "no_allocation"
         \/ /\ event'.at = "done" /\ event'.outcome = "ok"
            /\ alloc'.format = event.format /\ alloc'.pad = event.asked
            /\ caps' = caps
  <2>1. ASSUME NEW x \in Outcomes, Finish(x)
        PROVE  event'.format = event.format /\ event'.at = "done" /\ event'.outcome = x
    BY <1>1, <2>1 DEF Finish, TypeOK, Event
  <2>2. CASE Finish("no_allocation")
    BY <2>1, <2>2 DEF Outcomes
  <2>3. CASE \E pool \in {"none", "own", "peer"} :
               /\ alloc' = [pool |-> pool, format |-> event.format, pad |-> event.asked]
               /\ Finish("ok")
    BY <1>0, <2>1, <2>3 DEF Outcomes
  <2>. QED
    BY <1>0, <2>2, <2>3
<1>5. TypeOK'
  <2>1. event' \in Event
    BY <1>1, <1>0, EventTyped DEF Outcomes
  <2>2. alloc' \in [pool : {"none", "own", "peer"}, format : Formats \union {NoFormat},
                    pad : SrcPads \union {NoPad, Wild}]
    BY <1>1, <1>0 DEF TypeOK, Event
  <2>. QED
    BY <1>1, <1>2, <1>0, <2>1, <2>2 DEF TypeOK, topology, Listed
<1>6. Suits(OtherPad) => Suits(OtherPad)'
  BY <1>2, <1>4 DEF topology, Suits, Template
<1>7. Agreed'
  BY <1>2, <1>4 DEF Agreed
<1>8. UnderWay'
  BY <1>2, <1>4 DEF UnderWay
<1>9. AcceptedIsTransformed'
  BY <1>2, <1>3, <1>4 DEF AcceptedIsTransformed
<1>10. NegotiatedAlike'
  BY <1>2, <1>3, <1>4, <1>6 DEF NegotiatedAlike, topology, Suits
<1>. QED
  BY <1>5, <1>7, <1>8, <1>9, <1>10 DEF IInv

-----------------------------------------------------------------------------
\* Every step of the specification keeps the invariant.
LEMMA NextHolds == IInv /\ [Next]_vars => IInv'
<1> SUFFICES ASSUME IInv, [Next]_vars PROVE IInv'
  OBVIOUS
<1>1. CASE Application
  BY <1>1, TopologyStep
<1>2. CASE \E f \in Upstream : CapsArrive(f)
  BY <1>2, CapsArriveStep
<1>3. CASE \/ Query \/ Answer \/ SetCapsPad \/ FindTransform \/ PeerAccepts
           \/ SetCaps \/ AllocationPad \/ Allocate
  BY <1>3, QueryStep, AnswerStep, SetCapsPadStep, FindTransformStep,
     PeerAcceptsStep, SetCapsStep, AllocationPadStep, AllocateStep
<1>4. CASE UNCHANGED vars
  BY <1>4 DEF vars, topology, IInv, TypeOK, Agreed, UnderWay, Listed, Suits,
       AcceptedIsTransformed, NegotiatedAlike, OtherPad, HeadOr
<1>. QED
  BY <1>1, <1>2, <1>3, <1>4 DEF Next, Application

\* The inductive invariant is an invariant.
LEMMA Invariance == Spec => []IInv
BY InitHolds, NextHolds, PTL DEF Spec

\* The types, for any number of subflows and formats.
THEOREM TypeCorrect == Spec => []TypeOK
<1>1. IInv => TypeOK
  BY DEF IInv
<1>. QED
  BY <1>1, Invariance, PTL

\* What ACCEPT_CAPS accepted, find_transform and setcaps do not refuse while
\* the pads stay as they are, unless the pad they all find is not active.
THEOREM AcceptanceKept == Spec => []AcceptedIsTransformed
<1>1. IInv => AcceptedIsTransformed
  BY DEF IInv
<1>. QED
  BY <1>1, Invariance, PTL

\* A CAPS event that ended well leaves the caps, the peer and the pool of one
\* and the same pad.
THEOREM NegotiationAgrees == Spec => []NegotiatedAlike
<1>1. IInv => NegotiatedAlike
  BY DEF IInv
<1>. QED
  BY <1>1, Invariance, PTL

\* do_bufferpool misses its pad only when the last one was unlinked meanwhile.
THEOREM WildNeedsUnlink == Spec => WildOnlyIfUnlinkedMeanwhile
<1>1. ASSUME IInv, [Next]_vars, event'.asked = Wild, event.asked # Wild
      PROVE  Listed = {} /\ RtcpSrc \notin linked /\ ~ quiet
  <2>1. TypeOK /\ Agreed
    BY <1>1 DEF IInv
  <2>2. AllocationPad /\ PoolPad = Wild
    <3>1. event' # event
      BY <1>1
    <3>2. ASSUME NEW stage, NEW pad, Ask(stage, pad) PROVE event'.asked = pad
      BY <2>1, <3>2 DEF Ask, TypeOK, Event
    <3>3. ASSUME NEW stage, NEW pad, Proceed(stage, pad)
          PROVE  event'.asked = event.asked
      BY <2>1, <3>3 DEF Proceed, TypeOK, Event
    <3>4. ASSUME NEW x, Finish(x) PROVE event'.asked = NoPad
      BY <2>1, <3>4 DEF Finish, TypeOK, Event
    <3>5. NoPad # Wild /\ OtherPad # Wild /\ TransformPad # Wild
      BY <2>1, PadsTyped, PadsAssumption DEF SrcPads
    <3>6. ~ Query /\ ~ Answer /\ ~ SetCapsPad /\ ~ FindTransform
      BY <1>1, <3>2, <3>3, <3>4, <3>5
         DEF Query, QueryPad, Answer, SetCapsPad, FindTransform
    <3>7. ~ PeerAccepts /\ ~ SetCaps
      BY <1>1, <3>2, <3>4, <3>5 DEF PeerAccepts, SetCaps, PadSetCaps
    <3>8. ~ Allocate
      BY <1>1, <3>4, <3>5 DEF Allocate
    <3>9. ASSUME NEW f \in Upstream PROVE ~ CapsArrive(f)
      BY <1>1, <3>5 DEF CapsArrive
    <3>10. AllocationPad
      BY <1>1, <3>1, <3>6, <3>7, <3>8, <3>9
         DEF Next, vars, RequestNewPad, Activate, Release, Link, Unlink, Disturb
    <3>. QED
      BY <1>1, <3>2, <3>10 DEF AllocationPad
  <2>3. Listed = {} /\ RtcpSrc \notin linked
    BY <2>1, <2>2, PadsTyped
  <2>4. ~ quiet
    BY <2>1, <2>2, PadsAgree, PadsAssumption DEF AllocationPad, Agreed, Suits, SrcPads
  <2>. QED
    BY <2>3, <2>4
<1>. QED
  BY <1>1, Invariance, PTL DEF Spec, WildOnlyIfUnlinkedMeanwhile
=============================================================================
