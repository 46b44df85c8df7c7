--------------------------- MODULE CapsNegotiation ---------------------------
(***************************************************************************)
(* Formats on the RTCP path of the MPRTP sender element                    *)
(* (gstmprtpsender.c, after base_transform): a CAPS event on rtcp_sink is  *)
(* accepted, transformed, set on a source pad and followed by an           *)
(* allocation query.  The source pad is rtcp_src while it is linked, else  *)
(* the newest subflow's, and each stage works it out again, without the    *)
(* mutex, while the application requests, links, unlinks and releases      *)
(* pads.                                                                   *)
(*                                                                         *)
(* A GstCaps is the set of fixed formats it allows, ANY is Formats, NULL   *)
(* is NoCaps.  The GStreamer core is external: pads without a peer answer  *)
(* a caps query with the filter, a sink asks ACCEPT_CAPS before it hands a *)
(* CAPS event on, a pad that is not active takes no caps and keeps none,   *)
(* a guarded call with a NULL pad fails.                                   *)
(***************************************************************************)
EXTENDS Naturals, Sequences

CONSTANTS Subflows,    \* pads src_%u that may be requested
          RtcpSrc, RtcpSink,
          NoPad,       \* NULL
          Wild,        \* an uninitialised pointer
          Formats,     \* fixed caps
          NoFormat,    \* a pad without caps
          NoCaps,      \* a NULL GstCaps
          SrcTemplate, \* the caps of the template src_%u
          Upstream     \* what upstream of rtcp_sink produces

ASSUME FormatsAssumption ==
  /\ SrcTemplate \subseteq Formats
  /\ Upstream \subseteq Formats
  /\ NoFormat \notin Formats
  /\ \A cs \in SUBSET Formats : cs # NoCaps

ASSUME PadsAssumption ==
  /\ RtcpSrc \notin Subflows
  /\ RtcpSink \notin Subflows \union {RtcpSrc}
  /\ NoPad \notin Subflows \union {RtcpSrc, RtcpSink}
  /\ Wild \notin Subflows \union {RtcpSrc, RtcpSink, NoPad}

VARIABLES subflows,    \* the list, newest first
          linked,      \* source pads with a peer
          accepts,     \* the formats each peer takes
          life,        \* of each subflow's pad: it is listed while still new
          caps,        \* the caps of each source pad
          alloc,       \* priv: pool, and the query and pad it came from
          event,       \* the CAPS event the streaming thread is in
          quiet        \* history: pads as they were since it came

topology == <<subflows, linked, accepts, life>>
vars == <<topology, caps, alloc, event, quiet>>

SrcPads == Subflows \union {RtcpSrc}
Listed == {subflows[i] : i \in DOMAIN subflows}
Stages == {"done", "query", "answer", "setcaps", "transform", "accept", "set",
           "pool", "allocate", "fault"}
Outcomes == {"none", "ok", "not_accepted", "no_transform", "no_pad", "not_set",
             "no_allocation"}

Event == [at : Stages, format : Formats \union {NoFormat},
          pad : SrcPads \union {NoPad},
          asked : SrcPads \union {NoPad, Wild}, outcome : Outcomes]

Init ==
  /\ subflows = <<>>
  /\ linked = {}
  /\ accepts = [p \in SrcPads |-> {}]
  /\ life = [s \in Subflows |-> "new"]
  /\ caps = [p \in SrcPads |-> NoFormat]
  /\ alloc = [pool |-> "none", format |-> NoFormat, pad |-> NoPad]
  /\ event = [at |-> "done", format |-> NoFormat, pad |-> NoPad,
              asked |-> NoPad, outcome |-> "none"]
  /\ quiet = TRUE

-----------------------------------------------------------------------------
(* The application, as long as the process is there.                       *)

Disturb == /\ event.at # "fault"
           /\ quiet' = FALSE
           /\ UNCHANGED <<alloc, event>>

RequestNewPad(s) ==
  /\ s \in Subflows \ Listed
  /\ subflows' = <<s>> \o subflows
  /\ UNCHANGED <<linked, accepts, life, caps>>
  /\ Disturb

\* request_new_pad lists the pad under the mutex; only then it adds it to the
\* element, which may be linked from then on, and activates it.
Activate(s) ==
  /\ s \in Listed /\ life[s] = "new"
  /\ life' = [life EXCEPT ![s] = "active"]
  /\ UNCHANGED <<subflows, linked, accepts, caps>>
  /\ Disturb

\* release_pad deactivates the pad, and leaves it in the list and linked.
Release(s) ==
  /\ life[s] = "active"
  /\ life' = [life EXCEPT ![s] = "released"]
  /\ caps' = [caps EXCEPT ![s] = NoFormat]
  /\ UNCHANGED <<subflows, linked, accepts>>
  /\ Disturb

Link(p, fs) ==
  /\ p \in SrcPads \ linked
  /\ p \in Subflows => life[p] # "new"
  /\ linked' = linked \union {p}
  /\ accepts' = [accepts EXCEPT ![p] = fs]
  /\ UNCHANGED <<subflows, life, caps>>
  /\ Disturb

Unlink(p) ==
  /\ p \in linked
  /\ linked' = linked \ {p}
  /\ accepts' = [accepts EXCEPT ![p] = {}]
  /\ UNCHANGED <<subflows, life, caps>>
  /\ Disturb

-----------------------------------------------------------------------------
(* The source pad, as the stages work it out.                              *)

HeadOr(p) == IF subflows = <<>> THEN p ELSE subflows[1]

\* query_caps, pad_query, rtcp_sink_eventfunc and setcaps.
OtherPad == IF RtcpSrc \in linked THEN RtcpSrc ELSE HeadOr(NoPad)

\* Mistaken: the query takes rtcp_src, linked or not.
QueryRtcpSrc == RtcpSrc

QueryPad == OtherPad

\* find_transform starts from rtcp_src, and without a subflow keeps it.
TransformPad == IF RtcpSrc \in linked THEN RtcpSrc ELSE HeadOr(RtcpSrc)

\* Mistaken: the branch for a linked rtcp_src is left out.
PoolPadOfSubflow == HeadOr(Wild)

\* do_bufferpool starts from nothing.
PoolPad == IF RtcpSrc \in linked THEN RtcpSrc ELSE HeadOr(Wild)

-----------------------------------------------------------------------------
(* The caps query.                                                         *)

Template(p) == IF p \in Subflows THEN SrcTemplate ELSE Formats

PeerCaps(p) == IF p = RtcpSink THEN Upstream
               ELSE IF p \in linked THEN accepts[p] ELSE Formats

\* transform_caps: a pass-through, within the filter if there is one.
TransformCaps(cs, filter) ==
  IF filter = NoCaps THEN cs ELSE filter \intersect cs

\* The filter within a template.
Narrow(filter, p) ==
  IF filter = NoCaps THEN NoCaps ELSE filter \intersect Template(p)

\* gst_pad_peer_query_caps.
PeerQueryCaps(p, filter) == TransformCaps(PeerCaps(p), filter)

\* query_caps of pad, with the other pad it found.
QueryCaps(pad, other, filter) ==
  LET onwards == Narrow(Narrow(filter, pad), other)
      found == PeerQueryCaps(other, onwards) \intersect Template(other)
  IN IF onwards = {} THEN {}
     ELSE TransformCaps(found, filter) \intersect Template(pad)

\* Without another pad there are no caps to ask for, and none to fall back on:
\* query_caps goes on to read the direction of a NULL pad.
QueryFaults(pad, other, filter) == other = NoPad /\ Narrow(filter, pad) # {}

\* acceptcaps_default of a query on rtcp_sink.
AcceptCaps(other, f) == f \in QueryCaps(RtcpSink, other, {f})

-----------------------------------------------------------------------------
(* The CAPS event, in the streaming thread of rtcp_sink.                   *)

Finish(outcome) ==
  event' = [event EXCEPT !.at = "done", !.outcome = outcome,
                         !.pad = NoPad, !.asked = NoPad]
Proceed(stage, pad) == event' = [event EXCEPT !.at = stage, !.pad = pad]
Ask(stage, pad) == event' = [event EXCEPT !.at = stage, !.asked = pad]

CapsArrive(f) ==
  /\ event.at = "done"
  /\ event' = [at |-> "query", format |-> f, pad |-> NoPad, asked |-> NoPad,
               outcome |-> "none"]
  /\ quiet' = TRUE
  /\ UNCHANGED <<topology, caps, alloc>>

Query ==
  /\ event.at = "query"
  /\ Ask("answer", QueryPad)
  /\ UNCHANGED <<topology, caps, alloc, quiet>>

\* The process ends in a fault, or the query is answered.
Answer ==
  /\ event.at = "answer"
  /\ IF QueryFaults(RtcpSink, event.asked, {event.format}) THEN Ask("fault", NoPad)
     ELSE IF AcceptCaps(event.asked, event.format)
     THEN Ask("setcaps", NoPad) ELSE Finish("not_accepted")
  /\ UNCHANGED <<topology, caps, alloc, quiet>>

SetCapsPad ==
  /\ event.at = "setcaps"
  /\ Proceed("transform", OtherPad)
  /\ UNCHANGED <<topology, caps, alloc, quiet>>

\* find_transform: fixed caps stay fixed or turn empty under a template, so
\* the code that fixates others with the peer's help is never reached.
FindTransform ==
  /\ event.at = "transform"
  /\ IF event.format \in Template(TransformPad)
     THEN Ask("accept", TransformPad) ELSE Finish("no_transform")
  /\ UNCHANGED <<topology, caps, alloc, quiet>>

PeerAccepts ==
  /\ event.at = "accept"
  /\ IF event.asked \in linked => event.format \in accepts[event.asked]
     THEN Ask("set", event.asked) ELSE Finish("no_transform")
  /\ UNCHANGED <<topology, caps, alloc, quiet>>

\* Mistaken: caps once set are taken for the new ones.
HasAnyCaps(p) == caps[p] # NoFormat

\* Both the previous input and output caps are read from the source pad.
HasNewCaps(p) == caps[p] = event.format

Active(p) == p = RtcpSrc \/ life[p] = "active"

\* gst_pad_set_caps stores the caps on an active source pad whatever its peer
\* says, and fails for another and for NULL.
PadSetCaps(p) ==
  CASE p = NoPad -> Finish("no_pad") /\ UNCHANGED caps
    [] p \in SrcPads /\ ~ Active(p) -> Finish("not_set") /\ UNCHANGED caps
    [] OTHER -> /\ caps' = [caps EXCEPT ![p] = event.format]
                /\ Ask("pool", NoPad)

\* NULL has no caps, so nothing but gst_pad_set_caps tells it from a pad.
SetCaps ==
  /\ event.at = "set"
  /\ IF event.pad \in SrcPads /\ HasNewCaps(event.pad)
     THEN Ask("pool", NoPad) /\ UNCHANGED caps
     ELSE PadSetCaps(event.pad)
  /\ UNCHANGED <<topology, alloc, quiet>>

AllocationPad ==
  /\ event.at = "pool"
  /\ Ask("allocate", PoolPad)
  /\ UNCHANGED <<topology, caps, alloc, quiet>>

\* What the peer's answer to the allocation query holds: no pool, a NULL one,
\* or one, and how the pool takes its configuration, at first and again.
Offers == [pool : {"none", "null", "peer"}, config : {"taken", "changed", "no"},
           again : BOOLEAN]
NoOffer == [pool |-> "none", config |-> "taken", again |-> TRUE]

\* default_decide_allocation: the pool, or "failed".  A pool that refuses is
\* asked again with its own changes, or replaced by one of the element's.
DecidedPool(o) ==
  CASE o.pool = "none" -> "none"
    [] o.pool # "none" /\ o.config = "taken" ->
         IF o.pool = "null" THEN "own" ELSE "peer"
    [] o.pool # "none" /\ o.config # "taken" /\ ~ o.again -> "failed"
    [] o.pool = "peer" /\ o.config = "changed" /\ o.again -> "peer"
    [] OTHER -> "own"

\* do_bufferpool and set_allocation.  The query through a wild pointer is
\* undefined; the model lets it find no peer.
Allocate ==
  /\ event.at = "allocate"
  /\ \E o \in IF event.asked \in linked THEN Offers ELSE {NoOffer} :
       IF DecidedPool(o) = "failed"
       THEN Finish("no_allocation") /\ UNCHANGED alloc
       ELSE /\ alloc' = [pool |-> DecidedPool(o), format |-> event.format,
                         pad |-> event.asked]
            /\ Finish("ok")
  /\ UNCHANGED <<topology, caps, quiet>>

Next ==
  \/ \E s \in Subflows : RequestNewPad(s) \/ Activate(s) \/ Release(s)
  \/ \E p \in SrcPads : Unlink(p) \/ \E fs \in SUBSET Formats : Link(p, fs)
  \/ \E f \in Upstream : CapsArrive(f)
  \/ Query \/ Answer \/ SetCapsPad \/ FindTransform \/ PeerAccepts \/ SetCaps
  \/ AllocationPad \/ Allocate

Spec == Init /\ [][Next]_vars

-----------------------------------------------------------------------------
\* The types, and: only listed pads and rtcp_src are active, linked or have
\* caps, and an inactive pad has none.
TypeOK ==
  /\ subflows \in Seq(Subflows)
  /\ life \in [Subflows -> {"new", "active", "released"}]
  /\ \A s \in Subflows :
       /\ s \notin Listed => life[s] = "new"
       /\ life[s] = "new" => s \notin linked
       /\ life[s] # "active" => caps[s] = NoFormat
  /\ linked \subseteq SrcPads
  /\ accepts \in [SrcPads -> SUBSET Formats]
  /\ caps \in [SrcPads -> Formats \union {NoFormat}]
  /\ alloc \in [pool : {"none", "own", "peer"}, format : Formats \union {NoFormat},
                pad : SrcPads \union {NoPad, Wild}]
  /\ event \in Event
  /\ quiet \in BOOLEAN

\* Caps that the element accepted are not refused by its own transform or for
\* want of a pad, unless the application changed the pads in between: the
\* stages, each with a choice of its own, come to the same pad.  If that pad
\* then does not take the caps, it is a subflow's that its request has not
\* activated yet or that was released: the newest of the list all the same.
AcceptedIsTransformed ==
  quiet =>
    /\ event.outcome \notin {"no_transform", "no_pad"}
    /\ event.outcome = "not_set" =>
         RtcpSrc \notin linked /\ Listed # {} /\ life[subflows[1]] # "active"

\* After a CAPS event that ended well, and until the pads change, the pad that
\* RTCP takes when it is rtcp_src or the only subflow has these caps, a peer
\* that takes them, and the stored pool is the answer of that very peer.  An
\* event that fails late leaves the new caps beside the old pool.
NegotiatedAlike ==
  event.outcome = "ok" /\ quiet =>
    /\ caps[OtherPad] = event.format
    /\ OtherPad \in linked => event.format \in accepts[OtherPad]
    /\ alloc.format = event.format /\ alloc.pad = OtherPad

\* The allocation query goes through an uninitialised pointer only when the
\* last pad was unlinked while the event was on its way.
WildOnlyIfUnlinkedMeanwhile ==
  [][event'.asked = Wild /\ event.asked # Wild =>
       Listed = {} /\ RtcpSrc \notin linked /\ ~ quiet]_vars
=============================================================================
