---------------------------- MODULE MprtcpSender ----------------------------
(***************************************************************************)
(* The MPRTCP sender element (gstmprtcpsender.c): one RTCP stream spread   *)
(* over the subflows' pads in turn.  The chain function holds the read     *)
(* lock over its push, a pad request takes the write lock; links come and  *)
(* go without either.  The turn is kept in an iterator that outlives the   *)
(* lock: a node of the list of subflows, NULL past its end.                *)
(***************************************************************************)
EXTENDS Naturals, Sequences

CONSTANTS Subflows,    \* the pads that may be requested
          RtcpSrc,     \* the static pad rtcp_src
          NoPad        \* NULL

VARIABLES subflows,    \* the list, newest first
          iterator,    \* the subflow of the node it is at, or NoPad
          linked,      \* the pads with a peer
          chain,       \* the streaming thread in the chain function
          round        \* history: the subflows served since the last head

vars == <<subflows, iterator, linked, chain, round>>

Pads == Subflows \union {RtcpSrc}
Kinds == {"unreadable", "mprtcp", "rtcp"}
Results == {"unset", "ok", "error", "not_linked"}
AtWork == {"idle", "locked", "choose", "push", "unlock"}

Listed == {subflows[i] : i \in DOMAIN subflows}
ListHead == IF subflows = <<>> THEN NoPad ELSE subflows[1]

\* (*it)->next
NextNode(s) ==
  LET i == CHOOSE k \in DOMAIN subflows : subflows[k] = s
  IN IF i = Len(subflows) THEN NoPad ELSE subflows[i + 1]

Idle == [pc |-> "idle", kind |-> "rtcp", out |-> NoPad, result |-> "unset"]

Init ==
  /\ subflows = <<>>
  /\ iterator = NoPad
  /\ linked = {}
  /\ chain = Idle
  /\ round = {}

-----------------------------------------------------------------------------
\* gst_pad_link and gst_pad_unlink of a pad: the element's own functions do
\* nothing and take no lock.
Link(p) ==
  /\ p \in (Listed \union {RtcpSrc}) \ linked
  /\ linked' = linked \union {p}
  /\ UNCHANGED <<subflows, iterator, chain, round>>

Unlink(p) ==
  /\ p \in linked
  /\ linked' = linked \ {p}
  /\ UNCHANGED <<subflows, iterator, chain, round>>

NoReader == chain.pc = "idle"

\* request_new_pad, whole: the write lock waits for the chain function.
RequestNewPad(s) ==
  /\ NoReader
  /\ s \in Subflows \ Listed
  /\ subflows' = <<s>> \o subflows
  /\ UNCHANGED <<iterator, linked, chain, round>>

-----------------------------------------------------------------------------
\* The chain function, a step for each look at state others change.
Arrive(k) ==
  /\ chain.pc = "idle"
  /\ chain' = [Idle EXCEPT !.pc = "locked", !.kind = k]
  /\ UNCHANGED <<subflows, iterator, linked, round>>

\* Is rtcp_src linked?  If not the packet is looked at; result is assigned
\* for an unreadable one only.
LookAtRtcpSrc ==
  /\ chain.pc = "locked"
  /\ chain' = IF RtcpSrc \in linked
              THEN [chain EXCEPT !.pc = "push", !.out = RtcpSrc]
              ELSE CASE chain.kind = "unreadable" ->
                          [chain EXCEPT !.pc = "unlock", !.result = "error"]
                     [] chain.kind = "mprtcp" -> [chain EXCEPT !.pc = "unlock"]
                     [] OTHER -> [chain EXCEPT !.pc = "choose"]
  /\ UNCHANGED <<subflows, iterator, linked, round>>

\* The node to serve: the iterator's, unless it is past the end or its pad has
\* lost its peer; then the head, linked or not.
Chosen == IF iterator \in linked THEN iterator ELSE ListHead

ChooseSubflow ==
  /\ chain.pc = "choose"
  /\ iterator' = Chosen
  /\ chain' = IF Chosen = NoPad
              THEN [chain EXCEPT !.pc = "unlock"]
              ELSE [chain EXCEPT !.pc = "push", !.out = Chosen]
  /\ UNCHANGED <<subflows, linked, round>>

PushResults(p) == IF p \in linked THEN {"ok", "error"} ELSE {"not_linked"}

\* Mistaken: the iterator is not moved on.
NotAdvanced == iterator

Advanced == NextNode(iterator)

\* The push and, for a subflow, the step of the iterator that only this thread
\* moves, whatever the push returned.
Push ==
  /\ chain.pc = "push"
  /\ \E r \in PushResults(chain.out) :
       chain' = [chain EXCEPT !.pc = "unlock", !.result = r]
  /\ IF chain.out = RtcpSrc
     THEN UNCHANGED <<iterator, round>>
     ELSE /\ iterator' = Advanced
          /\ round' = IF chain.out = ListHead THEN {chain.out}
                      ELSE round \union {chain.out}
  /\ UNCHANGED <<subflows, linked>>

Return ==
  /\ chain.pc = "unlock"
  /\ chain' = Idle
  /\ UNCHANGED <<subflows, iterator, linked, round>>

Next ==
  \/ \E p \in Pads : Link(p) \/ Unlink(p)
  \/ \E s \in Subflows : RequestNewPad(s)
  \/ \E k \in Kinds : Arrive(k)
  \/ LookAtRtcpSrc \/ ChooseSubflow \/ Push \/ Return

Spec == Init /\ [][Next]_vars

\* The streaming thread does not stop inside the chain function: a push is
\* assumed to come back.
Fairness == WF_vars(LookAtRtcpSrc \/ ChooseSubflow \/ Push \/ Return)

FairSpec == Spec /\ Fairness

-----------------------------------------------------------------------------
\* The types; the iterator, kept across calls, is always at a listed subflow.
TypeOK ==
  /\ Listed \subseteq Subflows
  /\ \A i, k \in DOMAIN subflows : subflows[i] = subflows[k] => i = k
  /\ iterator \in Listed \union {NoPad}
  /\ linked \subseteq Listed \union {RtcpSrc}
  /\ chain \in [pc : AtWork, kind : Kinds, out : Pads \union {NoPad},
                result : Results]
  /\ round \subseteq Listed

\* A round serves a subflow once: a subflow is pushed to again only as the head
\* of the list, where a new round starts.  Pads requested, linked or unlinked
\* during the round do not bring one served back.
ServedOnceARound ==
  [][Push /\ chain.out # RtcpSrc =>
       chain.out \notin round \/ chain.out = ListHead]_vars

\* The subflows the turn has to pass to come from the head to s, and s.
UpTo(s) == {p \in Listed : \E i, k \in DOMAIN subflows :
                             i <= k /\ subflows[i] = p /\ subflows[k] = s}

\* A subflow is served again and again while RTCP packets come, as long as it
\* and every subflow before it in the list stay linked.  The head alone need
\* not: it is pushed to unseen.  One unlinked subflow sends the turn back to
\* the head, so those behind it wait for as long as it is unlinked.
EverySubflowInItsTurn ==
  \A s \in Subflows :
    []<>(chain.pc = "choose")
      /\ <>[](s \in Listed /\ UpTo(s) \ {ListHead} \subseteq linked)
    => []<>(chain.pc = "unlock" /\ chain.out = s)

=============================================================================
