--------------------------- MODULE MprtcpReceiver ---------------------------
(***************************************************************************)
(* The MPRTCP receiver element (gstmprtcpreceiver.c): the subflows' sink   *)
(* pads and rtcp_sink, each with a streaming thread of its own, read one   *)
(* lock over the whole chain function, push included; a pad request writes *)
(* it.  Packets are told apart by their type (RFC 5761): RTP goes to       *)
(* rtp_src, RTCP to rtcp_src, MPRTCP nowhere.                              *)
(***************************************************************************)
EXTENDS Naturals, Sequences, FiniteSets

CONSTANTS Sinks,       \* the subflow pads that may be requested
          RtcpSink,    \* the static pad rtcp_sink
          NoPad        \* no pad

VARIABLES subflows,    \* the list of requested sink pads, newest first
          wanted,      \* the pad whose request waits for the lock, or NoPad
          readers,     \* GRWLock: the read locks that are out
          chains,      \* per sink pad, its thread in the chain function
          linked,      \* the source pads with a peer
          stopped      \* the sink pads whose upstream got an error back

vars == <<subflows, wanted, readers, chains, linked, stopped>>

Sources == {"rtp_src", "rtcp_src"}
Kinds == {"unreadable", "mprtcp", "rtp", "rtcp"}
Results == {"ok", "error", "custom_error", "not_linked"}
Threads == Sinks \union {RtcpSink}

Listed == {subflows[i] : i \in DOMAIN subflows}
Idle == [pc |-> "idle", kind |-> "rtp", out |-> "none", result |-> "ok"]
Inside == {t \in Threads : chains[t].pc # "idle"}

Init ==
  /\ subflows = <<>>
  /\ wanted = NoPad
  /\ readers = 0
  /\ chains = [t \in Threads |-> Idle]
  /\ linked = {}
  /\ stopped = {}

-----------------------------------------------------------------------------
\* Links of the source pads, under no lock of the element's.
Relink(p) ==
  /\ linked' = IF p \in linked THEN linked \ {p} ELSE linked \union {p}
  /\ UNCHANGED <<subflows, wanted, readers, chains, stopped>>

\* request_new_pad up to its write lock, and past it.
Request(s) ==
  /\ wanted = NoPad
  /\ s \in Sinks \ Listed
  /\ wanted' = s
  /\ UNCHANGED <<subflows, readers, chains, linked, stopped>>

RequestNewPad ==
  /\ wanted # NoPad
  /\ readers = 0
  /\ subflows' = <<wanted>> \o subflows
  /\ wanted' = NoPad
  /\ UNCHANGED <<readers, chains, linked, stopped>>

-----------------------------------------------------------------------------
\* The two chain functions up to their first look at rtcp_src.  The lock may
\* let readers in while a writer waits.  rtcp_sink takes what it gets for RTCP.
Arrive(t, k) ==
  /\ t \in (Listed \union {RtcpSink}) \ stopped
  /\ t = RtcpSink => k = "rtcp"
  /\ chains[t].pc = "idle"
  /\ readers' = readers + 1
  /\ chains' = [chains EXCEPT ![t] = [Idle EXCEPT !.pc = "locked", !.kind = k]]
  /\ UNCHANGED <<subflows, wanted, linked, stopped>>

Refused(t, r) == [chains[t] EXCEPT !.pc = "unlock", !.result = r]
Forwarded(t, p) == [chains[t] EXCEPT !.pc = "push", !.out = p]

\* What becomes of the packet; only RTCP needs a look at the pad it goes to.
Demultiplexed(t) ==
  CASE chains[t].kind = "unreadable" -> Refused(t, "error")
    [] chains[t].kind = "mprtcp" -> Refused(t, "ok")
    [] chains[t].kind = "rtp" -> Forwarded(t, "rtp_src")
    [] "rtcp_src" \in linked -> Forwarded(t, "rtcp_src")
    [] OTHER -> Refused(t, IF t = RtcpSink THEN "error" ELSE "custom_error")

Demultiplex(t) ==
  /\ chains[t].pc = "locked"
  /\ chains' = [chains EXCEPT ![t] = Demultiplexed(t)]
  /\ UNCHANGED <<subflows, wanted, readers, linked, stopped>>

Push(t) ==
  /\ chains[t].pc = "push"
  /\ \E r \in IF chains[t].out \in linked THEN {"ok", "error"}
              ELSE {"not_linked"} :
       chains' = [chains EXCEPT ![t].pc = "unlock", ![t].result = r]
  /\ UNCHANGED <<subflows, wanted, readers, linked, stopped>>

\* Mistaken: an early return past the unlock.
UnlockedAfterPush(t) ==
  IF chains[t].out = "none" THEN readers ELSE readers - 1

Unlocked(t) == readers - 1

\* The unlock, and the return: an upstream stops at an error.
Return(t) ==
  /\ chains[t].pc = "unlock"
  /\ readers' = Unlocked(t)
  /\ stopped' = IF chains[t].result = "ok" THEN stopped
                ELSE stopped \union {t}
  /\ chains' = [chains EXCEPT ![t] = Idle]
  /\ UNCHANGED <<subflows, wanted, linked>>

\* The element upstream is restarted.
Restart(t) ==
  /\ t \in stopped
  /\ stopped' = stopped \ {t}
  /\ UNCHANGED <<subflows, wanted, readers, chains, linked>>

Step(t) == Demultiplex(t) \/ Push(t) \/ Return(t)

Next ==
  \/ \E p \in Sources : Relink(p)
  \/ \E s \in Sinks : Request(s)
  \/ RequestNewPad
  \/ \E t \in Threads : Step(t) \/ Restart(t) \/ \E k \in Kinds : Arrive(t, k)

Spec == Init /\ [][Next]_vars

\* Pushes come back, and a lock that stays free is taken.
Fairness ==
  /\ WF_vars(RequestNewPad)
  /\ \A t \in Threads : WF_vars(Step(t))

FairSpec == Spec /\ Fairness

-----------------------------------------------------------------------------
\* The types; no read lock is out but a thread's inside its chain function,
\* so a function that has returned has unlocked, on every path, once.
TypeOK ==
  /\ Listed \subseteq Sinks
  /\ wanted \in (Sinks \ Listed) \union {NoPad}
  /\ readers = Cardinality(Inside)
  /\ chains \in [Threads -> [pc : {"idle", "locked", "push", "unlock"},
                             kind : Kinds, out : Sources \union {"none"},
                             result : Results]]
  /\ linked \subseteq Sources
  /\ stopped \subseteq Listed \union {RtcpSink}

\* A request for a pad gets the lock once the threads stay out of the chain
\* functions: none has left with the lock.  While packets overlap for ever it
\* may wait for ever, GRWLock does not prefer writers.
RequestReturnsOnceQuiet ==
  <>[](Inside = {}) => []<>(wanted = NoPad)
=============================================================================
