------------------------------- MODULE Elements -------------------------------
(***************************************************************************)
(* Five machines of the plugin that share no variable.  Since no step of   *)
(* one reads or writes what another keeps, their interleavings add nothing *)
(* to what each does alone: a behaviour picks a part and moves it, and the *)
(* others stay as they began.                                              *)
(***************************************************************************)
EXTENDS Integers, FiniteSets

CONSTANTS
  Slots, Skews, Paths, Weight, Scale, IntSpace,   \* Playouter
  MaxSize, Reporters,                             \* Riporter: buffer, subflows
  Subflows, RtcpSrc,                              \* MprtcpSender
  Sinks, RtcpSink,                                \* MprtcpReceiver
  NoPad,                                          \* NULL
  None                                            \* no thread

ASSUME ElementsAssumption ==
  \* A run records at most a ring of skews, and the counter is wider than that.
  /\ Slots \in Nat \ {0} /\ Paths \in 0 .. Slots
  /\ Skews \subseteq Nat /\ IsFiniteSet(Skews)
  /\ Weight \in Nat \ {0} /\ Scale \in Nat
  /\ IntSpace \in Nat /\ IntSpace % 2 = 0 /\ IntSpace > 2 * Slots
  \* A report has 11 words.  The 350 words of the buffer are 31 reports and nine
  \* words, 9 % 11 at least being what keeps the last report inside.
  /\ MaxSize \in Nat /\ MaxSize >= 11 /\ MaxSize % 11 >= 9
  /\ Reporters \in Nat
  \* The static pads are no requested ones.
  /\ RtcpSrc \notin Subflows /\ NoPad \notin Subflows \cup {RtcpSrc}
  /\ RtcpSink \notin Sinks /\ NoPad \notin Sinks \cup {RtcpSink}
  /\ IsFiniteSet(Sinks)
  /\ None \notin {"scheduler", "playouter", "riporter", "stream", "app"}

VARIABLES
  part,     \* the part that moves
  path_skews, path_skew_index, path_skew_counter, playout_delay, recent, wrapped,
  todo, compound, mem, size, sent, due, skips, misread,
  subflows, iterator, linked, chain, round,
  sinks, wanted, readers, chains, sources, stopped,
  element, state, target, plan, sink, task, stream, active, path, lock

playouts == <<path_skews, path_skew_index, path_skew_counter, playout_delay, recent, wrapped>>
reports == <<todo, compound, mem, size, sent, due, skips, misread>>
rotation == <<subflows, iterator, linked, chain, round>>
reading == <<sinks, wanted, readers, chains, sources, stopped>>
lifecycle == <<element, state, target, plan, sink, task, stream, active, path, lock>>
vars == <<part, playouts, reports, rotation, reading, lifecycle>>

Playouts == INSTANCE Playouter

Reports == INSTANCE Riporter WITH Subflows <- Reporters

Rotation == INSTANCE MprtcpSender

Readers == INSTANCE MprtcpReceiver WITH subflows <- sinks, linked <- sources

Lifecycle == INSTANCE ElementLifecycle

Init ==
  /\ part \in {"playouter", "riporter", "mprtcp_sender", "mprtcp_receiver", "lifecycle"}
  /\ Playouts!Init /\ Reports!Init /\ Rotation!Init /\ Readers!Init /\ Lifecycle!Init
  /\ part # "lifecycle" => element = "sender"

\* One disjunct per part.
Next ==
  /\ \/ /\ part = "playouter" /\ Playouts!Next
        /\ UNCHANGED <<reports, rotation, reading, lifecycle>>
     \/ /\ part = "riporter" /\ Reports!Next
        /\ UNCHANGED <<playouts, rotation, reading, lifecycle>>
     \/ /\ part = "mprtcp_sender" /\ Rotation!Next
        /\ UNCHANGED <<playouts, reports, reading, lifecycle>>
     \/ /\ part = "mprtcp_receiver" /\ Readers!Next
        /\ UNCHANGED <<playouts, reports, rotation, lifecycle>>
     \/ /\ part = "lifecycle" /\ Lifecycle!Next
        /\ UNCHANGED <<playouts, reports, rotation, reading>>
  /\ UNCHANGED part

\* In a part that does not move nothing is enabled that has to happen.
Spec ==
  /\ Init /\ [][Next]_vars
  /\ Rotation!Fairness /\ Readers!Fairness /\ Lifecycle!Fairness

-----------------------------------------------------------------------------
(* The properties, as stated and commented in their modules.               *)

\* All variables stay in their domains, the read locks and the buffer's words
\* among them.
TypeOK ==
  Playouts!TypeOK /\ Reports!TypeOK /\ Rotation!TypeOK /\ Readers!TypeOK /\ Lifecycle!TypeOK

\* The playouter looks at the last path skews, but for an overflown counter.
MaxOfRecent == Playouts!MaxOfRecent

\* What a reader finds in the riporter's packets, and what is lost in them.
ReportsReadBack == Reports!ReportsReadBack

\* The MPRTCP sender serves a subflow once a round.
ServedOnceARound == Rotation!ServedOnceARound

\* The MPRTCP sender comes to every subflow that stays reachable.
EverySubflowInItsTurn == Rotation!EverySubflowInItsTurn

\* A request of the MPRTCP receiver gets the lock once the packets pause.
RequestReturnsOnceQuiet == Readers!RequestReturnsOnceQuiet

\* In READY and below nobody is inside the element.
QuietBelowPaused == Lifecycle!QuietBelowPaused

\* A state change ends, or in one of the known deadlocks.
ChangeReturns == Lifecycle!ChangeReturns
=============================================================================
