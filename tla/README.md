# Verification of gst-mprtp

TLA+ models of the GStreamer plugin for Multipath RTP in `src/plugins`, the TLC
runs that check them and the TLAPS proofs about them.  An RTP stream enters the
sender element, is spread over several *subflows* (network paths), and is put
together again by the receiver element; RTCP and its multipath form MPRTCP run
beside it.

## 1. Inventory

| Component | Source | State it keeps | Operations |
|---|---|---|---|
| Scheduling tree | `schtree.c` | the tree (`root`), the last leaf drawn (`actual`), the batch being collected (`paths`, `path_values`) | `set_path`, `create_and_replace`, `get_next`, `get_actual` |
| Sender subflow | `mprtpssubflow.c` | `active`, `linked`, `state`, `SR`; `seq`, `cycle_num`, `packet_count`, `octet_count`; `sr_riport_time` | `FSM_fire`, `process_rtpbuffer_out`, `setup_sr_riport` |
| MPRTP sender element | `gstmprtpsender.c` | list of subflows, `no_active_subflows`, the tree, `subflows_mutex`, `scheduler_cond`, two tasks | pad request, release, link, unlink; RTP and RTCP chain; scheduler and riporter runs; state changes |
| Caps, allocation, queries | `gstmprtpsender.c` (972-1823) | caps of the source pads, the buffer pool | CAPS event, caps and allocation queries |
| MPRTCP buffer | `gstmprtcpbuffer.c` | a compound RTCP packet under construction | `add_begin`, `add_riport`, `add_block_begin/end`, `add_end`, iterators |
| Receiver subflow | `mprtprsubflow.c` | ring of 100 skews with read and write index, last timestamps | `process_rtpbuffer`, `get_skew`; `_cmp_seq`, gap list (unreached) |
| MPRTP receiver element | `gstmprtpreceiver.c` | list of subflows, 256 path skews, playout delay, mutex, two tasks | pad request, demultiplexing chain, playouter, state changes |
| MPRTCP sender element | `gstmprtcpsender.c` | list of subflows, iterator, rw lock | pad request, chain with the rotation |
| MPRTCP receiver element | `gstmprtcpreceiver.c` | list of subflows, rw lock | pad request, two chains |
| Try element, plugin, `tools/` | `gsttry.c`, `gstmprtpplugin.c` | none of its own | pass-through, registration |

**Interaction.**  The streaming thread calls `rtp_sink_chain`, which waits on
`scheduler_cond` while no subflow is active, draws a subflow from the tree,
numbers the packet and pushes it, all under `subflows_mutex`.  The scheduler
task fires JOINED at linked subflows, turns their rates into values and
replaces the tree.  The riporter task walks the same list and sends a sender
report per active subflow whose time has come.  The RTCP thread follows the
subflow of the last RTP packet (`get_actual`).  Application threads request,
link, unlink and release pads at any moment; the link functions write the
subflow's flags.  On the receiver one thread per subflow pad demultiplexes, the
playouter drains the subflows' skews, and nothing is pushed under the mutex.
The MPRTCP elements push under a read lock that pad requests write.  State
changes make, start, stop, join and give up the tasks.

**What is hard.**  Five kinds of threads share the sender's list and tree; one
flag is read outside the mutex, and so is a clock; the condition is awaited
without a loop; the mutex is held over pushes, also while tasks are joined; the
tree is freed while a pointer into it survives; counters wrap at different
moments; rates are rounded to whole units of a tree of 128; report headers are
written before the report is known to be due; each stage of the negotiation
chooses its pad anew.  The complete list, each with its line and the property
that covers it, is under `hazards` in `PROJECT.json`.

**What makes each component correct.**

* Tree: every path gets exactly its value per round, spread and not in bursts;
  no walk runs out of nodes; a replacement does not disturb this.
* Sender subflow: sequence number and reported count agree for ever; active
  implies linked; a scheduled subflow has a rate.
* Sender element: no lost wakeup, no draw from an empty tree, unique ids,
  linked subflows get traffic, unlinked and released ones do not, reports are
  of active subflows and in time, calls return.
* MPRTCP buffer: a reader finds the reports that were written.
* Caps: all stages choose the pad that the first one accepted the caps for.
* Receiver subflow: the skew reported is the median of those of the last two
  seconds; the ring forgets the oldest first.
* Receiver and MPRTCP elements: each packet goes to the right pad, each subflow
  gets its turn, locks are given back, calls return.
* State changes: they end, and no thread is inside an element that is READY.

## 2. Modules

| Module | What it is | Source |
|---|---|---|
| `SchTree` | the tree as data, one operator per function | `schtree.c` |
| `SchTreeSpec` | its life: batches, replacements, draws | `schtree.c` |
| `WeightedDispatch` | abstract: each path exactly its share per round | what the tree promises |
| `MprtpsSubflow` | subflow record, state machine and counters as operators | `mprtpssubflow.c` |
| `MprtpsSubflowSpec` | the life of one subflow | `mprtpssubflow.c` |
| `MprtpSender` | threads, mutex, condition, list; uses `MprtpsSubflow` | `gstmprtpsender.c` |
| `SenderDispatch` | composition of list, rates, scheduler, `MprtpsSubflow` and `SchTree` | `gstmprtpsender.c` with both |
| `ReportClock` | when the riporter reports of whom | `gstmprtpsender.c`, `mprtpssubflow.c` |
| `MprtcpBuffer` | packets of reports, one operator per function | `gstmprtcpbuffer.c` |
| `Riporter` | the riporter's loop over `MprtcpBuffer` | `gstmprtpsender.c` |
| `CapsNegotiation` | the stages of a CAPS event while pads come and go | `gstmprtpsender.c` |
| `ElementLifecycle` | `change_state` of both MPRTP elements against their threads | `gstmprtpsender.c`, `gstmprtpreceiver.c` |
| `SkewRing` | the ring of skews and the reports from it | `mprtprsubflow.c` |
| `SkewWindow` | abstract: the median of the latest skews | what the ring promises |
| `MprtpReceiver` | pads, threads, mutex | `gstmprtpreceiver.c` |
| `Playouter` | path skews and playout delay | `gstmprtpreceiver.c` |
| `MprtcpSender` | rotation, read lock, links | `gstmprtcpsender.c` |
| `MprtcpReceiver` | demultiplexing under the read lock | `gstmprtcpreceiver.c` |
| `*Proofs` | theorems about the module they are named after | |
| `Elements` | five machines that share nothing, in one run | |
| other `MC*` | symmetry sets and constants for TLC | |

**SchTree.**  A node is named by its position (children of `k` are `2k`,
`2k+1`), a tree is a function on the allocated nodes, so a NULL child is a
position outside its domain.  `schtree_insert` is recursive and takes leaves
from a shared counter (`*change`); since subtrees are disjoint, two recursive
functions describe it, `Rest` (the counter when a call returns) and `Entered`
(the counter when a node is entered).  The loop that adds up a batch is `Total`,
the one that looks for its largest value comes down to `MaxIndex`, as the value
it compares with is never raised.  `MaxValue` may be any power of two.  `actual` becomes `Dangling` when the
tree is replaced: a read through it may give any path or crash.  The read-write
lock of the tree (never initialised, always taken under the sender's mutex) is
not modelled.  The `while` loop of `get_next` is the function `Reached`, which
says which nodes it comes by; `Selected` is the one it ends at.  The
refinement of `WeightedDispatch` is claimed for batches without a value 0, where
the shares are exact (`Exact`); for the others the mapping shows an idle
dispatcher, and `SharesWithinOneUnit` says what holds instead.

**MprtpsSubflow.**  A record `[active, linked, state, SR]` and a record of
counters.  The state `"none"` is the 0 of the freshly allocated object, which
the switch does not know.  `packet_count` is a `gint32` in the C structure, but
it is carried as 32 unsigned bits in the report, so it is modelled modulo 2^32.
Payloads are their length.  `ssrc` and fields nobody reads are left out.  The
code fires only JOINED and DETACHED (`LiveEvents`); the specification fires all
events, and `steered` remembers whether another one was.

**MprtpSender.**  One program counter per thread.  All a thread does under one
hold of the mutex is one step, except pushes, which are steps of their own with
the mutex held (`lock`), so that every other thread can find it taken.
`SchedulerRead` is apart from `SchedulerRun` because the flag is read before
the mutex is taken; `RequestScan` is apart from `RequestAdd` for the same
reason.  `StreamWait` releases the mutex, `SchedulerRun` moves the waiter to
`"woken"`, `SpuriousWakeup` does so without a signal, and `StreamResume` draws
without a second look at the flag, as the code does.  The tree is the set of
the subflows in it, and a draw may pick any of them.  A fault (NULL or freed
memory dereferenced) stops the process.  External behaviour, taken from how
GStreamer runs the element's callbacks: `gst_pad_link` sets the peer before it
calls the link function; `gst_pad_unlink` holds the pad's object lock while the
unlink function runs, and `gst_pad_push` needs that lock (`PadBusy`).

**SenderDispatch.**  The same operations without the threads, but with the real
tree and real rates.  A rate is `1/subflow_num` at the time the subflow joined,
kept as a multiple of `1/RateUnit`: exact fractions stand for the `gfloat`s.
`schtree` is the element's tree; its initial state, steps and specification are
`DispatchInit`, `DispatchNext` and `DispatchSpec`, so that the proofs can name
them beside those of `SchTreeSpec`.
`UB` is never assigned in the code, so the second argument of the `MAX` in
`scheduler_run` is 0.

**ReportClock.**  One loop of the riporter is a step per subflow.  Time passes
only where the task waits: for the mutex, for a push, for the clock.  `MaxHold`
is the longest a run takes from the reading of the clock on; the code sets no
limit, so what is shown is how far reports move for a given limit.

**MprtcpBuffer, Riporter.**  A buffer is words, not bytes, since every length
in it is counted in words.  A word that is read again keeps the fields that are
read; all others are data, and a data word that `add_begin` meets may pass for
a header or not.  All calls of a run happen under the mutex.

**CapsNegotiation.**  A stage is two steps, the choice of the pad and what is
done with it, as nothing keeps the application out in between.  Caps are sets
of formats, NULL caps a value of their own.  Only formats and pads are kept: a
pool is its kind and the answer it came from.  A request lists its pad
(`RequestNewPad`) before it activates it (`Activate`), and a released pad stays
in the list (`Release`): `gst_pad_set_caps` fails for both (`PadSetCaps`).
`rtcp_src` is active, as the element plays; flushes and EOS are left out.  When
`query_caps` finds no pad it dereferences NULL (`QueryFaults`), and the process
is at an end (stage `"fault"`).

**ElementLifecycle.**  The calls of a transition, in their order, are a plan
(`Calls`) that the application's thread works off, and every thread goes on in
between.  The thread of the sender's `rtcp_sink`, which pushes under the mutex
too, is left out.  `GstTask`, pad activation, and that elements downstream change state
first and block pushes in PAUSED are GStreamer's.  What the tasks do inside is
in the other modules; here they take the mutex, push under it (sender) and wait
for the clock.

**SkewRing.**  Both operations run under the subflow's mutex, so each is a
step.  RTP timestamps are the sender's clock cut to a word.  With no young skew
`get_skew` returns an array element that was never written: any word.
`g_qsort_with_data` is not stable, so the sort is every order of the slots taken
in which the skews ascend, and the middle whatever stands there in one of them.
`SkewWindow` speaks of real times, medians and a bounded sequence.

**MprtpReceiver.**  Nothing is pushed under the mutex, so one hold of it is one
step, and `lock` is only seen taken when a thread returned with it, as
`RequestRefuse` does.  A packet is what its sender made it (RTP or RTCP), its
second byte and the subflow id in its header extension; which of the two the
code takes it for depends on the byte alone.  All unlocks of the chain function
are one operator (`Unlocked`): its ways out are told apart by the rest of them.

**Playouter.**  `playout_delay` is a `gfloat`: a multiple of `1/Scale` here,
rounded either way.  Signed overflow of `path_skew_counter` is undefined in C;
it is modelled as the wrap-around the build produces.

**MprtcpSender, MprtcpReceiver.**  Steps of the chain functions are split where
they look at links, which change without a lock.  The reader's side of the
`GRWLock` is a thread inside the chain function (sender) or a counter
(receiver, where a forgotten unlock has to be possible).

**Elements.**  `Playouter`, `Riporter`, `MprtcpSender`, `MprtcpReceiver` and
`ElementLifecycle` share no variable, so their interleavings would add nothing:
`part` picks one, which runs, and the others stay at their initial state.

## 3. Runs

| Run | Instance | Shows |
|---|---|---|
| `schtree_shares` | 3 paths, 8 units, values 0, 1, 5, 7 | without a value 0 the tree implements `WeightedDispatch`; with one, nobody loses more than one unit; evenly spread; faults only on an empty tree or a dangling `actual` |
| `subflow` | seq of 2, cycle of 3, 8 packets, every event in every order | numbering and reports through every wrap; rates follow the state |
| `sender` | 1 application thread, 2 pads, 2 ids, fairness | the safety properties of all interleavings; waiting packets leave, linked subflows join |
| `dispatch_shares` | 3 subflows, 16 units | values fit the tree; no active subflow is left out; shares follow rates |
| `report_clock` | 2 subflows, interval 4, pause 1, runs of up to 2, 11 ticks | reports are neither too close nor too late |
| `skew_ring` | 4 slots, words of 3 values, 4 ticks of both clocks | the ring implements `SkewWindow`; garbage only after silence |
| `receiver` | 2 pads, 1 id, 2 application threads, 4 packet types | the mutex, the ids and the demultiplexing; calls return |
| `caps` | 2 subflows, 2 formats, one outside the template | the stages agree unless a pad came, went or changed its link in between |
| `elements` | see below | playouter, riporter, MPRTCP elements and state changes |
| `sender_unlink` | violation | `src_unlink` detaches the oldest subflow, not the unlinked one |
| `sender_duplicate` | violation, 2 application threads | two subflows of one id |
| `receiver_refusal` | violation | a refused request returns with the mutex held |

**Bounds.**  Trees of 8 and 16 units instead of 128 have every shape that
matters: leaves on all levels, a level below the units (where `level_value` is
0), and values that need none, one, two and more leaves.  Three paths give a
first, a middle and a last in a batch.  In the sender two subflows distinguish
"this one" from "the other one" and the list's ends; counters have one or two
values there, since their arithmetic is checked in `MprtpsSubflowSpec` and
proved for all widths.  `MaxSent` bounds the packets of a behaviour to one round
of all three counters and a bit.  Four slots let the skew ring wrap and
overwrite, in more packets than slots, between two reports; `MaxTime` and
`MaxSent` let skews grow old and the timestamp's word wrap.  In `report_clock`
a run may take longer than the pause, and `MaxTime` leaves room for two
intervals and a delayed third report.  In the receiver one id and two threads
that may ask for it are all it takes to lose the mutex; the proofs cover any
number.  The second bytes are those on
both sides of each limit of RTCP, and that of MPRTCP.  In `elements`: 3 slots, 2 reports a
run and a counter of 12 values, so that the counter overflows and comes back
past the slots; a buffer of 3 reports for up to 5 subflows, so that reports do
not fit; 3 subflows in the rotation, for a head, a middle and an end; 2 pads and
`rtcp_sink` as readers; both elements with every order of state changes.

`PadSymmetry`, `PathSymmetry` and `SubflowSymmetry` are sound since pads, paths
and ids are only compared; no liveness property is checked under symmetry.

**Fairness.**  *Sender* (`FairSpec`): weak for the pushes (the next element
takes what it gets) and for the scheduler's read, since `gst_task` calls its
function again and again; strong for what needs the mutex (`SchedulerRun`,
`StreamResume`, `SrcLink`), since a mutex that is released again and again is
some time handed to each waiter.  Nothing is assumed of the application or of
packets arriving, nor that spurious wakeups occur.  The liveness properties are
conditional on `NeverFaults` (a crashed process does nothing) and
`UnlinksReturn`: an unlink waiting for the mutex while its holder pushes on the
very pad is a real deadlock that the model reaches, recorded as a hazard.
*Receiver*: weak is enough, as each hold of the mutex is one step, so the mutex
is free all the time or lost for ever; `EveryCallReturns` is conditional on no
request having been refused.  *State changes*: weak for the calls of the
application's thread and for pushes, strong for what needs the mutex, as in the
sender.  *MPRTCP elements*: weak for the steps of the chain functions (pushes
come back) and for the write lock of a request, which is promised only once the
readers stay out: a `GRWLock` may let readers overtake a writer.

**Deadlock** is not checked in `schtree_shares` and the sender's runs (a crashed
process takes no step, and a thread may be caught in `gst_pad_unlink`), in the
receiver's (a refused request stops everybody), in `caps` (a negotiation without
a source pad ends the process) and in `elements` (a state change
may end in one of the two deadlocks of `ChangeReturns`; the mutex may be lost).

**What the runs say about the code.**

* The dispatch is exact, but `overlap_trees` has no effect: it copies "last went
  right", after which the next turn is to the left, just as in a fresh tree.
  Every scheduler run (about once a second) restarts the round, and the first
  packet goes to the newest active subflow (`FirstPacketToNewest`); at less
  than one packet per run no other subflow is used.
* The wait without a loop can make a packet draw from an empty tree, but only
  after a wait, which is what `EmptyTreeOnlyAfterWait` delimits.
* Up to 31 subflows no active one is ever left out of the tree of 128 units
  (`NoActiveIsLeftOut`).  With the 32 the arrays have room for it can happen:
  when 30 joined one after another and the last two join in the same run, the
  values of both are rounded down to 0, the first of them takes half of the
  leftmost unit and for the second nothing is free.
* `release_pad` announces to mark the subflow for deletion (line 460) and does
  not: a released pad goes on being scheduled while its subflow is linked.
* The riporter works with a time read before it waited for the mutex: two
  reports of a subflow come closer to each other than three seconds by at most
  the length of a run (`ReportsSpaced`).
* A compound packet of two reports or more loses the first (`add_begin` returns
  the last header and not the place after it, and the second is written there),
  and no other (`CompoundLosses`), unless a data word has passed for a header:
  then all that follows may be lost.  A subflow that is passed over leaves its
  header behind, which moves the place where the next report goes: the first may
  be spared by that, and a data word may come to pass for a header.  Separate
  packets are whole.  A report that
  does not fit is written where the one before it was, fails the check in
  `gst_rtcp_add_end` (`gstmprtcpbuffer.c:165`) and counts as made.
* A refused request loses the receiver's mutex, and only that does.
* The receiver tells RTCP from RTP by the second byte.  That is right for the
  payload types RFC 5761 lets RTP have beside RTCP (`RtpPathSurvivesRtcp`); RTP
  of the payload types 64 to 95 with the marker bit is taken for RTCP, which
  stops its path if `rtcp_src` has no peer, and with payload type 84 for MPRTCP,
  which is swallowed.
* The playout delay forgets skews when `path_skew_counter` overflows.  The next
  run is due `playout_delay` nanoseconds after this one, so runs follow one
  another closely and 2^31 of them are within reach.
* One unlinked subflow in the middle of the MPRTCP sender's list sends every
  round back to the head, so those behind it are not served while it stays so.
* A state change may hang in two ways: a task is joined that waits for a mutex
  whose holder pushes into a paused sink (`StuckBehindSink`), and a packet waits
  for a path when the scheduler has been stopped (`StuckInWait`).
* The source pad of a negotiation is chosen five times by four functions that
  differ in what they start from; they agree whenever the pads stay as they
  are.  The pad they agree on may be one that takes no caps, the newest
  subflow's before its request has activated it or after it was released: then
  the event fails, although other subflows are there.  Without `rtcp_src` and
  without a subflow there is nothing to agree on: `query_caps` dereferences NULL
  (line 1110) when ACCEPT_CAPS asks it.
* The comment that without a peer the template of the pad is returned
  (`gstmprtpsender.c:1030`) is not what the code does: it returns what both
  pads' templates have in common.  Its branch for that (1120 to 1127) is never
  taken, as a pad without a peer still answers.

## 4. Proofs

Proved for every value of the constants, from the constants' assumptions, which
TLC evaluates in the runs of the module:

* `MprtpsSubflowProofs`: `TypeCorrect`, `NumberingAgrees`, `DetachedIsInactive`,
  `PassiveIsRateless`, and `ScheduledIsRated`, which needs that only JOINED and
  DETACHED have been fired (`~ steered`), as in the code.  The heart is the
  lemma `ProcessAgrees`: a packet keeps `packet_count = cycle_num * SeqSpace +
  seq` in each of three cases, seq not at its end, seq at its end, both at
  their end.  `ReportsTellPackets`: two reports differ by the packets sent in
  between, modulo the width of the count, because the count and the report are
  the history cut to that width (`CountsAreSent`, `ModDifference`).
* `MprtpSenderProofs`:
  * `TypeCorrect`, inductive together with `ArgInv` (a thread about to add a
    subflow holds an id).
  * `NoLostWakeup` and `DrawsFromTree` from `WakeupInv`.  "A waiting packet has
    no path" is not inductive: the step that could break it, `SchedulerRun`,
    signals only if its old copy of the flag says so.  Needed besides: the copy
    equals the flag whenever the scheduler is about to run (no other thread
    writes it), the flag says exactly whether the tree is empty (which needs:
    an empty list has an empty tree, as the tree is not rebuilt then), and a
    thread that waits or comes back from waiting is marked so.
  * `ReportsAreOfActive` from `HoldsLock`: whoever pushes owns the mutex, and
    every step that changes a subflow finds it free.
  * `OneRequesterKeepsIdsUnique`: with one application thread the unlocked scan
    suffices; `sender_duplicate` shows that it does not with two.
* `ReportClockProofs`: `TypeCorrect`, `SpacesKept` and `PausesBounded`.  The
  invariant says how old the run's clock may be at each place (`ClockAge`), when
  a report falls due counted from the last one and from the start (`DueTimes`),
  and how much of the pause has been used up at each place of the loop
  (`PauseSoFar`); the bound on the pause alone says nothing of a subflow the
  present run has still to come to.
* `SkewRingProofs`:
  * `OrderKept` and `FullNeverLooksEmpty`.  The two need each other: the order
    between the indices is kept only because a full ring moves both, and that
    the last one held is the newest only because the write index never meets the
    read index.  `WriteMoves` says what a write does to the sequence of the
    slots held.
  * `RingImplementsWindow`, the refinement of `SkewWindow`, step by step.  The
    mapping reads the slots held, oldest first, as the window's samples.
    `SkewIsLateness`: the code's difference of two differences of words is the
    lateness in real time cut to a word, for which the invariant has to tie the
    last timestamps to the history.  `PacketSamples`: a packet on a ring that is
    full drops the window's oldest.  `ReportMaps`: what the loop takes are the
    window's young samples, and `MiddleHolds` that the element in the middle of
    any ascending order is a median of them.
  * `MiddleIsOne`: there is such an order (`CanBeSorted`) and all of them have
    the same skew in the middle (`MedianIsOne`), so that the sort is not stable
    can never be seen.
  * `SilenceBeforeGarbage`: the newest sample is held until a report takes it,
    so a report without young samples follows two seconds of silence.
* `MprtpReceiverProofs`: `TypeCorrect`, `IdsStayUnique`, `MutexLostOnce`,
  `RtpSurvives`, `ReadyMeasures`.  `Promised` follows an id from the scan to the
  activated pad, `Carries` a packet from its arrival to its push, `LockInv` says
  who may have the mutex.  `MuxableIsNotRtcp`: marker bit and payload type of
  RTP that RFC 5761 allows beside RTCP never make a byte of RTCP.
* `CapsNegotiationProofs`: `TypeCorrect`, `AcceptanceKept`, `NegotiationAgrees`,
  `WildNeedsUnlink`.  `Agreed` says for each stage what has been found out and
  that it still holds of the pad the next stage will choose.  `AcceptedSuits`
  carries the caps query: what passed it suits the pad it was asked of, and there
  was one.  `AcceptanceKept` leaves one way for a format that was accepted to be
  refused by a pad that stays as it is: the pad is listed but not active.
* `SchTreeProofs`: `TreeTyped` (with `WellFormed`), `PicksSpreadEvenly` (`EvenSpread`),
  `FaultsOnlyWhenEmptyOrStale`, `SharesAreWithinOneUnit` and
  `TreeImplementsDispatch`, the refinement of `WeightedDispatch`, for every power
  of two as `max_value`, any finite set of paths (the sender lists finitely many
  subflows; only then do their shares have a sum) and any values.
  * *Insertion.*  That a walk cannot run out of nodes means that each node
    without a path has both children (`Full`), and no single insertion keeps
    that: it holds when a batch has been inserted whole.  `Need` says how much a
    subtree still has to take, and counts the half units below the leaves of
    value 1 on the right, where insertion comes last.  An insertion takes all it
    is given, if it is needed (`RestAtLeast`, `NeedShrinks`).  A batch with the
    rest added sums up to `max_value` (`AdjustedIs`, which needs that the rest
    goes to one path, whichever), so nothing is needed at its end, and then the
    tree is full (`FullWhenNothingNeeded`), hence a walk ends at a leaf with a
    path (`EndsAtALeaf`).  Overlapping and drawing keep the shape.
  * *Draws.*  `Wait` is the number of draws that pass a node by before one
    reaches it: never as many as `Weight`, which is 2 to the node's depth.  A
    draw shortens every wait by one and sends those it reaches to the end
    (`DrawShortensWait`), so that the picks a path has waited for and the wait
    of its leaf together stay below the leaf's weight (`SpreadInv`).
    `EvenSpread` follows as weight times value is `max_value` down to the units
    (`LevelsHalve`).
  * *Sums.*  The units of a path are a sum over a set of leaves.  `SumFunction`
    picks the elements in an order of its own; `SumsInAnyOrder` shows that the
    order does not matter, and `SumWithout`, `SumOfChange` and `SumInOrder` are
    what the rest uses of it.
  * *Shares.*  `Room` is what a subtree can still take in whole units.  An insertion
    takes from each subtree what it is given or what is free (`RestIsExact`), and
    what it takes becomes leaves of its path (`TakenIsWorth`, `InsertPays`).  Half
    units come into it only when the first path of a batch came with 0: it takes
    half of the leftmost unit, the only one that may be divided (`HalvesAreOne`),
    and a later path gets the other half.  Without such a first path the leftmost
    unit is taken before a 0 comes, which then gets nothing.  `Dealt` says what a path
    then has; `BuildDeals` that a batch deals it out (`ShareInv`).
  * *Rounds.*  Each leaf still has so many draws before the end of the round
    (`InTime`); a draw takes one from the leaf it ends at and leaves the others
    enough (`DrawTakesOne`, from `DrawShortensWait`).  `CreditInv` says that
    there are such numbers whose sums over each path's leaves are the picks
    it has still to get.  So a path that is picked has a pick left, and the last pick of a
    round leaves none (`DrawDeals`).  The rest is the mapping (`StepMaps`).
  * *Dispatch.*  About `SenderDispatch`: `BatchesFitTheTree`,
    `FirstPacketIsTheNewest`, `SharesFollowTheRates` and `NoActiveIsLeftOut`, for
    any number of subflows.  `DispatchInv` says of the list that nobody is in it
    twice, of the tree that it is well formed and holds listed subflows only, and
    of each subflow (`Steady`) that it is active just when it has a rate, and then
    linked.  So those that a run schedules are all that have a rate, and `SR_sum`
    is the sum of theirs alone (`RateSumIs`); each quotient misses less than 1, so
    the batch misses less than one unit each (`BatchFits`).  `UnitsAre` then says
    what the leaves are worth (by `BuildDeals` above).
    `FirstInv`: until the first packet the walk is due at the leftmost leaf, which
    is the newest scheduled subflow's, since insertion comes there first
    (`BuildPutsFirstLeft`) and `overlap_trees` only ever says "last went right"
    (`OverlapIsFresh`).
    `AgeInv`: the rate of a subflow is at most 1 by the number of subflows there
    were when it came, so all rates together are at most `1 + 1/2 + ... + 1/n`
    (`RatesAddUp`), and none is less than `1/n`.  A value is 1 at least when
    `n (1 + 1/2 + ... + 1/n) <= max_value`, which is the hypothesis of
    `NoActiveIsLeftOut`: 124.8 for 31 subflows, 129.9 for 32, against 128.  The
    instance of `dispatch_shares` satisfies it (5.5 against 16).
  * `Need`, `Wait` and the draws left are chosen among all functions on the nodes,
    which TLC cannot enumerate: the run checks what follows from the invariant.
* `ElementsProofs`, about the five machines of `Elements`, each of whose
  invariants a step of another leaves alone (`StepOfEachPart`):
  * `RotationServesOnce` (MPRTCP sender) from `TurnInv`: the iterator is at the
    head only between its choice and the push, and elsewhere all that was served
    in this round stands before it.  A request puts its subflow before all of
    them, which is what keeps the round from serving one twice.
  * `ReadLocksCounted` (MPRTCP receiver): the read lock is held as often as
    there are threads at a place inside it, on each way through either chain
    function.
  * `NobodyInsideBelowPaused` (`QuietBelowPaused`), assuming only that the
    owner that stands for "nobody" is no thread.  What keeps the threads out is
    in the calls still planned, so the invariant speaks of the plan: a planned
    call says where the element goes (`Fits`); a task runs only if the element
    is to play or its join is still planned, and pads are active or a packet is
    inside only if the element is to be PAUSED at least or their flush or drain
    is still planned (`InsideInv`).  A packet may still come in between the two,
    since the drain is planned as long as the flush is.  `PlansOf` works out the
    plan of each transition.
  * `PlayoutLooksAtRecent` from `RingInv`: a run writes the slots that follow
    the index, so the slot of the k-th newest skew is a function of the index
    (`RecordedIs`), and a counter that has not overflowed, or has come back,
    says how many slots the history has filled.
  * `TypeCorrect`.  That the playout delay stays within its bound needs that
    the weighted mean, rounded either way, does not leave it (`RoundedWithin`).
    That the riporter never writes beyond its buffer needs to know where the
    walk of `gst_rtcp_add_begin` ends: `BufferInv` keeps a chain of headers from
    the first word to the last header begun (`Chain`, `Ended`), after which only
    data or stale words follow at which a walk stops; `PlainIsTheEnd` shows that
    a walk along a chain ends at its end, whatever else is in the buffer.  With
    the 350 words of the code, 31 reports and 9 words, a report begun anywhere
    in the last one fits (`Room`); `ElementsAssumption` asks for just that
    (`MaxSize % 11 >= 9`).

  * `ReportsCanBeRead` (`ReportsReadBack`) from `ReadInv`.  A report is settled
    (`Settled`) once its header is passed by the walk and is not where it ends:
    nothing is written there any more (`SettledStays`), and a reader comes by it
    (`ReaderFinds`, `SettledIsRead`).  Every report but the first is settled as
    soon as it is written (`ReportKeeps`), and one that is begun and left moves
    the end at most (`SkipKeeps`).  With nobody passed over the walk never ends
    at a data word (`Straight`), so none passes for a header (`BegunStraight`).

The walk along a buffer, the sort of the skews and nearly all of the tree are
recursive, and the library's theorems on induction and on recursive functions
take an operator as a parameter.  `LeastNat` does instead: a nonempty set of
naturals has a least element, which follows from the well-foundedness of `<`, so
that a recursive function over a finite range has a solution
(`RecursionHasSolution`), a range can be gone through from its end
(`DownwardInduction`) and a finite set can be sorted.  On the tree, whose
recursion goes either way, the same is said of a rank (`RankInduction`):
`FromTheRoot` and `FromTheLeaves` are its two uses, and `RootRecursion` and
`LeafRecursion` solve the functions.

Only model-checked:

* Everything under fairness, as liveness and ENABLED are out of the prover's
  reach: `WaitingPacketLeaves`, `LinkedSubflowJoins`, `EveryCallReturns`,
  `EverySubflowInItsTurn`, `RequestReturnsOnceQuiet` and `ChangeReturns`.

## 5. Not modelled

* Code that is never run: `schtree_delete` and `schtree128_change`,
  `mprtps_subflow_proc_mprtcprr`, the call of `proc_mprtcpblock` (a comment),
  and `mprtprsubflow.c` 236 to 394 (`_cmp_seq`, gaps and their merging), which
  lie after an unconditional `goto`; the builders of receiver and extended
  reports and the block iterator of the buffer.
* Pure input and output: formatting and logging (`gst_print_*`), properties
  (`set_property` writes fields of which only `ext_header_id` is read), chain
  lists (they call the chain function), plugin registration, the try element.
* Parts of the negotiation that a CAPS event cannot reach or that are
  GStreamer's: events other than CAPS, queries in the source direction (line
  1161), caps that are not fixed in `find_transform`, the reconfigure flag.
* What C leaves undefined: the overflow of the arrays of 32 paths (a guard
  here), `sscanf("%u")` into a `guint16`, data read after the unmap.
* Rounding of `gfloat`, except in the playout delay.

## 6. Plan

1. A composition of sender and receiver over a lossy path, for the sequence
   numbers once the code after the `goto` is in use.
