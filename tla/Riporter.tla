------------------------------- MODULE Riporter -------------------------------
(***************************************************************************)
(* One run of mprtcp_riporter_run (src/plugins/gstmprtpsender.c) after the *)
(* other: the loop over the list of subflows, and what it leaves in the    *)
(* buffer.  With rtcp_src linked all reports of a run go into one compound *)
(* packet, else each subflow gets a packet of its own.  The whole run is   *)
(* under subflows_mutex, so only its steps follow one another.             *)
(***************************************************************************)
EXTENDS MprtcpBuffer, FiniteSets, Functions

CONSTANT Subflows   \* the most subflows there are

VARIABLES
  todo,       \* the subflow ids the loop still has to visit
  compound,   \* compound_sending
  mem, size,  \* the buffer and how much of it is in use
  sent,       \* the packets of this run
  due,        \* history: the subflows whose report was due, in order
  skips,      \* history: how many were passed over
  misread     \* history: a data word has passed for a header

vars == <<todo, compound, mem, size, sent, due, skips, misread>>

RtcpPad == 0

Init ==
  /\ todo = << >> /\ compound = FALSE
  /\ mem = NewBuffer /\ size = 0
  /\ sent = << >> /\ due = << >> /\ skips = 0 /\ misread = FALSE

Start(n, c) ==
  /\ todo = << >>
  /\ todo' = [i \in 1..n |-> i] /\ compound' = c
  /\ mem' = NewBuffer /\ size' = 0
  /\ sent' = << >> /\ due' = << >> /\ skips' = 0 /\ misread' = FALSE

\* The header of a report is written before the loop looks whether the
\* subflow is active and its time has come.
Skipped(at) == AddRiport(mem, at)

Misread(at) == misread' = (misread \/ at # Plain(mem, size))

Skip(at) ==
  /\ todo # << >>
  /\ mem' = Skipped(at)
  /\ Misread(at)
  /\ todo' = Tail(todo) /\ skips' = skips + 1
  /\ UNCHANGED <<compound, size, sent, due>>

Filled(at) == SetupSrRiport(AddRiport(mem, at), at, Head(todo))
NewSize(at) == AddEnd(Filled(at), size, at)

Packet(to, m, n) == [to |-> to, words |-> m, size |-> n]

CompoundReport(at) ==
  /\ todo # << >> /\ compound
  /\ mem' = Filled(at) /\ size' = NewSize(at)
  /\ Misread(at)
  /\ todo' = Tail(todo) /\ due' = Append(due, Head(todo))
  /\ UNCHANGED <<compound, sent, skips>>

\* Bug: the buffer is used again without being made anew.
ReusedBuffer(at) == mem' = Filled(at) /\ size' = NewSize(at)

FreshBuffer(at) == mem' = NewBuffer /\ size' = 0

SeparateReport(at) ==
  /\ todo # << >> /\ ~ compound
  /\ sent' = Append(sent, Packet(Head(todo), Filled(at), NewSize(at)))
  /\ FreshBuffer(at)
  /\ Misread(at)
  /\ todo' = Tail(todo) /\ due' = Append(due, Head(todo))
  /\ UNCHANGED <<compound, skips>>

\* After the loop a compound packet goes out, even an empty one.
Finish ==
  /\ todo = << >> /\ compound /\ sent = << >>
  /\ sent' = <<Packet(RtcpPad, mem, size)>>
  /\ UNCHANGED <<todo, compound, mem, size, due, skips, misread>>

Next ==
  \/ \E n \in 0 .. Subflows, c \in BOOLEAN : Start(n, c)
  \/ \E at \in AddBegin(mem, size) : Skip(at) \/ CompoundReport(at) \/ SeparateReport(at)
  \/ Finish

Spec == Init /\ [][Next]_vars

-----------------------------------------------------------------------------
(* Properties.                                                             *)

\* The variables stay in their domains, and so do the words that are written:
\* however many subflows there are and whichever are due, no report goes
\* beyond the end of the buffer (unless a data word passed for a header).
TypeOK ==
  /\ todo \in Seq(1 .. Subflows) /\ compound \in BOOLEAN
  /\ DOMAIN mem = 0 .. MaxSize - 1
  /\ size \in 0 .. MaxSize
  /\ todo # << >> /\ ~ misread => Plain(mem, size) + ReportWords <= MaxSize

PacketReports(p) == Reported(p.words, p.size)

\* Without rtcp_src each due subflow is sent one packet that holds its own
\* report, whole, and nothing else, whoever was passed over before it.
SeparateReportsWhole ==
  \A i \in 1..Len(sent) :
    /\ sent[i].to = due[i]
    /\ sent[i].size = ReportWords
    /\ PacketReports(sent[i]) = {due[i]}

\* A compound packet holds reports of due subflows only, and it loses the first
\* if there are more: the second is written over it.  Unless a data word has
\* passed for a header, that is all it may lose, whoever is passed over; and it
\* does not happen when nobody is.
CompoundLosses ==
  LET found == PacketReports(sent[1])
      others == {due[i] : i \in 2 .. Len(due)}
  IN  /\ found \subseteq Range(due)
      /\ ~ misread => others \subseteq found
      /\ skips = 0 => found = IF Len(due) = 1 THEN Range(due) ELSE others

\* What a reader finds in the packets of a run: every report if they are
\* separate; in a compound packet that all reports fit, all but the lost ones.
ReportsReadBack ==
  /\ ~ compound => SeparateReportsWhole
  /\ compound /\ sent # << >> /\ Len(due) * ReportWords <= MaxSize => CompoundLosses
=============================================================================
