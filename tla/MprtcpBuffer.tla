----------------------------- MODULE MprtcpBuffer -----------------------------
(***************************************************************************)
(* Packets of MPRTCP reports as src/plugins/gstmprtcpbuffer.c writes them  *)
(* into a buffer of 32 bit words, one operator per function.  A word that  *)
(* is read again keeps its two bytes and its half word: a header has the   *)
(* number of blocks, the payload type and the length, the info word of a   *)
(* block has type, length and subflow id.  Every other word is data.       *)
(*                                                                         *)
(* The layout of one report: header, ssrc, ssrc; info; header and ssrc of  *)
(* the sender report; its five words.                                      *)
(***************************************************************************)
EXTENDS Integers, Sequences

CONSTANT MaxSize   \* words in a buffer: 350 of 1400 bytes

MPRTCP_PACKET_TYPE_IDENTIFIER == 212
GST_RTCP_TYPE_SR == 200
GST_RTCP_TYPE_RR == 201
GST_RTCP_TYPE_XR == 207

RTCPHEADER_WORDS == 2
RTCPSRBLOCK_WORDS == 5

\* What gst_mprtcp_add_riport and setup_sr_riport make together.
ReportWords == (RTCPHEADER_WORDS + 1) + 1 + RTCPHEADER_WORDS + RTCPSRBLOCK_WORDS

Word(kind, b0, b1, h) == [kind |-> kind, b0 |-> b0, b1 |-> b1, h |-> h]
Header(count, type, length) == Word("header", count, type, length)
Info(length, subflow_id) == Word("info", 0, length, subflow_id)
Data == Word("data", 0, 0, 0)

\* gst_rtcp_buffer_new: all zero, nothing in use.
NewBuffer == [i \in 0 .. MaxSize - 1 |-> Word("zero", 0, 0, 0)]

-----------------------------------------------------------------------------
(* Adding a packet to the buffer.                                          *)

IsRtcpType(b) ==
  b \in {MPRTCP_PACKET_TYPE_IDENTIFIER, GST_RTCP_TYPE_SR, GST_RTCP_TYPE_RR, GST_RTCP_TYPE_XR}

\* gst_rtcp_add_begin returns the last header it has looked at, where one
\* would expect the word after it.  A report begun and left may lead it to a
\* data word, whose bytes are a time or a count: it passes for a header or not.
LastHeaders(m, size) ==
  LET last[o \in 0 .. size - 1] ==
        LET next == o + m[o].h + 1
        IN  CASE m[o].kind = "data" -> {o} \cup UNION {last[n] : n \in (o + 1) .. (size - 1)}
              [] m[o].kind # "data" /\ IsRtcpType(m[o].b1) /\ next < size -> last[next]
              [] OTHER -> {o}
  IN  last[0]

\* Where it leads when no data word passes for a header.
Plain(m, size) ==
  LET last[o \in 0 .. size - 1] ==
        LET next == o + m[o].h + 1
        IN  IF m[o].kind # "data" /\ IsRtcpType(m[o].b1) /\ next < size THEN last[next] ELSE o
  IN  IF size = 0 THEN 0 ELSE last[0]

AddBegin(m, size) == IF size = 0 THEN {0} ELSE LastHeaders(m, size)

\* Bug: what does not fit is counted as well.
AddEndUnchecked(m, size, at) == size + m[at].h + 1

\* What does not fit is not counted.
AddEnd(m, size, at) ==
  LET length == m[at].h + 1
  IN  IF size + length <= MaxSize THEN size + length ELSE size

\* gst_mprtcp_add_riport: a header that counts its two ssrc words.
AddRiport(m, at) ==
  [m EXCEPT ![at] = Header(0, MPRTCP_PACKET_TYPE_IDENTIFIER, RTCPHEADER_WORDS),
            ![at + 1] = Data]

\* The loop over the blocks there are adds the length of the first each time.
BlockAt(m, at) ==
  LET first == at + RTCPHEADER_WORDS + 1
  IN  first + m[at].b0 * (m[first].b1 + 1)

AddBlockBegin(m, at, subflow_id) ==
  [m EXCEPT ![BlockAt(m, at)] = Info(0, subflow_id),
            ![at].b0 = (@ + 1) % 32]

AddSr(m, block) ==
  [i \in DOMAIN m |->
     IF i = block + 1 THEN Header(0, GST_RTCP_TYPE_SR, RTCPHEADER_WORDS + RTCPSRBLOCK_WORDS - 1)
     ELSE IF i \in block + 2 .. block + RTCPHEADER_WORDS + RTCPSRBLOCK_WORDS THEN Data
     ELSE m[i]]

AddBlockEnd(m, at, block) ==
  LET length == m[block + 1].h + 1
  IN  [m EXCEPT ![block].b1 = length % 256, ![at].h = @ + (length % 256) + 1]

\* mprtps_subflow_setup_sr_riport.
SetupSrRiport(m, at, subflow_id) ==
  LET block == BlockAt(m, at)
  IN  AddBlockEnd(AddSr(AddBlockBegin(m, at, subflow_id), block), at, block)

-----------------------------------------------------------------------------
(* Reading.                                                                *)

\* gst_rtcp_get_next_header, while it is inside the packet.
NextHeader(m, at) == at + m[at].h + 1

\* What a reader that goes from header to header finds.
HeadersFrom(m, size) ==
  LET from[o \in 0 .. size] ==
        IF o >= size \/ m[o].b1 # MPRTCP_PACKET_TYPE_IDENTIFIER THEN {}
        ELSE {o} \cup IF NextHeader(m, o) > size THEN {} ELSE from[NextHeader(m, o)]
  IN  from[0]

\* A report that is all there, with one block that is a sender report.
WholeReport(m, size, at) ==
  /\ at + ReportWords <= size
  /\ m[at] = Header(1, MPRTCP_PACKET_TYPE_IDENTIFIER, ReportWords - 1)
  /\ m[at + 3].kind = "info" /\ m[at + 3].b1 = ReportWords - 4
  /\ m[at + 4] = Header(0, GST_RTCP_TYPE_SR, ReportWords - 5)
  /\ \A i \in (at + 5) .. (at + ReportWords - 1) : m[i].kind = "data"

\* The subflow ids of the whole reports of a packet.
Reported(m, size) ==
  {m[at + 3].h : at \in {o \in HeadersFrom(m, size) : WholeReport(m, size, o)}}
=============================================================================
