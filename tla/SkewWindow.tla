------------------------------ MODULE SkewWindow ------------------------------
(***************************************************************************)
(* What a receiver subflow promises its playouter: the path skew is the    *)
(* median of the latest packets' skews, each used in one report at most    *)
(* and none older than Young.  A skew is how much later, or earlier, a     *)
(* packet arrives than the one before it by the sender's clock; times here *)
(* are real times, and only the skew itself is cut to a word.              *)
(***************************************************************************)
EXTENDS Integers, Sequences, FiniteSets

CONSTANTS
  Capacity,   \* how many skews are remembered at most
  Young,      \* the age up to which a skew counts
  Word        \* skews are words of 0 .. Word - 1

VARIABLES
  now,        \* the receiver's clock
  sent,       \* when the last packet was sent, by the sender's clock
  heard,      \* when it arrived
  samples,    \* skews not reported yet, oldest first
  reported    \* the last report

vars == <<now, sent, heard, samples, reported>>

Skew == 0 .. Word - 1

Init ==
  /\ now \in Nat
  /\ sent = 0 /\ heard = 0
  /\ samples = << >>
  /\ reported = 0

\* The clock never runs backwards.
Tick ==
  /\ now' > now
  /\ UNCHANGED <<sent, heard, samples, reported>>

\* The first packet has no predecessor and makes no skew.
First ==
  /\ heard = 0
  /\ sent' \in Nat /\ heard' = now
  /\ UNCHANGED <<now, samples, reported>>

Lateness(s) == (now - heard) - (s - sent)

Latest(q) == IF Len(q) > Capacity THEN Tail(q) ELSE q

Packet ==
  /\ sent' \in Nat /\ heard' = now
  /\ samples' = Latest(Append(samples, [skew |-> Lateness(sent') % Word, time |-> now]))
  /\ UNCHANGED <<now, reported>>

YoungSamples == {i \in DOMAIN samples : samples[i].time >= now - Young}

\* No more than half of the samples are below v, and more than half are not above.
IsMedian(v, picked) ==
  /\ Cardinality({i \in picked : samples[i].skew < v}) <= Cardinality(picked) \div 2
  /\ Cardinality({i \in picked : samples[i].skew <= v}) > Cardinality(picked) \div 2

\* With no young sample there is nothing to promise.
Report ==
  /\ reported' \in Skew
  /\ YoungSamples # {} => IsMedian(reported', YoungSamples)
  /\ samples' = << >>
  /\ UNCHANGED <<now, sent, heard>>

Next == Tick \/ First \/ Packet \/ Report

Spec == Init /\ [][Next]_vars
=============================================================================
