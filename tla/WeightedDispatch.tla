--------------------------- MODULE WeightedDispatch ---------------------------
(***************************************************************************)
(* What the scheduling tree promises its clients, without the tree.        *)
(* Traffic is handed out in rounds of Round picks.  Every path has a       *)
(* share, the shares add up to a round, and within a round each path is    *)
(* picked exactly as often as its share says.  New shares start a new      *)
(* round.                                                                  *)
(***************************************************************************)
EXTENDS Integers, Functions

CONSTANTS Path, Round

VARIABLES
  share,    \* picks each path gets per round
  credit    \* picks each path still has in this round

Nobody == [p \in Path |-> 0]

Init == share = Nobody /\ credit = Nobody

Replace(shares) ==
  /\ shares = Nobody \/ SumFunction(shares) = Round
  /\ share' = shares
  /\ credit' = shares

Pick(p) ==
  LET left == [credit EXCEPT ![p] = @ - 1]
  IN  /\ credit[p] > 0
      /\ credit' = IF left = Nobody THEN share ELSE left
      /\ UNCHANGED share

Next ==
  \/ \E shares \in [Path -> 0 .. Round] : Replace(shares)
  \/ \E p \in Path : Pick(p)

Spec == Init /\ [][Next]_<<share, credit>>
=============================================================================
