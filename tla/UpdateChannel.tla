---------------------------- MODULE UpdateChannel ----------------------------
(***************************************************************************)
(* What the console registers promise whatever the timing of the two       *)
(* sides: a channel that may lose a notification of the card kernel but    *)
(* never delivers one twice, never delivers one that was not raised and    *)
(* never delivers two out of order.                                        *)
(*                                                                         *)
(* Notifications are numbered 1, 2, ... in the order the card raises them. *)
(***************************************************************************)
EXTENDS Naturals, Sequences

VARIABLES
  sent,      \* number of notifications raised so far
  handled    \* the numbers of those philix has handled, in handling order

chanVars == <<sent, handled>>

Init ==
  /\ sent = 0
  /\ handled = << >>

(* The card raises the next notification. *)
Raise ==
  /\ sent' = sent + 1
  /\ UNCHANGED handled

(* The host handles notification n, which is newer than all it handled. *)
Deliver(n) ==
  /\ \A i \in 1..Len(handled) : handled[i] < n
  /\ handled' = Append(handled, n)
  /\ UNCHANGED sent

Next == Raise \/ \E n \in 1..sent : Deliver(n)

Spec == Init /\ [][Next]_chanVars
=============================================================================
