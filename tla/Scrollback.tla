----------------------------- MODULE Scrollback ------------------------------
(***************************************************************************)
(* What the history of philix promises: the newest lines that have left    *)
(* the frame buffer, at most MaxHist of them, oldest first.                *)
(***************************************************************************)
EXTENDS Naturals, Sequences

CONSTANTS
  MaxHist,    \* MAX_HIST_LINES
  Line        \* the numbers of the lines

VARIABLE hist         \* the saved lines, numbered in the order they were shown

Init == hist = << >>

(* Save the next line; the oldest makes room for it when there is none.    *)
Save(n) ==
  /\ \A i \in 1..Len(hist) : hist[i] < n
  /\ hist' = Append(IF Len(hist) < MaxHist THEN hist ELSE Tail(hist), n)

Next == \E n \in Line : Save(n)

Spec == Init /\ [][Next]_hist
=============================================================================
