---------------------------- MODULE WindowProofs ----------------------------
(***************************************************************************)
(* The window over the history, the drawings and the dump, for every       *)
(* memory, every height and every MaxHist >= 2.                            *)
(*                                                                         *)
(* The functions that walk the list are recursive.  That they are what     *)
(* their equations say, and what they return, is shown by induction along  *)
(* their domain (Steps).                                                   *)
(***************************************************************************)
EXTENDS LineHistoryProofs, FunctionTheorems, FiniteSetTheorems, WellFoundedInduction

LEMMA LeastNumber ==
  ASSUME NEW S \in SUBSET Nat, S # {}
  PROVE  \E x \in S : \A y \in S : x <= y
<1> DEFINE R == OpToRel(<, Nat)
<1>1. IsWellFoundedOn(R, Nat)
  BY NatLessThanWellFounded
<1>2. ASSUME NEW x \in Nat, NEW y \in Nat, y < x
      PROVE  <<y, x>> \in R
  BY <1>2, Zenon DEF OpToRel
<1> HIDE DEF R
<1>3. PICK x \in S : \A y \in S : <<y, x>> \notin R
  BY <1>1, WFMin
<1>4. \A y \in S : ~(y < x)
  BY <1>2, <1>3
<1> QED
  BY <1>3, <1>4

(* Induction over 0..n, for a set.                                         *)
LEMMA Steps ==
  ASSUME NEW n \in Nat, NEW S, 0 \in S,
         \A i \in 0..(n - 1) : i \in S => i + 1 \in S
  PROVE  \A i \in 0..n : i \in S
<1> DEFINE D == {i \in 0..n : i \notin S}
<1> SUFFICES ASSUME D # {} PROVE FALSE
  OBVIOUS
<1>1. PICK d \in D : \A y \in D : d <= y
  <2>1. D \in SUBSET Nat
    OBVIOUS
  <2> QED
    BY <2>1, LeastNumber
<1>2. d \in 0..n /\ d \notin S /\ d # 0
  BY <1>1
<1>3. d - 1 \in 0..(n - 1) /\ d - 1 \in 0..n /\ ~(d <= d - 1) /\ d - 1 + 1 = d
  BY <1>2
<1>4. d - 1 \in S
  BY <1>1, <1>3
<1> QED
  BY <1>2, <1>3, <1>4

-----------------------------------------------------------------------------
(* Following a link. *)

Chased(at, link, p, n) ==
  at = [i \in 0..n |->
          IF i = 0 THEN p
          ELSE IF at[i - 1] = Null THEN Null ELSE link[at[i - 1]]]

LEMMA ChaseExists ==
  ASSUME NEW link, NEW p, NEW n \in Nat
  PROVE  \E at : Chased(at, link, p, n)
<1> DEFINE S == {k \in 0..n : \E at : Chased(at, link, p, k)}
<1>1. 0 \in S
  <2> DEFINE at == [i \in 0..0 |-> p]
  <2>1. Chased(at, link, p, 0)
    BY DEF Chased
  <2> QED
    BY <2>1
<1>2. ASSUME NEW k \in 0..(n - 1), k \in S
      PROVE  k + 1 \in S
  <2>1. PICK f : Chased(f, link, p, k)
    BY <1>2
  <2> DEFINE at == [i \in 0..(k + 1) |->
                      IF i = 0 THEN p
                      ELSE IF f[i - 1] = Null THEN Null ELSE link[f[i - 1]]]
  <2>2. \A i \in 0..k : at[i] = f[i]
    <3>1. \A i \in 0..k : f[i] = IF i = 0 THEN p
                          ELSE IF f[i - 1] = Null THEN Null ELSE link[f[i - 1]]
      BY <2>1 DEF Chased
    <3> QED
      BY <3>1
  <2>3. \A i \in 0..(k + 1) : i # 0 => i - 1 \in 0..k
    OBVIOUS
  <2>4. Chased(at, link, p, k + 1)
    BY <2>2, <2>3 DEF Chased
  <2>5. k + 1 \in 0..n
    OBVIOUS
  <2> QED
    BY <2>4, <2>5
<1> HIDE DEF S
<1>3. \A k \in 0..n : k \in S
  BY <1>1, <1>2, Steps
<1> QED
  BY <1>3 DEF S

LEMMA FollowIs ==
  ASSUME NEW link, NEW p, NEW n \in Nat
  PROVE  /\ Follow(link, p, n)[0] = p
         /\ \A i \in 1..n : Follow(link, p, n)[i] =
              IF Follow(link, p, n)[i - 1] = Null THEN Null
              ELSE link[Follow(link, p, n)[i - 1]]
         /\ DOMAIN Follow(link, p, n) = 0..n
<1>1. PICK g : Chased(g, link, p, n)
  BY ChaseExists
<1>2. Chased(Follow(link, p, n), link, p, n)
  BY <1>1, Zenon DEF Follow, Chased
<1> QED
  BY <1>2 DEF Chased

(* Along prev: from the j-th line, newest first, towards the newest.       *)
(* (Beyond it prev closes the ring.)                                       *)
Upwards ==
  \A j \in 1..Len(chain), n \in Nat :
    \A i \in 0..n : i < j => Follow(prev, chain[j], n)[i] = chain[j - i]

LEMMA UpwardsTrue == ListInv => Upwards
<1> SUFFICES ASSUME ListInv, NEW j \in 1..Len(chain), NEW n \in Nat
             PROVE  \A i \in 0..n : i < j => Follow(prev, chain[j], n)[i] = chain[j - i]
  BY DEF Upwards
<1> DEFINE at == Follow(prev, chain[j], n)
           S == {i \in 0..n : i < j => at[i] = chain[j - i]}
<1>1. Len(chain) \in Nat /\ PrevNewer /\ \A i \in 1..Len(chain) : chain[i] # Null
  BY Parts, NullAssumption DEF ListInv, ListTypes
<1>2. at[0] = chain[j] /\ \A i \in 1..n : at[i] = IF at[i - 1] = Null THEN Null
                                                  ELSE prev[at[i - 1]]
  BY FollowIs
<1> HIDE DEF at
<1>3. 0 \in S
  BY <1>2
<1>4. ASSUME NEW i \in 0..(n - 1), i \in S PROVE i + 1 \in S
  <2> SUFFICES ASSUME i + 1 < j PROVE at[i + 1] = chain[j - (i + 1)]
    OBVIOUS
  <2>1. at[i] = chain[j - i] /\ j - i \in 1..Len(chain) /\ j - i # 1
    BY <1>1, <1>4
  <2>2. i + 1 \in 1..n /\ (i + 1) - 1 = i
    OBVIOUS
  <2>3. at[i + 1] = prev[chain[j - i]]
    BY <1>1, <1>2, <2>1, <2>2
  <2>4. prev[chain[j - i]] = chain[(j - i) - 1] /\ (j - i) - 1 = j - (i + 1)
    BY <1>1, <2>1 DEF PrevNewer
  <2> QED
    BY <2>3, <2>4
<1> HIDE DEF S
<1>5. \A i \in 0..n : i \in S
  BY <1>3, <1>4, Steps
<1> QED
  BY <1>5 DEF S, at

(* Along next: from the newest line to the oldest, then NULL.              *)
Downwards ==
  \A n \in Nat : Len(chain) # 0 =>
    \A i \in 0..n : Follow(next, lineHist, n)[i] =
                      IF i < Len(chain) THEN chain[i + 1] ELSE Null

LEMMA DownwardsTrue == ListInv => Downwards
<1> SUFFICES ASSUME ListInv, NEW n \in Nat, Len(chain) # 0
             PROVE  \A i \in 0..n : Follow(next, lineHist, n)[i] =
                      IF i < Len(chain) THEN chain[i + 1] ELSE Null
  BY DEF Downwards
<1> DEFINE at == Follow(next, lineHist, n)
           S == {i \in 0..n : at[i] = IF i < Len(chain) THEN chain[i + 1] ELSE Null}
<1>1. /\ Len(chain) \in Nat \ {0} /\ NextOlder /\ lineHist = chain[1]
      /\ \A i \in 1..Len(chain) : chain[i] # Null
  BY Parts, NullAssumption DEF ListInv, ListTypes, Newest
<1>2. at[0] = chain[1] /\ \A i \in 1..n : at[i] = IF at[i - 1] = Null THEN Null
                                                  ELSE next[at[i - 1]]
  BY <1>1, FollowIs
<1> HIDE DEF at
<1>3. 0 \in S
  BY <1>1, <1>2
<1>4. ASSUME NEW i \in 0..(n - 1), i \in S PROVE i + 1 \in S
  <2>1. i + 1 \in 1..n /\ (i + 1) - 1 = i /\ i + 1 \in 0..n
    OBVIOUS
  <2>2. at[i + 1] = IF at[i] = Null THEN Null ELSE next[at[i]]
    BY <1>2, <2>1
  <2>3. CASE i < Len(chain)
    <3>1. at[i] = chain[i + 1] /\ i + 1 \in 1..Len(chain)
      BY <1>1, <1>4, <2>3
    <3>2. at[i + 1] = IF i + 1 = Len(chain) THEN Null ELSE chain[(i + 1) + 1]
      BY <1>1, <2>2, <3>1 DEF NextOlder
    <3> QED
      BY <1>1, <2>1, <2>3, <3>2
  <2>4. CASE ~(i < Len(chain))
    BY <1>1, <1>4, <2>1, <2>2, <2>4
  <2> QED
    BY <2>3, <2>4
<1> HIDE DEF S
<1>5. \A i \in 0..n : i \in S
  BY <1>3, <1>4, Steps
<1> QED
  BY <1>5 DEF S, at

-----------------------------------------------------------------------------
(* What is drawn. *)

(* The rows drawn from the j-th line: it stops before the newest.          *)
RowsAre ==
  \A j \in 1..Len(chain), k \in 0..Height :
    HistRows(chain[j], k) = IF k < j THEN k ELSE j - 1

LEMMA RowsAreTrue == ListInv => RowsAre
<1> SUFFICES ASSUME ListInv, NEW j \in 1..Len(chain), NEW k \in 0..Height
             PROVE  HistRows(chain[j], k) = IF k < j THEN k ELSE j - 1
  BY DEF RowsAre
<1> DEFINE at == Newer(chain[j])
           P(m) == /\ \A i \in 0..(m - 1) : at[i] # lineHist
                   /\ m = k \/ at[m] = lineHist
           w == IF k < j THEN k ELSE j - 1
<1>1. /\ Len(chain) \in Nat /\ j \in 1..Len(chain) /\ k \in 0..Height /\ Height \in Nat
      /\ lineHist = chain[1] /\ Distinct
  BY Parts, HeightAssumption DEF ListInv, ListTypes, Newest
<1>2. \A i \in 0..Height : i < j => at[i] = chain[j - i]
  BY <1>1, UpwardsTrue DEF Upwards, Newer
<1> HIDE DEF at
<1>3. \A i \in 0..Height : i < j - 1 => at[i] # lineHist
  <2> SUFFICES ASSUME NEW i \in 0..Height, i < j - 1 PROVE at[i] # lineHist
    OBVIOUS
  <2>1. at[i] = chain[j - i] /\ j - i \in 1..Len(chain) /\ 1 \in 1..Len(chain) /\ j - i # 1
    BY <1>1, <1>2
  <2> QED
    BY <1>1, <2>1 DEF Distinct
<1>4. j - 1 \in 0..Height => at[j - 1] = lineHist
  <2> SUFFICES ASSUME j - 1 \in 0..Height PROVE at[j - 1] = lineHist
    OBVIOUS
  <2>1. at[j - 1] = chain[j - (j - 1)] /\ j - (j - 1) = 1
    BY <1>1, <1>2
  <2> QED
    BY <1>1, <2>1
<1>5. w \in 0..k /\ P(w)
  BY <1>1, <1>3, <1>4
<1>6. \A m \in 0..k : P(m) => m = w
  <2> SUFFICES ASSUME NEW m \in 0..k, P(m), m # w PROVE FALSE
    OBVIOUS
  <2>1. CASE m < w
    <3>1. m \in 0..Height /\ m < j - 1 /\ m # k
      BY <1>1, <2>1
    <3> QED
      BY <1>3, <3>1
  <2>2. CASE m > w
    <3>1. w = j - 1 /\ j - 1 \in 0..Height /\ j - 1 \in 0..(m - 1)
      BY <1>1, <2>2
    <3> QED
      BY <1>4, <3>1
  <2> QED
    BY <1>1, <2>1, <2>2
<1>7. HistRows(chain[j], k) = CHOOSE m \in 0..k : P(m)
  BY DEF HistRows, at
<1> HIDE DEF P, w
<1>8. HistRows(chain[j], k) = w
  BY <1>5, <1>6, <1>7
<1> QED
  BY <1>8 DEF w

LEMMA NoRows == ASSUME NEW p PROVE HistRows(p, 0) = 0
<1> DEFINE at == Newer(p)
           P(m) == /\ \A i \in 0..(m - 1) : at[i] # lineHist
                   /\ m = 0 \/ at[m] = lineHist
<1>1. HistRows(p, 0) = CHOOSE m \in 0..0 : P(m)
  BY DEF HistRows
<1>2. 0 \in 0..0 /\ P(0)
  OBVIOUS
<1> HIDE DEF P
<1>3. HistRows(p, 0) \in 0..0
  BY <1>1, <1>2
<1> QED
  BY <1>3

(* The rows of a window of idx lines, and those of them that are drawn     *)
(* from the history when it starts at the j-th line.                       *)
Window(idx)     == IF idx < Height THEN idx ELSE Height
Lines(j, idx)   == IF Window(idx) < j THEN Window(idx) ELSE j - 1

(* A drawing from the j-th line: the lines from it on, newer and newer,    *)
(* then the frame buffer.                                                  *)
DrawingIs ==
  \A j \in 1..Len(chain), idx \in Nat :
    /\ HistRows(chain[j], Window(idx)) = Lines(j, idx)
    /\ \A r \in Row :
         Drawn(chain[j], idx)[r] =
           IF r > Window(idx) THEN {base + r - Window(idx)}
           ELSE IF r <= Lines(j, idx) THEN {saved - j + r}
           ELSE screen[r]

LEMMA DrawingIsTrue == ListInv => DrawingIs
<1> SUFFICES ASSUME ListInv, NEW j \in 1..Len(chain), NEW idx \in Nat
             PROVE  /\ HistRows(chain[j], Window(idx)) = Lines(j, idx)
                    /\ \A r \in Row :
                         Drawn(chain[j], idx)[r] =
                           IF r > Window(idx) THEN {base + r - Window(idx)}
                           ELSE IF r <= Lines(j, idx) THEN {saved - j + r}
                           ELSE screen[r]
  BY DEF DrawingIs
<1> DEFINE n == Window(idx)
           m == Lines(j, idx)
           at == Newer(chain[j])
<1>1. /\ Len(chain) \in Nat /\ Height \in Nat /\ n \in 0..Height /\ base \in Nat /\ saved \in Nat
  BY Parts, HeightAssumption DEF ListInv, ListTypes, Window
<1>2. HistRows(chain[j], n) = m
  BY <1>1, RowsAreTrue DEF RowsAre, Lines
<1>3. \A i \in 0..Height : i < j => at[i] = chain[j - i]
  BY <1>1, UpwardsTrue DEF Upwards, Newer
<1>4. Drawn(chain[j], idx) =
        [r \in Row |-> IF r > n THEN {base + (r - n)}
                       ELSE IF r <= m THEN {line[at[r - 1]]} ELSE screen[r]]
  BY <1>2 DEF Drawn, Window, FbLine
<1> HIDE DEF at
<1>5. m \in 0..Height /\ m < j
  BY <1>1 DEF Lines
<1>6. ASSUME NEW r \in Row, r <= m PROVE line[at[r - 1]] = saved - j + r
  <2>1. r \in 1..m /\ r - 1 \in 0..Height /\ r - 1 < j
    BY <1>1, <1>5, <1>6 DEF Row
  <2>2. at[r - 1] = chain[j - (r - 1)] /\ j - (r - 1) \in 1..Len(chain)
    BY <1>1, <1>3, <2>1
  <2>3. line[chain[j - (r - 1)]] = saved + 1 - (j - (r - 1))
    BY <2>2 DEF ListInv, LinesCountDown
  <2> QED
    BY <1>1, <2>1, <2>2, <2>3
<1>7. ASSUME NEW r \in Row PROVE base + (r - n) = base + r - n
  BY <1>1 DEF Row
<1> HIDE DEF n, m
<1>8. \A r \in Row : Drawn(chain[j], idx)[r] =
                           IF r > n THEN {base + r - n}
                           ELSE IF r <= m THEN {saved - j + r}
                           ELSE screen[r]
  BY <1>4, <1>6, <1>7
<1> QED
  BY <1>2, <1>8 DEF n, m

(* At the live end nothing but the frame buffer is drawn, whatever the     *)
(* pointer.                                                                *)
LEMMA LiveDrawing ==
  ASSUME NEW p
  PROVE  Drawn(p, 0) = [r \in Row |-> {FbLine(r)}]
<1>1. 0 < Height /\ Height \in Nat
  BY HeightAssumption
<1>2. Drawn(p, 0) = [r \in Row |-> IF r > 0 THEN {FbLine(r - 0)}
                       ELSE IF r <= HistRows(p, 0) THEN {line[Newer(p)[r - 1]]} ELSE screen[r]]
  BY <1>1 DEF Drawn
<1>3. \A r \in Row : r > 0 /\ r - 0 = r
  BY DEF Row
<1> QED
  BY <1>2, <1>3

-----------------------------------------------------------------------------
(* Moving the window. *)

BackSteps(pos, n) ==
  pos = [i \in 0..n |->
          IF i = 0 THEN [ptr |-> ScrollStart, idx |-> lineIdx, end |-> FALSE]
          ELSE LET p == pos[i - 1] IN
            IF p.end \/ p.idx >= MaxHist \/ p.idx >= histCnt THEN p
            ELSE IF next[p.ptr] = Null
                 THEN [p EXCEPT !.idx = @ + 1, !.end = TRUE]
                 ELSE [p EXCEPT !.idx = @ + 1, !.ptr = next[p.ptr]]]

LEMMA BackIs ==
  ASSUME NEW n \in Nat
  PROVE  \E pos : BackSteps(pos, n) /\ Back(n) = pos[n]
<1> DEFINE After(p) ==
             IF p.end \/ p.idx >= MaxHist \/ p.idx >= histCnt THEN p
             ELSE IF next[p.ptr] = Null
                  THEN [p EXCEPT !.idx = @ + 1, !.end = TRUE]
                  ELSE [p EXCEPT !.idx = @ + 1, !.ptr = next[p.ptr]]
           Start == [ptr |-> ScrollStart, idx |-> lineIdx, end |-> FALSE]
           Sol(pos, k) == pos = [i \in 0..k |-> IF i = 0 THEN Start ELSE After(pos[i - 1])]
           S == {k \in 0..n : \E pos : Sol(pos, k)}
<1>1. \A pos, k : Sol(pos, k) <=> BackSteps(pos, k)
  BY Zenon DEF BackSteps
<1>2. ASSUME NEW pos, Sol(pos, n) PROVE \E f : Sol(f, n) /\ Back(n) = f[n]
  BY <1>2, Zenon DEF Back
<1> HIDE DEF After, Start
<1>3. 0 \in S
  <2>1. Sol([i \in 0..0 |-> Start], 0) /\ 0 \in 0..n
    OBVIOUS
  <2> HIDE DEF Sol
  <2> QED
    BY <2>1
<1>4. ASSUME NEW k \in 0..(n - 1), k \in S PROVE k + 1 \in S
  <2>1. PICK f : Sol(f, k)
    BY <1>4
  <2> DEFINE g == [i \in 0..(k + 1) |-> IF i = 0 THEN Start ELSE After(f[i - 1])]
  <2>2. \A i \in 0..k : f[i] = IF i = 0 THEN Start ELSE After(f[i - 1])
    BY <2>1
  <2>3. \A i \in 0..k : g[i] = f[i]
    BY <2>2
  <2>4. \A i \in 0..(k + 1) : i # 0 => i - 1 \in 0..k
    OBVIOUS
  <2>5. Sol(g, k + 1)
    BY <2>3, <2>4
  <2> HIDE DEF Sol
  <2> QED
    BY <2>5
<1> HIDE DEF S
<1>5. \A k \in 0..n : k \in S
  BY <1>3, <1>4, Steps
<1>6. \E pos : Sol(pos, n)
  BY <1>5 DEF S
<1> QED
  BY <1>1, <1>2, <1>6, Zenon

(* Going back from the j-th line leads to a line, with an index within the *)
(* history and not ahead of the line if it was not before.                 *)
LEMMA BackMoves ==
  ASSUME ListInv, NEW j \in 1..Len(chain), ScrollStart = chain[j],
         lineIdx \in 0..histCnt, NEW n \in Nat
  PROVE  \E q \in 1..Len(chain) :
           /\ Back(n).ptr = chain[q]
           /\ Back(n).idx \in 0..histCnt
           /\ lineIdx <= j => Back(n).idx <= q
<1>1. PICK pos : BackSteps(pos, n) /\ Back(n) = pos[n]
  BY BackIs
<1> DEFINE N == Len(chain)
           Good(p) == \E q \in 1..N : \E x \in 0..N : \E e \in BOOLEAN :
                        /\ p = [ptr |-> chain[q], idx |-> x, end |-> e]
                        /\ lineIdx <= j => x <= q
           S == {i \in 0..n : Good(pos[i])}
<1>2. /\ N \in Nat /\ histCnt = N /\ NextOlder /\ lineIdx \in 0..N
      /\ \A i \in 1..N : chain[i] # Null
  BY Parts, NullAssumption DEF ListInv, ListTypes
<1>3. /\ pos[0] = [ptr |-> chain[j], idx |-> lineIdx, end |-> FALSE]
      /\ \A i \in 1..n : pos[i] =
           LET p == pos[i - 1] IN
            IF p.end \/ p.idx >= MaxHist \/ p.idx >= histCnt THEN p
            ELSE IF next[p.ptr] = Null
                 THEN [p EXCEPT !.idx = @ + 1, !.end = TRUE]
                 ELSE [p EXCEPT !.idx = @ + 1, !.ptr = next[p.ptr]]
  <2>1. pos = [i \in 0..n |->
          IF i = 0 THEN [ptr |-> chain[j], idx |-> lineIdx, end |-> FALSE]
          ELSE LET p == pos[i - 1] IN
            IF p.end \/ p.idx >= MaxHist \/ p.idx >= histCnt THEN p
            ELSE IF next[p.ptr] = Null
                 THEN [p EXCEPT !.idx = @ + 1, !.end = TRUE]
                 ELSE [p EXCEPT !.idx = @ + 1, !.ptr = next[p.ptr]]]
    BY <1>1 DEF BackSteps
  <2>2. 0 \in 0..n /\ \A i \in 1..n : i \in 0..n /\ i # 0
    OBVIOUS
  <2> QED
    BY <2>1, <2>2, Zenon
<1>4. 0 \in S
  <2>1. Good(pos[0])
    <3>1. lineIdx \in 0..N /\ FALSE \in BOOLEAN
      BY <1>2
    <3> QED
      BY <1>3, <3>1
  <2> QED
    BY <2>1
<1>5. ASSUME NEW i \in 0..(n - 1), i \in S PROVE i + 1 \in S
  <2>1. PICK q \in 1..N, x \in 0..N, e \in BOOLEAN :
          /\ pos[i] = [ptr |-> chain[q], idx |-> x, end |-> e]
          /\ lineIdx <= j => x <= q
    BY <1>5
  <2>2. i + 1 \in 1..n /\ (i + 1) - 1 = i /\ i + 1 \in 0..n
    OBVIOUS
  <2>3. pos[i + 1] = IF e \/ x >= MaxHist \/ x >= N THEN pos[i]
                     ELSE IF next[chain[q]] = Null
                     THEN [ptr |-> chain[q], idx |-> x + 1, end |-> TRUE]
                     ELSE [ptr |-> next[chain[q]], idx |-> x + 1, end |-> e]
    <3> DEFINE p == pos[i]
               y == x + 1
               a == chain[q]
               b == next[a]
    <3>1. pos[i + 1] =
            IF p.end \/ p.idx >= MaxHist \/ p.idx >= histCnt THEN p
            ELSE IF next[p.ptr] = Null
                 THEN [p EXCEPT !.idx = @ + 1, !.end = TRUE]
                 ELSE [p EXCEPT !.idx = @ + 1, !.ptr = next[p.ptr]]
      BY <1>3, <2>2
    <3>2. p = [ptr |-> a, idx |-> x, end |-> e]
      BY <2>1
    <3> HIDE DEF p, a
    <3>3. p.ptr = a /\ p.idx = x /\ p.end = e
      BY <3>2
    <3>4. pos[i + 1] =
            IF e \/ x >= MaxHist \/ x >= N THEN p
            ELSE IF b = Null
                 THEN [p EXCEPT !.idx = y, !.end = TRUE]
                 ELSE [p EXCEPT !.idx = y, !.ptr = b]
      BY <1>2, <3>1, <3>3
    <3> HIDE DEF y, b
    <3>5. /\ [p EXCEPT !.idx = y, !.end = TRUE] = [ptr |-> a, idx |-> y, end |-> TRUE]
          /\ [p EXCEPT !.idx = y, !.ptr = b] = [ptr |-> b, idx |-> y, end |-> e]
      <4>1. PICK z : z = [p EXCEPT !.idx = y]
        OBVIOUS
      <4>2. PICK u : u = [z EXCEPT !.end = TRUE]
        OBVIOUS
      <4>3. PICK v : v = [z EXCEPT !.ptr = b]
        OBVIOUS
      <4>4. /\ u = [p EXCEPT !.idx = y, !.end = TRUE]
            /\ u = [ptr |-> a, idx |-> y, end |-> TRUE]
        BY <3>2, <4>1, <4>2
      <4>5. /\ v = [p EXCEPT !.idx = y, !.ptr = b]
            /\ v = [ptr |-> b, idx |-> y, end |-> e]
        BY <3>2, <4>1, <4>3
      <4> QED
        BY <4>4, <4>5
    <3>6. pos[i + 1] = IF e \/ x >= MaxHist \/ x >= N THEN p
                     ELSE IF b = Null
                     THEN [ptr |-> a, idx |-> y, end |-> TRUE]
                     ELSE [ptr |-> b, idx |-> y, end |-> e]
      BY <3>4, <3>5
    <3> QED
      BY <3>6 DEF p, a, b, y
  <2>4. Good(pos[i + 1])
    <3>1. CASE e \/ x >= MaxHist \/ x >= N
      BY <2>1, <2>3, <3>1
    <3>2. CASE ~(e \/ x >= MaxHist \/ x >= N) /\ q = N
      <4>1. next[chain[q]] = Null
        BY <1>2, <3>2 DEF NextOlder
      <4>2. x + 1 \in 0..N /\ x + 1 <= q
        BY <1>2, <3>2
      <4> QED
        BY <2>3, <3>2, <4>1, <4>2
    <3>3. CASE ~(e \/ x >= MaxHist \/ x >= N) /\ q # N
      <4>1. q + 1 \in 1..N /\ next[chain[q]] = chain[q + 1] /\ chain[q + 1] # Null
        BY <1>2, <3>3 DEF NextOlder
      <4>2. x + 1 \in 0..N /\ (lineIdx <= j => x + 1 <= q + 1)
        BY <1>2, <2>1, <3>3
      <4>3. pos[i + 1] = [ptr |-> chain[q + 1], idx |-> x + 1, end |-> e]
        BY <2>3, <3>3, <4>1
      <4> QED
        BY <4>1, <4>2, <4>3
    <3> QED
      BY <3>1, <3>2, <3>3
  <2> QED
    BY <2>2, <2>4
<1> HIDE DEF S
<1>6. \A i \in 0..n : i \in S
  BY <1>4, <1>5, Steps
<1>7. PICK q \in 1..N, x \in 0..N, e \in BOOLEAN :
        /\ pos[n] = [ptr |-> chain[q], idx |-> x, end |-> e]
        /\ lineIdx <= j => x <= q
  <2>1. n \in S
    BY <1>6
  <2> QED
    BY <2>1 DEF S
<1> QED
  BY <1>1, <1>2, <1>7

ForwardSteps(pos, n) ==
  pos = [i \in 0..n |->
          IF i = 0 THEN [ptr |-> ScrollStart, idx |-> lineIdx]
          ELSE LET p == pos[i - 1] IN
            IF p.idx = 0 THEN p ELSE [ptr |-> prev[p.ptr], idx |-> p.idx - 1]]

LEMMA ForwardIs ==
  ASSUME NEW n \in Nat
  PROVE  \E pos : ForwardSteps(pos, n) /\ Forward(n) = pos[n]
<1> DEFINE After(p) == IF p.idx = 0 THEN p ELSE [ptr |-> prev[p.ptr], idx |-> p.idx - 1]
           Start == [ptr |-> ScrollStart, idx |-> lineIdx]
           Sol(pos, k) == pos = [i \in 0..k |-> IF i = 0 THEN Start ELSE After(pos[i - 1])]
           S == {k \in 0..n : \E pos : Sol(pos, k)}
<1>1. \A pos, k : Sol(pos, k) <=> ForwardSteps(pos, k)
  BY Zenon DEF ForwardSteps
<1>2. ASSUME NEW pos, Sol(pos, n) PROVE \E f : Sol(f, n) /\ Forward(n) = f[n]
  BY <1>2, Zenon DEF Forward
<1> HIDE DEF After, Start
<1>3. 0 \in S
  <2>1. Sol([i \in 0..0 |-> Start], 0) /\ 0 \in 0..n
    OBVIOUS
  <2> HIDE DEF Sol
  <2> QED
    BY <2>1
<1>4. ASSUME NEW k \in 0..(n - 1), k \in S PROVE k + 1 \in S
  <2>1. PICK f : Sol(f, k)
    BY <1>4
  <2> DEFINE g == [i \in 0..(k + 1) |-> IF i = 0 THEN Start ELSE After(f[i - 1])]
  <2>2. \A i \in 0..k : f[i] = IF i = 0 THEN Start ELSE After(f[i - 1])
    BY <2>1
  <2>3. \A i \in 0..k : g[i] = f[i]
    BY <2>2
  <2>4. \A i \in 0..(k + 1) : i # 0 => i - 1 \in 0..k
    OBVIOUS
  <2>5. Sol(g, k + 1)
    BY <2>3, <2>4
  <2> HIDE DEF Sol
  <2> QED
    BY <2>5
<1> HIDE DEF S
<1>5. \A k \in 0..n : k \in S
  BY <1>3, <1>4, Steps
<1>6. \E pos : Sol(pos, n)
  BY <1>5 DEF S
<1> QED
  BY <1>1, <1>2, <1>6, Zenon

(* Coming forward from the j-th line, the same.  The prev of the newest    *)
(* line is the oldest; the window gets there only at the live end.         *)
LEMMA ForwardMoves ==
  ASSUME ListInv, NEW j \in 1..Len(chain), ScrollStart = chain[j],
         lineIdx \in 0..histCnt, NEW n \in Nat
  PROVE  \E q \in 1..Len(chain) :
           /\ Forward(n).ptr = chain[q]
           /\ Forward(n).idx \in 0..histCnt
           /\ lineIdx <= j => Forward(n).idx <= q
<1>1. PICK pos : ForwardSteps(pos, n) /\ Forward(n) = pos[n]
  BY ForwardIs
<1> DEFINE N == Len(chain)
           Good(p) == \E q \in 1..N : \E x \in 0..N :
                        /\ p = [ptr |-> chain[q], idx |-> x]
                        /\ lineIdx <= j => x <= q
           S == {i \in 0..n : Good(pos[i])}
<1>2. N \in Nat /\ histCnt = N /\ PrevNewer /\ lineIdx \in 0..N
  BY Parts DEF ListInv, ListTypes
<1>3. /\ pos[0] = [ptr |-> chain[j], idx |-> lineIdx]
      /\ \A i \in 1..n : pos[i] =
           LET p == pos[i - 1] IN
            IF p.idx = 0 THEN p ELSE [ptr |-> prev[p.ptr], idx |-> p.idx - 1]
  <2>1. pos = [i \in 0..n |->
          IF i = 0 THEN [ptr |-> chain[j], idx |-> lineIdx]
          ELSE LET p == pos[i - 1] IN
            IF p.idx = 0 THEN p ELSE [ptr |-> prev[p.ptr], idx |-> p.idx - 1]]
    BY <1>1 DEF ForwardSteps
  <2>2. 0 \in 0..n /\ \A i \in 1..n : i \in 0..n /\ i # 0
    OBVIOUS
  <2> QED
    BY <2>1, <2>2, Zenon
<1>4. 0 \in S
  BY <1>2, <1>3
<1>5. ASSUME NEW i \in 0..(n - 1), i \in S PROVE i + 1 \in S
  <2>1. PICK q \in 1..N, x \in 0..N :
          /\ pos[i] = [ptr |-> chain[q], idx |-> x]
          /\ lineIdx <= j => x <= q
    BY <1>5
  <2>2. i + 1 \in 1..n /\ (i + 1) - 1 = i /\ i + 1 \in 0..n
    OBVIOUS
  <2>3. pos[i + 1] = IF x = 0 THEN pos[i] ELSE [ptr |-> prev[chain[q]], idx |-> x - 1]
    BY <1>3, <2>1, <2>2
  <2>4. Good(pos[i + 1])
    <3>1. CASE x = 0
      BY <2>1, <2>3, <3>1
    <3>2. CASE x # 0 /\ q = 1
      <4>1. prev[chain[q]] = chain[N] /\ N \in 1..N
        BY <1>2, <3>2 DEF PrevNewer
      <4>2. x - 1 \in 0..N /\ x - 1 <= N
        BY <1>2, <3>2
      <4> QED
        BY <2>3, <3>2, <4>1, <4>2
    <3>3. CASE x # 0 /\ q # 1
      <4>1. prev[chain[q]] = chain[q - 1] /\ q - 1 \in 1..N
        BY <1>2, <3>3 DEF PrevNewer
      <4>2. x - 1 \in 0..N /\ (lineIdx <= j => x - 1 <= q - 1)
        BY <1>2, <2>1, <3>3
      <4> QED
        BY <2>3, <3>3, <4>1, <4>2
    <3> QED
      BY <3>1, <3>2, <3>3
  <2> QED
    BY <2>2, <2>4
<1> HIDE DEF S
<1>6. \A i \in 0..n : i \in S
  BY <1>4, <1>5, Steps
<1>7. PICK q \in 1..N, x \in 0..N :
        /\ pos[n] = [ptr |-> chain[q], idx |-> x]
        /\ lineIdx <= j => x <= q
  <2>1. n \in S
    BY <1>6
  <2> QED
    BY <2>1 DEF S
<1> QED
  BY <1>1, <1>2, <1>7

-----------------------------------------------------------------------------
(* The inductive invariant of the window. *)

(* line_idx never exceeds hist_cnt; win_ptr is NULL only at the live end,  *)
(* and before the first line is saved.                                     *)
PtrInv ==
  /\ lineIdx \in 0..histCnt
  /\ winPtr \in Cell \cup {Null}
  /\ winPtr = Null => lineIdx = 0 /\ ~astray
  /\ lineHist = Null => winPtr = Null

(* Unless its cell has been freed under it, win_ptr is on the list, and at *)
(* least line_idx lines behind, counting the newest as the first.          *)
Behind ==
  ~astray /\ winPtr # Null =>
    \E i \in 1..histCnt : lineIdx <= i /\ winPtr = chain[i]

WindowInv == ListInv /\ PtrInv /\ Behind

LEMMA InitWindow == Init => WindowInv
<1> SUFFICES ASSUME Init PROVE WindowInv
  OBVIOUS
<1>1. ListInv
  BY InitList
<1>2. PtrInv /\ Behind
  BY DEF Init, PtrInv, Behind
<1> QED
  BY <1>1, <1>2 DEF WindowInv

LEMMA SaveKeepsWindow ==
  ASSUME WindowInv, NEW c \in Cell, HandleScrollup(c)
  PROVE  PtrInv' /\ Behind'
<1> DEFINE n == Len(chain)
           m == IF n < MaxHist THEN n + 1 ELSE n
<1>1. /\ n \in 0..MaxHist /\ Len(chain') = m /\ n = histCnt /\ m = histCnt'
      /\ \A i \in 1..m : chain'[i] = IF i = 1 THEN c ELSE chain[i - 1]
  <2>1. ListInv' /\ ListInv
    BY SaveStep DEF WindowInv
  <2>2. Len(chain) = histCnt /\ Len(chain') = histCnt'
    BY <2>1 DEF ListInv, ListIntact
  <2> QED
    BY <2>1, <2>2, SavedInFront
<1>2. /\ UNCHANGED <<winPtr, lineIdx>> /\ lineHist' = c /\ c # Null
      /\ n \in Nat /\ MaxHist \in Nat
  BY NullAssumption, HistAssumption, <1>1 DEF HandleScrollup
<1>3. astray => astray'
  BY DEF HandleScrollup, Grow, Replace
<1>4. PtrInv'
  <2>1. /\ lineIdx \in 0..n /\ winPtr \in Cell \cup {Null}
        /\ winPtr = Null => lineIdx = 0 /\ ~astray
    BY <1>1 DEF WindowInv, PtrInv
  <2>2. winPtr = Null => ~astray'
    <3>1. CASE Grow(c)
      BY <2>1, <3>1 DEF Grow
    <3>2. CASE Replace(c)
      <4>1. Oldest = chain[n] /\ chain[n] # Null
        <5>1. n = MaxHist /\ n \in 1..n
          BY <1>1, <3>2, HistAssumption DEF Replace
        <5> QED
          BY <5>1, Parts, NullAssumption
             DEF Oldest, WindowInv, ListInv, ListTypes, Newest, PrevNewer
      <4> QED
        BY <2>1, <3>2, <4>1 DEF Replace
    <3> QED
      BY <3>1, <3>2 DEF HandleScrollup
  <2>3. lineIdx \in 0..m
    BY <1>1, <1>2, <2>1
  <2> QED
    BY <1>1, <1>2, <2>1, <2>2, <2>3 DEF PtrInv
<1>5. Behind'
  <2> SUFFICES ASSUME ~astray', winPtr # Null
               PROVE  \E i \in 1..m : lineIdx <= i /\ winPtr = chain'[i]
    BY <1>1, <1>2 DEF Behind
  <2>1. PICK i \in 1..n : lineIdx <= i /\ winPtr = chain[i]
    BY <1>1, <1>3 DEF WindowInv, Behind
  <2>2. i + 1 <= m
    <3>1. CASE Grow(c)
      BY <1>1, <1>2, <3>1, HistAssumption DEF Grow
    <3>2. CASE Replace(c)
      <4>1. winPtr # Oldest
        BY <3>2 DEF Replace
      <4>2. Oldest = chain[n]
        BY <2>1, Parts DEF Oldest, WindowInv, ListInv, Newest, PrevNewer
      <4> QED
        BY <1>1, <1>2, <2>1, <3>2, <4>1, <4>2 DEF Replace
    <3> QED
      BY <3>1, <3>2 DEF HandleScrollup
  <2>3. i + 1 \in 1..m /\ chain'[i + 1] = chain[i] /\ lineIdx <= i + 1
    <3>1. lineIdx \in 0..n
      BY <1>1 DEF WindowInv, PtrInv
    <3> QED
      BY <1>1, <2>1, <2>2, <3>1
  <2> QED
    BY <2>1, <2>3
<1> QED
  BY <1>4, <1>5

(* Where a key finds the window when it moves it. *)
LEMMA StartsOnList ==
  ASSUME WindowInv, ScrollStart # Null, ~Dangling
  PROVE  \E j \in 1..Len(chain) : ScrollStart = chain[j] /\ (~astray => lineIdx <= j)
<1> DEFINE N == Len(chain)
<1>1. /\ N \in Nat /\ N = histCnt /\ Newest /\ Allocated /\ lineIdx \in 0..N
      /\ \A i \in 1..N : chain[i] # Null
  BY Parts, NullAssumption DEF WindowInv, ListInv, ListTypes, PtrInv
<1>2. CASE winPtr = Null
  <2>1. ScrollStart = lineHist /\ lineIdx = 0
    BY <1>2 DEF ScrollStart, WindowInv, PtrInv
  <2>2. N # 0 /\ lineHist = chain[1] /\ 1 \in 1..N
    BY <1>1, <2>1 DEF Newest
  <2> QED
    BY <2>1, <2>2
<1>3. CASE winPtr # Null
  <2>1. ScrollStart = winPtr /\ winPtr \in live
    BY <1>3 DEF ScrollStart, Dangling
  <2>2. CASE astray
    BY <1>1, <2>1, <2>2 DEF Allocated
  <2>3. CASE ~astray
    BY <1>1, <1>3, <2>1, <2>3 DEF WindowInv, Behind
  <2> QED
    BY <2>2, <2>3
<1> QED
  BY <1>2, <1>3

(* A key that leaves the window on a line. *)
LEMMA MovedWindow ==
  ASSUME WindowInv, UNCHANGED listVars, NEW q \in 1..Len(chain), winPtr' = chain[q],
         lineIdx' \in 0..histCnt, ~astray' => lineIdx' <= q
  PROVE  PtrInv' /\ Behind'
<1>1. /\ Len(chain) = histCnt /\ chain[q] \in Cell /\ chain[q] # Null /\ Newest
      /\ \A i \in 1..Len(chain) : chain[i] # Null
  BY Parts, NullAssumption DEF WindowInv, ListInv, ListTypes
<1>2. UNCHANGED <<histCnt, chain, lineHist>>
  BY DEF listVars
<1>3. lineHist # Null
  BY <1>1 DEF Newest
<1> QED
  BY <1>1, <1>2, <1>3 DEF PtrInv, Behind

LEMMA SameWindow ==
  ASSUME WindowInv, UNCHANGED listVars, UNCHANGED winVars
  PROVE  PtrInv' /\ Behind'
BY DEF WindowInv, PtrInv, Behind, listVars, winVars

LEMMA BackKeepsWindow ==
  ASSUME WindowInv, NEW n \in Nat, KeyBack(n)
  PROVE  PtrInv' /\ Behind'
<1>1. UNCHANGED listVars
  BY DEF KeyBack, Stop, ShowWindow
<1>2. CASE UNCHANGED winVars
  BY <1>1, <1>2, SameWindow
<1>3. CASE ~ UNCHANGED winVars
  <2>1. /\ ScrollStart # Null /\ ~Dangling /\ astray' = astray
        /\ winPtr' = Back(n).ptr /\ lineIdx' = Back(n).idx
    BY <1>3 DEF KeyBack, Stop, ShowWindow, winVars
  <2>2. PICK j \in 1..Len(chain) : ScrollStart = chain[j] /\ (~astray => lineIdx <= j)
    BY <2>1, StartsOnList
  <2>3. ListInv /\ lineIdx \in 0..histCnt
    BY DEF WindowInv, PtrInv
  <2>4. PICK q \in 1..Len(chain) :
          /\ Back(n).ptr = chain[q] /\ Back(n).idx \in 0..histCnt
          /\ lineIdx <= j => Back(n).idx <= q
    BY <2>2, <2>3, BackMoves
  <2> QED
    BY <1>1, <2>1, <2>2, <2>4, MovedWindow
<1> QED
  BY <1>2, <1>3

LEMMA ForwardKeepsWindow ==
  ASSUME WindowInv, NEW n \in Nat, KeyForward(n)
  PROVE  PtrInv' /\ Behind'
<1>1. UNCHANGED listVars
  BY DEF KeyForward, Stop, ShowWindow
<1>2. CASE UNCHANGED winVars
  BY <1>1, <1>2, SameWindow
<1>3. CASE ~ UNCHANGED winVars
  <2>1. /\ ScrollStart # Null /\ ~(Dangling /\ lineIdx > 0) /\ lineIdx # 0
        /\ astray' = astray /\ winPtr' = Forward(n).ptr /\ lineIdx' = Forward(n).idx
    BY <1>3 DEF KeyForward, Stop, ShowWindow, winVars
  <2>2. ListInv /\ lineIdx \in 0..histCnt /\ histCnt \in Nat
    BY HistAssumption DEF WindowInv, PtrInv, ListInv, ListTypes
  <2>3. ~Dangling
    BY <2>1, <2>2
  <2>4. PICK j \in 1..Len(chain) : ScrollStart = chain[j] /\ (~astray => lineIdx <= j)
    BY <2>1, <2>3, StartsOnList
  <2>5. PICK q \in 1..Len(chain) :
          /\ Forward(n).ptr = chain[q] /\ Forward(n).idx \in 0..histCnt
          /\ lineIdx <= j => Forward(n).idx <= q
    BY <2>2, <2>4, ForwardMoves
  <2> QED
    BY <1>1, <2>1, <2>4, <2>5, MovedWindow
<1> QED
  BY <1>2, <1>3

LEMMA EndsKeepWindow ==
  ASSUME WindowInv, KeyTop \/ KeyBottom
  PROVE  PtrInv' /\ Behind'
<1>1. UNCHANGED listVars
  BY DEF KeyTop, KeyBottom, ShowWindow
<1>2. CASE KeyBottom
  <2>1. winPtr' = Null /\ lineIdx' = 0 /\ astray' = FALSE
    BY <1>2 DEF KeyBottom, ShowWindow
  <2>2. histCnt' = histCnt /\ histCnt \in 0..MaxHist /\ MaxHist \in Nat
    BY <1>1, HistAssumption DEF WindowInv, ListInv, ListTypes, listVars
  <2> QED
    BY <2>1, <2>2 DEF PtrInv, Behind
<1>3. CASE KeyTop /\ lineHist = Null
  BY <1>1, <1>3, SameWindow DEF KeyTop, ShowWindow, winVars
<1>4. CASE KeyTop /\ lineHist # Null
  <2> DEFINE N == Len(chain)
  <2>1. N \in Nat /\ N = histCnt /\ Newest /\ PrevNewer
    BY Parts DEF WindowInv, ListInv, ListTypes
  <2>2. N # 0 /\ Oldest = chain[N] /\ N \in 1..N
    BY <1>4, <2>1 DEF Newest, PrevNewer, Oldest
  <2>3. winPtr' = chain[N] /\ lineIdx' = N
    BY <1>4, <2>1, <2>2 DEF KeyTop, ShowWindow
  <2> QED
    BY <1>1, <2>1, <2>2, <2>3, MovedWindow
<1> QED
  BY <1>2, <1>3, <1>4

LEMMA WindowStep == WindowInv /\ [Next]_vars => WindowInv'
<1> SUFFICES ASSUME WindowInv, [Next]_vars PROVE PtrInv' /\ Behind'
  BY ListStep DEF WindowInv
<1>1. CASE \E c \in Cell : HandleScrollup(c)
  BY <1>1, SaveKeepsWindow
<1>2. CASE \E n \in {1, Height} : KeyBack(n) \/ KeyForward(n)
  BY <1>2, BackKeepsWindow, ForwardKeepsWindow, HeightAssumption
<1>3. CASE KeyTop \/ KeyBottom
  BY <1>3, EndsKeepWindow
<1>4. CASE \/ NoMemory \/ CardScroll \/ HandleRedraw
           \/ (\E r \in Row : HandleChar(r))
           \/ KeyDump \/ Shutdown \/ UNCHANGED vars
  <2>1. UNCHANGED listVars /\ UNCHANGED winVars
    <3>1. CASE CardScroll
      BY <3>1 DEF CardScroll
    <3>2. CASE NoMemory \/ HandleRedraw \/ (\E r \in Row : HandleChar(r))
      BY <3>2 DEF NoMemory, HandleRedraw, HandleChar, Stop
    <3>3. CASE KeyDump \/ Shutdown
      BY <3>3 DEF KeyDump, Shutdown, Stop, winVars
    <3>4. CASE UNCHANGED vars
      BY <3>4 DEF vars
    <3> QED
      BY <1>4, <3>1, <3>2, <3>3, <3>4
  <2> QED
    BY <2>1, SameWindow
<1> QED
  BY <1>1, <1>2, <1>3, <1>4 DEF Next

(* The window keeps to the list whatever is saved and freed under it.      *)
THEOREM WindowInvariance == Spec => []WindowInv
<1> QED
  BY InitWindow, WindowStep, PTL DEF Spec

(* The window never runs ahead of its index, so that a drawing leaves at   *)
(* most one row of the history part undrawn.                               *)
THEOREM WindowStaysBehind == Spec => []WindowBehind
<1>1. WindowInv => WindowBehind
  <2> SUFFICES ASSUME WindowInv, lineIdx > 0, ~astray
               PROVE  /\ lineIdx <= histCnt
                      /\ \E i \in lineIdx..histCnt : winPtr = chain[i]
    BY DEF WindowBehind
  <2>1. histCnt \in Nat /\ lineIdx \in 0..histCnt /\ winPtr # Null
    BY HistAssumption DEF WindowInv, ListInv, ListTypes, PtrInv
  <2>2. PICK i \in 1..histCnt : lineIdx <= i /\ winPtr = chain[i]
    BY <2>1 DEF WindowInv, Behind
  <2>3. i \in lineIdx..histCnt
    BY <2>1, <2>2
  <2> QED
    BY <2>1, <2>2, <2>3
<1> QED
  BY <1>1, WindowInvariance, PTL

-----------------------------------------------------------------------------
(* The dump. *)

HistSize == Cardinality(live) = Len(chain)

LEMMA HistSizeTrue == ListInv => HistSize
<1> SUFFICES ASSUME ListInv PROVE Cardinality(live) = Len(chain)
  BY DEF HistSize
<1> DEFINE N == Len(chain)
           f == [i \in 1..N |-> chain[i]]
<1>1. N \in Nat /\ Distinct /\ Allocated
  BY Parts DEF ListInv, ListTypes
<1>2. /\ f \in [1..N -> live]
      /\ \A a, b \in 1..N : f[a] = f[b] => a = b
      /\ \A x \in live : \E a \in 1..N : f[a] = x
  BY <1>1 DEF Distinct, Allocated
<1> HIDE DEF f
<1>3. f \in Bijection(1..N, live)
  BY <1>2, Fun_IsBij
<1>4. ExistsBijection(1..N, live)
  BY <1>3, Fun_ExistsBij
<1> QED
  BY <1>1, <1>4, FS_CountingElements

(* Seeking the end of the list.                                            *)
LEMMA LastIs ==
  ASSUME ListInv, lineHist # Null
  PROVE  Len(chain) # 0 /\ LastByNext = chain[Len(chain)]
<1> DEFINE N == Len(chain)
           at == Follow(next, lineHist, N)
           P(m) == at[m] # Null /\ next[at[m]] = Null
<1>1. /\ N \in Nat /\ Cardinality(live) = N /\ NextOlder /\ Newest
      /\ \A i \in 1..N : chain[i] # Null
  BY HistSizeTrue, Parts, NullAssumption DEF ListInv, ListTypes, HistSize
<1>2. N # 0
  BY <1>1 DEF Newest
<1>3. /\ DOMAIN at = 0..N
      /\ \A i \in 0..N : at[i] = IF i < N THEN chain[i + 1] ELSE Null
  BY <1>1, <1>2, FollowIs, DownwardsTrue DEF Downwards
<1>4. LastByNext = at[CHOOSE m \in DOMAIN at : P(m)]
  BY <1>1 DEF LastByNext
<1> HIDE DEF at
<1>5. N - 1 \in DOMAIN at /\ P(N - 1) /\ at[N - 1] = chain[N]
  <2>1. N - 1 \in 0..N /\ N - 1 < N /\ (N - 1) + 1 = N /\ N \in 1..N
    BY <1>1, <1>2
  <2>2. at[N - 1] = chain[N]
    BY <1>3, <2>1
  <2>3. next[chain[N]] = Null /\ chain[N] # Null
    BY <1>1, <2>1 DEF NextOlder
  <2> QED
    BY <1>3, <2>1, <2>2, <2>3
<1>6. \A m \in DOMAIN at : P(m) => m = N - 1
  <2> SUFFICES ASSUME NEW m \in 0..N, P(m) PROVE m = N - 1
    BY <1>3
  <2>1. m < N /\ at[m] = chain[m + 1] /\ m + 1 \in 1..N
    BY <1>1, <1>3
  <2>2. m + 1 # N => m + 2 \in 1..N /\ next[chain[m + 1]] = chain[(m + 1) + 1]
                      /\ (m + 1) + 1 = m + 2
    BY <1>1, <2>1 DEF NextOlder
  <2>3. m + 1 = N
    BY <1>1, <2>1, <2>2
  <2> QED
    BY <1>1, <2>3
<1> HIDE DEF P
<1>7. (CHOOSE m \in DOMAIN at : P(m)) = N - 1
  BY <1>5, <1>6
<1> QED
  BY <1>2, <1>4, <1>5, <1>7

(* What is written: every line of the history but the newest, the oldest   *)
(* first, then the frame buffer.                                           *)
DumpIs ==
  lineHist # Null =>
    LET n == Len(chain) - 1 IN
    /\ n \in Nat
    /\ DumpText = [i \in 1..(n + Height) |->
                     IF i <= n THEN saved - (n + 1) + i ELSE base + (i - n)]

LEMMA DumpIsTrue == ListInv => DumpIs
<1> SUFFICES ASSUME ListInv, lineHist # Null
             PROVE  LET n == Len(chain) - 1 IN
                    /\ n \in Nat
                    /\ DumpText = [i \in 1..(n + Height) |->
                           IF i <= n THEN saved - (n + 1) + i ELSE base + (i - n)]
  BY DEF DumpIs
<1> DEFINE N == Len(chain)
           n == N - 1
           at == Follow(prev, chain[N], N)
           P(m) == /\ at[m] = lineHist
                   /\ \A i \in 0..(m - 1) : at[i] # lineHist
<1>1. /\ N \in Nat /\ Cardinality(live) = N /\ Distinct /\ Newest
      /\ N # 0 /\ LastByNext = chain[N]
      /\ lineHist = chain[1] /\ saved \in Nat /\ Height \in Nat
  BY HistSizeTrue, LastIs, Parts, HeightAssumption DEF ListInv, ListTypes, HistSize, Newest
<1>2. N \in 1..N /\ n \in Nat /\ n \in 0..N /\ n < N /\ N - n = 1
  BY <1>1
<1>3. /\ DOMAIN at = 0..N
      /\ \A i \in 0..N : i < N => at[i] = chain[N - i]
  BY <1>1, <1>2, FollowIs, UpwardsTrue DEF Upwards
<1> DEFINE k == CHOOSE m \in DOMAIN at : P(m)
<1>4. DumpText = [i \in 1..(k + Height) |-> IF i <= k THEN line[at[i - 1]] ELSE base + (i - k)]
  BY <1>1 DEF DumpText, FbLine
<1> HIDE DEF at
<1>5. \A i \in 0..N : i < n => at[i] # lineHist
  <2> SUFFICES ASSUME NEW i \in 0..N, i < n PROVE at[i] # lineHist
    OBVIOUS
  <2>1. at[i] = chain[N - i] /\ N - i \in 1..N /\ 1 \in 1..N /\ N - i # 1
    BY <1>1, <1>3
  <2> QED
    BY <1>1, <2>1 DEF Distinct
<1>6. at[n] = lineHist
  <2>1. at[n] = chain[N - n]
    BY <1>2, <1>3
  <2> QED
    BY <1>1, <1>2, <2>1
<1>7. n \in DOMAIN at /\ P(n)
  <2>1. \A i \in 0..(n - 1) : i \in 0..N /\ i < n
    BY <1>2
  <2> QED
    BY <1>2, <1>3, <1>5, <1>6, <2>1
<1>8. \A m \in DOMAIN at : P(m) => m = n
  <2> SUFFICES ASSUME NEW m \in 0..N, P(m), m # n PROVE FALSE
    BY <1>3
  <2>1. ~(m < n)
    BY <1>5
  <2>2. n \in 0..(m - 1)
    BY <1>2, <2>1
  <2> QED
    BY <1>6, <2>2
<1> HIDE DEF P
<1>9. k = n
  BY <1>7, <1>8
<1>10. ASSUME NEW i \in 1..(n + Height), i <= n
       PROVE  line[at[i - 1]] = saved - (n + 1) + i
  <2>1. i - 1 \in 0..N /\ i - 1 < N /\ N - (i - 1) \in 1..N
    BY <1>1, <1>2, <1>10
  <2>2. at[i - 1] = chain[N - (i - 1)]
    BY <1>3, <2>1
  <2>3. line[chain[N - (i - 1)]] = saved + 1 - (N - (i - 1))
    BY <2>1 DEF ListInv, LinesCountDown
  <2> QED
    BY <1>1, <1>2, <2>2, <2>3
<1> HIDE DEF k, n
<1>11. DumpText = [i \in 1..(n + Height) |-> IF i <= n THEN line[at[i - 1]] ELSE base + (i - n)]
  BY <1>4, <1>9
<1>12. DumpText = [i \in 1..(n + Height) |->
                     IF i <= n THEN saved - (n + 1) + i ELSE base + (i - n)]
  BY <1>10, <1>11
<1> QED
  BY <1>2, <1>12 DEF n

LEMMA AtMostOne ==
  ASSUME NEW S, NEW x, S \subseteq {x}
  PROVE  Cardinality(S) <= 1
<1>1. IsFiniteSet({x}) /\ Cardinality({x}) = 1 /\ S \in SUBSET {x}
  BY FS_Singleton
<1> QED
  BY <1>1, FS_Subset

LEMMA DumpWritten ==
  ASSUME ListInv, lineHist # Null, dump' = DumpText,
         UNCHANGED <<listVars, base, saved>>
  PROVE  dump' \in Seq(Nat) /\ DumpNearlyWhole'
<1> DEFINE N == Len(chain)
           n == N - 1
           d == dump'
<1>1. /\ n \in Nat /\ N = n + 1 /\ saved \in {base, base + 1}
      /\ saved \in Nat /\ base \in Nat /\ Height \in Nat /\ Height >= 1
      /\ line \in [Cell -> Nat] /\ Allocated /\ chain \in Seq(Cell)
  BY DumpIsTrue, Parts, HeightAssumption DEF DumpIs, ListInv, ListTypes
<1>2. d = [i \in 1..(n + Height) |->
             IF i <= n THEN saved - (n + 1) + i ELSE base + (i - n)]
  BY DumpIsTrue DEF DumpIs
<1>3. UNCHANGED <<live, line, base>>
  BY DEF listVars
<1>4. \A i \in 1..N : line[chain[i]] = saved + 1 - i /\ chain[i] \in Cell
  BY <1>1 DEF ListInv, LinesCountDown
<1> HIDE DEF d, n
<1>5. saved - (n + 1) + 1 >= 0
  <2>1. N \in 1..N /\ line[chain[N]] \in Nat
    BY <1>1, <1>4
  <2>2. line[chain[N]] = saved + 1 - N
    BY <1>4, <2>1
  <2> QED
    BY <1>1, <2>1, <2>2
<1>6. \A i \in 1..(n + Height) :
        (IF i <= n THEN saved - (n + 1) + i ELSE base + (i - n)) \in Nat
  BY <1>1, <1>5
<1>7. d \in Seq(Nat) /\ Len(d) = n + Height /\ n + Height \in Nat
  BY <1>1, <1>2, <1>6
<1>8. ASSUME NEW i \in 1..(Len(d) - 1) PROVE d[i] <= d[i + 1]
  <2>1. i \in 1..(n + Height) /\ i + 1 \in 1..(n + Height)
    BY <1>1, <1>7
  <2>2. /\ d[i] = IF i <= n THEN saved - (n + 1) + i ELSE base + (i - n)
        /\ d[i + 1] = IF i + 1 <= n THEN saved - (n + 1) + (i + 1) ELSE base + ((i + 1) - n)
    BY <1>2, <2>1
  <2> QED
    BY <1>1, <2>1, <2>2
<1>9. d[Len(d)] = base + Height
  BY <1>1, <1>2, <1>7
<1>10. Cardinality((HeldLines \ DumpLines)') <= 1
  <2>1. ASSUME NEW x \in (HeldLines \ DumpLines)' PROVE x = line[chain[1]]
    <3>1. x \in {line[c] : c \in live} /\ x \notin {d[i] : i \in DOMAIN d}
      BY <1>3, <2>1 DEF HeldLines, DumpLines, d
    <3>2. PICK i \in 1..N : x = line[chain[i]]
      BY <1>1, <3>1 DEF Allocated
    <3>3. CASE i = 1
      BY <3>2, <3>3
    <3>4. CASE i # 1
      <4> DEFINE k == n + 2 - i
      <4>1. k \in 1..(n + Height) /\ k <= n
        BY <1>1, <3>4
      <4>2. d[k] = saved - (n + 1) + k
        BY <1>2, <4>1
      <4>3. d[k] = x
        BY <1>1, <1>4, <3>2, <4>2
      <4>4. k \in DOMAIN d
        BY <1>2, <4>1
      <4> QED
        BY <3>1, <4>3, <4>4
    <3> QED
      BY <3>3, <3>4
  <2>2. (HeldLines \ DumpLines)' \subseteq {line[chain[1]]}
    BY <2>1
  <2> QED
    BY <2>2, AtMostOne
<1> QED
  BY <1>3, <1>7, <1>8, <1>9, <1>10 DEF DumpNearlyWhole, FbLine, d

(* Every other step leaves no dump to look at. *)
LEMMA DumpStep ==
  ASSUME [Next]_vars
  PROVE  \/ dump' = << >>
         \/ /\ lineHist # Null /\ dump' = DumpText
            /\ UNCHANGED <<listVars, base, saved>>
         \/ UNCHANGED vars
<1>1. CASE CardScroll \/ \E c \in Cell : HandleScrollup(c)
  BY <1>1 DEF CardScroll, HandleScrollup, NoDump
<1>2. CASE NoMemory \/ HandleRedraw \/ \E r \in Row : HandleChar(r)
  BY <1>2 DEF NoMemory, HandleRedraw, HandleChar, Stop, NoDump
<1>3. CASE \E n \in {1, Height} : KeyBack(n) \/ KeyForward(n)
  BY <1>3 DEF KeyBack, KeyForward, Stop, ShowWindow, NoDump
<1>4. CASE KeyTop \/ KeyBottom
  BY <1>4 DEF KeyTop, KeyBottom, ShowWindow, NoDump
<1>5. CASE KeyDump \/ Shutdown
  BY <1>5 DEF KeyDump, Shutdown, Stop, NoDump
<1> QED
  BY <1>1, <1>2, <1>3, <1>4, <1>5 DEF Next

(* Whenever a dump is written, by the key or at shutdown, it is in order,  *)
(* ends with the frame buffer and lacks at most one line philix holds.     *)
THEOREM DumpIsNearlyWhole == Spec => []DumpNearlyWhole
<1>1. Init => DumpNearlyWhole
  BY DEF Init, DumpNearlyWhole
<1>2. ListInv /\ DumpNearlyWhole /\ [Next]_vars => DumpNearlyWhole'
  <2> SUFFICES ASSUME ListInv, DumpNearlyWhole, [Next]_vars PROVE DumpNearlyWhole'
    OBVIOUS
  <2>1. CASE dump' = << >>
    BY <2>1 DEF DumpNearlyWhole
  <2>2. CASE lineHist # Null /\ dump' = DumpText /\ UNCHANGED <<listVars, base, saved>>
    BY <2>2, DumpWritten
  <2>3. CASE UNCHANGED vars
    BY <2>3 DEF vars, listVars, DumpNearlyWhole, HeldLines, DumpLines, FbLine
  <2> QED
    BY <2>1, <2>2, <2>3, DumpStep
<1> QED
  BY <1>1, <1>2, ListInvariance, PTL DEF Spec

-----------------------------------------------------------------------------
(* What is on the screen. *)

(* The window can be drawn: its pointer is used only above index 0.        *)
OnList == lineIdx = 0 \/ winPtr \in live

(* The line it starts at.                                                  *)
StartsAt(j) ==
  /\ winPtr = chain[j]
  /\ ~astray => lineIdx <= j
  /\ RowsDrawn = Lines(j, lineIdx)
  /\ \A r \in Row :
       Drawn(winPtr, lineIdx)[r] =
         IF r > Window(lineIdx) THEN {base + r - Window(lineIdx)}
         ELSE IF r <= Lines(j, lineIdx) THEN {saved - j + r}
         ELSE screen[r]

Started == winPtr \in live => \E j \in 1..Len(chain) : StartsAt(j)

LEMMA StartedTrue == WindowInv => Started
<1> SUFFICES ASSUME WindowInv, winPtr \in live
             PROVE  \E j \in 1..Len(chain) : StartsAt(j)
  BY DEF Started
<1>1. Allocated /\ Len(chain) = histCnt /\ lineIdx \in Nat /\ DrawingIs
  BY Parts, DrawingIsTrue DEF WindowInv, ListInv, PtrInv
<1>2. PICK j \in 1..Len(chain) : winPtr = chain[j] /\ (~astray => lineIdx <= j)
  <2>1. winPtr # Null
    BY <1>1, NullAssumption DEF Allocated, WindowInv, ListInv, ListTypes
  <2>2. CASE astray
    BY <1>1, <2>2 DEF Allocated
  <2>3. CASE ~astray
    BY <1>1, <2>1, <2>3 DEF WindowInv, Behind
  <2> QED
    BY <2>2, <2>3
<1>3. RowsDrawn = Lines(j, lineIdx)
  BY <1>1, <1>2 DEF DrawingIs, RowsDrawn, Window
<1>4. StartsAt(j)
  BY <1>1, <1>2, <1>3 DEF StartsAt, DrawingIs
<1> QED
  BY <1>4

(* The window begins on the list whenever it can be drawn, or NULL.        *)
LEMMA WindowNumbers ==
  ASSUME WindowInv
  PROVE  /\ lineIdx \in Nat /\ Window(lineIdx) \in 0..Height /\ Height \in Nat /\ Height >= 1
         /\ saved \in Nat /\ base \in Nat /\ Len(chain) \in Nat
         /\ lineIdx = 0 => Window(lineIdx) = 0
         /\ lineIdx > 0 => Window(lineIdx) > 0
BY HeightAssumption, HistAssumption DEF WindowInv, ListInv, ListTypes, PtrInv, Window

(* Whatever is drawn from the history, its rows follow one another: even   *)
(* when win_ptr has been reused for another line.                          *)
THEOREM HistoryStaysInOrder == Spec => []HistoryInOrder
<1>1. WindowInv => HistoryInOrder
  <2> SUFFICES ASSUME WindowInv, ~Dangling, NEW r \in 1..(RowsDrawn - 1),
                      NEW a \in Drawn(winPtr, lineIdx)[r],
                      NEW b \in Drawn(winPtr, lineIdx)[r + 1]
               PROVE  b = a + 1
    BY DEF HistoryInOrder
  <2>1. CASE winPtr = Null
    <3>1. lineIdx = 0
      BY <2>1 DEF WindowInv, PtrInv
    <3>2. RowsDrawn = 0
      BY <3>1, NoRows, HeightAssumption DEF RowsDrawn
    <3> QED
      BY <3>2
  <2>2. CASE winPtr # Null
    <3>1. PICK j \in 1..Len(chain) : StartsAt(j)
      BY <2>2, StartedTrue DEF Started, Dangling
    <3> DEFINE n == Window(lineIdx)
               m == Lines(j, lineIdx)
    <3>2. /\ n \in 0..Height /\ Height \in Nat /\ saved \in Nat /\ Len(chain) \in Nat
          /\ RowsDrawn = m /\ m \in 0..n
      BY <3>1, WindowNumbers DEF StartsAt, Lines
    <3> HIDE DEF n, m
    <3>3. r \in Row /\ r + 1 \in Row /\ ~(r > n) /\ ~(r + 1 > n) /\ r <= m /\ r + 1 <= m
      BY <3>2 DEF Row
    <3>4. /\ Drawn(winPtr, lineIdx)[r] = {saved - j + r}
          /\ Drawn(winPtr, lineIdx)[r + 1] = {saved - j + (r + 1)}
      BY <3>1, <3>3 DEF StartsAt, n, m
    <3>5. a = saved - j + r /\ b = saved - j + (r + 1) /\ r \in Int /\ j \in Int
      BY <3>2, <3>3, <3>4 DEF Row
    <3> QED
      BY <3>2, <3>5
  <2> QED
    BY <2>1, <2>2
<1> QED
  BY <1>1, WindowInvariance, PTL

(* Every drawing is one of the window as the step leaves it.               *)
LEMMA DrawsWindow ==
  ASSUME WindowInv, [Next]_vars, Draws
  PROVE  \/ UNCHANGED screen /\ ~Running'
         \/ /\ screen' = Drawn(winPtr', lineIdx') /\ OnList'
            /\ UNCHANGED <<listVars, base, saved, fault>>
<1>1. WindowInv'
  BY WindowStep
<1>2. ASSUME UNCHANGED listVars, ~(winPtr' # Null /\ winPtr' \notin live /\ lineIdx' > 0)
      PROVE  OnList'
  <2>1. live' = live
    BY <1>2 DEF listVars
  <2>2. lineIdx' \in Nat /\ (winPtr' = Null => lineIdx' = 0)
    BY <1>1, HistAssumption DEF WindowInv, ListInv, ListTypes, PtrInv
  <2> QED
    BY <1>2, <2>1, <2>2 DEF OnList
<1>3. CASE HandleRedraw
  <2>1. CASE Stop("dangling")
    BY <2>1 DEF Stop, Running
  <2>2. CASE ~ Stop("dangling")
    <3>1. /\ ~(Dangling /\ lineIdx > 0) /\ screen' = Drawn(winPtr, lineIdx)
          /\ UNCHANGED <<listVars, winPtr, lineIdx, base, saved, fault>>
      BY <1>3, <2>2 DEF HandleRedraw, winVars
    <3> QED
      BY <1>2, <3>1 DEF Dangling
  <2> QED
    BY <2>1, <2>2
<1>4. ASSUME NEW n \in {1, Height}, KeyBack(n)
      PROVE  \/ UNCHANGED screen /\ ~Running'
             \/ /\ screen' = Drawn(winPtr', lineIdx') /\ OnList'
                /\ UNCHANGED <<listVars, base, saved, fault>>
  <2>1. CASE Stop("assert") \/ Stop("dangling")
    BY <2>1 DEF Stop, Running
  <2>2. CASE ~ (Stop("assert") \/ Stop("dangling"))
    <3>1. /\ ScrollStart # Null /\ ~Dangling
          /\ IF lineIdx >= MaxHist THEN ShowWindow(winPtr, lineIdx)
             ELSE ShowWindow(Back(n).ptr, Back(n).idx)
      BY <1>4, <2>2 DEF KeyBack
    <3>2. /\ screen' = Drawn(winPtr', lineIdx')
          /\ UNCHANGED <<listVars, base, saved, fault>>
      BY <3>1 DEF ShowWindow
    <3>3. CASE lineIdx >= MaxHist
      BY <1>2, <3>1, <3>2, <3>3 DEF ShowWindow, Dangling
    <3>4. CASE ~(lineIdx >= MaxHist)
      <4>1. PICK j \in 1..Len(chain) : ScrollStart = chain[j] /\ (~astray => lineIdx <= j)
        BY <3>1, StartsOnList
      <4>2. PICK q \in 1..Len(chain) : Back(n).ptr = chain[q]
        <5>1. ListInv /\ lineIdx \in 0..histCnt /\ n \in Nat
          BY HeightAssumption DEF WindowInv, PtrInv
        <5> QED
          BY <4>1, <5>1, BackMoves
      <4>3. winPtr' = chain[q] /\ chain[q] \in live
        BY <3>1, <3>4, <4>2, Parts DEF ShowWindow, WindowInv, ListInv, Allocated
      <4> QED
        BY <1>2, <3>2, <4>3
    <3> QED
      BY <3>3, <3>4
  <2> QED
    BY <2>1, <2>2
<1>5. ASSUME NEW n \in {1, Height}, KeyForward(n)
      PROVE  \/ UNCHANGED screen /\ ~Running'
             \/ /\ screen' = Drawn(winPtr', lineIdx') /\ OnList'
                /\ UNCHANGED <<listVars, base, saved, fault>>
  <2>1. CASE Stop("assert") \/ Stop("dangling")
    BY <2>1 DEF Stop, Running
  <2>2. CASE ~ (Stop("assert") \/ Stop("dangling"))
    <3>1. /\ ScrollStart # Null /\ ~(Dangling /\ lineIdx > 0)
          /\ IF lineIdx = 0 THEN ShowWindow(winPtr, lineIdx)
             ELSE ShowWindow(Forward(n).ptr, Forward(n).idx)
      BY <1>5, <2>2 DEF KeyForward
    <3>2. /\ screen' = Drawn(winPtr', lineIdx')
          /\ UNCHANGED <<listVars, base, saved, fault>>
      BY <3>1 DEF ShowWindow
    <3>3. CASE lineIdx = 0
      BY <1>2, <3>1, <3>2, <3>3 DEF ShowWindow
    <3>4. CASE lineIdx # 0
      <4>1. ~Dangling /\ lineIdx \in 0..histCnt
        BY <3>1, <3>4, HistAssumption DEF WindowInv, PtrInv, ListInv, ListTypes
      <4>2. PICK j \in 1..Len(chain) : ScrollStart = chain[j] /\ (~astray => lineIdx <= j)
        BY <3>1, <4>1, StartsOnList
      <4>3. PICK q \in 1..Len(chain) : Forward(n).ptr = chain[q]
        <5>1. ListInv /\ n \in Nat
          BY HeightAssumption DEF WindowInv
        <5> QED
          BY <4>1, <4>2, <5>1, ForwardMoves
      <4>4. winPtr' = chain[q] /\ chain[q] \in live
        BY <3>1, <3>4, <4>3, Parts DEF ShowWindow, WindowInv, ListInv, Allocated
      <4> QED
        BY <1>2, <3>2, <4>4
    <3> QED
      BY <3>3, <3>4
  <2> QED
    BY <2>1, <2>2
<1>6. CASE KeyTop
  <2>1. /\ screen' = Drawn(winPtr', lineIdx')
        /\ UNCHANGED <<listVars, base, saved, fault>>
    BY <1>6 DEF KeyTop, ShowWindow
  <2>2. CASE lineHist = Null
    <3>1. winPtr' = Null
      BY <1>6, <2>2 DEF KeyTop, ShowWindow, WindowInv, PtrInv
    <3> QED
      BY <1>2, <2>1, <3>1
  <2>3. CASE lineHist # Null
    <3>1. winPtr' = Oldest
      BY <1>6, <2>3 DEF KeyTop, ShowWindow
    <3>2. Newest /\ PrevNewer /\ Allocated /\ Len(chain) \in Nat
      BY Parts DEF WindowInv, ListInv, ListTypes
    <3>3. Len(chain) \in 1..Len(chain) /\ Oldest = chain[Len(chain)]
      BY <2>3, <3>2 DEF Oldest, Newest, PrevNewer
    <3>4. Oldest \in live
      BY <3>2, <3>3 DEF Allocated
    <3> QED
      BY <1>2, <2>1, <3>1, <3>4
  <2> QED
    BY <2>2, <2>3
<1>7. CASE KeyBottom
  <2>1. /\ screen' = Drawn(winPtr', lineIdx')
        /\ UNCHANGED <<listVars, base, saved, fault>> /\ winPtr' = Null
    BY <1>7 DEF KeyBottom, ShowWindow
  <2> QED
    BY <1>2, <2>1
<1> QED
  BY <1>3, <1>4, <1>5, <1>6, <1>7 DEF Draws

(* The rows of that drawing.                                               *)
LEMMA DrawnRows ==
  ASSUME WindowInv, [Next]_vars,
         screen' = Drawn(winPtr', lineIdx'), OnList',
         UNCHANGED <<listVars, base, saved, fault>>
  PROVE  /\ lineIdx' = 0 => screen' = [r \in Row |-> {FbLine(r)}]
         /\ lineIdx' # 0 => \E j \in 1..Len(chain) :
              /\ ~astray' => lineIdx' <= j
              /\ lineIdx' \in 0..Len(chain)
              /\ \A r \in Row :
                   screen'[r] = IF r > Window(lineIdx') THEN {base + r - Window(lineIdx')}
                                ELSE IF r <= Lines(j, lineIdx') THEN {saved - j + r}
                                ELSE screen[r]
<1>1. lineIdx' = 0 => screen' = [r \in Row |-> {FbLine(r)}]
  BY LiveDrawing
<1>2. ASSUME lineIdx' # 0
      PROVE  \E j \in 1..Len(chain) :
              /\ ~astray' => lineIdx' <= j
              /\ lineIdx' \in 0..Len(chain)
              /\ \A r \in Row :
                   screen'[r] = IF r > Window(lineIdx') THEN {base + r - Window(lineIdx')}
                                ELSE IF r <= Lines(j, lineIdx') THEN {saved - j + r}
                                ELSE screen[r]
  <2>1. WindowInv' /\ Started'
    BY WindowStep, StartedTrue, PTL
  <2>2. winPtr' \in live' /\ chain' = chain /\ histCnt' = histCnt
    BY <1>2 DEF OnList, listVars
  <2>3. PICK j \in 1..Len(chain) : winPtr' = chain[j] /\ (~astray' => lineIdx' <= j)
    BY <2>1, <2>2 DEF Started, StartsAt
  <2>4. Len(chain) = histCnt /\ lineIdx' \in 0..histCnt /\ histCnt \in Nat
    BY <2>1, <2>2, Parts DEF WindowInv, ListInv, ListTypes, PtrInv
  <2>5. \A r \in Row :
          screen'[r] = IF r > Window(lineIdx') THEN {base + r - Window(lineIdx')}
                       ELSE IF r <= Lines(j, lineIdx') THEN {saved - j + r}
                       ELSE screen[r]
    <3>1. DrawingIs /\ lineIdx' \in Nat
      BY <2>4, DrawingIsTrue DEF WindowInv
    <3> QED
      BY <2>3, <3>1 DEF DrawingIs
  <2> QED
    BY <2>3, <2>4, <2>5
<1> QED
  BY <1>1, <1>2

(* What a step does to the screen. *)
LEMMA ScreenStep ==
  ASSUME [Next]_vars
  PROVE  \/ UNCHANGED screen
         \/ Draws
         \/ \E r \in Row : screen' = [screen EXCEPT ![r] = @ \cup {FbLine(r)}]
<1>1. CASE CardScroll \/ NoMemory \/ \E c \in Cell : HandleScrollup(c)
  BY <1>1 DEF CardScroll, NoMemory, Stop, HandleScrollup
<1>2. CASE \E r \in Row : HandleChar(r)
  BY <1>2 DEF HandleChar
<1>3. CASE KeyDump \/ Shutdown
  BY <1>3 DEF KeyDump, Shutdown, Stop
<1>4. CASE UNCHANGED vars
  BY <1>4 DEF vars
<1> QED
  BY <1>1, <1>2, <1>3, <1>4 DEF Next, Draws

ScreenType == screen \in [Row -> SUBSET Nat]

LEMMA ScreenTypeStep ==
  ASSUME WindowInv, ScreenType, [Next]_vars
  PROVE  ScreenType'
<1> USE DEF ScreenType
<1>1. base \in Nat /\ saved \in Nat /\ Height \in Nat /\ \A r \in Row : r \in Nat
  BY WindowNumbers DEF Row
<1>2. CASE \E r \in Row : screen' = [screen EXCEPT ![r] = @ \cup {FbLine(r)}]
  <2>1. PICK r \in Row : screen' = [screen EXCEPT ![r] = @ \cup {FbLine(r)}]
    BY <1>2
  <2>2. screen[r] \cup {FbLine(r)} \in SUBSET Nat
    BY <1>1 DEF FbLine
  <2> QED
    BY <2>1, <2>2
<1>3. CASE Draws /\ ~ UNCHANGED screen
  <2>1. /\ screen' = Drawn(winPtr', lineIdx') /\ OnList'
        /\ UNCHANGED <<listVars, base, saved, fault>>
    BY <1>3, DrawsWindow
  <2>2. screen' = [r \in Row |-> screen'[r]]
    <3>1. screen' = Drawn(winPtr', lineIdx')
      BY <2>1
    <3> QED
      BY <3>1 DEF Drawn
  <2>3. CASE lineIdx' = 0
    <3>1. \A r \in Row : FbLine(r) \in Nat
      BY <1>1 DEF FbLine
    <3> QED
      BY <2>1, <2>3, <3>1, DrawnRows
  <2>4. CASE lineIdx' # 0
    <3>1. PICK j \in 1..Len(chain) :
            /\ lineIdx' \in 0..Len(chain)
            /\ \A r \in Row :
                   screen'[r] = IF r > Window(lineIdx') THEN {base + r - Window(lineIdx')}
                                ELSE IF r <= Lines(j, lineIdx') THEN {saved - j + r}
                                ELSE screen[r]
      BY <2>1, <2>4, DrawnRows
    <3>2. Len(chain) \in Nat /\ j \in Nat /\ saved - j + 1 >= 0
      <4>1. Len(chain) \in Nat /\ chain[j] \in Cell /\ line[chain[j]] \in Nat
            /\ line[chain[j]] = saved + 1 - j
        BY DEF WindowInv, ListInv, ListTypes, LinesCountDown
      <4> QED
        BY <1>1, <4>1
    <3>3. Window(lineIdx') \in Nat
      BY <1>1, <3>1 DEF Window
    <3>4. ASSUME NEW r \in Row PROVE screen'[r] \in SUBSET Nat
      <4>1. r > Window(lineIdx') => base + r - Window(lineIdx') \in Nat
        BY <1>1, <3>3 DEF Row
      <4>2. saved - j + r \in Nat
        BY <1>1, <3>2 DEF Row
      <4> QED
        BY <3>1, <4>1, <4>2
    <3> QED
      BY <2>2, <3>4
  <2> QED
    BY <2>3, <2>4
<1> QED
  BY <1>2, <1>3, ScreenStep

LEMMA FaultStep ==
  ASSUME [Next]_vars, fault \in {"none", "assert", "dangling", "segv", "exit"}
  PROVE  fault' \in {"none", "assert", "dangling", "segv", "exit"}
<1>1. CASE CardScroll \/ \E c \in Cell : HandleScrollup(c)
  BY <1>1 DEF CardScroll, HandleScrollup
<1>2. CASE NoMemory \/ HandleRedraw \/ \E r \in Row : HandleChar(r)
  BY <1>2 DEF NoMemory, HandleRedraw, HandleChar, Stop
<1>3. CASE \E n \in {1, Height} : KeyBack(n) \/ KeyForward(n)
  BY <1>3 DEF KeyBack, KeyForward, Stop, ShowWindow
<1>4. CASE KeyTop \/ KeyBottom \/ KeyDump \/ Shutdown
  BY <1>4 DEF KeyTop, KeyBottom, ShowWindow, KeyDump, Shutdown, Stop
<1>5. CASE UNCHANGED vars
  BY <1>5 DEF vars
<1> QED
  BY <1>1, <1>2, <1>3, <1>4, <1>5 DEF Next

LEMMA AstrayStep ==
  ASSUME [Next]_vars, astray \in BOOLEAN
  PROVE  astray' \in BOOLEAN
<1>1. CASE \E c \in Cell : HandleScrollup(c)
  BY <1>1 DEF HandleScrollup, Grow, Replace
<1>2. CASE NoMemory \/ CardScroll \/ HandleRedraw \/ \E r \in Row : HandleChar(r)
  BY <1>2 DEF NoMemory, CardScroll, HandleRedraw, HandleChar, Stop, winVars
<1>3. CASE \E n \in {1, Height} : KeyBack(n) \/ KeyForward(n)
  BY <1>3 DEF KeyBack, KeyForward, Stop, winVars
<1>4. CASE KeyTop \/ KeyBottom
  BY <1>4 DEF KeyTop, KeyBottom
<1>5. CASE KeyDump \/ Shutdown \/ UNCHANGED vars
  BY <1>5 DEF KeyDump, Shutdown, Stop, winVars, vars
<1> QED
  BY <1>1, <1>2, <1>3, <1>4, <1>5 DEF Next

OtherTypes ==
  /\ ScreenType
  /\ dump \in Seq(Nat)
  /\ fault \in {"none", "assert", "dangling", "segv", "exit"}
  /\ astray \in BOOLEAN

(* Every variable keeps its type; line_idx stays within the history.       *)
THEOREM TypesCorrect == Spec => []TypeOK
<1>1. Init => OtherTypes
  <2> SUFFICES ASSUME Init PROVE OtherTypes
    OBVIOUS
  <2>1. ScreenType
    <3>1. screen = [r \in Row |-> {}]
      BY DEF Init
    <3> QED
      BY <3>1 DEF ScreenType
  <2>2. dump \in Seq(Nat) /\ fault = "none" /\ astray = FALSE
    BY DEF Init
  <2> QED
    BY <2>1, <2>2 DEF OtherTypes
<1>2. WindowInv /\ OtherTypes /\ [Next]_vars => OtherTypes'
  <2> SUFFICES ASSUME WindowInv, OtherTypes, [Next]_vars PROVE OtherTypes'
    OBVIOUS
  <2>1. ScreenType'
    BY ScreenTypeStep DEF OtherTypes
  <2>2. dump' \in Seq(Nat)
    <3>1. CASE dump' = << >>
      BY <3>1
    <3>2. CASE lineHist # Null /\ dump' = DumpText /\ UNCHANGED <<listVars, base, saved>>
      BY <3>2, DumpWritten DEF WindowInv
    <3>3. CASE UNCHANGED vars
      BY <3>3 DEF vars, OtherTypes
    <3> QED
      BY <3>1, <3>2, <3>3, DumpStep
  <2> QED
    BY <2>1, <2>2, FaultStep, AstrayStep DEF OtherTypes
<1>3. WindowInv /\ OtherTypes => TypeOK
  <2> SUFFICES ASSUME WindowInv, OtherTypes PROVE TypeOK
    OBVIOUS
  <2>1. /\ Allocated /\ Newest /\ Len(chain) \in Nat
        /\ \A i \in 1..Len(chain) : chain[i] \in Cell
    BY Parts DEF WindowInv, ListInv, ListTypes
  <2>2. live \subseteq Cell /\ lineHist \in Cell \cup {Null}
    BY <2>1 DEF Allocated, Newest
  <2>3. lineIdx \in 0..MaxHist
    BY HistAssumption DEF WindowInv, ListInv, ListTypes, PtrInv
  <2> QED
    BY <2>2, <2>3 DEF TypeOK, WindowInv, ListInv, ListTypes, PtrInv, OtherTypes, ScreenType
<1> QED
  BY <1>1, <1>2, <1>3, WindowInvariance, PTL DEF Spec

-----------------------------------------------------------------------------
(* The reader, and single characters. *)

(* Where the window is after a step of output: on the same line, which is  *)
(* one further from the newest if a line was saved.                        *)
LEMMA SameLine ==
  ASSUME WindowInv, [Next]_vars, Output, lineIdx > 0, ~astray', Running',
         NEW j \in 1..Len(chain), StartsAt(j),
         NEW k \in 1..Len(chain'), winPtr' = chain'[k]
  PROVE  /\ saved' - k = saved - j /\ k >= j /\ UNCHANGED lineIdx
         /\ UNCHANGED screen \/ (HandleRedraw /\ screen' = Drawn(winPtr, lineIdx))
<1>1. winPtr = chain[j] /\ Distinct /\ Allocated /\ Len(chain) \in Nat /\ saved \in Nat
  BY Parts DEF StartsAt, WindowInv, ListInv, ListTypes
<1>2. CASE HandleRedraw \/ CardScroll
  <2>1. UNCHANGED <<winPtr, lineIdx, chain, saved>>
    BY <1>2 DEF HandleRedraw, CardScroll, Stop, listVars, winVars
  <2>2. k = j
    BY <1>1, <2>1 DEF Distinct
  <2>3. UNCHANGED screen \/ (HandleRedraw /\ screen' = Drawn(winPtr, lineIdx))
    BY <1>2 DEF HandleRedraw, CardScroll, Stop
  <2> QED
    BY <1>1, <2>1, <2>2, <2>3
<1>3. CASE \E c \in Cell : HandleScrollup(c)
  <2>1. PICK c \in Cell : HandleScrollup(c)
    BY <1>3
  <2>2. /\ c \notin live /\ saved' = saved + 1
        /\ UNCHANGED <<winPtr, lineIdx, screen>>
    BY <2>1 DEF HandleScrollup
  <2> DEFINE n == Len(chain)
             m == IF n < MaxHist THEN n + 1 ELSE n
  <2>3. /\ n \in 0..MaxHist /\ Len(chain') = m /\ MaxHist \in Nat
        /\ \A i \in 1..m : chain'[i] = IF i = 1 THEN c ELSE chain[i - 1]
    BY <2>1, SavedInFront, HistAssumption DEF WindowInv
  <2>4. chain[j] # c
    BY <1>1, <2>2 DEF Allocated
  <2>5. k # 1 /\ k - 1 \in 1..n /\ chain[k - 1] = chain[j]
    <3>1. k \in 1..m /\ chain'[k] = chain[j] /\ m \in Nat /\ m <= n + 1 /\ n \in Nat
      BY <1>1, <2>2, <2>3
    <3>2. k # 1
      BY <2>3, <2>4, <3>1
    <3> HIDE DEF m, n
    <3>3. k - 1 \in 1..n
      BY <3>1, <3>2
    <3> QED
      BY <2>3, <3>1, <3>2, <3>3
  <2>6. k - 1 = j
    BY <1>1, <2>5 DEF Distinct
  <2> QED
    BY <1>1, <2>2, <2>3, <2>6
<1> QED
  BY <1>2, <1>3 DEF Output

LEMMA ReaderStep ==
  ASSUME WindowInv, [Next]_vars, Output, lineIdx >= Height, ~astray', Running'
  PROVE  /\ RowsDrawn <= RowsDrawn'
         /\ \A r \in 1..RowsDrawn : Shows(r) => Shows(r)' /\ screen'[r] = screen[r]
<1>1. WindowInv' /\ Started'
  BY WindowStep, StartedTrue, PTL
<1>2. /\ Height \in Nat /\ Height >= 1 /\ lineIdx \in Nat /\ lineIdx > 0
      /\ Len(chain) \in Nat /\ saved \in Nat
  BY WindowNumbers
<1>3. astray => astray'
  BY DEF Output, HandleRedraw, CardScroll, HandleScrollup, Grow, Replace, Stop, winVars
<1>4. UNCHANGED <<winPtr, lineIdx>>
  BY DEF Output, HandleRedraw, CardScroll, HandleScrollup, Stop, winVars
<1>5. winPtr \in live
  <2>1. winPtr # Null
    BY <1>2 DEF WindowInv, PtrInv
  <2>2. PICK i \in 1..histCnt : winPtr = chain[i]
    BY <1>3, <2>1 DEF WindowInv, Behind
  <2> QED
    BY <2>2, Parts DEF WindowInv, ListInv, Allocated
<1>6. winPtr' \in live'
  <2>1. winPtr' # Null /\ ~astray'
    BY <1>2, <1>4 DEF WindowInv, PtrInv
  <2>2. PICK i \in 1..histCnt' : winPtr' = chain'[i]
    BY <1>1, <2>1 DEF WindowInv, Behind
  <2>3. Len(chain') = histCnt' /\ Allocated'
    BY <1>1, PartsPrime DEF WindowInv, ListInv
  <2> QED
    BY <2>2, <2>3 DEF Allocated
<1>7. PICK j \in 1..Len(chain) : StartsAt(j)
  BY <1>5, StartedTrue DEF Started
<1>8. PICK k \in 1..Len(chain') : StartsAt(k)'
  BY <1>1, <1>6 DEF Started
<1>9. /\ saved' - k = saved - j /\ k >= j
      /\ UNCHANGED screen \/ (HandleRedraw /\ screen' = Drawn(winPtr, lineIdx))
  <2>1. winPtr' = chain'[k]
    BY <1>8 DEF StartsAt
  <2> QED
    BY <1>2, <1>7, <2>1, SameLine
<1>10. /\ Window(lineIdx) = Height
       /\ RowsDrawn = Lines(j, lineIdx) /\ RowsDrawn' = Lines(k, lineIdx)
  <2>1. Window(lineIdx) = Height
    BY <1>2 DEF Window
  <2>2. Lines(k, lineIdx)' = Lines(k, lineIdx)
    BY <1>4 DEF Lines, Window
  <2> QED
    BY <1>7, <1>8, <2>1, <2>2 DEF StartsAt
<1>11. j \in Nat /\ k \in Nat
  BY <1>2, <1>9, <1>8, <1>1, Parts DEF WindowInv, ListInv, ListTypes
<1>12. /\ Lines(j, lineIdx) <= Lines(k, lineIdx) /\ Lines(j, lineIdx) \in 0..Height
       /\ Lines(k, lineIdx) \in 0..Height
  BY <1>2, <1>9, <1>10, <1>11 DEF Lines
<1>13. ASSUME NEW r \in 1..RowsDrawn, Shows(r)
       PROVE  Shows(r)' /\ screen'[r] = screen[r]
  <2>1. r \in Row /\ ~(r > Window(lineIdx)) /\ r <= Lines(j, lineIdx) /\ r <= Lines(k, lineIdx)
    <3>1. r \in 1..Height /\ r <= Lines(j, lineIdx)
      BY <1>2, <1>10, <1>12
    <3> QED
      BY <1>2, <1>10, <1>12, <3>1 DEF Row
  <2>2. Drawn(winPtr, lineIdx)[r] = {saved - j + r}
    BY <1>7, <2>1 DEF StartsAt
  <2>3. (Drawn(winPtr, lineIdx)[r])' = {saved' - k + r}
    <3>1. ~(r > Window(lineIdx)') /\ r <= Lines(k, lineIdx)'
      BY <1>4, <2>1 DEF Lines, Window
    <3> QED
      BY <1>8, <2>1, <3>1 DEF StartsAt
  <2>4. screen'[r] = screen[r]
    BY <1>9, <1>13 DEF Shows
  <2>5. screen[r] = {saved - j + r}
    BY <1>13, <2>2 DEF Shows
  <2> QED
    BY <1>9, <2>3, <2>4, <2>5 DEF Shows
<1> QED
  BY <1>10, <1>12, <1>13

(* While the window lies wholly in the history, a row that shows a line of *)
(* it keeps showing it, whatever is output.                                *)
THEOREM ReaderIsUndisturbed == Spec => ReaderUndisturbed
<1>1. WindowInv /\ [Next]_vars =>
        [Output /\ lineIdx >= Height /\ ~astray' /\ Running' =>
          /\ RowsDrawn <= RowsDrawn'
          /\ \A r \in 1..RowsDrawn : Shows(r) => Shows(r)' /\ screen'[r] = screen[r]]_vars
  BY ReaderStep
<1> QED
  BY <1>1, WindowInvariance, PTL DEF Spec, ReaderUndisturbed

(* At the live end. *)
LEMMA LiveRowStays ==
  ASSUME WindowInv, ScreenType, [Next]_vars, lineIdx' = 0, base' = base,
         NEW r \in Row, screen[r] = {FbLine(r)}
  PROVE  screen'[r] = screen[r]
<1>1. CASE UNCHANGED screen
  BY <1>1
<1>2. CASE \E q \in Row : screen' = [screen EXCEPT ![q] = @ \cup {FbLine(q)}]
  <2>1. PICK q \in Row : screen' = [screen EXCEPT ![q] = @ \cup {FbLine(q)}]
    BY <1>2
  <2>2. screen'[r] = IF r = q THEN screen[q] \cup {FbLine(q)} ELSE screen[r]
    BY <2>1 DEF ScreenType
  <2> QED
    BY <2>2
<1>3. CASE Draws /\ ~ UNCHANGED screen
  <2>1. screen' = [i \in Row |-> {FbLine(i)}]
    BY <1>3, DrawsWindow, DrawnRows
  <2> QED
    BY <2>1
<1> QED
  BY <1>1, <1>2, <1>3, ScreenStep

(* After a drawing. *)
LEMMA AtMostOneUndrawn ==
  ASSUME WindowInv, [Next]_vars, Draws, Running', ~astray'
  PROVE  Cardinality({r \in Row : Cardinality(screen'[r]) # 1})
           <= (IF lineIdx' = 0 THEN 0 ELSE 1)
<1> DEFINE Bad == {r \in Row : Cardinality(screen'[r]) # 1}
<1>1. /\ screen' = Drawn(winPtr', lineIdx') /\ OnList'
      /\ UNCHANGED <<listVars, base, saved, fault>>
  BY DrawsWindow
<1>2. CASE lineIdx' = 0
  <2>1. screen' = [r \in Row |-> {FbLine(r)}]
    BY <1>1, <1>2, DrawnRows
  <2>2. \A r \in Row : Cardinality(screen'[r]) = 1
    BY <2>1, FS_Singleton
  <2>3. Bad = {}
    BY <2>2
  <2> HIDE DEF Bad
  <2> QED
    BY <1>2, <2>3, FS_EmptySet DEF Bad
<1>3. CASE lineIdx' # 0
  <2>1. PICK j \in 1..Len(chain) :
          /\ lineIdx' <= j
          /\ lineIdx' \in 0..Len(chain)
          /\ \A r \in Row :
               screen'[r] = IF r > Window(lineIdx') THEN {base + r - Window(lineIdx')}
                            ELSE IF r <= Lines(j, lineIdx') THEN {saved - j + r}
                            ELSE screen[r]
    BY <1>1, <1>3, DrawnRows
  <2> DEFINE n == Window(lineIdx')
             m == Lines(j, lineIdx')
  <2>2. n \in Nat /\ m \in Nat /\ m >= n - 1
    BY <2>1, WindowNumbers DEF Window, Lines
  <2> HIDE DEF n, m
  <2>3. ASSUME NEW r \in Row, r # n PROVE Cardinality(screen'[r]) = 1
    <3>1. r > n \/ r <= m
      BY <2>2, <2>3, HeightAssumption DEF Row
    <3>2. screen'[r] = {base + r - n} \/ screen'[r] = {saved - j + r}
      BY <2>1, <3>1 DEF n, m
    <3> QED
      BY <3>2, FS_Singleton
  <2>4. Bad \subseteq {n}
    BY <2>3
  <2>5. Cardinality(Bad) <= 1
    BY <2>4, AtMostOne
  <2> QED
    BY <1>3, <2>5
<1> QED
  BY <1>2, <1>3

(* Single characters do no lasting harm.                                   *)
THEOREM CharactersAlwaysPass == Spec => CharactersPass
<1>1. WindowInv /\ TypeOK /\ [Next]_vars =>
        [ /\ lineIdx = 0 /\ lineIdx' = 0 /\ base' = base =>
               \A r \in Row : screen[r] = {FbLine(r)} => screen'[r] = screen[r]
          /\ Draws /\ Running' /\ ~astray' =>
               Cardinality({r \in Row : Cardinality(screen'[r]) # 1})
                 <= (IF lineIdx' = 0 THEN 0 ELSE 1)]_vars
  <2> SUFFICES ASSUME WindowInv, TypeOK, [Next]_vars
               PROVE  /\ lineIdx = 0 /\ lineIdx' = 0 /\ base' = base =>
                           \A r \in Row : screen[r] = {FbLine(r)} => screen'[r] = screen[r]
                      /\ Draws /\ Running' /\ ~astray' =>
                           Cardinality({r \in Row : Cardinality(screen'[r]) # 1})
                             <= (IF lineIdx' = 0 THEN 0 ELSE 1)
    OBVIOUS
  <2>1. ScreenType
    BY DEF TypeOK, ScreenType
  <2> QED
    BY <2>1, LiveRowStays, AtMostOneUndrawn
<1> QED
  BY <1>1, WindowInvariance, TypesCorrect, PTL DEF Spec, CharactersPass
=============================================================================
