-------------------------- MODULE LineHistoryProofs --------------------------
(***************************************************************************)
(* The ring of saved lines, for every memory, every height of the window   *)
(* and every MaxHist >= 2.                                                 *)
(***************************************************************************)
EXTENDS LineHistory, SequenceTheorems, TLAPS

ListTypes ==
  /\ line \in [Cell -> Nat]
  /\ next \in [Cell -> Cell \cup {Null}]
  /\ prev \in [Cell -> Cell \cup {Null}]
  /\ chain \in Seq(Cell)
  /\ histCnt \in 0..MaxHist
  /\ base \in Nat /\ saved \in {base, base + 1}

(* The lines along the ring count down from the last one saved.            *)
LinesCountDown == \A i \in 1..Len(chain) : line[chain[i]] = saved + 1 - i

ListInv == ListTypes /\ ListIntact /\ LinesCountDown

-----------------------------------------------------------------------------
(* Sequences: an element put in front, and the last one taken away. *)

LEMMA Cons ==
  ASSUME NEW S, NEW s \in Seq(S), NEW c \in S
  PROVE  /\ <<c>> \o s \in Seq(S)
         /\ Len(<<c>> \o s) = Len(s) + 1
         /\ (<<c>> \o s)[1] = c
         /\ \A i \in 2..(Len(s) + 1) : (<<c>> \o s)[i] = s[i - 1]
OBVIOUS

LEMMA AllButLast ==
  ASSUME NEW S, NEW s \in Seq(S), s # << >>
  PROVE  LET f == SubSeq(s, 1, Len(s) - 1) IN
         /\ f \in Seq(S)
         /\ Len(f) = Len(s) - 1
         /\ \A i \in 1..(Len(s) - 1) : f[i] = s[i]
<1> DEFINE m == Len(s) - 1
<1>1. m \in Nat /\ \A i \in 1..m : s[i] \in S
  OBVIOUS
<1>2. 1 \in Int /\ m \in Int
  BY <1>1
<1> HIDE DEF m
<1>3. /\ SubSeq(s, 1, m) \in Seq(S)
      /\ Len(SubSeq(s, 1, m)) = IF 1 <= m THEN m - 1 + 1 ELSE 0
      /\ \A i \in 1..(m - 1 + 1) : SubSeq(s, 1, m)[i] = s[1 + i - 1]
  BY <1>1, <1>2, SubSeqProperties
<1>4. m - 1 + 1 = m /\ \A i \in 1..m : 1 + i - 1 = i
  BY <1>1
<1>5. Len(SubSeq(s, 1, m)) = m
  BY <1>1, <1>3, <1>4
<1> QED
  BY <1>3, <1>4, <1>5 DEF m

-----------------------------------------------------------------------------
LEMMA InitList == Init => ListInv
<1> SUFFICES ASSUME Init PROVE ListInv
  OBVIOUS
<1>1. ListTypes
  BY HistAssumption DEF Init, ListTypes
<1>2. ListIntact
  BY DEF Init, ListIntact
<1>3. LinesCountDown
  BY DEF Init, LinesCountDown
<1> QED
  BY <1>1, <1>2, <1>3 DEF ListInv

(* The parts of ListIntact by name. *)
Distinct == \A i, j \in 1..Len(chain) : i # j => chain[i] # chain[j]
Allocated == live = {chain[i] : i \in 1..Len(chain)}
NextOlder ==
  \A i \in 1..Len(chain) :
    next[chain[i]] = IF i = Len(chain) THEN Null ELSE chain[i + 1]
PrevNewer ==
  \A i \in 1..Len(chain) :
    prev[chain[i]] = IF i = 1 THEN chain[Len(chain)] ELSE chain[i - 1]
Newest == lineHist = IF Len(chain) = 0 THEN Null ELSE chain[1]

LEMMA Parts ==
  ListIntact <=> /\ Len(chain) = histCnt /\ Distinct /\ Allocated
                 /\ Newest /\ NextOlder /\ PrevNewer
BY DEF ListIntact, Distinct, Allocated, Newest, NextOlder, PrevNewer

LEMMA PartsPrime ==
  ListIntact' <=> /\ Len(chain') = histCnt' /\ Distinct' /\ Allocated'
                  /\ Newest' /\ NextOlder' /\ PrevNewer'
BY DEF ListIntact, Distinct, Allocated, Newest, NextOlder, PrevNewer

(* handle_scrollup while there is room. *)
LEMMA GrowStep ==
  ASSUME ListInv, NEW c \in Cell \ live, Grow(c), lineHist' = c
  PROVE  /\ chain' \in Seq(Cell) /\ histCnt' \in 0..MaxHist
         /\ next' \in [Cell -> Cell \cup {Null}]
         /\ prev' \in [Cell -> Cell \cup {Null}]
         /\ ListIntact'
<1> DEFINE n == Len(chain)
<1>1. /\ ListTypes
      /\ n = histCnt /\ Distinct /\ Allocated /\ Newest /\ NextOlder /\ PrevNewer
  BY Parts DEF ListInv
<1>2. /\ n \in Nat /\ c \in Cell
      /\ \A i \in 1..n : chain[i] \in Cell /\ chain[i] # c
  BY <1>1 DEF ListTypes, Allocated
<1>3. /\ chain' \in Seq(Cell) /\ Len(chain') = n + 1
      /\ \A i \in 1..(n + 1) : chain'[i] = IF i = 1 THEN c ELSE chain[i - 1]
  <2>1. chain \in Seq(Cell) /\ chain' = <<c>> \o chain
    BY <1>1 DEF Grow, ListTypes
  <2> QED
    BY <1>2, <2>1, Cons
<1>4. histCnt' \in 0..MaxHist /\ histCnt' = n + 1
  BY <1>1, HistAssumption DEF Grow, ListTypes
<1>5. n # 0 => lineHist = chain[1] /\ Oldest = chain[n]
  BY <1>1, <1>2 DEF Newest, PrevNewer, Oldest
<1>6. /\ next' = [next EXCEPT ![c] = lineHist]
      /\ lineHist \in Cell \cup {Null}
  BY <1>1, <1>2 DEF Grow, Newest
<1>7. prev' = IF n = 0 THEN [prev EXCEPT ![c] = c]
              ELSE [prev EXCEPT ![c] = chain[n], ![chain[1]] = c]
  <2>1. lineHist = Null <=> n = 0
    BY <1>1, <1>2, NullAssumption DEF Newest
  <2> QED
    BY <1>5, <2>1 DEF Grow
<1>8. next' \in [Cell -> Cell \cup {Null}]
  BY <1>1, <1>2, <1>6 DEF ListTypes
<1>9. prev' \in [Cell -> Cell \cup {Null}]
  <2>1. CASE n = 0
    BY <1>1, <1>2, <1>7, <2>1 DEF ListTypes
  <2>2. CASE n # 0
    <3>1. chain[1] \in Cell /\ chain[n] \in Cell
      BY <1>2, <2>2
    <3> QED
      BY <1>1, <1>2, <1>7, <2>2, <3>1 DEF ListTypes
  <2> QED
    BY <2>1, <2>2
<1>10. Distinct'
  BY <1>1, <1>2, <1>3 DEF Distinct
<1>11. Allocated'
  <2>1. live' = live \cup {c}
    BY DEF Grow
  <2>2. ASSUME NEW x \in live PROVE \E i \in 1..(n + 1) : x = chain'[i]
    <3>1. PICK i \in 1..n : x = chain[i]
      BY <1>1, <2>2 DEF Allocated
    <3>2. i + 1 \in 1..(n + 1) /\ chain'[i + 1] = chain[i]
      BY <1>2, <1>3, <3>1
    <3> QED
      BY <3>1, <3>2
  <2>3. ASSUME NEW i \in 1..(n + 1) PROVE chain'[i] \in live \cup {c}
    <3>1. CASE i = 1
      BY <1>3, <3>1
    <3>2. CASE i # 1
      <4>1. i - 1 \in 1..n /\ chain'[i] = chain[i - 1]
        BY <1>2, <1>3, <3>2
      <4> QED
        BY <1>1, <4>1 DEF Allocated
    <3> QED
      BY <3>1, <3>2
  <2>4. 1 \in 1..(n + 1) /\ chain'[1] = c
    BY <1>2, <1>3
  <2>5. ASSUME NEW x PROVE x \in live' <=> \E i \in 1..(n + 1) : x = chain'[i]
    BY <2>1, <2>2, <2>3, <2>4
  <2> HIDE DEF n
  <2> QED
    BY <1>3, <2>5 DEF Allocated
<1>12. NextOlder'
  <2> SUFFICES ASSUME NEW i \in 1..(n + 1)
               PROVE  next'[chain'[i]] = IF i = n + 1 THEN Null ELSE chain'[i + 1]
    BY <1>3 DEF NextOlder
  <2>1. CASE i = 1
    BY <1>1, <1>2, <1>3, <1>6, <2>1 DEF ListTypes, Newest
  <2>2. CASE i # 1
    <3>1. i - 1 \in 1..n /\ chain'[i] = chain[i - 1]
      BY <1>2, <1>3, <2>2
    <3>2. next'[chain'[i]] = next[chain[i - 1]]
      BY <1>1, <1>2, <1>6, <3>1 DEF ListTypes
    <3>3. next[chain[i - 1]] = IF i - 1 = n THEN Null ELSE chain[(i - 1) + 1]
      BY <1>1, <3>1 DEF NextOlder
    <3>4. i # n + 1 => i + 1 \in 2..(n + 1) /\ chain'[i + 1] = chain[i]
      BY <1>2, <1>3, <3>1
    <3> QED
      BY <1>2, <3>1, <3>2, <3>3, <3>4
  <2> QED
    BY <2>1, <2>2
<1>13. PrevNewer'
  <2> SUFFICES ASSUME NEW i \in 1..(n + 1)
               PROVE  prev'[chain'[i]] =
                        IF i = 1 THEN chain'[n + 1] ELSE chain'[i - 1]
    BY <1>3 DEF PrevNewer
  <2>1. CASE n = 0
    BY <1>1, <1>2, <1>3, <1>7, <2>1 DEF ListTypes
  <2>2. CASE n # 0 /\ i = 1
    BY <1>1, <1>2, <1>3, <1>7, <2>2 DEF ListTypes
  <2>3. CASE n # 0 /\ i = 2
    BY <1>1, <1>2, <1>3, <1>7, <2>3 DEF ListTypes
  <2>4. CASE i > 2
    <3>1. /\ i - 1 \in 1..n /\ i - 2 \in 1..n /\ i - 1 # 1 /\ (i - 1) - 1 = i - 2
          /\ chain'[i] = chain[i - 1] /\ chain'[i - 1] = chain[i - 2]
      BY <1>2, <1>3, <2>4
    <3>2. chain[i - 1] # chain[1]
      BY <1>1, <1>2, <3>1 DEF Distinct
    <3>3. prev'[chain'[i]] = prev[chain[i - 1]]
      BY <1>1, <1>2, <1>7, <3>1, <3>2 DEF ListTypes
    <3> QED
      BY <1>1, <2>4, <3>1, <3>3 DEF PrevNewer
  <2> QED
    BY <1>2, <2>1, <2>2, <2>3, <2>4
<1>14. Newest'
  BY <1>2, <1>3 DEF Newest
<1> QED
  BY <1>3, <1>4, <1>8, <1>9, <1>10, <1>11, <1>12, <1>13, <1>14, PartsPrime

(* handle_scrollup when the history is full. *)
LEMMA ReplaceStep ==
  ASSUME ListInv, NEW c \in Cell \ live, Replace(c), lineHist' = c
  PROVE  /\ chain' \in Seq(Cell) /\ histCnt' \in 0..MaxHist
         /\ next' \in [Cell -> Cell \cup {Null}]
         /\ prev' \in [Cell -> Cell \cup {Null}]
         /\ ListIntact'
<1> DEFINE n == Len(chain)
<1>1. /\ ListTypes
      /\ n = histCnt /\ Distinct /\ Allocated /\ Newest /\ NextOlder /\ PrevNewer
  BY Parts DEF ListInv
<1>2. /\ n \in Nat /\ n >= 2 /\ c \in Cell
      /\ \A i \in 1..n : chain[i] \in Cell /\ chain[i] # c
  <2>1. n \in Nat /\ c \in Cell /\ \A i \in 1..n : chain[i] \in Cell
    BY <1>1 DEF ListTypes
  <2>2. histCnt = MaxHist
    BY DEF Replace
  <2>3. n >= 2
    BY <1>1, <2>2, HistAssumption
  <2>4. \A i \in 1..n : chain[i] # c
    BY <1>1 DEF Allocated
  <2> QED
    BY <2>1, <2>3, <2>4
<1>3. /\ chain' \in Seq(Cell) /\ Len(chain') = n
      /\ \A i \in 1..n : chain'[i] = IF i = 1 THEN c ELSE chain[i - 1]
  <2> DEFINE front == SubSeq(chain, 1, n - 1)
  <2>1. chain \in Seq(Cell) /\ chain # << >>
    BY <1>1, <1>2 DEF ListTypes
  <2>2. /\ front \in Seq(Cell) /\ Len(front) = n - 1
        /\ \A i \in 1..(n - 1) : front[i] = chain[i]
    BY <2>1, AllButLast
  <2>3. chain' = <<c>> \o front
    BY DEF Replace
  <2> HIDE DEF front
  <2>4. /\ chain' \in Seq(Cell) /\ Len(chain') = n /\ chain'[1] = c
        /\ \A i \in 2..n : chain'[i] = front[i - 1]
    BY <1>2, <2>2, <2>3, Cons
  <2> QED
    BY <1>2, <2>2, <2>4
<1>4. histCnt' = n /\ histCnt' \in 0..MaxHist
  BY <1>1 DEF Replace, ListTypes
<1>5. lineHist = chain[1] /\ Oldest = chain[n] /\ prev[Oldest] = chain[n - 1]
  BY <1>1, <1>2 DEF Newest, PrevNewer, Oldest
<1>6. next' = [next EXCEPT ![chain[n - 1]] = Null, ![c] = chain[1]]
  BY <1>5 DEF Replace
<1>7. prev' = [prev EXCEPT ![c] = chain[n - 1], ![chain[1]] = c]
  BY <1>5 DEF Replace
<1>8. chain[1] \in Cell /\ chain[n - 1] \in Cell /\ chain[n] \in Cell
  BY <1>2
<1>9. /\ next' \in [Cell -> Cell \cup {Null}]
      /\ prev' \in [Cell -> Cell \cup {Null}]
  BY <1>1, <1>2, <1>6, <1>7, <1>8 DEF ListTypes
<1>10. Distinct'
  BY <1>1, <1>2, <1>3 DEF Distinct
<1>11. Allocated'
  <2>1. live' = (live \cup {c}) \ {chain[n]}
    BY <1>5 DEF Replace
  <2>2. ASSUME NEW x \in live' PROVE \E i \in 1..n : x = chain'[i]
    <3>1. CASE x = c
      BY <1>2, <1>3, <3>1
    <3>2. CASE x # c
      <4>1. PICK i \in 1..n : x = chain[i]
        BY <1>1, <2>1, <2>2, <3>2 DEF Allocated
      <4>2. i # n
        BY <2>1, <2>2, <4>1
      <4>3. i + 1 \in 1..n /\ chain'[i + 1] = chain[i]
        BY <1>2, <1>3, <4>1, <4>2
      <4> QED
        BY <4>1, <4>3
    <3> QED
      BY <3>1, <3>2
  <2>3. ASSUME NEW i \in 1..n PROVE chain'[i] \in live'
    <3>1. CASE i = 1
      BY <1>2, <1>3, <1>8, <2>1, <3>1
    <3>2. CASE i # 1
      <4>1. i - 1 \in 1..n /\ i - 1 # n /\ chain'[i] = chain[i - 1]
        BY <1>2, <1>3, <3>2
      <4>2. chain[i - 1] # chain[n] /\ chain[i - 1] \in live
        BY <1>1, <1>2, <4>1 DEF Distinct, Allocated
      <4> QED
        BY <2>1, <4>1, <4>2
    <3> QED
      BY <3>1, <3>2
  <2>4. ASSUME NEW x PROVE x \in live' <=> \E i \in 1..n : x = chain'[i]
    BY <2>2, <2>3
  <2> HIDE DEF n
  <2> QED
    BY <1>3, <2>4 DEF Allocated
<1>12. NextOlder'
  <2> SUFFICES ASSUME NEW i \in 1..n
               PROVE  next'[chain'[i]] = IF i = n THEN Null ELSE chain'[i + 1]
    BY <1>3 DEF NextOlder
  <2>1. CASE i = 1
    BY <1>1, <1>2, <1>3, <1>6, <2>1 DEF ListTypes
  <2>2. CASE i # 1
    <3>1. i - 1 \in 1..n /\ chain'[i] = chain[i - 1] /\ chain[i - 1] # c
      BY <1>2, <1>3, <2>2
    <3>2. CASE i = n
      BY <1>1, <1>2, <1>6, <1>8, <3>1, <3>2 DEF ListTypes
    <3>3. CASE i # n
      <4>1. chain[i - 1] # chain[n - 1]
        BY <1>1, <1>2, <2>2, <3>1, <3>3 DEF Distinct
      <4>2. next'[chain'[i]] = next[chain[i - 1]]
        BY <1>1, <1>2, <1>6, <3>1, <4>1 DEF ListTypes
      <4>3. next[chain[i - 1]] = chain[(i - 1) + 1]
        BY <1>1, <1>2, <3>1, <3>3 DEF NextOlder
      <4>4. i + 1 \in 2..n /\ chain'[i + 1] = chain[i]
        BY <1>2, <1>3, <3>3
      <4> QED
        BY <3>3, <4>2, <4>3, <4>4
    <3> QED
      BY <3>2, <3>3
  <2> QED
    BY <2>1, <2>2
<1>13. PrevNewer'
  <2> SUFFICES ASSUME NEW i \in 1..n
               PROVE  prev'[chain'[i]] = IF i = 1 THEN chain'[n] ELSE chain'[i - 1]
    BY <1>3 DEF PrevNewer
  <2>1. CASE i = 1
    BY <1>1, <1>2, <1>3, <1>7, <1>8, <2>1 DEF ListTypes
  <2>2. CASE i = 2
    BY <1>1, <1>2, <1>3, <1>7, <1>8, <2>2 DEF ListTypes
  <2>3. CASE i > 2
    <3>1. /\ i - 1 \in 1..n /\ i - 2 \in 1..n /\ i - 1 # 1 /\ (i - 1) - 1 = i - 2
          /\ chain'[i] = chain[i - 1] /\ chain'[i - 1] = chain[i - 2]
      BY <1>2, <1>3, <2>3
    <3>2. chain[i - 1] # chain[1]
      BY <1>1, <1>2, <3>1 DEF Distinct
    <3>3. prev'[chain'[i]] = prev[chain[i - 1]]
      BY <1>1, <1>2, <1>7, <3>1, <3>2 DEF ListTypes
    <3> QED
      BY <1>1, <2>3, <3>1, <3>3 DEF PrevNewer
  <2> QED
    BY <1>2, <2>1, <2>2, <2>3
<1>14. Newest'
  BY <1>2, <1>3 DEF Newest
<1> QED
  BY <1>3, <1>4, <1>9, <1>10, <1>11, <1>12, <1>13, <1>14, PartsPrime

-----------------------------------------------------------------------------
(* What the ring holds after a line is saved: the new line in front of all *)
(* others, or of all others but the oldest.                                *)
LEMMA SavedInFront ==
  ASSUME ListInv, NEW c \in Cell, HandleScrollup(c)
  PROVE  LET n == Len(chain)
             m == IF n < MaxHist THEN n + 1 ELSE n
         IN  /\ n \in 0..MaxHist /\ Len(chain') = m
             /\ \A i \in 1..m : chain'[i] = IF i = 1 THEN c ELSE chain[i - 1]
             /\ line' \in [Cell -> Nat]
             /\ line'[chain'[1]] = saved + 1
             /\ \A i \in 2..m : line'[chain'[i]] = saved + 2 - i
<1> DEFINE n == Len(chain)
           m == IF n < MaxHist THEN n + 1 ELSE n
<1>1. /\ chain \in Seq(Cell) /\ n \in 0..MaxHist /\ n = histCnt
      /\ line \in [Cell -> Nat] /\ saved \in Nat /\ base = saved
  BY DEF ListInv, ListTypes, ListIntact, HandleScrollup
<1>2. \A i \in 1..n : chain[i] \in Cell /\ chain[i] # c
  BY <1>1 DEF ListInv, ListIntact, HandleScrollup
<1>3. /\ Len(chain') = m
      /\ \A i \in 1..m : chain'[i] = IF i = 1 THEN c ELSE chain[i - 1]
  <2>1. CASE Grow(c)
    <3>1. n < MaxHist /\ chain' = <<c>> \o chain
      BY <1>1, <2>1, HistAssumption DEF Grow
    <3> QED
      BY <1>1, <3>1, Cons
  <2>2. CASE Replace(c)
    <3> DEFINE front == SubSeq(chain, 1, n - 1)
    <3>1. n = MaxHist /\ n >= 2 /\ chain # << >>
      BY <1>1, <2>2, HistAssumption DEF Replace
    <3>2. /\ front \in Seq(Cell) /\ Len(front) = n - 1
          /\ \A i \in 1..(n - 1) : front[i] = chain[i]
      BY <1>1, <3>1, AllButLast
    <3>3. chain' = <<c>> \o front
      BY <2>2 DEF Replace
    <3> HIDE DEF front
    <3> QED
      BY <1>1, <3>1, <3>2, <3>3, Cons
  <2> QED
    BY <2>1, <2>2 DEF HandleScrollup
<1>4. line' = [line EXCEPT ![c] = saved + 1]
  BY <1>1 DEF HandleScrollup, FbLine
<1>5. \A i \in 2..m : line'[chain'[i]] = saved + 2 - i
  <2> SUFFICES ASSUME NEW i \in 2..m PROVE line'[chain'[i]] = saved + 2 - i
    OBVIOUS
  <2>1. i - 1 \in 1..n /\ chain'[i] = chain[i - 1]
    BY <1>1, <1>3
  <2>2. line'[chain'[i]] = line[chain[i - 1]]
    BY <1>1, <1>2, <1>4, <2>1
  <2>3. line[chain[i - 1]] = saved + 1 - (i - 1)
    BY <2>1 DEF ListInv, LinesCountDown
  <2> QED
    BY <1>1, <2>1, <2>2, <2>3
<1>6. line' \in [Cell -> Nat] /\ (m >= 1 => line'[chain'[1]] = saved + 1)
  BY <1>1, <1>3, <1>4
<1>7. m >= 1
  BY <1>1, HistAssumption
<1> QED
  BY <1>1, <1>3, <1>5, <1>6, <1>7

LEMMA SaveStep ==
  ASSUME ListInv, NEW c \in Cell, HandleScrollup(c)
  PROVE  ListInv'
<1>1. c \in Cell \ live /\ lineHist' = c
  BY DEF HandleScrollup
<1>2. /\ chain' \in Seq(Cell) /\ histCnt' \in 0..MaxHist
      /\ next' \in [Cell -> Cell \cup {Null}]
      /\ prev' \in [Cell -> Cell \cup {Null}]
      /\ ListIntact'
  BY <1>1, GrowStep, ReplaceStep DEF HandleScrollup
<1>3. base' \in Nat /\ saved' \in {base', base' + 1} /\ saved' = saved + 1 /\ saved \in Nat
  BY DEF HandleScrollup, ListInv, ListTypes
<1>4. ListTypes'
  BY <1>2, <1>3, SavedInFront DEF ListTypes
<1>5. \A i \in 1..Len(chain') : line'[chain'[i]] = saved' + 1 - i
  <2> SUFFICES ASSUME NEW i \in 1..Len(chain')
               PROVE  line'[chain'[i]] = saved' + 1 - i
    OBVIOUS
  <2>1. CASE i = 1
    BY <1>3, <2>1, SavedInFront
  <2>2. CASE i # 1
    BY <1>3, <2>2, SavedInFront
  <2> QED
    BY <2>1, <2>2
<1> QED
  BY <1>2, <1>4, <1>5 DEF ListInv, LinesCountDown

(* Everything else leaves the list alone. *)
LEMMA OtherSteps ==
  ASSUME [Next]_vars, ~ \E c \in Cell : HandleScrollup(c)
  PROVE  /\ UNCHANGED <<listVars, saved>>
         /\ base' = base \/ (base < saved /\ base' = base + 1)
<1>1. CASE CardScroll
  BY <1>1 DEF CardScroll
<1>2. CASE NoMemory \/ HandleRedraw \/ \E r \in Row : HandleChar(r)
  BY <1>2 DEF NoMemory, HandleRedraw, HandleChar, Stop
<1>3. CASE \E n \in {1, Height} : KeyBack(n) \/ KeyForward(n)
  BY <1>3 DEF KeyBack, KeyForward, Stop, ShowWindow
<1>4. CASE KeyTop \/ KeyBottom \/ KeyDump \/ Shutdown
  BY <1>4 DEF KeyTop, KeyBottom, KeyDump, Shutdown, Stop, ShowWindow
<1>5. CASE UNCHANGED vars
  BY <1>5 DEF vars
<1> QED
  BY <1>1, <1>2, <1>3, <1>4, <1>5 DEF Next

LEMMA ListStep == ListInv /\ [Next]_vars => ListInv'
<1> SUFFICES ASSUME ListInv, [Next]_vars PROVE ListInv'
  OBVIOUS
<1>1. CASE \E c \in Cell : HandleScrollup(c)
  BY <1>1, SaveStep
<1>2. CASE ~ \E c \in Cell : HandleScrollup(c)
  <2>1. UNCHANGED <<live, line, next, prev, lineHist, histCnt, chain, saved>>
    BY <1>2, OtherSteps DEF listVars
  <2>2. base' = base \/ (base < saved /\ base' = base + 1)
    BY <1>2, OtherSteps
  <2>3. ListTypes'
    BY <2>1, <2>2 DEF ListInv, ListTypes
  <2>4. ListIntact'
    BY <2>1 DEF ListInv, ListIntact
  <2>5. LinesCountDown'
    BY <2>1 DEF ListInv, LinesCountDown
  <2> QED
    BY <2>3, <2>4, <2>5 DEF ListInv
<1> QED
  BY <1>1, <1>2

(* The inductive invariant of the ring. *)
THEOREM ListInvariance == Spec => []ListInv
<1> QED
  BY InitList, ListStep, PTL DEF Spec

(* handle_scrollup keeps the ring whole, whatever the keys do meanwhile:   *)
(* nothing leaks, nothing freed stays linked, hist_cnt counts the lines.   *)
THEOREM ListStaysIntact == Spec => []ListIntact
<1>1. ListInv => ListIntact
  BY DEF ListInv
<1> QED
  BY <1>1, ListInvariance, PTL
-----------------------------------------------------------------------------
(* The refinement of Scrollback. *)

(* The n numbers up to s. *)
UpTo(n, s) == [i \in 1..n |-> s - n + i]

LEMMA UpToSeq ==
  ASSUME NEW n \in Nat, NEW s \in Nat
  PROVE  /\ UpTo(n, s) \in Seq(Int) /\ Len(UpTo(n, s)) = n
         /\ \A i \in 1..n : UpTo(n, s)[i] = s - n + i
BY DEF UpTo

LEMMA AppendUpTo ==
  ASSUME NEW n \in Nat, NEW s \in Nat
  PROVE  Append(UpTo(n, s), s + 1) = UpTo(n + 1, s + 1)
<1> DEFINE a == Append(UpTo(n, s), s + 1)
           u == UpTo(n + 1, s + 1)
<1>1. /\ UpTo(n, s) \in Seq(Int) /\ Len(UpTo(n, s)) = n
      /\ \A i \in 1..n : UpTo(n, s)[i] = s - n + i
  BY UpToSeq
<1>2. /\ a \in Seq(Int) /\ Len(a) = n + 1 /\ a[n + 1] = s + 1
      /\ \A i \in 1..n : a[i] = UpTo(n, s)[i]
  BY <1>1, AppendProperties
<1>3. /\ u \in Seq(Int) /\ Len(u) = n + 1
      /\ \A i \in 1..(n + 1) : u[i] = (s + 1) - (n + 1) + i
  BY UpToSeq
<1> HIDE DEF a, u
<1>4. ASSUME NEW i \in 1..(n + 1) PROVE a[i] = u[i]
  <2>1. CASE i = n + 1
    BY <1>2, <1>3, <2>1
  <2>2. CASE i # n + 1
    BY <1>1, <1>2, <1>3, <2>2
  <2> QED
    BY <2>1, <2>2
<1> QED
  BY <1>2, <1>3, <1>4, SeqEqual DEF a, u

LEMMA TailUpTo ==
  ASSUME NEW n \in Nat \ {0}, NEW s \in Nat
  PROVE  Tail(UpTo(n, s)) = UpTo(n - 1, s)
<1> DEFINE k == UpTo(n, s)
           u == UpTo(n - 1, s)
<1>1. k \in Seq(Int) /\ Len(k) = n /\ \A i \in 1..n : k[i] = s - n + i
  BY UpToSeq
<1>2. /\ u \in Seq(Int) /\ Len(u) = n - 1
      /\ \A i \in 1..(n - 1) : u[i] = s - (n - 1) + i
  BY n - 1 \in Nat, UpToSeq
<1> HIDE DEF k, u
<1>3. k # << >>
  BY <1>1
<1>4. /\ Tail(k) \in Seq(Int) /\ Len(Tail(k)) = n - 1
      /\ \A i \in 1..(n - 1) : Tail(k)[i] = k[i + 1]
  BY <1>1, <1>3, HeadTailProperties
<1>5. \A i \in 1..(n - 1) : Tail(k)[i] = u[i]
  BY <1>1, <1>2, <1>4
<1>6. Tail(k) = u
  BY <1>2, <1>4, <1>5, SeqEqual
<1> QED
  BY <1>6 DEF k, u

(* What is kept, by its entries: the last lines saved. *)
KeptShape ==
  /\ Kept = UpTo(Len(chain), saved)
  /\ Len(chain) \in 0..MaxHist /\ saved \in Nat

LEMMA KeptIs == ListInv => KeptShape
<1> SUFFICES ASSUME ListInv PROVE KeptShape
  OBVIOUS
<1> DEFINE n == Len(chain)
<1>1. /\ n \in 0..MaxHist /\ n \in Nat /\ saved \in Nat
      /\ \A i \in 1..n : line[chain[i]] = saved + 1 - i
  BY HistAssumption DEF ListInv, ListTypes, ListIntact, LinesCountDown
<1>2. ASSUME NEW i \in 1..n PROVE line[chain[n + 1 - i]] = saved - n + i
  <2>1. n + 1 - i \in 1..n
    BY <1>1
  <2> QED
    BY <1>1, <2>1
<1>3. Kept = [i \in 1..n |-> line[chain[n + 1 - i]]]
  BY DEF Kept
<1> HIDE DEF n
<1>4. Kept = UpTo(n, saved)
  BY <1>2, <1>3 DEF UpTo
<1> QED
  BY <1>1, <1>4 DEF n, KeptShape

(* Saving a line appends it, after the oldest has left a full history. *)
LEMMA SaveAppends ==
  ASSUME ListInv, NEW c \in Cell, HandleScrollup(c)
  PROVE  /\ saved + 1 \in 1..MaxLines
         /\ \A i \in 1..Len(Kept) : Kept[i] < saved + 1
         /\ Kept' = Append(IF Len(Kept) < MaxHist THEN Kept ELSE Tail(Kept), saved + 1)
<1> DEFINE n == Len(chain)
<1>1. /\ Kept = UpTo(n, saved) /\ n \in 0..MaxHist /\ n \in Nat
      /\ saved \in Nat /\ MaxHist >= 2
  BY KeptIs, HistAssumption DEF KeptShape
<1>2. Kept' = UpTo(Len(chain'), saved')
  <2>1. KeptShape'
    BY SaveStep, KeptIs, PTL
  <2> QED
    BY <2>1 DEF KeptShape
<1>3. saved' = saved + 1 /\ saved < MaxLines
  BY DEF HandleScrollup
<1>4. Len(chain') = IF n < MaxHist THEN n + 1 ELSE n
  BY SavedInFront
<1>5. Len(Kept) = n /\ \A i \in 1..n : Kept[i] = saved - n + i
  BY <1>1, UpToSeq
<1> HIDE DEF n
<1>6. CASE n < MaxHist
  <2>1. Kept' = Append(Kept, saved + 1)
    BY <1>1, <1>2, <1>3, <1>4, <1>6, AppendUpTo
  <2> QED
    BY <1>1, <1>3, <1>5, <1>6, <2>1, LinesAssumption
<1>7. CASE ~ (n < MaxHist)
  <2>1. n \in Nat \ {0} /\ n - 1 \in Nat /\ (n - 1) + 1 = n
    <3>1. n \in Nat /\ n >= 2
      BY <1>1, <1>7, HistAssumption
    <3> QED
      BY <3>1
  <2>2. Tail(Kept) = UpTo(n - 1, saved)
    BY <1>1, <2>1, TailUpTo
  <2>3. Kept' = Append(Tail(Kept), saved + 1)
    BY <1>1, <1>2, <1>3, <1>4, <1>7, <2>1, <2>2, AppendUpTo
  <2> QED
    BY <1>1, <1>3, <1>5, <1>7, <2>3, LinesAssumption
<1> QED
  BY <1>6, <1>7

(* The ring holds the newest MaxHist lines in order, whatever the keys do. *)
THEOREM HistoryKept == Spec => HistorySpec
<1>1. Init => History!Init
  <2> SUFFICES ASSUME Init PROVE Kept = << >>
    BY DEF History!Init
  <2>1. Len(chain) = 0
    BY DEF Init
  <2> QED
    BY <2>1 DEF Kept
<1>2. ListInv /\ [Next]_vars => [History!Next]_Kept
  <2> SUFFICES ASSUME ListInv, [Next]_vars PROVE [History!Next]_Kept
    OBVIOUS
  <2>1. CASE \E c \in Cell : HandleScrollup(c)
    BY <2>1, SaveAppends DEF History!Next, History!Save
  <2>2. CASE ~ \E c \in Cell : HandleScrollup(c)
    BY <2>2, OtherSteps DEF listVars, Kept
  <2> QED
    BY <2>1, <2>2
<1> QED
  BY <1>1, <1>2, ListInvariance, PTL DEF Spec, HistorySpec, History!Spec
=============================================================================
