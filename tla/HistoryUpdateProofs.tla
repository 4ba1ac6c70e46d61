------------------------- MODULE HistoryUpdateProofs -------------------------
(***************************************************************************)
(* handle_scrollup store by store, for every memory, every height, every   *)
(* MaxHist >= 2 and both builds.                                           *)
(***************************************************************************)
EXTENDS HistoryUpdate, SequenceTheorems, WellFoundedInduction, TLAPS

(* The theorems about the list as the last update has left it.             *)
Ring == INSTANCE LineHistoryProofs WITH
  live <- settled.live, line <- settled.line, next <- settled.next,
  prev <- settled.prev, lineHist <- settled.head, histCnt <- settled.cnt,
  chain <- settled.ring,
  dump <- << >>,
  winPtr <- Null, lineIdx <- 0, astray <- FALSE,
  screen <- [r \in 1..Height |-> {}]

(* What the update under way has done so far, in terms of the settled list. *)
Evicting  == settled.cnt = MaxHist
Last      == settled.prev[settled.head]
PrevDone  == pc \in {"cut", "free", "count", "back", "next", "head"}
FreeDone  == Evicting /\ pc \in {"back", "next", "head"}
CountDone == ~Evicting /\ pc \in {"back", "next", "head"}
BackDone  == pc \in {"next", "head"}

NewPrev ==
  IF Evicting THEN settled.prev[Last]
  ELSE IF settled.head = Null THEN new ELSE Last

AtRest ==
  live = settled.live /\ line = settled.line
    /\ next = settled.next /\ prev = settled.prev

UnderWay ==
  /\ new \in Cell \ settled.live /\ saved = base /\ saved < MaxLines
  /\ pc \in {"evict", "cut", "free"} => Evicting
  /\ pc \in {"grow", "count"} => ~Evicting
  /\ live = IF FreeDone THEN (settled.live \cup {new}) \ {Last}
                        ELSE settled.live \cup {new}
  /\ line = [settled.line EXCEPT ![new] = IF pc = "copy" THEN 0 ELSE base + 1]
  /\ next = [x \in Cell |->
               IF x = new
               THEN IF pc = "head" /\ ~optimised THEN settled.head ELSE Null
               ELSE IF CutOff /\ x = settled.prev[Last] THEN Null
               ELSE settled.next[x]]
  /\ prev = [x \in Cell |->
               IF x = new THEN IF PrevDone THEN NewPrev ELSE Null
               ELSE IF BackDone /\ x = settled.head THEN new
               ELSE settled.prev[x]]

Progress ==
  /\ IF pc = "idle" THEN AtRest ELSE UnderWay
  /\ lineHist = IF Severed THEN new ELSE settled.head
  /\ histCnt = IF CountDone THEN settled.cnt + 1 ELSE settled.cnt

Positions == {"idle", "copy", "evict", "cut", "free",
              "grow", "count", "back", "next", "head"}

Types ==
  /\ settled \in ListType
  /\ pc \in Positions /\ new \in Pointer
  /\ optimised \in BOOLEAN /\ reset \in BOOLEAN
  /\ fault \in {"none", "segv", "exit"}

Inv == Types /\ Ring!ListInv /\ Progress


-----------------------------------------------------------------------------
(* The settled ring, and what the first and the last cell of it are. *)

LEMMA RingFacts ==
  ASSUME Types, Ring!ListInv
  PROVE  LET n == Len(settled.ring) IN
         /\ settled.ring \in Seq(Cell) /\ n \in Nat /\ n = settled.cnt /\ n <= MaxHist
         /\ settled.live \subseteq Cell /\ settled.line \in [Cell -> Nat]
         /\ settled.next \in [Cell -> Pointer] /\ settled.prev \in [Cell -> Pointer]
         /\ \A i \in 1..n : settled.ring[i] \in settled.live /\ settled.ring[i] \in Cell
         /\ \A i, j \in 1..n : i # j => settled.ring[i] # settled.ring[j]
         /\ \A x \in settled.live : \E i \in 1..n : x = settled.ring[i]
         /\ \A i \in 1..n : /\ settled.next[settled.ring[i]] =
                                 IF i = n THEN Null ELSE settled.ring[i + 1]
                            /\ settled.prev[settled.ring[i]] =
                                 IF i = 1 THEN settled.ring[n] ELSE settled.ring[i - 1]
         /\ \A i \in 1..n : settled.line[settled.ring[i]] = saved + 1 - i
         /\ base \in Nat /\ saved \in {base, base + 1}
<1>1. /\ settled.ring \in Seq(Cell) /\ Len(settled.ring) \in Nat
      /\ settled.line \in [Cell -> Nat] /\ base \in Nat /\ saved \in {base, base + 1}
  BY DEF Ring!ListInv, Ring!ListTypes
<1>2. /\ settled.live \subseteq Cell
      /\ settled.next \in [Cell -> Pointer] /\ settled.prev \in [Cell -> Pointer]
      /\ settled.cnt \in 0..MaxHist
  BY DEF Types, ListType
<1>3. \A i \in 1..Len(settled.ring) : settled.ring[i] \in Cell
  BY <1>1
<1>4. Ring!ListIntact
  BY DEF Ring!ListInv
<1>5. /\ Len(settled.ring) = settled.cnt
      /\ settled.live = {settled.ring[i] : i \in 1..Len(settled.ring)}
      /\ \A i, j \in 1..Len(settled.ring) : i # j => settled.ring[i] # settled.ring[j]
  BY <1>4 DEF Ring!ListIntact
<1>6. \A i \in 1..Len(settled.ring) :
         /\ settled.next[settled.ring[i]] =
              IF i = Len(settled.ring) THEN Null ELSE settled.ring[i + 1]
         /\ settled.prev[settled.ring[i]] =
              IF i = 1 THEN settled.ring[Len(settled.ring)] ELSE settled.ring[i - 1]
  BY <1>4 DEF Ring!ListIntact
<1>7. \A i \in 1..Len(settled.ring) : settled.line[settled.ring[i]] = saved + 1 - i
  BY DEF Ring!ListInv, Ring!LinesCountDown
<1>8. Len(settled.ring) <= MaxHist
  BY <1>2, <1>5, HistAssumption
<1> QED
  BY <1>1, <1>2, <1>3, <1>5, <1>6, <1>7, <1>8

LEMMA Ends ==
  ASSUME Types, Ring!ListInv
  PROVE  LET n == Len(settled.ring) IN
         /\ settled.head = Null <=> n = 0
         /\ n # 0 => /\ settled.head = settled.ring[1] /\ settled.head \in settled.live
                     /\ settled.head \in Cell
                     /\ Last = settled.ring[n] /\ Last \in settled.live /\ Last \in Cell
         /\ Evicting => /\ n = MaxHist /\ n >= 2 /\ n # 0
                        /\ settled.prev[Last] = settled.ring[n - 1]
                        /\ settled.prev[Last] \in settled.live
                        /\ settled.prev[Last] \in Cell
                        /\ settled.prev[Last] # Last /\ Last # settled.head
<1> DEFINE n == Len(settled.ring)
<1>1. /\ n \in Nat /\ n = settled.cnt
      /\ \A i \in 1..n : settled.ring[i] \in settled.live /\ settled.ring[i] \in Cell
      /\ \A i, j \in 1..n : i # j => settled.ring[i] # settled.ring[j]
      /\ \A i \in 1..n : settled.prev[settled.ring[i]] =
                           IF i = 1 THEN settled.ring[n] ELSE settled.ring[i - 1]
  BY RingFacts
<1>2. settled.head = IF n = 0 THEN Null ELSE settled.ring[1]
  BY DEF Ring!ListInv, Ring!ListIntact
<1> HIDE DEF n
<1>3. n # 0 => 1 \in 1..n /\ n \in 1..n
  BY <1>1
<1>4. settled.head = Null <=> n = 0
  BY <1>1, <1>2, <1>3, NullAssumption
<1>5. n # 0 => /\ settled.head = settled.ring[1] /\ settled.head \in settled.live
               /\ settled.head \in Cell
               /\ Last = settled.ring[n] /\ Last \in settled.live /\ Last \in Cell
  BY <1>1, <1>2, <1>3 DEF Last
<1>6. ASSUME Evicting
      PROVE  /\ n = MaxHist /\ n >= 2 /\ n # 0
             /\ settled.prev[Last] = settled.ring[n - 1]
             /\ settled.prev[Last] \in settled.live
             /\ settled.prev[Last] \in Cell
             /\ settled.prev[Last] # Last /\ Last # settled.head
  <2>1. n = MaxHist /\ n >= 2 /\ n # 0 /\ n # 1
    BY <1>1, <1>6, HistAssumption DEF Evicting
  <2>2. n - 1 \in 1..n /\ n - 1 # n /\ n \in 1..n /\ 1 \in 1..n
    BY <1>1, <2>1
  <2>3. settled.prev[settled.ring[n]] = settled.ring[n - 1]
    BY <1>1, <2>1, <2>2
  <2> QED
    BY <1>1, <1>5, <2>1, <2>2, <2>3
<1> QED
  BY <1>4, <1>5, <1>6 DEF n

LEMMA RingUnchanged ==
  ASSUME Ring!ListInv, UNCHANGED <<settled, base, saved>>
  PROVE  Ring!ListInv'
BY DEF Ring!ListInv, Ring!ListTypes, Ring!ListIntact, Ring!LinesCountDown

-----------------------------------------------------------------------------
(* The statements before the last one: the settled list stays, the update  *)
(* makes progress. *)

LEMMA AllocateStep ==
  ASSUME Inv, NEW c \in Cell, Allocate(c)
  PROVE  Inv'
<1>1. Ring!ListInv'
  BY RingUnchanged DEF Inv, Allocate
<1>2. /\ live = settled.live /\ line = settled.line
      /\ next = settled.next /\ prev = settled.prev
      /\ lineHist = settled.head /\ histCnt = settled.cnt
  BY DEF Inv, Allocate, Progress, AtRest, Severed, CountDone
<1>3. Types'
  BY DEF Inv, Types, Positions, Allocate, Pointer
<1>4. Progress'
  <2>1. /\ pc' = "copy" /\ new' = c /\ settled' = settled /\ saved' = base /\ base' = base
        /\ saved' < MaxLines /\ lineHist' = lineHist /\ histCnt' = histCnt
        /\ c \notin live /\ live' = live \cup {c}
        /\ line' = [line EXCEPT ![c] = 0]
        /\ next' = [next EXCEPT ![c] = Null] /\ prev' = [prev EXCEPT ![c] = Null]
    BY DEF Allocate
  <2>2. /\ settled.next \in [Cell -> Pointer] /\ settled.prev \in [Cell -> Pointer]
    BY DEF Inv, Types, ListType
  <2>3. UnderWay'
    BY <1>2, <2>1, <2>2 DEF UnderWay, FreeDone, PrevDone, CutOff, BackDone, NewPrev, Evicting, Last
  <2> QED
    BY <1>2, <2>1, <2>3 DEF Progress, Severed, CountDone
<1> QED
  BY <1>1, <1>3, <1>4 DEF Inv

(* What Done leaves alone when the statement is not the last one. *)
LEMMA NotLast ==
  ASSUME Inv, Done, pc' # "idle", pc' \in Positions
  PROVE  /\ settled' = settled /\ saved' = saved /\ base' = base /\ new' = new
         /\ optimised' = optimised
         /\ Ring!ListInv' /\ Types'
<1>1. /\ settled' = settled /\ saved' = saved /\ base' = base /\ new' = new
      /\ optimised' = optimised /\ reset' = reset /\ fault' = fault
  BY DEF Done
<1>2. Ring!ListInv'
  BY <1>1, RingUnchanged DEF Inv
<1>3. Types'
  BY <1>1 DEF Inv, Types, Pointer
<1> QED
  BY <1>1, <1>2, <1>3

(* An update under way keeps to what it knows of the settled list. *)
LEMMA Known ==
  ASSUME Inv, pc # "idle"
  PROVE  /\ new \in Cell /\ new \notin settled.live /\ saved = base /\ saved < MaxLines
         /\ settled.line \in [Cell -> Nat] /\ base \in Nat
         /\ settled.next \in [Cell -> Pointer] /\ settled.prev \in [Cell -> Pointer]
         /\ settled.cnt \in Nat /\ settled.cnt <= MaxHist /\ MaxHist \in Nat
         /\ settled.head # Null => /\ settled.head \in settled.live /\ settled.head \in Cell
                                   /\ settled.head # new
                                   /\ Last \in settled.live /\ Last \in Cell /\ Last # new
         /\ Evicting => /\ settled.head # Null
                        /\ settled.prev[Last] \in settled.live
                        /\ settled.prev[Last] \in Cell /\ settled.prev[Last] # new
                        /\ settled.prev[Last] # Last /\ Last # settled.head
         /\ new # Null
<1>1. UnderWay
  BY DEF Inv, Progress
<1>2. /\ Types /\ Ring!ListInv /\ settled.live \subseteq Cell
      /\ settled.line \in [Cell -> Nat] /\ base \in Nat
      /\ settled.next \in [Cell -> Pointer] /\ settled.prev \in [Cell -> Pointer]
      /\ settled.cnt \in Nat /\ settled.cnt <= MaxHist
  BY RingFacts DEF Inv
<1>3. new \in Cell /\ new \notin settled.live /\ saved = base /\ saved < MaxLines
  BY <1>1 DEF UnderWay
<1>4. settled.head # Null => /\ settled.head \in settled.live /\ settled.head \in Cell
                             /\ Last \in settled.live /\ Last \in Cell
  BY <1>2, Ends
<1>5. Evicting => /\ settled.head # Null
                  /\ settled.prev[Last] \in settled.live
                  /\ settled.prev[Last] \in Cell
                  /\ settled.prev[Last] # Last /\ Last # settled.head
  BY <1>2, Ends
<1> QED
  BY <1>2, <1>3, <1>4, <1>5, HistAssumption, NullAssumption

LEMMA CopyStep ==
  ASSUME Inv, CopyLine
  PROVE  Inv'
<1>1. UnderWay /\ pc = "copy"
  BY DEF Inv, CopyLine, At, Progress
<1>2. pc' = (IF Evicting THEN "evict" ELSE "grow") /\ Done
  BY <1>1 DEF Inv, Progress, CopyLine, Done, Following, Full, Evicting, CountDone
<1>3. /\ settled' = settled /\ saved' = saved /\ base' = base /\ new' = new
      /\ optimised' = optimised /\ Ring!ListInv' /\ Types'
  BY <1>2, NotLast DEF Positions
<1>4. /\ line' = [line EXCEPT ![new] = base + 1]
      /\ UNCHANGED <<live, next, prev, lineHist, histCnt>>
  BY DEF CopyLine, FbLine
<1>5. UnderWay'
  BY <1>1, <1>2, <1>3, <1>4, Known
     DEF UnderWay, FreeDone, PrevDone, CutOff, BackDone, NewPrev, Evicting, Last
<1>6. Progress'
  BY <1>1, <1>2, <1>3, <1>4, <1>5 DEF Inv, Progress, Severed, CountDone, Evicting
<1> QED
  BY <1>3, <1>6 DEF Inv

LEMMA EvictStep ==
  ASSUME Inv, Evict
  PROVE  Inv'
<1>1. UnderWay /\ pc = "evict" /\ Evicting /\ lineHist = settled.head
  BY DEF Inv, Evict, At, Progress, UnderWay, Severed
<1>2. pc' = "cut" /\ Done
  BY <1>1 DEF Evict, Done, Following, EvictionAfter
<1>3. /\ settled' = settled /\ saved' = saved /\ base' = base /\ new' = new
      /\ optimised' = optimised /\ Ring!ListInv' /\ Types'
  BY <1>2, NotLast DEF Positions
<1>4. prev = [x \in Cell |-> IF x = new THEN Null ELSE settled.prev[x]]
  BY <1>1 DEF UnderWay, PrevDone, BackDone
<1>5. Oldest = Last /\ prev[Oldest] = settled.prev[Last]
  BY <1>1, <1>4, Known DEF Oldest, Last
<1>6. /\ prev' = [prev EXCEPT ![new] = settled.prev[Last]]
      /\ UNCHANGED <<live, line, next, lineHist, histCnt>>
  BY <1>5 DEF Evict
<1>7. UnderWay'
  BY <1>1, <1>2, <1>3, <1>4, <1>6, Known
     DEF UnderWay, FreeDone, PrevDone, CutOff, BackDone, NewPrev, Evicting, Last
<1>8. Progress'
  BY <1>1, <1>2, <1>3, <1>6, <1>7 DEF Inv, Progress, Severed, CountDone, Evicting
<1> QED
  BY <1>3, <1>8 DEF Inv

LEMMA CutStep ==
  ASSUME Inv, Cut
  PROVE  Inv'
<1>1. UnderWay /\ pc = "cut" /\ Evicting /\ lineHist = settled.head
  BY DEF Inv, Cut, At, Progress, UnderWay, Severed
<1>2. pc' = "free" /\ Done
  BY <1>1 DEF Cut, Done, Following, EvictionAfter
<1>3. /\ settled' = settled /\ saved' = saved /\ base' = base /\ new' = new
      /\ optimised' = optimised /\ Ring!ListInv' /\ Types'
  BY <1>2, NotLast DEF Positions
<1>4. /\ prev = [x \in Cell |-> IF x = new THEN NewPrev ELSE settled.prev[x]]
      /\ next = [x \in Cell |-> IF x = new THEN Null ELSE settled.next[x]]
  BY <1>1 DEF UnderWay, PrevDone, BackDone, CutOff
<1>5. Oldest = Last /\ prev[Oldest] = settled.prev[Last]
  BY <1>1, <1>4, Known DEF Oldest, Last
<1>6. /\ next' = [next EXCEPT ![settled.prev[Last]] = Null]
      /\ UNCHANGED <<live, line, prev, lineHist, histCnt>>
  BY <1>5 DEF Cut
<1>7. UnderWay'
  BY <1>1, <1>2, <1>3, <1>4, <1>6, Known
     DEF UnderWay, FreeDone, PrevDone, CutOff, BackDone, NewPrev, Evicting, Last
<1>8. Progress'
  BY <1>1, <1>2, <1>3, <1>6, <1>7 DEF Inv, Progress, Severed, CountDone, Evicting
<1> QED
  BY <1>3, <1>8 DEF Inv

LEMMA FreeStep ==
  ASSUME Inv, Free
  PROVE  Inv'
<1>1. UnderWay /\ pc = "free" /\ Evicting /\ lineHist = settled.head
  BY DEF Inv, Free, At, Progress, UnderWay, Severed
<1>2. pc' = "back" /\ Done
  BY <1>1 DEF Free, Done, Following, EvictionAfter
<1>3. /\ settled' = settled /\ saved' = saved /\ base' = base /\ new' = new
      /\ optimised' = optimised /\ Ring!ListInv' /\ Types'
  BY <1>2, NotLast DEF Positions
<1>4. prev = [x \in Cell |-> IF x = new THEN NewPrev ELSE settled.prev[x]]
  BY <1>1 DEF UnderWay, PrevDone, BackDone
<1>5. Oldest = Last
  BY <1>1, <1>4, Known DEF Oldest, Last
<1>6. /\ live' = live \ {Last}
      /\ UNCHANGED <<line, next, prev, lineHist, histCnt>>
  BY <1>5 DEF Free
<1>7. UnderWay'
  BY <1>1, <1>2, <1>3, <1>4, <1>6, Known
     DEF UnderWay, FreeDone, PrevDone, CutOff, BackDone, NewPrev, Evicting, Last
<1>8. Progress'
  BY <1>1, <1>2, <1>3, <1>6, <1>7 DEF Inv, Progress, Severed, CountDone, Evicting
<1> QED
  BY <1>3, <1>8 DEF Inv

LEMMA GrowStep ==
  ASSUME Inv, Grow
  PROVE  Inv'
<1>1. UnderWay /\ pc = "grow" /\ ~Evicting /\ lineHist = settled.head
  BY DEF Inv, Grow, At, Progress, UnderWay, Severed
<1>2. pc' = "count" /\ Done
  BY <1>1 DEF Grow, Done, Following
<1>3. /\ settled' = settled /\ saved' = saved /\ base' = base /\ new' = new
      /\ optimised' = optimised /\ Ring!ListInv' /\ Types'
  BY <1>2, NotLast DEF Positions
<1>4. prev = [x \in Cell |-> IF x = new THEN Null ELSE settled.prev[x]]
  BY <1>1 DEF UnderWay, PrevDone, BackDone
<1>5. settled.head # Null => Oldest = Last
  BY <1>1, <1>4, Known DEF Oldest, Last
<1>6. /\ prev' = [prev EXCEPT ![new] = NewPrev]
      /\ UNCHANGED <<live, line, next, lineHist, histCnt>>
  BY <1>1, <1>5 DEF Grow, NewPrev
<1>7. UnderWay'
  BY <1>1, <1>2, <1>3, <1>4, <1>6, Known
     DEF UnderWay, FreeDone, PrevDone, CutOff, BackDone, NewPrev, Evicting, Last
<1>8. Progress'
  BY <1>1, <1>2, <1>3, <1>6, <1>7 DEF Inv, Progress, Severed, CountDone, Evicting
<1> QED
  BY <1>3, <1>8 DEF Inv

LEMMA CountStep ==
  ASSUME Inv, Count
  PROVE  Inv'
<1>1. UnderWay /\ pc = "count" /\ ~Evicting /\ histCnt = settled.cnt
  BY DEF Inv, Count, At, Progress, UnderWay, CountDone
<1>2. pc' = "back" /\ Done
  BY <1>1 DEF Count, Done, Following
<1>3. /\ settled' = settled /\ saved' = saved /\ base' = base /\ new' = new
      /\ optimised' = optimised /\ Ring!ListInv' /\ Types'
  BY <1>2, NotLast DEF Positions
<1>4. histCnt' = settled.cnt + 1 /\ UNCHANGED <<live, line, next, prev, lineHist>>
  BY <1>1 DEF Count, heap
<1>5. UnderWay'
  BY <1>1, <1>2, <1>3, <1>4, Known
     DEF UnderWay, FreeDone, PrevDone, CutOff, BackDone, NewPrev, Evicting, Last
<1>6. Progress'
  BY <1>1, <1>2, <1>3, <1>4, <1>5 DEF Inv, Progress, Severed, CountDone, Evicting
<1> QED
  BY <1>3, <1>6 DEF Inv

LEMMA LinkBackStep ==
  ASSUME Inv, LinkBack
  PROVE  Inv'
<1>1. UnderWay /\ pc = "back" /\ lineHist = settled.head
  BY DEF Inv, LinkBack, At, Progress, Severed
<1>2. pc' = (IF optimised THEN "head" ELSE "next") /\ Done
  BY <1>1 DEF LinkBack, Done, Following, LinkAfter
<1>3. /\ settled' = settled /\ saved' = saved /\ base' = base /\ new' = new
      /\ optimised' = optimised /\ Ring!ListInv' /\ Types'
  BY <1>2, NotLast DEF Positions
<1>4. prev = [x \in Cell |-> IF x = new THEN NewPrev ELSE settled.prev[x]]
  BY <1>1 DEF UnderWay, PrevDone, BackDone
<1>5. /\ prev' = IF settled.head = Null THEN prev ELSE [prev EXCEPT ![settled.head] = new]
      /\ UNCHANGED <<live, line, next, lineHist, histCnt>>
  BY <1>1 DEF LinkBack
<1>6. prev' = [x \in Cell |-> IF x = new THEN NewPrev
                              ELSE IF x = settled.head THEN new ELSE settled.prev[x]]
  BY <1>4, <1>5, Known, <1>1, NullAssumption
<1>7. UnderWay'
  BY <1>1, <1>2, <1>3, <1>4, <1>5, <1>6, Known
     DEF UnderWay, FreeDone, PrevDone, CutOff, BackDone, NewPrev, Evicting, Last
<1>8. Progress'
  BY <1>1, <1>2, <1>3, <1>5, <1>7 DEF Inv, Progress, Severed, CountDone, Evicting
<1> QED
  BY <1>3, <1>8 DEF Inv

-----------------------------------------------------------------------------
(* The last statement.  Both builds end with the same list. *)

NewList ==
  [live |-> IF Evicting THEN (settled.live \cup {new}) \ {Last}
                        ELSE settled.live \cup {new},
   line |-> [settled.line EXCEPT ![new] = base + 1],
   next |-> [x \in Cell |-> IF x = new THEN settled.head
                            ELSE IF Evicting /\ x = settled.prev[Last] THEN Null
                            ELSE settled.next[x]],
   prev |-> [x \in Cell |-> IF x = new THEN NewPrev
                            ELSE IF x = settled.head THEN new
                            ELSE settled.prev[x]],
   head |-> new,
   cnt  |-> IF Evicting THEN settled.cnt ELSE settled.cnt + 1,
   ring |-> NewRing]

LastStatement ==
  /\ pc # "idle" /\ pc' = "idle"
  /\ settled' = NewList
  /\ live' = settled'.live /\ line' = settled'.line
  /\ next' = settled'.next /\ prev' = settled'.prev
  /\ lineHist' = settled'.head /\ histCnt' = settled'.cnt
  /\ saved' = saved + 1
  /\ fault = "none"
  /\ UNCHANGED <<new, optimised, base, reset, fault>>

LEMMA SetHeadLast ==
  ASSUME Inv, SetHead, ~optimised
  PROVE  LastStatement
<1>1. UnderWay /\ pc = "head" /\ lineHist = settled.head /\ fault = "none"
  BY DEF Inv, SetHead, At, Progress, Severed, Running
<1>2. pc' = "idle" /\ Done
  BY <1>1 DEF SetHead, Done, Following, LinkAfter
<1>3. /\ UNCHANGED <<new, optimised, base, reset, fault>> /\ saved' = saved + 1
      /\ settled' = [live |-> live', line |-> line', next |-> next', prev |-> prev',
                     head |-> lineHist', cnt |-> histCnt', ring |-> NewRing]
  BY <1>2 DEF Done
<1>4. /\ live' = NewList.live /\ line' = NewList.line
      /\ next' = NewList.next /\ prev' = NewList.prev
  BY <1>1 DEF SetHead, heap, UnderWay, NewList, FreeDone, PrevDone, BackDone, CutOff, Evicting
<1>5. lineHist' = new /\ histCnt' = NewList.cnt
  BY <1>1 DEF Inv, SetHead, Progress, CountDone, NewList
<1>6. settled' = NewList
  BY <1>3, <1>4, <1>5 DEF NewList
<1> QED
  BY <1>1, <1>2, <1>3, <1>5, <1>6 DEF LastStatement

LEMMA LinkNextLast ==
  ASSUME Inv, LinkNext, optimised
  PROVE  LastStatement
<1>1. UnderWay /\ pc = "next" /\ lineHist = new /\ fault = "none"
  BY DEF Inv, LinkNext, At, Progress, Severed, Running
<1>2. pc' = "idle" /\ Done
  BY <1>1 DEF LinkNext, Done, Following, LinkAfter
<1>3. /\ UNCHANGED <<new, optimised, base, reset, fault>> /\ saved' = saved + 1
      /\ settled' = [live |-> live', line |-> line', next |-> next', prev |-> prev',
                     head |-> lineHist', cnt |-> histCnt', ring |-> NewRing]
  BY <1>2 DEF Done
<1>4. /\ live' = NewList.live /\ line' = NewList.line /\ prev' = NewList.prev
  BY <1>1 DEF LinkNext, UnderWay, NewList, FreeDone, PrevDone, BackDone, Evicting
<1>5. next' = NewList.next
  BY <1>1, Known DEF LinkNext, UnderWay, NewList, CutOff, Evicting
<1>6. lineHist' = new /\ histCnt' = NewList.cnt
  BY <1>1 DEF Inv, LinkNext, Progress, CountDone, NewList
<1>7. settled' = NewList
  BY <1>3, <1>4, <1>5, <1>6 DEF NewList
<1> QED
  BY <1>1, <1>2, <1>3, <1>6, <1>7 DEF LastStatement

(* The step of LineHistory it finishes, field by field. *)
Saves ==
  /\ fault = "none" /\ saved = base /\ saved < MaxLines
  /\ new \notin settled.live
  /\ settled'.line = [settled.line EXCEPT ![new] = base + 1]
  /\ \/ /\ settled.cnt # MaxHist
        /\ settled'.cnt = settled.cnt + 1
        /\ settled'.live = settled.live \cup {new}
        /\ settled'.prev = IF settled.head = Null THEN [settled.prev EXCEPT ![new] = new]
                           ELSE [settled.prev EXCEPT ![new] = settled.prev[settled.head],
                                                     ![settled.head] = new]
        /\ settled'.next = [settled.next EXCEPT ![new] = settled.head]
        /\ settled'.ring = <<new>> \o settled.ring
     \/ /\ settled.cnt = MaxHist
        /\ settled'.live = (settled.live \cup {new}) \ {settled.prev[settled.head]}
        /\ settled'.prev = [settled.prev EXCEPT
                              ![new] = settled.prev[settled.prev[settled.head]],
                              ![settled.head] = new]
        /\ settled'.next = [settled.next EXCEPT
                              ![settled.prev[settled.prev[settled.head]]] = Null,
                              ![new] = settled.head]
        /\ settled'.ring = <<new>> \o SubSeq(settled.ring, 1, Len(settled.ring) - 1)
        /\ settled'.cnt = settled.cnt
        /\ Null # settled.prev[settled.head]
  /\ settled'.head = new
  /\ saved' = saved + 1
  /\ base' = base /\ fault' = fault

LEMMA LastSaves ==
  ASSUME Inv, LastStatement
  PROVE  Saves
<1>1. UnderWay /\ settled' = NewList
  BY DEF Inv, Progress, LastStatement
<1>2. /\ fault = "none" /\ saved = base /\ saved < MaxLines /\ new \notin settled.live
      /\ settled'.line = [settled.line EXCEPT ![new] = base + 1]
      /\ settled'.head = new /\ saved' = saved + 1 /\ base' = base /\ fault' = fault
  BY <1>1 DEF UnderWay, LastStatement, NewList
<1>3. CASE ~Evicting
  <2>1. /\ settled.cnt # MaxHist
        /\ settled'.cnt = settled.cnt + 1
        /\ settled'.live = settled.live \cup {new}
        /\ settled'.ring = <<new>> \o settled.ring
    BY <1>1, <1>3 DEF NewList, NewRing, Evicting
  <2>2. settled'.next = [settled.next EXCEPT ![new] = settled.head]
    BY <1>1, <1>3, Known DEF NewList, LastStatement
  <2>3. settled'.prev = IF settled.head = Null THEN [settled.prev EXCEPT ![new] = new]
                        ELSE [settled.prev EXCEPT ![new] = settled.prev[settled.head],
                                                  ![settled.head] = new]
    BY <1>1, <1>3, Known, NullAssumption DEF NewList, LastStatement, NewPrev, Last
  <2> QED
    BY <1>2, <2>1, <2>2, <2>3 DEF Saves
<1>4. CASE Evicting
  <2>1. /\ settled.cnt = MaxHist
        /\ settled'.cnt = settled.cnt
        /\ settled'.live = (settled.live \cup {new}) \ {settled.prev[settled.head]}
        /\ settled'.ring = <<new>> \o SubSeq(settled.ring, 1, Len(settled.ring) - 1)
    BY <1>1, <1>4 DEF NewList, NewRing, Evicting, Last
  <2>2. settled'.next = [settled.next EXCEPT
                              ![settled.prev[settled.prev[settled.head]]] = Null,
                              ![new] = settled.head]
    BY <1>1, <1>4, Known DEF NewList, LastStatement, Last
  <2>3. settled'.prev = [settled.prev EXCEPT
                              ![new] = settled.prev[settled.prev[settled.head]],
                              ![settled.head] = new]
    BY <1>1, <1>4, Known DEF NewList, LastStatement, NewPrev, Last
  <2>4. Null # settled.prev[settled.head]
    BY <1>4, Known, NullAssumption DEF Last, LastStatement
  <2> QED
    BY <1>2, <2>1, <2>2, <2>3, <2>4 DEF Saves
<1> QED
  BY <1>3, <1>4

LEMMA LastIsSave ==
  ASSUME Inv, LastStatement
  PROVE  Ring!HandleScrollup(new) /\ Atomic!HandleScrollup(new)
<1>1. Saves
  BY LastSaves
<1>2. Ring!HandleScrollup(new)
  BY <1>1 DEF Saves, Ring!HandleScrollup, Ring!Running, Ring!NoDump, Ring!FbLine,
              Ring!Grow, Ring!Replace, Ring!Oldest
<1>3. Atomic!HandleScrollup(new)
  BY <1>1 DEF Saves, Atomic!HandleScrollup, Atomic!Running, Atomic!NoDump, Atomic!FbLine,
              Atomic!Grow, Atomic!Replace, Atomic!Oldest
<1> QED
  BY <1>2, <1>3

LEMMA LastStep ==
  ASSUME Inv, LastStatement
  PROVE  Inv'
<1>1. new \in Cell
  BY Known DEF LastStatement
<1>2. Ring!ListInv'
  BY <1>1, LastIsSave, Ring!SaveStep, HeightAssumption, HistAssumption,
     LinesAssumption, NullAssumption DEF Inv
<1>3. Types'
  <2>1. /\ settled'.line \in [Cell -> Nat] /\ settled'.next \in [Cell -> Pointer]
        /\ settled'.prev \in [Cell -> Pointer] /\ settled'.ring \in Seq(Cell)
        /\ settled'.cnt \in 0..MaxHist
    BY <1>2 DEF Ring!ListInv, Ring!ListTypes, Pointer
  <2>2. settled'.live \in SUBSET Cell /\ settled'.head \in Pointer
    BY <1>1 DEF LastStatement, NewList, Inv, Types, ListType, Pointer
  <2>3. settled' = [live |-> settled'.live, line |-> settled'.line,
                    next |-> settled'.next, prev |-> settled'.prev,
                    head |-> settled'.head, cnt |-> settled'.cnt,
                    ring |-> settled'.ring]
    BY DEF LastStatement, NewList
  <2>4. settled' \in ListType
    BY <2>1, <2>2, <2>3 DEF ListType
  <2> QED
    BY <2>4 DEF LastStatement, Inv, Types, Positions, Pointer
<1>4. Progress'
  BY DEF LastStatement, Progress, AtRest, Severed, CountDone
<1> QED
  BY <1>2, <1>3, <1>4 DEF Inv

(* The two statements, in either order. *)
LEMMA LinkNextStep ==
  ASSUME Inv, LinkNext
  PROVE  Inv'
<1>1. CASE optimised
  BY <1>1, LinkNextLast, LastStep
<1>2. CASE ~optimised
  <2>1. UnderWay /\ pc = "next" /\ lineHist = settled.head
    BY <1>2 DEF Inv, LinkNext, At, Progress, Severed
  <2>2. pc' = "head" /\ Done
    BY <1>2, <2>1 DEF LinkNext, Done, Following, LinkAfter
  <2>3. /\ settled' = settled /\ saved' = saved /\ base' = base /\ new' = new
        /\ optimised' = optimised /\ Ring!ListInv' /\ Types'
    BY <2>2, NotLast DEF Positions
  <2>4. /\ next' = [next EXCEPT ![new] = settled.head]
        /\ UNCHANGED <<live, line, prev, lineHist, histCnt>>
    BY <1>2, <2>1 DEF LinkNext
  <2>5. UnderWay'
    BY <1>2, <2>1, <2>2, <2>3, <2>4, Known
       DEF UnderWay, FreeDone, PrevDone, CutOff, BackDone, NewPrev, Evicting, Last
  <2>6. Progress'
    BY <1>2, <2>1, <2>2, <2>3, <2>4, <2>5
       DEF Inv, Progress, Severed, CountDone, Evicting
  <2> QED
    BY <2>3, <2>6 DEF Inv
<1> QED
  BY <1>1, <1>2

LEMMA SetHeadStep ==
  ASSUME Inv, SetHead
  PROVE  Inv'
<1>1. CASE ~optimised
  BY <1>1, SetHeadLast, LastStep
<1>2. CASE optimised
  <2>1. UnderWay /\ pc = "head"
    BY DEF Inv, SetHead, At, Progress
  <2>2. pc' = "next" /\ Done
    BY <1>2, <2>1 DEF SetHead, Done, Following, LinkAfter
  <2>3. /\ settled' = settled /\ saved' = saved /\ base' = base /\ new' = new
        /\ optimised' = optimised /\ Ring!ListInv' /\ Types'
    BY <2>2, NotLast DEF Positions
  <2>4. lineHist' = new /\ UNCHANGED <<live, line, next, prev, histCnt>>
    BY DEF SetHead, heap
  <2>5. UnderWay'
    BY <1>2, <2>1, <2>2, <2>3, <2>4, Known
       DEF UnderWay, FreeDone, PrevDone, CutOff, BackDone, NewPrev, Evicting, Last
  <2>6. Progress'
    BY <1>2, <2>1, <2>2, <2>3, <2>4, <2>5
       DEF Inv, Progress, Severed, CountDone, Evicting
  <2> QED
    BY <2>3, <2>6 DEF Inv
<1> QED
  BY <1>1, <1>2

-----------------------------------------------------------------------------
(* The steps that leave the list alone. *)

LEMMA InitInv == Init => Inv
<1> SUFFICES ASSUME Init PROVE Inv
  OBVIOUS
<1>1. settled = [live |-> {}, line |-> [c \in Cell |-> 0],
                 next |-> [c \in Cell |-> Null], prev |-> [c \in Cell |-> Null],
                 head |-> Null, cnt |-> 0, ring |-> << >>]
  BY DEF Init, List
<1>2. Types
  <2>1. /\ {} \in SUBSET Cell /\ Null \in Pointer /\ 0 \in 0..MaxHist
        /\ << >> \in Seq(Cell)
        /\ [c \in Cell |-> 0] \in [Cell -> Nat]
        /\ [c \in Cell |-> Null] \in [Cell -> Pointer]
    BY HistAssumption DEF Pointer
  <2>2. settled \in ListType
    BY <1>1, <2>1 DEF ListType
  <2> QED
    BY <2>1, <2>2 DEF Init, Types, Positions
<1>3. Ring!ListInv
  <2>1. /\ settled.live = {} /\ settled.ring = << >> /\ Len(settled.ring) = 0
        /\ settled.line = [c \in Cell |-> 0]
        /\ settled.next = [c \in Cell |-> Null] /\ settled.prev = [c \in Cell |-> Null]
        /\ settled.head = Null /\ settled.cnt = 0
    BY <1>1
  <2>2. Ring!ListTypes
    <3>1. /\ settled.line \in [Cell -> Nat] /\ settled.ring \in Seq(Cell)
          /\ settled.next \in [Cell -> Cell \cup {Null}]
          /\ settled.prev \in [Cell -> Cell \cup {Null}]
          /\ settled.cnt \in 0..MaxHist
      BY <2>1, HistAssumption
    <3>2. base \in Nat /\ saved \in {base, base + 1}
      BY DEF Init
    <3> QED
      BY <3>1, <3>2 DEF Ring!ListTypes
  <2>3. Ring!ListIntact
    BY <2>1 DEF Ring!ListIntact
  <2>4. Ring!LinesCountDown
    BY <2>1 DEF Ring!LinesCountDown
  <2> QED
    BY <2>2, <2>3, <2>4 DEF Ring!ListInv
<1>4. Progress
  BY <1>1 DEF Init, Progress, AtRest, Severed, CountDone
<1> QED
  BY <1>2, <1>3, <1>4 DEF Inv

Stays == UNCHANGED <<list, pc, new, optimised, settled>>

LEMMA StayStep ==
  ASSUME Inv, Stays, UNCHANGED <<base, saved>>,
         reset' \in BOOLEAN, fault' \in {"none", "segv", "exit"}
  PROVE  Inv'
<1>1. Ring!ListInv'
  BY RingUnchanged DEF Inv, Stays
<1>2. Types'
  BY DEF Inv, Stays, Types, Pointer
<1>3. Progress'
  BY DEF Inv, Stays, list, heap, Progress, AtRest, UnderWay, Severed, CountDone,
         FreeDone, PrevDone, BackDone, CutOff, NewPrev, Evicting, Last
<1> QED
  BY <1>1, <1>2, <1>3 DEF Inv

LEMMA CardStep ==
  ASSUME Inv, CardScroll
  PROVE  Inv'
<1>1. Stays /\ base' = base + 1 /\ saved' = saved /\ base < saved
      /\ reset' = reset /\ fault' = fault
  BY DEF CardScroll, Stays
<1>2. base \in Nat /\ saved = base + 1
  BY <1>1, RingFacts DEF Inv
<1>3. pc = "idle" /\ AtRest
  BY <1>2 DEF Inv, Progress, UnderWay
<1>4. Ring!ListInv'
  <2>1. Ring!ListTypes'
    BY <1>1, <1>2 DEF Inv, Stays, Ring!ListInv, Ring!ListTypes
  <2>2. Ring!ListIntact'
    BY <1>1 DEF Inv, Stays, Ring!ListInv, Ring!ListIntact
  <2>3. Ring!LinesCountDown'
    BY <1>1 DEF Inv, Stays, Ring!ListInv, Ring!LinesCountDown
  <2> QED
    BY <2>1, <2>2, <2>3 DEF Ring!ListInv
<1>5. Types'
  BY <1>1 DEF Inv, Stays, Types, Pointer
<1>6. Progress'
  BY <1>1, <1>3 DEF Inv, Stays, list, heap, Progress, AtRest, Severed, CountDone
<1> QED
  BY <1>4, <1>5, <1>6 DEF Inv

LEMMA NextInv == Inv /\ [Next]_vars => Inv'
<1> SUFFICES ASSUME Inv, [Next]_vars PROVE Inv'
  OBVIOUS
<1>1. ASSUME NEW c \in Cell, Allocate(c) PROVE Inv'
  BY <1>1, AllocateStep
<1>2. CASE NoMemory
  BY <1>2, StayStep DEF NoMemory, Stop, Stays, Inv, Types
<1>3. CASE CopyLine
  BY <1>3, CopyStep
<1>4. CASE Evict
  BY <1>4, EvictStep
<1>5. CASE Cut
  BY <1>5, CutStep
<1>6. CASE Free
  BY <1>6, FreeStep
<1>7. CASE Grow
  BY <1>7, GrowStep
<1>8. CASE Count
  BY <1>8, CountStep
<1>9. CASE LinkBack
  BY <1>9, LinkBackStep
<1>10. CASE LinkNext
  BY <1>10, LinkNextStep
<1>11. CASE SetHead
  BY <1>11, SetHeadStep
<1>12. CASE Interrupt
  BY <1>12, StayStep DEF Interrupt, DumpFails, Stop, Stays, Inv, Types
<1>13. CASE Shutdown
  BY <1>13, StayStep DEF Shutdown, DumpFails, Stop, Stays, Inv, Types
<1>14. CASE CardScroll
  BY <1>14, CardStep
<1>15. CASE UNCHANGED vars
  BY <1>15, StayStep DEF vars, Stays, Inv, Types
<1> QED
  BY <1>1, <1>2, <1>3, <1>4, <1>5, <1>6, <1>7, <1>8, <1>9, <1>10, <1>11, <1>12,
     <1>13, <1>14, <1>15 DEF Next

LEMMA Invariance == Spec => []Inv
<1> QED
  BY InitInv, NextInv, PTL DEF Spec

-----------------------------------------------------------------------------
(* What a walk meets. *)

LEMMA ReachFacts ==
  ASSUME Inv
  PROVE  LET n == Len(settled.ring)
             m == Len(Reach)
         IN
         /\ m \in Nat /\ m <= MaxHist
         /\ Severed => Reach = <<new>> /\ m = 1
         /\ ~Severed => /\ m = IF CutOff THEN n - 1 ELSE n
                        /\ m <= n
                        /\ \A i \in 1..m : Reach[i] = settled.ring[i]
<1> DEFINE n == Len(settled.ring)
<1>1. /\ settled.ring \in Seq(Cell) /\ n \in Nat /\ n = settled.cnt /\ n <= MaxHist
  BY RingFacts DEF Inv
<1>2. CASE Severed
  BY <1>2, HistAssumption DEF Reach
<1>3. CASE ~Severed /\ CutOff
  <2>1. n # 0 /\ settled.ring # << >>
    BY <1>1, <1>3, HistAssumption DEF CutOff
  <2>2. Reach = SubSeq(settled.ring, 1, n - 1)
    BY <1>3 DEF Reach
  <2>3. /\ Len(Reach) = n - 1
        /\ \A i \in 1..(n - 1) : Reach[i] = settled.ring[i]
    BY <1>1, <2>1, <2>2, Ring!AllButLast
  <2> HIDE DEF n
  <2>4. n - 1 \in Nat /\ n - 1 <= n /\ n - 1 <= MaxHist
    BY <1>1, <2>1, HistAssumption
  <2> QED
    BY <1>3, <2>3, <2>4 DEF n
<1>4. CASE ~Severed /\ ~CutOff
  <2>1. Reach = settled.ring
    BY <1>4 DEF Reach
  <2> QED
    BY <1>1, <1>4, <2>1
<1> QED
  BY <1>2, <1>3, <1>4

LEMMA ReachIsTrail ==
  ASSUME Inv
  PROVE  IF Reach = << >> THEN lineHist = Null ELSE Trail(Reach)
<1> DEFINE n == Len(settled.ring)
           m == Len(Reach)
<1>1. /\ m \in Nat /\ Severed => Reach = <<new>> /\ m = 1
      /\ ~Severed => /\ m = IF CutOff THEN n - 1 ELSE n
                     /\ m <= n
                     /\ \A i \in 1..m : Reach[i] = settled.ring[i]
  BY ReachFacts
<1>2. CASE Severed
  <2>1. UnderWay /\ pc = "next" /\ optimised /\ lineHist = new
    BY <1>2 DEF Inv, Progress, Severed
  <2>2. new \in live /\ next[new] = Null
    BY <2>1, Known DEF UnderWay, Last, FreeDone, Evicting
  <2>3. Reach = <<new>>
    BY <1>1, <1>2
  <2> QED
    BY <2>1, <2>2, <2>3 DEF Trail
<1>3. CASE ~Severed
  <2>1. /\ n \in Nat
        /\ \A i \in 1..n : settled.ring[i] \in settled.live /\ settled.ring[i] \in Cell
        /\ \A i, j \in 1..n : i # j => settled.ring[i] # settled.ring[j]
        /\ \A i \in 1..n : /\ settled.next[settled.ring[i]] =
                                 IF i = n THEN Null ELSE settled.ring[i + 1]
                           /\ settled.prev[settled.ring[i]] =
                                 IF i = 1 THEN settled.ring[n] ELSE settled.ring[i - 1]
        /\ n = settled.cnt
    BY RingFacts DEF Inv
  <2>2. /\ settled.head = Null <=> n = 0
        /\ n # 0 => settled.head = settled.ring[1] /\ Last = settled.ring[n]
        /\ Evicting => n >= 2 /\ settled.prev[Last] = settled.ring[n - 1]
    BY Ends DEF Inv
  <2>3. lineHist = settled.head
    BY <1>3 DEF Inv, Progress
  <2>4. CutOff => Evicting /\ n >= 2
    BY <2>2 DEF CutOff, Evicting
  <2>5. Reach = << >> <=> n = 0
    <3>1. Reach = << >> <=> m = 0
      BY <2>1, <1>1 DEF Reach
    <3> HIDE DEF n, m
    <3> QED
      BY <1>1, <1>3, <2>1, <2>4, <3>1
  <2>6. m <= n /\ (CutOff => m = n - 1) /\ (~CutOff => m = n)
        /\ \A i \in 1..m : Reach[i] = settled.ring[i] /\ i \in 1..n
    BY <1>1, <1>3, <2>1
  <2>7. \A i \in 1..m : Reach[i] \in live
    <3>1. ASSUME NEW i \in 1..m PROVE settled.ring[i] \in live
      <4>1. CASE pc = "idle"
        BY <2>1, <2>6, <4>1 DEF Inv, Progress, AtRest
      <4>2. CASE pc # "idle" /\ ~FreeDone
        BY <2>1, <2>6, <4>2 DEF Inv, Progress, UnderWay
      <4>3. CASE pc # "idle" /\ FreeDone
        <5>1. CutOff
          BY <4>3 DEF CutOff, FreeDone, Evicting
        <5>2. i # n /\ n \in 1..n /\ n # 0
          BY <2>1, <2>6, <5>1
        <5>3. settled.ring[i] # Last
          BY <2>1, <2>2, <2>6, <5>2
        <5> QED
          BY <2>1, <2>6, <4>3, <5>3 DEF Inv, Progress, UnderWay
      <4> QED
        BY <4>1, <4>2, <4>3
    <3> QED
      BY <2>6, <3>1
  <2>8. \A i \in 1..m : next[Reach[i]] = IF i = m THEN Null ELSE Reach[i + 1]
    <3> SUFFICES ASSUME NEW i \in 1..m
                 PROVE  next[settled.ring[i]] = IF i = m THEN Null ELSE settled.ring[i + 1]
      <4>1. \A i \in 1..m : i # m => i + 1 \in 1..m
        BY <1>1
      <4> QED
        BY <2>6, <4>1
    <3>1. settled.ring[i] \in settled.live /\ settled.ring[i] \in Cell /\ i \in 1..n
      BY <2>1, <2>6
    <3>2. CASE pc = "idle"
      <4>1. ~CutOff /\ next = settled.next
        BY <3>2 DEF CutOff, Inv, Progress, AtRest
      <4> QED
        BY <2>1, <2>6, <3>1, <4>1
    <3>3. CASE pc # "idle"
      <4>1. settled.ring[i] # new
        BY <3>1, <3>3, Known
      <4>2. next[settled.ring[i]] =
              IF CutOff /\ settled.ring[i] = settled.prev[Last] THEN Null
              ELSE settled.next[settled.ring[i]]
        BY <3>1, <3>3, <4>1 DEF Inv, Progress, UnderWay
      <4>3. CASE ~CutOff
        BY <2>1, <2>6, <3>1, <4>2, <4>3
      <4>4. CASE CutOff
        <5>1. n - 1 \in 1..n /\ m = n - 1
          BY <2>1, <2>4, <2>6, <4>4
        <5>2. settled.ring[i] = settled.prev[Last] <=> i = m
          BY <2>1, <2>2, <2>4, <3>1, <4>4, <5>1
        <5>3. i # n
          BY <2>1, <5>1
        <5> QED
          BY <2>1, <3>1, <4>2, <4>4, <5>2, <5>3
      <4> QED
        BY <4>3, <4>4
    <3> QED
      BY <3>2, <3>3
  <2>9. \A i \in 2..m : prev[Reach[i]] = Reach[i - 1]
    <3> SUFFICES ASSUME NEW i \in 2..m
                 PROVE  prev[settled.ring[i]] = settled.ring[i - 1]
      <4>1. \A i \in 2..m : i \in 1..m /\ i - 1 \in 1..m
        BY <1>1
      <4> QED
        BY <2>6, <4>1
    <3>1. i \in 1..n /\ 1 \in 1..n /\ i # 1 /\ n # 0
      BY <1>1, <2>1, <2>6
    <3>2. /\ settled.ring[i] \in settled.live /\ settled.ring[i] \in Cell
          /\ settled.prev[settled.ring[i]] = settled.ring[i - 1]
          /\ settled.ring[i] # settled.head
      BY <2>1, <2>2, <3>1
    <3>3. CASE pc = "idle"
      BY <3>2, <3>3 DEF Inv, Progress, AtRest
    <3>4. CASE pc # "idle"
      <4>1. settled.ring[i] # new
        BY <3>2, <3>4, Known
      <4> QED
        BY <3>2, <3>4, <4>1 DEF Inv, Progress, UnderWay
    <3> QED
      BY <3>3, <3>4
  <2>10. CASE n = 0
    BY <2>2, <2>3, <2>5, <2>10
  <2>11. CASE n # 0
    <3>1. 1 \in 1..m
      BY <1>1, <2>1, <2>4, <2>6, <2>11
    <3>2. Reach[1] = lineHist
      BY <2>2, <2>3, <2>6, <2>11, <3>1
    <3> QED
      BY <2>5, <2>7, <2>8, <2>9, <2>11, <3>2 DEF Trail
  <2> QED
    BY <2>10, <2>11
<1> QED
  BY <1>2, <1>3

(* No statement of handle_scrollup leaves the list in a state in which the *)
(* handler would run off its end, over a freed line or round for ever.     *)
THEOREM AlwaysWalkable == Spec => []Walkable
<1>1. Inv => Walkable
  <2> SUFFICES ASSUME Inv, pc = "evict" PROVE AssertionsHold
    BY ReachIsTrail DEF Walkable
  <2>1. UnderWay /\ Evicting /\ lineHist = settled.head
    BY DEF Inv, Progress, UnderWay, Severed
  <2>2. prev = [x \in Cell |-> IF x = new THEN Null ELSE settled.prev[x]]
    BY <2>1 DEF UnderWay, PrevDone, BackDone
  <2>3. Oldest = Last /\ prev[Oldest] = settled.prev[Last]
    BY <2>1, <2>2, Known DEF Oldest, Last
  <2>4. Last \in Cell /\ settled.prev[Last] \in Cell
    BY <2>1, Known
  <2> QED
    BY <2>3, <2>4, NullAssumption DEF AssertionsHold
<1> QED
  BY <1>1, Invariance, PTL

-----------------------------------------------------------------------------
(* The memory has its types at every statement. *)

LEMMA HeapTypes ==
  ASSUME Inv
  PROVE  /\ live \in SUBSET Cell /\ line \in [Cell -> Nat]
         /\ next \in [Cell -> Pointer] /\ prev \in [Cell -> Pointer]
<1>1. settled \in ListType /\ base \in Nat
  BY RingFacts DEF Inv, Types
<1>2. CASE pc = "idle"
  BY <1>1, <1>2 DEF Inv, Progress, AtRest, ListType
<1>3. CASE pc # "idle"
  <2>1. /\ settled.live \in SUBSET Cell /\ settled.line \in [Cell -> Nat]
        /\ settled.head \in Pointer /\ settled.next \in [Cell -> Pointer]
        /\ settled.prev \in [Cell -> Pointer]
    BY <1>1 DEF ListType
  <2>2. NewPrev \in Pointer /\ new \in Cell
    BY <1>3, Known DEF NewPrev, Pointer
  <2>3. live \in SUBSET Cell
    BY <1>3, <2>1, <2>2 DEF Inv, Progress, UnderWay
  <2>4. line \in [Cell -> Nat]
    BY <1>1, <1>3, <2>1, <2>2 DEF Inv, Progress, UnderWay
  <2>5. next \in [Cell -> Pointer]
    BY <1>3, <2>1, <2>2 DEF Inv, Progress, UnderWay, Pointer
  <2>6. prev \in [Cell -> Pointer]
    BY <1>3, <2>1, <2>2 DEF Inv, Progress, UnderWay, Pointer
  <2> QED
    BY <2>3, <2>4, <2>5, <2>6
<1> QED
  BY <1>2, <1>3

-----------------------------------------------------------------------------
(* What a dump holds. *)

(* Every non-empty set of natural numbers has a least element.             *)
LEMMA LeastNumber ==
  ASSUME NEW S \in SUBSET Nat, S # {}
  PROVE  \E x \in S : \A y \in S : x <= y
<1> DEFINE R == OpToRel(<, Nat)
<1>1. IsWellFoundedOn(R, Nat)
  BY NatLessThanWellFounded
<1>2. ASSUME NEW x \in Nat, NEW y \in Nat, y < x
      PROVE  <<y, x>> \in R
  BY <1>2, Zenon DEF OpToRel
<1> HIDE DEF R
<1>3. PICK x \in S : \A y \in S : <<y, x>> \notin R
  BY <1>1, WFMin
<1>4. \A y \in S : ~(y < x)
  BY <1>2, <1>3
<1> QED
  BY <1>3, <1>4

(* There is one way along the list.                                        *)
LEMMA TrailsAgree ==
  ASSUME Inv,
         NEW s, NEW k \in Nat, Len(s) = k, k >= 1, Trail(s),
         NEW t, NEW m \in Nat, Len(t) = m, m >= 1, Trail(t)
  PROVE  k = m /\ \A i \in 1..k : s[i] = t[i]
<1> DEFINE D == {i \in 1..k : i <= m /\ s[i] # t[i]}
<1>1. /\ s[1] = lineHist /\ t[1] = lineHist
      /\ \A i \in 1..k : s[i] \in live /\ next[s[i]] = IF i = k THEN Null ELSE s[i + 1]
      /\ \A i \in 1..m : t[i] \in live /\ next[t[i]] = IF i = m THEN Null ELSE t[i + 1]
  BY DEF Trail
<1>2. Null \notin live
  BY HeapTypes, NullAssumption
<1>3. D = {}
  <2> SUFFICES ASSUME D # {} PROVE FALSE
    OBVIOUS
  <2>1. D \in SUBSET Nat
    OBVIOUS
  <2>2. PICK d \in D : \A e \in D : d <= e
    BY <2>1, LeastNumber
  <2>3. d \in 1..k /\ d <= m /\ s[d] # t[d]
    BY <2>2
  <2>4. d # 1
    BY <1>1, <2>3
  <2>5. /\ d - 1 \in 1..k /\ d - 1 \in 1..m /\ d - 1 # k /\ d - 1 # m
        /\ d - 1 <= m /\ ~(d <= d - 1) /\ d - 1 + 1 = d
    BY <2>3, <2>4
  <2>6. d - 1 \notin D
    BY <2>2, <2>5
  <2>7. s[d - 1] = t[d - 1]
    BY <2>5, <2>6
  <2>8. next[s[d - 1]] = s[d] /\ next[t[d - 1]] = t[d]
    BY <1>1, <2>5
  <2> QED
    BY <2>3, <2>7, <2>8
<1>4. \A i \in 1..k : i <= m => s[i] = t[i]
  BY <1>3
<1> HIDE DEF D
<1>5. k = m
  <2>1. CASE k < m
    <3>1. k \in 1..k /\ k \in 1..m /\ k # m /\ k + 1 \in 1..m /\ k <= m
      BY <2>1
    <3>2. next[s[k]] = Null /\ next[t[k]] = t[k + 1] /\ t[k + 1] \in live
      BY <1>1, <3>1
    <3> QED
      BY <1>2, <1>4, <3>1, <3>2
  <2>2. CASE m < k
    <3>1. m \in 1..k /\ m \in 1..m /\ m # k /\ m + 1 \in 1..k /\ m <= m
      BY <2>2
    <3>2. next[t[m]] = Null /\ next[s[m]] = s[m + 1] /\ s[m + 1] \in live
      BY <1>1, <3>1
    <3> QED
      BY <1>2, <1>4, <3>1, <3>2
  <2> QED
    BY <2>1, <2>2
<1> QED
  BY <1>4, <1>5

(* The dump of this state. *)
IsDump ==
  LET m == Len(Reach) IN
  /\ m >= 1
  /\ dump \in Seq(Nat) /\ Len(dump) = m - 1 + Height
  /\ \A i \in 1..(m - 1 + Height) :
        dump[i] = IF i < m THEN saved - m + i ELSE base + i - m + 1

ReachLines(m) ==
  ~Severed => \A i \in 1..m : /\ line[Reach[i]] = saved + 1 - i
                              /\ settled.line[Reach[i]] = saved + 1 - i

LEMMA LinesOfReach ==
  ASSUME Inv PROVE ReachLines(Len(Reach))
<1> DEFINE n == Len(settled.ring)
           m == Len(Reach)
<1>1. /\ m \in Nat
      /\ ~Severed => m <= n /\ \A i \in 1..m : Reach[i] = settled.ring[i]
  BY ReachFacts
<1>2. /\ n \in Nat
      /\ \A i \in 1..n : settled.ring[i] \in settled.live /\ settled.ring[i] \in Cell
      /\ \A i \in 1..n : settled.line[settled.ring[i]] = saved + 1 - i
      /\ settled.line \in [Cell -> Nat]
  BY RingFacts DEF Inv
<1> HIDE DEF n, m
<1> SUFFICES ASSUME ~Severed, NEW i \in 1..m
             PROVE  /\ line[Reach[i]] = saved + 1 - i
                    /\ settled.line[Reach[i]] = saved + 1 - i
  BY DEF ReachLines, m
<1>3. i \in 1..n /\ Reach[i] = settled.ring[i]
  BY <1>1, <1>2
<1>4. settled.line[Reach[i]] = saved + 1 - i
  BY <1>2, <1>3
<1>5. line[settled.ring[i]] = settled.line[settled.ring[i]]
  <2>1. CASE pc = "idle"
    BY <2>1 DEF Inv, Progress, AtRest
  <2>2. CASE pc # "idle"
    <3>1. settled.ring[i] # new /\ settled.ring[i] \in Cell
      BY <1>2, <1>3, <2>2, Known
    <3>2. line = [settled.line EXCEPT ![new] = IF pc = "copy" THEN 0 ELSE base + 1]
      BY <2>2 DEF Inv, Progress, UnderWay
    <3> QED
      BY <1>2, <3>1, <3>2
  <2> QED
    BY <2>1, <2>2
<1> QED
  BY <1>3, <1>4, <1>5

LEMMA DumpOfTrail ==
  ASSUME Inv, NEW s \in Trails
  PROVE  LET m == Len(Reach)
             d == DumpText(s)
         IN
         /\ m >= 1
         /\ d \in Seq(Nat) /\ Len(d) = m - 1 + Height
         /\ \A i \in 1..(m - 1 + Height) :
               d[i] = IF i < m THEN saved - m + i ELSE base + i - m + 1
<1> DEFINE m == Len(Reach)
           d == DumpText(s)
<1>1. PICK k \in 1..MaxHist : s \in [1..k -> live]
  BY DEF Trails
<1>2. Trail(s) /\ k \in Nat /\ k >= 1 /\ Len(s) = k
  BY <1>1, HistAssumption DEF Trails
<1>3. Null \notin live /\ lineHist \in live
  <2>1. 1 \in 1..k
    BY <1>2
  <2> QED
    BY <1>1, <1>2, <2>1, HeapTypes, NullAssumption DEF Trail
<1>4. /\ m \in Nat /\ Severed => m = 1
      /\ Reach # << >> => m >= 1
  BY ReachFacts, RingFacts DEF Reach, Inv
<1>5. Trail(Reach) /\ Reach # << >>
  BY <1>3, ReachIsTrail
<1>6. k = m /\ \A i \in 1..k : s[i] = Reach[i]
  BY <1>2, <1>4, <1>5, TrailsAgree
<1>7. ~Severed => \A i \in 1..m : line[Reach[i]] = saved + 1 - i
  BY LinesOfReach DEF ReachLines
<1>8. /\ base \in Nat /\ saved \in Nat /\ Height \in Nat /\ Height >= 1
      /\ live \subseteq Cell /\ line \in [Cell -> Nat]
  <2>1. base \in Nat /\ saved \in {base, base + 1}
    BY RingFacts DEF Inv
  <2>2. live \subseteq Cell /\ line \in [Cell -> Nat]
    BY HeapTypes
  <2> QED
    BY <2>1, <2>2, HeightAssumption
<1>9. d = [i \in 1..(k - 1 + Height) |->
             IF i < k THEN line[s[k + 1 - i]] ELSE base + (i - k + 1)]
  BY <1>2 DEF DumpText, FbLine
<1> HIDE DEF m, d
<1>10. ASSUME NEW i \in 1..(k - 1 + Height)
       PROVE  /\ d[i] \in Nat
              /\ d[i] = IF i < m THEN saved - m + i ELSE base + i - m + 1
  <2>1. d[i] = IF i < k THEN line[s[k + 1 - i]] ELSE base + (i - k + 1)
    BY <1>9
  <2>2. CASE i < k
    <3>1. k + 1 - i \in 1..k /\ k # 1
      BY <1>2, <2>2
    <3>2. s[k + 1 - i] \in live /\ s[k + 1 - i] = Reach[k + 1 - i]
      BY <1>1, <1>6, <3>1
    <3>3. line[s[k + 1 - i]] \in Nat
      BY <1>8, <3>2
    <3>4. ~Severed
      BY <1>4, <1>6, <3>1
    <3>5. line[s[k + 1 - i]] = saved + 1 - (k + 1 - i)
      BY <1>6, <1>7, <3>1, <3>2, <3>4
    <3>6. saved + 1 - (k + 1 - i) = saved - k + i
      BY <1>2, <1>8
    <3> QED
      BY <1>6, <2>1, <2>2, <3>3, <3>5, <3>6
  <2>3. CASE ~(i < k)
    <3>1. base + (i - k + 1) = base + i - k + 1 /\ base + (i - k + 1) \in Nat
      BY <1>2, <1>8, <2>3
    <3> QED
      BY <1>6, <2>1, <2>3, <3>1
  <2> QED
    BY <2>2, <2>3
<1>11. k - 1 + Height \in Nat
  BY <1>2, <1>8
<1>12. d \in Seq(Nat) /\ Len(d) = k - 1 + Height
  BY <1>9, <1>10, <1>11
<1> QED
  BY <1>2, <1>6, <1>10, <1>12 DEF m, d

DumpInv == dump # << >> => IsDump

LEMMA DumpStep ==
  ASSUME Inv, DumpInv, [Next]_vars
  PROVE  DumpInv'
<1>1. CASE Stays /\ UNCHANGED <<base, saved>> /\ \E s \in Trails : dump' = DumpText(s)
  <2>1. PICK s \in Trails : dump' = DumpText(s)
    BY <1>1
  <2>2. Len(Reach') = Len(Reach)
    BY <1>1 DEF Stays, Reach, CutOff, Severed
  <2> QED
    BY <1>1, <2>1, <2>2, DumpOfTrail DEF DumpInv, IsDump
<1>2. CASE dump' = << >>
  BY <1>2 DEF DumpInv
<1>3. CASE UNCHANGED vars
  <2>1. Len(Reach') = Len(Reach)
    BY <1>3 DEF vars, Reach, CutOff, Severed
  <2> QED
    BY <1>3, <2>1 DEF vars, DumpInv, IsDump
<1>4. CASE Interrupt \/ Shutdown
  BY <1>1, <1>2, <1>4 DEF Interrupt, Shutdown, DumpFails, Stop, Stays
<1>5. CASE Next /\ ~Interrupt /\ ~Shutdown
  BY <1>2, <1>5
     DEF Next, Allocate, NoMemory, CopyLine, Evict, Cut, Free, Grow, Count, LinkBack,
         LinkNext, SetHead, CardScroll, Stop, Done
<1> QED
  BY <1>3, <1>4, <1>5

LEMMA DumpInvariance == Spec => []DumpInv
<1>1. Init => DumpInv
  BY DEF Init, DumpInv
<1> QED
  BY <1>1, DumpStep, Invariance, PTL DEF Spec

(* Whatever it interrupts, a dump is in order and ends with the frame      *)
(* buffer; it lacks the newest line philix held and, once that is cut off, *)
(* the oldest - and between the two exchanged stores all of them.          *)
THEOREM DumpsNearlyWhole == Spec => []DumpNearlyWhole
<1>1. Inv /\ DumpInv => DumpNearlyWhole
  <2> SUFFICES ASSUME Inv, IsDump PROVE DumpNearlyWhole
    BY DEF DumpInv, DumpNearlyWhole
  <2> DEFINE n == Len(settled.ring)
             m == Len(Reach)
             l == m - 1 + Height
  <2>1. /\ m \in Nat /\ m >= 1 /\ Height \in Nat /\ Height >= 1
        /\ Len(dump) = l /\ dump \in Seq(Nat)
        /\ \A i \in 1..l : dump[i] = IF i < m THEN saved - m + i ELSE base + i - m + 1
        /\ base \in Nat /\ saved \in {base, base + 1}
        /\ Severed => m = 1
        /\ ~Severed => /\ m = IF CutOff THEN n - 1 ELSE n
                       /\ m <= n
                       /\ \A i \in 1..m : Reach[i] = settled.ring[i]
    BY ReachFacts, RingFacts, HeightAssumption DEF Inv, IsDump
  <2>2. ~Severed => \A i \in 1..m : settled.line[Reach[i]] = saved + 1 - i
    BY LinesOfReach DEF ReachLines
  <2>3. n \in Nat
    BY RingFacts DEF Inv
  <2> HIDE DEF n, m
  <2>4. l \in Nat /\ l >= 1 /\ l >= m
    BY <2>1
  <2>5. \A i \in 1..(l - 1) : dump[i] <= dump[i + 1]
    <3> SUFFICES ASSUME NEW i \in 1..(l - 1) PROVE dump[i] <= dump[i + 1]
      OBVIOUS
    <3>1. i \in 1..l /\ i + 1 \in 1..l
      BY <2>4
    <3>2. /\ dump[i] = IF i < m THEN saved - m + i ELSE base + i - m + 1
          /\ dump[i + 1] = IF i + 1 < m THEN saved - m + (i + 1)
                           ELSE base + (i + 1) - m + 1
      BY <2>1, <3>1
    <3>3. i \in Nat /\ saved \in Nat /\ saved <= base + 1
      BY <2>1, <3>1
    <3>4. CASE i + 1 < m
      <4>1. i < m /\ saved - m + i <= saved - m + (i + 1)
        BY <2>1, <3>3, <3>4
      <4> QED
        BY <3>2, <3>4, <4>1
    <3>5. CASE ~(i + 1 < m) /\ i < m
      <4>1. saved - m + i <= base + (i + 1) - m + 1
        BY <2>1, <3>3
      <4> QED
        BY <3>2, <3>5, <4>1
    <3>6. CASE ~(i < m)
      <4>1. ~(i + 1 < m) /\ base + i - m + 1 <= base + (i + 1) - m + 1
        BY <2>1, <3>3, <3>6
      <4> QED
        BY <3>2, <3>6, <4>1
    <3> QED
      BY <3>4, <3>5, <3>6
  <2>6. dump[l] = base + Height
    <3>1. l \in 1..l /\ ~(l < m) /\ base + l - m + 1 = base + Height
      BY <2>1, <2>4
    <3> QED
      BY <2>1, <3>1
  <2>7. ASSUME ~Severed, NEW i \in 2..n
        PROVE  \/ settled.line[settled.ring[i]] \in {dump[j] : j \in DOMAIN dump}
               \/ CutOff /\ i = n
    <3>1. CASE i <= m
      <4>1. i \in 1..m /\ m + 1 - i \in 1..l /\ m + 1 - i < m
        BY <2>1, <2>3, <2>4, <3>1
      <4>2. settled.line[settled.ring[i]] = saved + 1 - i
        BY <2>1, <2>2, <2>7, <4>1
      <4>3. dump[m + 1 - i] = saved - m + (m + 1 - i)
        BY <2>1, <4>1
      <4>4. saved - m + (m + 1 - i) = saved + 1 - i
        BY <2>1, <2>3
      <4>5. DOMAIN dump = 1..l
        BY <2>1
      <4> QED
        BY <4>1, <4>2, <4>3, <4>4, <4>5
    <3>2. CASE ~(i <= m)
      <4>1. CutOff /\ i = n
        BY <2>1, <2>3, <2>7, <3>2
      <4> QED
        BY <4>1
    <3> QED
      BY <3>1, <3>2
  <2>8. Severed => Len(dump) = Height
    BY <2>1
  <2> QED
    BY <2>1, <2>5, <2>6, <2>7, <2>8 DEF DumpNearlyWhole, FbLine, n
<1> QED
  BY <1>1, Invariance, DumpInvariance, PTL

-----------------------------------------------------------------------------
(* Types, and the refinement. *)

(* Every variable keeps its type. *)
THEOREM TypesKept == Spec => []TypeOK
<1>1. Inv /\ DumpInv => TypeOK
  <2> SUFFICES ASSUME Inv, DumpInv PROVE TypeOK
    OBVIOUS
  <2>1. /\ settled \in ListType /\ base \in Nat /\ saved \in {base, base + 1}
    BY RingFacts DEF Inv, Types
  <2>2. dump \in Seq(Nat)
    <3>1. IsDump => dump \in Seq(Nat)
      BY DEF IsDump
    <3>2. << >> \in Seq(Nat)
      OBVIOUS
    <3> QED
      BY <3>1, <3>2 DEF DumpInv
  <2>3. /\ live \in SUBSET Cell /\ line \in [Cell -> Nat]
        /\ next \in [Cell -> Pointer] /\ prev \in [Cell -> Pointer]
    BY HeapTypes
  <2>4. lineHist \in Pointer /\ settled.ring \in Seq(Cell)
    BY <2>1 DEF Inv, Types, Progress, ListType
  <2>5. histCnt \in 0..MaxHist
    <3>1. settled.cnt \in 0..MaxHist
      BY <2>1 DEF ListType
    <3> QED
      BY <3>1, HistAssumption DEF Inv, Progress, CountDone, Evicting
  <2>6. List(settled.ring) \in ListType
    BY <2>3, <2>4, <2>5 DEF List, ListType
  <2> QED
    BY <2>1, <2>2, <2>6 DEF Inv, Types, Positions, TypeOK
<1> QED
  BY <1>1, Invariance, DumpInvariance, PTL

LEMMA StatementsRefine ==
  ASSUME Inv, CopyLine \/ Evict \/ Cut \/ Free \/ Grow \/ Count \/ LinkBack
              \/ LinkNext \/ SetHead
  PROVE  [Atomic!Next]_(Atomic!vars)
<1>1. CASE LastStatement
  <2>1. new \in Cell /\ Atomic!HandleScrollup(new)
    BY <1>1, LastIsSave, Known DEF LastStatement
  <2> QED
    BY <2>1 DEF Atomic!Next
<1>2. CASE Done /\ pc' # "idle"
  BY <1>2 DEF Done, Atomic!vars, Atomic!listVars, Atomic!winVars
<1>3. CASE (LinkNext /\ optimised) \/ (SetHead /\ ~optimised)
  BY <1>1, <1>3, LinkNextLast, SetHeadLast
<1>4. CASE (LinkNext /\ ~optimised) \/ (SetHead /\ optimised)
  <2>1. Done /\ pc \in {"next", "head"}
        /\ pc' # "idle"
    BY <1>4 DEF LinkNext, SetHead, At, Done, Following, LinkAfter
  <2> QED
    BY <1>2, <2>1
<1>5. CASE CopyLine \/ Evict \/ Cut \/ Free \/ Grow \/ Count \/ LinkBack
  <2>1. Done /\ pc \in Positions \ {"idle", "next", "head"}
    BY <1>5 DEF CopyLine, Evict, Cut, Free, Grow, Count, LinkBack, At, Positions
  <2>2. pc' # "idle"
    BY <2>1 DEF Positions, Done, Following, EvictionAfter, LinkAfter
  <2> QED
    BY <1>2, <2>1, <2>2
<1> QED
  BY <1>3, <1>4, <1>5

(* To all that looks at the list between two updates, handle_scrollup is   *)
(* one step: LineHistory is implemented by the statements.                 *)
THEOREM StatementsAreAtomic == Spec => AtomicSpec
<1>1. Init => Atomic!Init
  BY DEF Init, List, Atomic!Init, Atomic!Row
<1>2. Inv /\ [Next]_vars => [Atomic!Next]_(Atomic!vars)
  <2> SUFFICES ASSUME Inv, [Next]_vars PROVE [Atomic!Next]_(Atomic!vars)
    OBVIOUS
  <2>1. ASSUME Stays, UNCHANGED <<base, saved, fault>>
        PROVE  [Atomic!Next]_(Atomic!vars)
    BY <2>1 DEF Stays, Atomic!vars, Atomic!listVars, Atomic!winVars
  <2>2. ASSUME fault = "none", Stays, UNCHANGED <<base, saved>>, fault' = "exit"
        PROVE  Atomic!Shutdown
    BY <2>2 DEF Stays, Atomic!Shutdown, Atomic!Running, Atomic!Stop, Atomic!NoDump,
                Atomic!listVars, Atomic!winVars
  <2>3. ASSUME fault = "none", Stays, UNCHANGED <<base, saved>>, fault' = "segv",
               lineHist = Null
        PROVE  Atomic!Shutdown
    <3>1. settled.head = Null
      BY <2>3, Known DEF Inv, Progress, Severed
    <3> QED
      BY <2>3, <3>1 DEF Stays, Atomic!Shutdown, Atomic!Running, Atomic!Stop,
                        Atomic!NoDump, Atomic!listVars, Atomic!winVars
  <2>4. CASE CardScroll
    <3>1. Atomic!CardScroll
      BY <2>4 DEF CardScroll, Atomic!CardScroll, Atomic!NoDump, Atomic!listVars,
                  Atomic!winVars
    <3> QED
      BY <3>1 DEF Atomic!Next
  <2>5. CASE \E c \in Cell : Allocate(c)
    BY <2>5 DEF Allocate, Atomic!vars, Atomic!listVars, Atomic!winVars
  <2>6. CASE NoMemory
    BY <2>2, <2>6 DEF NoMemory, Running, Stop, Stays, Atomic!Next
  <2>7. CASE Interrupt
    BY <2>1, <2>2, <2>3, <2>7 DEF Interrupt, DumpFails, Running, Stop, Stays, Atomic!Next
  <2>8. CASE Shutdown
    BY <2>2, <2>3, <2>8 DEF Shutdown, DumpFails, Running, Stop, Stays, Atomic!Next
  <2>9. CASE UNCHANGED vars
    BY <2>1, <2>9 DEF vars, Stays
  <2>10. CASE CopyLine \/ Evict \/ Cut \/ Free \/ Grow \/ Count \/ LinkBack
              \/ LinkNext \/ SetHead
    BY <2>10, StatementsRefine
  <2> QED
    BY <2>4, <2>5, <2>6, <2>7, <2>8, <2>9, <2>10 DEF Next
<1> QED
  BY <1>1, <1>2, Invariance, PTL DEF Spec, AtomicSpec, Atomic!Spec
=============================================================================
