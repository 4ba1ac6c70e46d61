---------------------------- MODULE ViewerProofs ----------------------------
(***************************************************************************)
(* What the history and a dump show of the terminal's text: readable, for  *)
(* however many unearned acknowledgements (the card then overtakes the     *)
(* copy), every height and every number of lines.                          *)
(*                                                                         *)
(* The frame buffer is known word for word (Standing), also while it is    *)
(* scrolled.  While philix copies a line the kernel can pass at most one   *)
(* more wait, which is not enough to scroll twice (Need, Credit).          *)
(***************************************************************************)
EXTENDS ConsoleProofs, SequenceTheorems

(* The index of a word of a row. *)
Of(r, w) == 2 * (r - 1) + w

FrameTypes ==
  /\ fb \in [1..Words -> Left..MaxLines] /\ screen \in [1..Words -> Left..MaxLines]
  /\ tpc \in {"init", "blank", "print", "line", "scroll", "shift", "redraw", "done"}
  /\ row \in 1..Height /\ printed \in 0..MaxLines /\ pos \in 1..Words
  /\ copied \in Seq(Left..MaxLines) /\ Len(copied) <= 2
  /\ hist \in Seq([1..2 -> Left..MaxLines])
  /\ dump \in Seq(Left..MaxLines) /\ Len(dump) <= Words

-----------------------------------------------------------------------------
(* The frame buffer, whatever philix does. *)

(* The word stands in the row of the cursor, before it. *)
Begun(r, w) == tpc = "print" /\ r = row /\ w < pos

Content(r, w) ==
  IF tpc = "init" THEN IF pos <= Of(r, w) THEN Left ELSE 0
  ELSE IF tpc # "shift"
    THEN IF Gone + r <= printed \/ Begun(r, w) THEN Gone + r ELSE 0
    ELSE IF pos <= Of(r, w) THEN Gone + r
         ELSE IF r # Height THEN Gone + r + 1 ELSE 0

Standing ==
  /\ Gone \in Nat /\ (row # Height => Gone = 0)
  /\ tpc \in {"init", "blank"} => row = 1 /\ printed = 0
  /\ tpc \in {"scroll", "shift", "redraw"} => row = Height
  /\ pos # 1 => /\ cpc \in {"run", "reset"}
                /\ tpc \in {"init", "shift"} \/ (tpc = "print" /\ pos = 2 /\ printed < MaxLines)
  /\ note = "CONSOLE_SHUTDOWN" => tpc = "done"
  /\ cpc = "halted" => note = "CONSOLE_SHUTDOWN"
  /\ \A r \in 1..Height, w \in 1..2 : fb[Of(r, w)] = Content(r, w)

-----------------------------------------------------------------------------
(* How many more waits the kernel must pass before it moves the first word *)
(* of the frame buffer (2: at least two), and how many it can pass without *)
(* philix.                                                                 *)
Need ==
  IF tpc = "shift" /\ pos = 1 THEN IF cpc = "run" THEN 0 ELSE 1
  ELSE IF tpc = "scroll" /\ cpc = "run" THEN 1 ELSE 2

Credit == IF cpc = "clear" THEN 1 ELSE drawn

Neighbours(line) == Left \in {line[1], line[2]} \/ line[1] - line[2] \in -1..1

HistInv ==
  /\ copied # << >> => hpc = "dispatch" /\ upd = "SCROLLUP"
  /\ Len(copied) = 1 => \/ copied[1] = Left \/ fb[1] = copied[1]
                        \/ fb[1] = copied[1] + 1 /\ Need > Credit
  /\ Len(copied) = 2 => Neighbours(copied)
  /\ \A w \in 1..Len(copied) : copied[w] <= fb[w]
  /\ \A i \in 1..Len(hist), w \in 1..2 : hist[i][w] <= fb[w]
  /\ \A i \in 1..Len(hist), w \in 1..Len(copied) : hist[i][w] <= copied[w]
  /\ HistoryReadable

-----------------------------------------------------------------------------
(* What a dump has written. *)

Ascending ==
  /\ hpc \in {"dispatch", "ack", "draw", "aborted"} => dump = << >>
  /\ \A r \in 1..(Height - 1), w \in 1..2 :
       Of(r, w) <= Len(dump) => dump[Of(r, w)] <= fb[Of(r, w)]
  /\ \A r \in 1..Height, w \in 1..2 : Of(r, w) <= Len(dump) =>
       \A q \in 1..(r - 1) : dump[Of(q, w)] <= dump[Of(r, w)] \/ dump[Of(r, w)] <= 0

(* A row written as blank: the n-th line was not printed, and of the lines *)
(* after it at most one is printed before philix goes on.                  *)
StaysBlank(n) ==
  n > printed \/ (n = printed /\ (tpc = "line" \/ cpc = "signal" \/ ~Handled))

(* philix has left its loop other than by an assertion. *)
Ending == {"stopping", "gone", "lost"}

Current ==
  /\ upd = "CONSOLE_SHUTDOWN" => tpc = "done"
  /\ hpc = "poll" => \A r \in 1..Height, w \in 1..2 : Of(r, w) <= Len(dump) =>
       LET n == Len(hist) + r
           d == dump[Of(r, w)]
       IN  d \in {n - 1, n} \/ (d = 0 /\ StaysBlank(n))
  /\ hpc \in Ending /\ dump # << >> =>
       tpc = "done" /\ \A i \in 1..Len(dump) : dump[i] = fb[i]

DumpInv == Ascending /\ (unearned = 0 => Current)

-----------------------------------------------------------------------------
(* Types. *)

LEMMA RegistersTyped == Spec => []P!TypeOK
<1>1. Q!IndInv => P!TypeOK
  BY DEF Q!IndInv, P!TypeOK, Q!TypeOK, P!UpdateType, Q!UpdateType, P!Kinds,
         Q!Kinds, P!ArgKinds, Q!ArgKinds, P!PlainKinds, Q!PlainKinds,
         P!NoUpdate, Q!NoUpdate, P!Ended, Q!Ended
<1> QED
  BY <1>1, ProtocolInvariance, PTL

LEMMA Sizes == /\ Height \in Nat /\ Height >= 2
               /\ Words = 2 * Height /\ Words \in Nat /\ Words >= 4
BY HeightAssumption DEF Words, Word

(* Of numbers the words, row by row. *)
LEMMA WordOf ==
  ASSUME NEW r \in 1..Height, NEW w \in 1..2
  PROVE  /\ Of(r, w) \in 1..Words
         /\ \A q \in 1..Height, v \in 1..2 : Of(q, v) = Of(r, w) => q = r /\ v = w
BY Sizes DEF Of

LEMMA RowOf ==
  ASSUME NEW i \in 1..Words
  PROVE  \E r \in 1..Height, w \in 1..2 : i = Of(r, w)
<1>1. CASE i % 2 = 0
  <2>1. i = Of(i \div 2, 2) /\ i \div 2 \in 1..Height
    BY <1>1, Sizes DEF Of
  <2> QED
    BY <2>1
<1>2. CASE i % 2 = 1
  <2>1. i = Of((i + 1) \div 2, 1) /\ (i + 1) \div 2 \in 1..Height
    BY <1>2, Sizes DEF Of
  <2> QED
    BY <2>1
<1> QED
  BY <1>1, <1>2, Sizes

LEMMA PairOf ==
  ASSUME NEW S, NEW s \in Seq(S), Len(s) = 2
  PROVE  s \in [1..2 -> S]
BY LenProperties

LEMMA InitFrameTypes == Init => FrameTypes
<1> SUFFICES ASSUME Init PROVE FrameTypes
  OBVIOUS
<1>1. /\ Blank \in [1..Words -> Left..MaxLines]
      /\ [i \in 1..Words |-> Left] \in [1..Words -> Left..MaxLines]
  BY LinesAssumption DEF Blank, Left
<1>2. << >> \in Seq(Left..MaxLines) /\ << >> \in Seq([1..2 -> Left..MaxLines])
      /\ Len(<< >>) = 0
  OBVIOUS
<1> QED
  BY <1>1, <1>2, Sizes, LinesAssumption DEF Init, FrameTypes

LEMMA FrameTypesStep ==
  ASSUME FrameTypes, [Next]_vars
  PROVE  FrameTypes'
<1>t. /\ fb \in [1..Words -> Left..MaxLines] /\ row \in 1..Height
      /\ printed \in 0..MaxLines /\ pos \in 1..Words
  BY DEF FrameTypes
<1>1. Words = 2 * Height /\ Words \in Nat /\ Height \in Nat /\ MaxLines \in Nat
  BY Sizes, LinesAssumption
<1>b. CASE BlankWord
  <2>1. fb' \in [1..Words -> Left..MaxLines]
    <3>1. 0 \in Left..MaxLines
      BY <1>1 DEF Left
    <3> QED
      BY <1>b, <1>t, <3>1 DEF BlankWord
  <2>2. pos' \in 1..Words /\ tpc' \in {"init", "blank"}
    BY <1>1, <1>b, <1>t, Sizes DEF BlankWord
  <2> QED
    BY <1>b, <2>1, <2>2 DEF BlankWord, viewer, text, FrameTypes
<1>2. CASE PutWord
  <2>1. printed + 1 \in 0..MaxLines /\ printed + 1 \in Left..MaxLines
    BY <1>1, <1>2, <1>t DEF PutWord, Left
  <2>2. fb' \in [1..Words -> Left..MaxLines]
    BY <1>2, <2>1, <1>t DEF PutWord
  <2>3. pos' \in 1..Words /\ printed' \in 0..MaxLines /\ tpc' \in {"print", "line"}
    BY <1>1, <1>2, <2>1, <1>t DEF PutWord, Word
  <2>4. UNCHANGED <<row, copied, hist, screen, dump>>
    BY <1>2 DEF PutWord, viewer, text
  <2> QED
    BY <2>2, <2>3, <2>4 DEF FrameTypes
<1>3. CASE Shift
  <2>1. fb' \in [1..Words -> Left..MaxLines]
    <3> DEFINE new == IF pos + Word <= Words THEN fb[pos + Word] ELSE 0
    <3>1. new \in Left..MaxLines
      BY <1>1, <1>t DEF Word, Left
    <3>2. fb' = [fb EXCEPT ![pos] = new]
      BY <1>3 DEF Shift
    <3> HIDE DEF new
    <3> QED
      BY <3>1, <3>2, <1>t
  <2>2. pos' \in 1..Words /\ tpc' \in {"shift", "redraw"}
    BY <1>1, <1>3, <1>t, Sizes DEF Shift
  <2> QED
    BY <1>3, <2>1, <2>2 DEF Shift, viewer, text, FrameTypes
<1>4. CASE TermInit \/ EndLine \/ AnnounceScroll \/ AskRedraw \/ SendShutdown
  <2>1. UNCHANGED <<fb, printed, pos, copied, hist, screen, dump>>
    BY <1>4 DEF TermInit, EndLine, AnnounceScroll, AskRedraw, SendShutdown,
       viewer, text
  <2>2. tpc' \in {"print", "scroll", "shift", "done"}
    BY <1>4 DEF TermInit, EndLine, AnnounceScroll, AskRedraw, SendShutdown, Steps
  <2>3. row' = row \/ (row < Height /\ row' = row + 1)
    BY <1>1, <1>4, <1>t DEF TermInit, EndLine, AnnounceScroll, AskRedraw, SendShutdown
  <2>4. row' \in 1..Height
    BY <1>1, <1>t, <2>3
  <2> QED
    BY <2>1, <2>2, <2>4 DEF FrameTypes
<1>5. CASE SaveLine
  <2>1. copied \in [1..2 -> Left..MaxLines]
    BY <1>5, PairOf DEF SaveLine, Word, FrameTypes
  <2>2. Append(hist, copied) \in Seq([1..2 -> Left..MaxLines])
    BY <2>1 DEF FrameTypes
  <2>3. << >> \in Seq(Left..MaxLines) /\ Len(<< >>) = 0
    OBVIOUS
  <2>4. /\ UNCHANGED <<fb, tpc, row, printed, pos, screen, dump>>
        /\ hist' = Append(hist, copied) /\ copied' = << >>
    BY <1>5 DEF SaveLine, term
  <2> QED
    BY <2>2, <2>3, <2>4 DEF FrameTypes
<1>6. CASE CopyWord
  <2>1. Len(copied) \in Nat /\ Len(copied) < 2
    BY <1>6 DEF CopyWord, Word, FrameTypes
  <2>2. fb[Len(copied) + 1] \in Left..MaxLines
    BY <2>1, <1>t, Sizes
  <2>3. Append(copied, fb[Len(copied) + 1]) \in Seq(Left..MaxLines)
        /\ Len(Append(copied, fb[Len(copied) + 1])) <= 2
    BY <2>1, <2>2 DEF FrameTypes
  <2> QED
    BY <1>6, <2>3 DEF CopyWord, term, FrameTypes
<1>7. CASE DumpWord
  <2>1. Len(dump) \in Nat /\ Len(dump) < Words
    BY <1>7 DEF DumpWord, FrameTypes
  <2>2. fb[Len(dump) + 1] \in Left..MaxLines
    BY <1>1, <1>t, <2>1
  <2>3. Append(dump, fb[Len(dump) + 1]) \in Seq(Left..MaxLines)
        /\ Len(Append(dump, fb[Len(dump) + 1])) <= Words
    BY <1>1, <2>1, <2>2 DEF FrameTypes
  <2> QED
    BY <1>7, <2>3 DEF DumpWord, term, text, FrameTypes
<1>8. CASE Draw
  BY <1>8 DEF Draw, term, FrameTypes
<1>9. CASE HostProtocol
  <2>1. << >> \in Seq(Left..MaxLines) /\ Len(<< >>) <= Words
    BY <1>1
  <2> QED
    BY <1>9, <2>1 DEF HostProtocol, term, text, FrameTypes
<1>10. CASE CardProtocol \/ HandleShutdown \/ Fail \/ UNCHANGED vars
  BY <1>10 DEF CardProtocol, HandleShutdown, Fail, viewer, text, term, vars, FrameTypes
<1> QED
  BY <1>2, <1>3, <1>4, <1>5, <1>6, <1>7, <1>8, <1>9, <1>10, <1>b DEF Next, Card, Host

LEMMA FrameTypesHold == Spec => []FrameTypes
BY InitFrameTypes, FrameTypesStep, PTL DEF Spec

(* The terminal and the viewer keep their types, whatever the register     *)
(* protocol loses: no word is printed outside the frame buffer, and what   *)
(* is saved in the history is a whole line.                                *)
THEOREM TypesCorrect == Spec => []TypeOK
<1>1. FrameTypes /\ P!TypeOK => TypeOK
  BY DEF FrameTypes, TypeOK, Word
<1> QED
  BY <1>1, FrameTypesHold, RegistersTyped, PTL

-----------------------------------------------------------------------------
(* Standing is kept, whatever philix does. *)

LEMMA InitStanding == Init => Standing
<1> SUFFICES ASSUME Init PROVE Standing
  OBVIOUS
<1>1. /\ tpc = "init" /\ row = 1 /\ printed = 0 /\ pos = 1 /\ cpc = "run"
      /\ note = "NO_UPDATE" /\ fb = [i \in 1..Words |-> Left]
  BY DEF Init, P!Init, P!NoUpdate
<1>2. Gone = 0
  BY <1>1 DEF Gone
<1>3. ASSUME NEW r \in 1..Height, NEW w \in 1..2 PROVE fb[Of(r, w)] = Content(r, w)
  BY <1>1, <1>2, WordOf, Sizes DEF Content, Begun
<1> QED
  BY <1>1, <1>2, <1>3 DEF Standing

(* The steps of the protocol and of philix. *)
LEMMA OthersStanding ==
  ASSUME P!TypeOK, FrameTypes, Standing,
         CardProtocol \/ Host \/ UNCHANGED vars
  PROVE  Standing'
<1>1. UNCHANGED <<fb, tpc, row, printed, pos>>
  BY DEF CardProtocol, Host, CopyWord, SaveLine, HandleShutdown, Draw, Fail,
         DumpWord, HostProtocol, term, vars
<1>2. /\ note' = note
      /\ cpc = "run" => cpc' \in {"run", "reset"}
      /\ cpc = "reset" => cpc' = "reset"
      /\ cpc' = "halted" => cpc = "halted" \/ note = "CONSOLE_SHUTDOWN"
  <2>1. CASE CardProtocol
    BY <2>1 DEF CardProtocol, P!SignalArg, P!Raise, P!SeeDrawn, P!ClearDrawn
  <2>2. CASE Host
    BY <2>2 DEF Host, CopyWord, SaveLine, HandleShutdown, Draw, Fail, DumpWord,
       HostProtocol, P!HandleOther, P!HandleDraw, P!HandleFails, P!LineAborts, P!PollHit,
       P!PollExpire, P!ClearAvail, P!DrawDone, Leaves, KeyEnds, P!Exit,
       P!ExitLost, P!KeyAborts, P!KeyExits, P!KeyEnds, P!cardVars, protocol
  <2>3. CASE UNCHANGED vars
    BY <2>3 DEF vars, protocol
  <2> QED
    BY <2>1, <2>2, <2>3
<1>3. UNCHANGED Gone
  BY <1>1 DEF Gone
<1>4. ASSUME NEW r \in 1..Height, NEW w \in 1..2
      PROVE  fb'[Of(r, w)] = Content(r, w)'
  BY <1>1, <1>3 DEF Standing, Content, Begun
<1> QED
  BY <1>1, <1>2, <1>3, <1>4 DEF Standing

LEMMA BlankStanding ==
  ASSUME P!TypeOK, FrameTypes, Standing, BlankWord
  PROVE  Standing'
<1>1. /\ row = 1 /\ printed = 0 /\ pos \in 1..Words /\ Words = 2 * Height
      /\ Height \in Nat /\ fb \in [1..Words -> Left..MaxLines]
  BY Sizes DEF BlankWord, FrameTypes, Standing
<1>2. /\ cpc = "run" /\ tpc = "init" /\ fb' = [fb EXCEPT ![pos] = 0]
      /\ pos < Words => pos' = pos + 1 /\ tpc' = "init"
      /\ pos = Words => pos' = 1 /\ tpc' = "blank"
      /\ UNCHANGED <<row, printed, cpc, note>>
  BY <1>1 DEF BlankWord, Idle, protocol
<1>3. Gone = 0 /\ Gone' = 0
  BY <1>1, <1>2 DEF Gone
<1>4. ASSUME NEW r \in 1..Height, NEW w \in 1..2
      PROVE  fb'[Of(r, w)] = Content(r, w)'
  <2>1. Of(r, w) \in 1..Words
    BY WordOf
  <2>2. fb[Of(r, w)] = IF pos <= Of(r, w) THEN Left ELSE 0
    BY <1>2 DEF Standing, Content
  <2>3. fb'[Of(r, w)] = IF pos < Of(r, w) THEN Left ELSE 0
    BY <1>1, <1>2, <2>1, <2>2
  <2>4. CASE pos < Words
    BY <1>1, <1>2, <2>1, <2>3, <2>4 DEF Content
  <2>5. CASE pos = Words
    BY <1>1, <1>2, <1>3, <2>1, <2>3, <2>5 DEF Content, Begun
  <2> QED
    BY <1>1, <2>4, <2>5
<1>5. tpc' \in {"init", "blank"} /\ (pos' # 1 => tpc' = "init")
  BY <1>1, <1>2
<1>6. note # "CONSOLE_SHUTDOWN"
  BY <1>2 DEF Standing
<1> QED
  BY <1>1, <1>2, <1>3, <1>4, <1>5, <1>6 DEF Standing

(* The steps of the terminal that raise a notification. *)
LEMMA NotifyStanding ==
  ASSUME P!TypeOK, FrameTypes, Standing,
         TermInit \/ EndLine \/ AnnounceScroll \/ AskRedraw \/ SendShutdown
  PROVE  Standing'
<1>1. row \in 1..Height /\ printed \in Nat /\ Height \in Nat /\ MaxLines \in Nat
  BY LinesAssumption, Sizes DEF FrameTypes, Left
<1>2. UNCHANGED <<fb, printed, pos>> /\ cpc = "run" /\ cpc' \in {"signal", "wait"}
  BY DEF TermInit, EndLine, AnnounceScroll, AskRedraw, SendShutdown, Steps, Idle,
         P!NotifyPlain, P!NotifyArg, P!Raise
<1>3. \/ tpc = "blank"  /\ tpc' = "print"  /\ note' = "SCREEN_REDRAW" /\ row' = row
      \/ tpc = "scroll" /\ tpc' = "shift"  /\ note' = "SCROLLUP" /\ row' = row
      \/ tpc = "redraw" /\ tpc' = "print"  /\ note' = "SCREEN_REDRAW" /\ row' = row
      \/ /\ tpc = "print" /\ tpc' = "done" /\ note' = "CONSOLE_SHUTDOWN"
         /\ row' = row /\ printed = MaxLines
      \/ /\ tpc = "line" /\ tpc' = IF row = Height THEN "scroll" ELSE "print"
         /\ note' = "LINE_DRAWN" /\ row' = IF row = Height THEN row ELSE row + 1
  BY DEF TermInit, EndLine, AnnounceScroll, AskRedraw, SendShutdown, Steps,
         P!NotifyPlain, P!NotifyArg, P!Raise
<1>4. pos = 1
  BY <1>1, <1>2, <1>3 DEF Standing
<1>5. UNCHANGED Gone
  BY <1>1, <1>2, <1>3 DEF Gone
<1>6. ASSUME NEW r \in 1..Height, NEW w \in 1..2
      PROVE  fb'[Of(r, w)] = Content(r, w)'
  <2>1. ~Begun(r, w) /\ ~Begun(r, w)'
    BY <1>2, <1>4 DEF Begun
  <2>2. fb[Of(r, w)] = IF Gone + r <= printed THEN Gone + r ELSE 0
    BY <1>3, <2>1 DEF Standing, Content
  <2>3. CASE tpc' = "shift"
    <3>1. row = Height /\ Gone = printed - Height
      BY <1>3, <2>3 DEF Standing, Gone
    <3>2. Gone + r <= printed
      BY <1>1, <3>1
    <3>3. pos' <= Of(r, w)
      BY <1>2, <1>4 DEF Of
    <3> QED
      BY <1>2, <1>5, <2>2, <2>3, <3>2, <3>3 DEF Content
  <2>4. CASE tpc' # "shift"
    BY <1>2, <1>3, <1>5, <2>1, <2>2, <2>4 DEF Content
  <2> QED
    BY <2>3, <2>4
<1>7. /\ Gone' \in Nat /\ (row' # Height => Gone' = 0)
      /\ tpc' \in {"scroll", "shift", "redraw"} => row' = Height
      /\ tpc' \notin {"init", "blank"}
  BY <1>1, <1>3, <1>5 DEF Standing
<1>8. note' = "CONSOLE_SHUTDOWN" => tpc' = "done"
  BY <1>3
<1> QED
  BY <1>2, <1>4, <1>6, <1>7, <1>8 DEF Standing

LEMMA PutWordStanding ==
  ASSUME P!TypeOK, FrameTypes, Standing, PutWord
  PROVE  Standing'
<1>1. row \in 1..Height /\ printed \in Nat /\ Height \in Nat /\ MaxLines \in Nat
      /\ fb \in [1..Words -> Int]
  BY LinesAssumption, Sizes DEF FrameTypes, Left
<1>2. /\ cpc = "run" /\ tpc = "print" /\ printed < MaxLines /\ pos \in {1, 2}
      /\ fb' = [fb EXCEPT ![Of(row, pos)] = printed + 1]
      /\ pos = 1 => pos' = 2 /\ tpc' = "print" /\ printed' = printed
      /\ pos = 2 => pos' = 1 /\ tpc' = "line" /\ printed' = printed + 1
      /\ UNCHANGED <<row, cpc, note>>
  BY DEF PutWord, Idle, Word, Of, protocol, Standing
<1>3. Gone = printed - row + 1 /\ Gone' = Gone
  BY <1>1, <1>2 DEF Gone
<1>4. ASSUME NEW r \in 1..Height, NEW w \in 1..2
      PROVE  fb'[Of(r, w)] = Content(r, w)'
  <2>1. fb[Of(r, w)] = IF Gone + r <= printed \/ (r = row /\ w < pos) THEN Gone + r
                       ELSE 0
    BY <1>2 DEF Standing, Content, Begun
  <2>2. Content(r, w)' = IF Gone + r <= printed' \/ (tpc' = "print" /\ r = row /\ w < pos')
                         THEN Gone + r ELSE 0
    BY <1>2, <1>3 DEF Content, Begun
  <2>3. CASE r = row /\ w = pos
    <3>1. fb'[Of(r, w)] = Gone + r
      BY <1>1, <1>2, <1>3, <2>3, WordOf
    <3>2. Gone + r <= printed' \/ (tpc' = "print" /\ w < pos')
      BY <1>1, <1>2, <1>3, <2>3
    <3> QED
      BY <2>2, <2>3, <3>1, <3>2
  <2>4. CASE ~(r = row /\ w = pos)
    <3>1. fb'[Of(r, w)] = fb[Of(r, w)]
      <4>1. Of(row, pos) \in 1..Words /\ Of(r, w) \in 1..Words
            /\ Of(r, w) # Of(row, pos)
        BY <1>1, <1>2, <2>4, WordOf
      <4> QED
        BY <1>1, <1>2, <4>1
    <3>2. Gone + r <= printed \/ (r = row /\ w < pos)
          <=> Gone + r <= printed' \/ (tpc' = "print" /\ r = row /\ w < pos')
      BY <1>1, <1>2, <1>3, <2>4
    <3> QED
      BY <2>1, <2>2, <3>1, <3>2
  <2> QED
    BY <2>3, <2>4
<1>5. /\ Gone' \in Nat /\ (row' # Height => Gone' = 0)
      /\ tpc' \notin {"init", "blank", "scroll", "shift", "redraw"}
      /\ pos' # 1 => tpc' = "print" /\ pos' = 2 /\ printed' < MaxLines
  BY <1>1, <1>2, <1>3 DEF Standing
<1>6. note # "CONSOLE_SHUTDOWN" /\ cpc' = "run"
  BY <1>2 DEF Standing
<1> QED
  BY <1>2, <1>4, <1>5, <1>6 DEF Standing

LEMMA ShiftStanding ==
  ASSUME P!TypeOK, FrameTypes, Standing, Shift
  PROVE  Standing'
<1> DEFINE new == IF pos + 2 <= Words THEN fb[pos + 2] ELSE 0
<1>1. row \in 1..Height /\ printed \in Nat /\ Height \in Nat /\ Height >= 2
      /\ pos \in 1..Words /\ Words = 2 * Height /\ fb \in [1..Words -> Int]
  BY LinesAssumption, Sizes DEF FrameTypes, Left
<1>2. /\ cpc = "run" /\ tpc = "shift" /\ row = Height
      /\ fb' = [fb EXCEPT ![pos] = new]
      /\ pos < Words => pos' = pos + 1 /\ tpc' = "shift"
      /\ pos = Words => pos' = 1 /\ tpc' = "redraw"
      /\ UNCHANGED <<row, printed, cpc, note>>
  BY <1>1 DEF Shift, Idle, Word, protocol, Standing
<1> HIDE DEF new
<1>3. /\ Gone = printed - Height /\ Gone \in Nat
      /\ pos < Words => Gone' = Gone
      /\ pos = Words => Gone' = Gone + 1
  BY <1>1, <1>2 DEF Gone, Standing
<1>4. ASSUME NEW r \in 1..Height, NEW w \in 1..2
      PROVE  fb'[Of(r, w)] = IF pos < Of(r, w) THEN Gone + r
                             ELSE IF r # Height THEN Gone + r + 1 ELSE 0
  <2>1. fb[Of(r, w)] = IF pos <= Of(r, w) THEN Gone + r
                       ELSE IF r # Height THEN Gone + r + 1 ELSE 0
    BY <1>2 DEF Standing, Content
  <2>2. Of(r, w) \in 1..Words
    BY WordOf
  <2>3. CASE pos # Of(r, w)
    <3>1. fb'[Of(r, w)] = fb[Of(r, w)]
      BY <1>1, <1>2, <2>2, <2>3
    <3> QED
      BY <1>1, <2>1, <2>2, <2>3, <3>1
  <2>4. CASE pos = Of(r, w) /\ r = Height
    <3>1. new = 0
      BY <1>1, <2>4 DEF new, Of
    <3> QED
      BY <1>1, <1>2, <2>4, <3>1
  <2>5. CASE pos = Of(r, w) /\ r # Height
    <3>1. r + 1 \in 1..Height /\ Of(r + 1, w) = pos + 2 /\ pos + 2 <= Words
      BY <1>1, <2>5 DEF Of
    <3>2. fb[Of(r + 1, w)] = Content(r + 1, w)
      BY <3>1 DEF Standing
    <3>3. Content(r + 1, w) = Gone + (r + 1)
      BY <1>1, <1>2, <3>1 DEF Content
    <3>4. new = Gone + r + 1
      BY <1>3, <3>1, <3>2, <3>3 DEF new
    <3> QED
      BY <1>1, <1>2, <2>5, <3>4
  <2> QED
    BY <2>3, <2>4, <2>5
<1>5. ASSUME NEW r \in 1..Height, NEW w \in 1..2
      PROVE  fb'[Of(r, w)] = Content(r, w)'
  <2>1. Of(r, w) \in 1..Words
    BY WordOf
  <2>2. CASE pos < Words
    <3>1. Content(r, w)' = IF pos + 1 <= Of(r, w) THEN Gone + r
                           ELSE IF r # Height THEN Gone + r + 1 ELSE 0
      BY <1>2, <1>3, <2>2 DEF Content
    <3> QED
      BY <1>1, <1>4, <2>1, <3>1
  <2>3. CASE pos = Words
    <3>1. Content(r, w)' = IF Gone + 1 + r <= printed THEN Gone + 1 + r ELSE 0
      BY <1>2, <1>3, <2>3 DEF Content, Begun
    <3>2. Gone + 1 + r <= printed <=> r # Height
      BY <1>1, <1>3
    <3> QED
      BY <1>1, <1>3, <1>4, <2>1, <2>3, <3>1, <3>2
  <2> QED
    BY <1>1, <2>2, <2>3
<1>6. Gone' \in Nat /\ row' = Height /\ (pos' # 1 => tpc' = "shift") /\ cpc' = "run"
      /\ tpc' \in {"shift", "redraw"}
  BY <1>1, <1>2, <1>3
<1>7. note' # "CONSOLE_SHUTDOWN"
  BY <1>2 DEF Standing
<1> QED
  BY <1>5, <1>6, <1>7 DEF Standing

LEMMA StandingStep ==
  P!TypeOK /\ FrameTypes /\ Standing /\ [Next]_vars => Standing'
<1> SUFFICES ASSUME P!TypeOK, FrameTypes, Standing, [Next]_vars PROVE Standing'
  OBVIOUS
<1>1. CASE CardProtocol \/ Host \/ UNCHANGED vars
  BY <1>1, OthersStanding
<1>2. CASE TermInit \/ EndLine \/ AnnounceScroll \/ AskRedraw \/ SendShutdown
  BY <1>2, NotifyStanding
<1>3. CASE PutWord
  BY <1>3, PutWordStanding
<1>4. CASE Shift
  BY <1>4, ShiftStanding
<1>5. CASE BlankWord
  BY <1>5, BlankStanding
<1> QED
  BY <1>1, <1>2, <1>3, <1>4, <1>5 DEF Next, Card

LEMMA StandingHolds == Spec => []Standing
BY InitStanding, StandingStep, RegistersTyped, FrameTypesHold, PTL DEF Spec

-----------------------------------------------------------------------------
(* What the frame buffer looks like, and how it moves on. *)

LEMMA Numbers ==
  ASSUME FrameTypes
  PROVE  /\ fb \in [1..Words -> Int] /\ pos \in 1..Words /\ printed \in Nat
         /\ copied \in Seq(Left..MaxLines) /\ Len(copied) \in Nat /\ Len(copied) <= 2
         /\ \A w \in 1..Len(copied) : copied[w] \in Int
         /\ hist \in Seq([1..2 -> Left..MaxLines]) /\ Len(hist) \in Nat
         /\ \A i \in 1..Len(hist), w \in 1..2 : hist[i][w] \in Int
<1>1. fb \in [1..Words -> Int] /\ pos \in 1..Words /\ printed \in Nat
  BY LinesAssumption DEF FrameTypes, Left
<1>2. copied \in Seq(Left..MaxLines) /\ Len(copied) <= 2
  BY DEF FrameTypes
<1>h. hist \in Seq([1..2 -> Left..MaxLines])
  BY DEF FrameTypes
<1>3. Len(copied) \in Nat /\ \A w \in 1..Len(copied) : copied[w] \in Int
  <2>1. Len(copied) \in Nat
    BY <1>2
  <2>2. ASSUME NEW w \in 1..Len(copied) PROVE copied[w] \in Int
    <3>1. copied[w] \in Left..MaxLines
      BY <1>2, ElementOfSeq
    <3> QED
      BY <3>1, LinesAssumption DEF Left
  <2> QED
    BY <2>1, <2>2
<1>4. ASSUME NEW i \in 1..Len(hist), NEW w \in 1..2 PROVE hist[i][w] \in Int
  <2>1. hist[i] \in [1..2 -> Left..MaxLines]
    BY <1>h
  <2> QED
    BY <2>1, LinesAssumption DEF Left
<1>5. Len(hist) \in Nat
  BY <1>h
<1> QED
  BY <1>1, <1>2, <1>h, <1>3, <1>4, <1>5

LEMMA WordsAscend ==
  ASSUME FrameTypes, Standing,
         NEW r \in 1..Height, NEW q \in 1..(r - 1), NEW w \in 1..2
  PROVE  fb[Of(q, w)] <= fb[Of(r, w)] \/ fb[Of(r, w)] <= 0
<1>1. q \in 1..Height /\ q < r /\ q # Height /\ Gone \in Nat /\ row \in Nat
      /\ Of(q, w) < Of(r, w) /\ Of(q, w) \in Nat /\ Of(r, w) \in Nat /\ pos \in Nat
  <2>1. q \in 1..Height /\ q < r /\ q # Height /\ r \in Nat /\ q \in Nat
    BY Sizes
  <2>2. Of(q, w) < Of(r, w) /\ Of(q, w) \in Nat /\ Of(r, w) \in Nat
    BY <2>1 DEF Of
  <2>3. row \in 1..Height /\ pos \in 1..Words
    BY DEF FrameTypes
  <2>4. row \in Nat /\ pos \in Nat
    BY <2>3, Sizes
  <2> QED
    BY <2>1, <2>2, <2>4 DEF Standing
<1>2. fb[Of(q, w)] = Content(q, w) /\ fb[Of(r, w)] = Content(r, w)
  BY <1>1 DEF Standing
<1>3. Content(q, w) <= Content(r, w) \/ Content(r, w) <= 0
  BY <1>1, Sizes DEF Content, Left
<1> QED
  BY <1>2, <1>3

LEMMA FirstRow ==
  ASSUME FrameTypes, Standing
  PROVE  fb[2] \in {fb[1] - 1, fb[1]}
<1>1. 1 \in 1..Height /\ 1 # Height /\ Of(1, 1) = 1 /\ Of(1, 2) = 2
      /\ Gone \in Nat /\ pos \in Nat
  BY Sizes DEF Standing, Of, FrameTypes
<1>2. fb[1] = Content(1, 1) /\ fb[2] = Content(1, 2)
  BY <1>1 DEF Standing
<1>3. CASE tpc = "shift"
  BY <1>1, <1>2, <1>3 DEF Content
<1>5. CASE tpc = "init"
  BY <1>1, <1>2, <1>5 DEF Content, Left
<1>4. CASE tpc \notin {"init", "shift"}
  <2>1. Begun(1, 1) \/ Begun(1, 2) => Gone = 0
    BY <1>1 DEF Begun, Standing
  <2>2. Begun(1, 2) => Begun(1, 1)
    BY <1>1 DEF Begun
  <2> QED
    BY <1>1, <1>2, <1>4, <2>1, <2>2 DEF Content
<1> QED
  BY <1>3, <1>4, <1>5

(* A word above the last row never goes back. *)
LEMMA WordsRise ==
  ASSUME FrameTypes, Standing, [Next]_vars,
         NEW r \in 1..(Height - 1), NEW w \in 1..2
  PROVE  fb[Of(r, w)] <= fb'[Of(r, w)]
<1>0. r \in 1..Height /\ r # Height /\ r + 1 \in 1..Height
      /\ Words = 2 * Height /\ Height \in Nat
  BY Sizes
<1>1. Of(r, w) \in 1..Words
      /\ fb \in [1..Words -> Int] /\ Gone \in Nat /\ printed \in Nat /\ row \in 1..Height
      /\ pos \in 1..Words
  <2>1. Of(r, w) \in 1..Words
    BY <1>0, WordOf
  <2>2. fb \in [1..Words -> Int] /\ printed \in Nat /\ row \in 1..Height
        /\ pos \in 1..Words
    BY LinesAssumption DEF FrameTypes, Left
  <2> QED
    BY <2>1, <2>2 DEF Standing
<1>2. fb[Of(r, w)] = Content(r, w)
  BY <1>0, <1>1 DEF Standing
<1>3. CASE PutWord
  <2>1. /\ tpc = "print" /\ fb' = [fb EXCEPT ![Of(row, pos)] = printed + 1]
        /\ pos \in 1..2 /\ Gone = printed - row + 1
    BY <1>0, <1>3, <1>1 DEF PutWord, Word, Of, Standing, Gone
  <2>2. CASE Of(r, w) = Of(row, pos)
    <3>1. r = row /\ w = pos
      BY <1>0, <1>1, <2>1, <2>2, WordOf
    <3>2. Content(r, w) = 0
      BY <1>0, <1>1, <2>1, <3>1 DEF Content, Begun
    <3> QED
      BY <1>0, <1>1, <1>2, <2>1, <2>2, <3>2
  <2>3. CASE Of(r, w) # Of(row, pos)
    BY <1>0, <1>1, <2>1, <2>3
  <2> QED
    BY <2>2, <2>3
<1>4. CASE Shift
  <2>1. /\ tpc = "shift"
        /\ fb' = [fb EXCEPT ![pos] = IF pos + 2 <= Words THEN fb[pos + 2] ELSE 0]
    BY <1>4 DEF Shift, Word
  <2>2. CASE Of(r, w) = pos
    <3>1. Of(r + 1, w) = pos + 2 /\ pos + 2 <= Words
      BY <1>0, <1>1, <2>2 DEF Of
    <3>2. fb[Of(r + 1, w)] = Content(r + 1, w)
      BY <1>0, <1>1 DEF Standing
    <3>3. Content(r + 1, w) = Gone + (r + 1) /\ Content(r, w) = Gone + r
      BY <1>0, <1>1, <2>1, <2>2, <3>1 DEF Content
    <3> QED
      BY <1>0, <1>1, <1>2, <2>1, <2>2, <3>1, <3>2, <3>3
  <2>3. CASE Of(r, w) # pos
    BY <1>0, <1>1, <2>1, <2>3
  <2> QED
    BY <2>2, <2>3
<1>6. CASE BlankWord
  <2>1. tpc = "init" /\ fb' = [fb EXCEPT ![pos] = 0]
    BY <1>6 DEF BlankWord
  <2>2. fb[Of(r, w)] <= 0
    BY <1>2, <2>1 DEF Content, Left
  <2> QED
    BY <1>0, <1>1, <2>1, <2>2
<1>5. CASE ~(BlankWord \/ PutWord \/ Shift)
  <2>1. fb' = fb
    BY <1>5 DEF Next, Card, Host, TermInit, EndLine, AnnounceScroll, AskRedraw,
       SendShutdown, CardProtocol, CopyWord, SaveLine, HandleShutdown, Draw, Fail,
       DumpWord, HostProtocol, term, vars
  <2> QED
    BY <1>0, <1>1, <2>1
<1> QED
  BY <1>3, <1>4, <1>5, <1>6

(* The first word changes by one, when it is blanked, first printed or     *)
(* scrolled.                                                               *)
LEMMA FirstWord ==
  ASSUME FrameTypes, Standing, [Next]_vars, fb'[1] # fb[1]
  PROVE  /\ fb'[1] = fb[1] + 1 /\ (BlankWord \/ PutWord \/ Shift)
         /\ BlankWord => fb[1] = Left
         /\ Shift => pos = 1
         /\ PutWord => fb[1] = 0
<1>1. 1 \in 1..Words /\ fb \in [1..Words -> Int] /\ Gone \in Nat /\ printed \in Nat
      /\ row \in 1..Height /\ pos \in 1..Words /\ Words = 2 * Height
      /\ Height \in Nat /\ Height >= 2
      /\ 1 \in 1..Height /\ 2 \in 1..Height /\ Of(1, 1) = 1 /\ Of(2, 1) = 3
  <2>1. /\ 1 \in 1..Words /\ Words = 2 * Height /\ Height \in Nat /\ Height >= 2
        /\ 1 \in 1..Height /\ 2 \in 1..Height /\ Of(1, 1) = 1 /\ Of(2, 1) = 3
    BY Sizes DEF Of
  <2>2. fb \in [1..Words -> Int] /\ pos \in 1..Words /\ printed \in Nat
    BY Numbers
  <2>3. row \in 1..Height
    BY DEF FrameTypes
  <2> QED
    BY <2>1, <2>2, <2>3 DEF Standing
<1>2. fb[1] = Content(1, 1) /\ fb[3] = Content(2, 1)
  BY <1>1 DEF Standing
<1>3. CASE PutWord
  <2>1. /\ tpc = "print" /\ fb' = [fb EXCEPT ![Of(row, pos)] = printed + 1]
        /\ pos \in 1..2 /\ Gone = printed - row + 1
    BY <1>3, <1>1 DEF PutWord, Word, Of, Standing, Gone
  <2>2. Of(row, pos) = 1
    BY <1>1, <2>1
  <2>3. row = 1 /\ pos = 1
    BY <1>1, <2>1, <2>2 DEF Of
  <2>4. Gone = 0 /\ printed = 0
    BY <1>1, <2>1, <2>3 DEF Standing
  <2>5. fb[1] = 0
    BY <1>2, <2>1, <2>3, <2>4 DEF Content, Begun
  <2>6. fb'[1] = 1
    BY <1>1, <2>1, <2>2, <2>4
  <2>7. ~Shift /\ ~BlankWord
    BY <2>1 DEF Shift, BlankWord
  <2> QED
    BY <1>3, <2>5, <2>6, <2>7
<1>4. CASE Shift
  <2>1. /\ tpc = "shift"
        /\ fb' = [fb EXCEPT ![pos] = IF pos + 2 <= Words THEN fb[pos + 2] ELSE 0]
    BY <1>4 DEF Shift, Word
  <2>2. pos = 1
    BY <1>1, <2>1
  <2>3. fb'[1] = fb[3]
    BY <1>1, <2>1, <2>2
  <2>4. fb[1] = Gone + 1 /\ fb[3] = Gone + 2
    BY <1>1, <1>2, <2>1, <2>2 DEF Content
  <2>5. ~PutWord /\ ~BlankWord
    BY <2>1 DEF PutWord, BlankWord
  <2> QED
    BY <1>1, <1>4, <2>2, <2>3, <2>4, <2>5
<1>6. CASE BlankWord
  <2>1. tpc = "init" /\ fb' = [fb EXCEPT ![pos] = 0]
    BY <1>6 DEF BlankWord
  <2>2. pos = 1
    BY <1>1, <2>1
  <2>3. fb[1] = Left /\ fb'[1] = 0
    BY <1>1, <1>2, <2>1, <2>2 DEF Content
  <2>4. ~PutWord /\ ~Shift
    BY <2>1 DEF PutWord, Shift
  <2> QED
    BY <1>6, <2>3, <2>4 DEF Left
<1>5. CASE ~(BlankWord \/ PutWord \/ Shift)
  BY <1>5 DEF Next, Card, Host, TermInit, EndLine, AnnounceScroll, AskRedraw,
     SendShutdown, CardProtocol, CopyWord, SaveLine, HandleShutdown, Draw, Fail,
     DumpWord, HostProtocol, term, vars
<1> QED
  BY <1>3, <1>4, <1>5, <1>6

-----------------------------------------------------------------------------
(* The history, however many acknowledgements are unearned. *)

(* While philix copies, the kernel comes no closer to the move of the      *)
(* first word than it uses up waits.                                       *)
LEMMA NeedStep ==
  ASSUME P!TypeOK, FrameTypes, Standing, [Next]_vars, hpc = "dispatch", hpc' = "dispatch",
         Need > Credit
  PROVE  Need' > Credit' /\ ~(Shift /\ pos = 1)
<1>1. drawn \in {0, 1} /\ pos \in 1..Words /\ Words \in Nat
  BY Sizes DEF P!TypeOK, FrameTypes
<1>2. CASE TermInit \/ EndLine \/ AskRedraw \/ SendShutdown
  <2>1. /\ tpc' \in {"print", "scroll", "done"} /\ cpc' \in {"signal", "wait"}
        /\ drawn' = drawn
    BY <1>2 DEF TermInit, EndLine, AskRedraw, SendShutdown, Steps, P!NotifyPlain,
       P!NotifyArg, P!Raise
  <2>2. tpc # "shift"
    BY <1>2 DEF TermInit, EndLine, AskRedraw, SendShutdown, Steps
  <2> QED
    BY <1>1, <2>1, <2>2 DEF Need, Credit, Shift
<1>3. CASE AnnounceScroll
  <2>1. /\ tpc = "scroll" /\ cpc = "run" /\ tpc' = "shift" /\ cpc' = "wait"
        /\ UNCHANGED <<drawn, pos>>
    BY <1>3 DEF AnnounceScroll, Steps, Idle, P!NotifyPlain, P!Raise
  <2>2. drawn = 0
    BY <1>1, <2>1 DEF Need, Credit
  <2> QED
    BY <1>1, <2>1, <2>2 DEF Need, Credit, Shift
<1>4. CASE BlankWord \/ PutWord
  <2>1. tpc \in {"init", "print"} /\ tpc' \in {"init", "blank", "print", "line"}
        /\ cpc = "run" /\ UNCHANGED <<cpc, drawn>>
    BY <1>4 DEF BlankWord, PutWord, Idle, protocol
  <2> QED
    BY <1>1, <2>1 DEF Need, Credit, Shift
<1>5. CASE Shift
  <2>1. /\ tpc = "shift" /\ cpc = "run" /\ UNCHANGED <<cpc, drawn>>
        /\ pos < Words => pos' = pos + 1 /\ tpc' = "shift"
        /\ ~(pos < Words) => tpc' = "redraw"
    BY <1>5 DEF Shift, Idle, protocol
  <2>2. pos # 1
    BY <1>1, <2>1 DEF Need, Credit
  <2>3. Need' = 2 /\ Credit' = drawn
    BY <1>1, <2>1, <2>2 DEF Need, Credit
  <2> QED
    BY <1>1, <2>2, <2>3
<1>6. CASE CardProtocol
  <2>1. UNCHANGED <<tpc, pos>>
    BY <1>6 DEF CardProtocol, term
  <2>2. \/ cpc = "signal" /\ cpc' = "wait" /\ drawn' = drawn
        \/ cpc = "wait" /\ cpc' = "clear" /\ drawn = 1 /\ drawn' = drawn
        \/ cpc = "clear" /\ cpc' \in {"run", "halted"} /\ drawn' = 0
    BY <1>1, <1>6 DEF CardProtocol, P!SignalArg, P!Raise, P!SeeDrawn, P!ClearDrawn
  <2> QED
    BY <1>1, <2>1, <2>2 DEF Need, Credit, Shift, Idle
<1>7. CASE Host \/ UNCHANGED vars
  <2>1. UNCHANGED <<tpc, pos, cpc, drawn>>
    BY <1>7 DEF Host, CopyWord, SaveLine, HandleShutdown, Draw, Fail, DumpWord,
       HostProtocol, P!HandleOther, P!HandleDraw, P!HandleFails, P!LineAborts, P!PollHit,
       P!PollExpire, P!ClearAvail, P!DrawDone, Leaves, KeyEnds, P!Exit,
       P!ExitLost, P!KeyAborts, P!KeyExits, P!KeyEnds, P!cardVars, protocol,
       term, vars
  <2>2. Need > 0
    BY <1>1 DEF Need, Credit
  <2> QED
    BY <1>1, <2>1, <2>2 DEF Need, Credit, Shift, Idle
<1> QED
  BY <1>2, <1>3, <1>4, <1>5, <1>6, <1>7 DEF Next, Card

LEMMA InitHistInv == Init => HistInv
BY DEF Init, HistInv, HistoryReadable

(* The word saved next is the one that stands. *)
LEMMA CopyHist ==
  ASSUME FrameTypes, Standing, HistInv, CopyWord
  PROVE  HistInv'
<1>1. /\ hpc = "dispatch" /\ upd = "SCROLLUP" /\ Len(copied) < 2
      /\ copied' = Append(copied, fb[Len(copied) + 1])
      /\ UNCHANGED <<fb, tpc, pos, cpc, drawn, hpc, upd, hist>>
  BY DEF CopyWord, Word, protocol, term
<1>2. /\ fb \in [1..Words -> Int] /\ Words >= 4 /\ Words \in Nat
      /\ copied \in Seq(Left..MaxLines) /\ Len(copied) \in Nat /\ Len(copied) < 2
      /\ \A w \in 1..Len(copied) : copied[w] \in Int
  <2>1. Len(copied) \in Nat /\ Len(copied) < 2
    BY <1>1, Numbers
  <2> QED
    BY <2>1, Sizes, Numbers
<1>3. UNCHANGED <<Need, Credit>>
  BY <1>1 DEF Need, Credit
<1>4. /\ Len(copied') = Len(copied) + 1
      /\ copied'[Len(copied) + 1] = fb[Len(copied) + 1]
      /\ \A w \in 1..Len(copied) : copied'[w] = copied[w]
  <2>1. fb[Len(copied) + 1] \in Left..MaxLines
    <3>1. Len(copied) + 1 \in 1..Words
      BY <1>2
    <3> QED
      BY <3>1 DEF FrameTypes
  <2> QED
    BY <1>1, <1>2, <2>1
<1>5. Len(copied') = 1 => fb'[1] = copied'[1]
  BY <1>1, <1>2, <1>4
<1>6. Len(copied') = 2 => Neighbours(copied')
  <2> SUFFICES ASSUME Len(copied') = 2 PROVE Neighbours(copied')
    OBVIOUS
  <2>0. Len(copied) = 1
    <3>1. Len(copied) \in Nat /\ Len(copied) + 1 = 2
      BY <1>2, <1>4
    <3>2. \A n \in Nat : n + 1 = 2 => n = 1
      OBVIOUS
    <3> QED
      BY <3>1, <3>2
  <2>1. copied'[1] = copied[1] /\ copied'[2] = fb[2] /\ copied[1] \in Int
    BY <1>2, <1>4, <2>0
  <2>2. copied[1] = Left \/ fb[1] \in {copied[1], copied[1] + 1}
    BY <2>0 DEF HistInv
  <2>3. fb[2] \in {fb[1] - 1, fb[1]}
    BY FirstRow
  <2>4. fb[1] \in Int
    BY <1>2
  <2>5. copied[1] = Left \/ copied[1] - fb[2] \in -1..1
    BY <2>1, <2>2, <2>3, <2>4
  <2> QED
    BY <2>1, <2>5 DEF Neighbours
<1>7. \A w \in 1..Len(copied') : copied'[w] <= fb'[w]
  <2> SUFFICES ASSUME NEW w \in 1..Len(copied') PROVE copied'[w] <= fb[w]
    BY <1>1
  <2>1. CASE w = Len(copied) + 1
    BY <1>2, <1>4, <2>1
  <2>2. CASE w # Len(copied) + 1
    <3>1. w \in 1..Len(copied)
      BY <1>2, <1>4, <2>2
    <3> QED
      BY <1>4, <3>1 DEF HistInv
  <2> QED
    BY <2>1, <2>2
<1>8. \A i \in 1..Len(hist'), w \in 1..Len(copied') : hist'[i][w] <= copied'[w]
  <2> SUFFICES ASSUME NEW i \in 1..Len(hist), NEW w \in 1..Len(copied')
               PROVE  hist[i][w] <= copied'[w]
    BY <1>1
  <2>1. CASE w = Len(copied) + 1
    <3>1. w \in 1..2
      BY <1>2, <2>1
    <3>2. hist[i][w] <= fb[w]
      BY <3>1 DEF HistInv
    <3> QED
      BY <1>4, <2>1, <3>2
  <2>2. CASE w # Len(copied) + 1
    <3>1. w \in 1..Len(copied)
      BY <1>2, <1>4, <2>2
    <3> QED
      BY <1>4, <3>1 DEF HistInv
  <2> QED
    BY <2>1, <2>2
<1>9. (\A i \in 1..Len(hist'), w \in 1..2 : hist'[i][w] <= fb'[w]) /\ HistoryReadable'
  BY <1>1 DEF HistInv, HistoryReadable
<1>10. copied' # << >> => hpc' = "dispatch" /\ upd' = "SCROLLUP"
  BY <1>1
<1> QED
  BY <1>5, <1>6, <1>7, <1>8, <1>9, <1>10 DEF HistInv

(* The line that is linked into the history follows those before it. *)
LEMMA SaveHist ==
  ASSUME FrameTypes, Standing, HistInv, SaveLine
  PROVE  HistInv'
<1>1. /\ Len(copied) = 2 /\ hist' = Append(hist, copied) /\ copied' = << >> /\ fb' = fb
  BY DEF SaveLine, Word, term
<1>2. /\ hist \in Seq([1..2 -> Left..MaxLines]) /\ copied \in [1..2 -> Left..MaxLines]
      /\ Len(hist) \in Nat
  <2>1. copied \in [1..2 -> Left..MaxLines]
    BY <1>1, PairOf DEF FrameTypes
  <2> QED
    BY <2>1, Numbers
<1>3. /\ Len(hist') = Len(hist) + 1
      /\ hist'[Len(hist) + 1] = copied
      /\ \A i \in 1..Len(hist) : hist'[i] = hist[i]
  BY <1>1, <1>2
<1>4. ASSUME NEW i \in 1..Len(hist') PROVE i = Len(hist) + 1 \/ i \in 1..Len(hist)
  BY <1>2, <1>3
<1>5. \A i \in 1..Len(hist'), w \in 1..2 : hist'[i][w] <= fb'[w]
  <2> SUFFICES ASSUME NEW i \in 1..Len(hist'), NEW w \in 1..2
               PROVE  hist'[i][w] <= fb[w]
    BY <1>1
  <2>1. CASE i = Len(hist) + 1
    BY <1>1, <1>3, <2>1 DEF HistInv
  <2>2. CASE i \in 1..Len(hist)
    BY <1>3, <2>2 DEF HistInv
  <2> QED
    BY <1>4, <2>1, <2>2
<1>6. ASSUME NEW i \in 1..Len(hist') PROVE Neighbours(hist'[i])
  <2>1. CASE i = Len(hist) + 1
    BY <1>1, <1>3, <2>1 DEF HistInv
  <2>2. CASE i \in 1..Len(hist)
    BY <1>3, <2>2 DEF HistInv, HistoryReadable, Neighbours
  <2> QED
    BY <1>4, <2>1, <2>2
<1>7. ASSUME NEW i \in 2..Len(hist'), NEW w \in 1..Word
      PROVE  hist'[i - 1][w] <= hist'[i][w]
  <2>1. i - 1 \in 1..Len(hist) /\ w \in 1..2 /\ w \in 1..Len(copied)
    BY <1>1, <1>2, <1>3 DEF Word
  <2>2. CASE i = Len(hist) + 1
    BY <1>3, <2>1, <2>2 DEF HistInv
  <2>3. CASE i # Len(hist) + 1
    <3>1. i \in 2..Len(hist) /\ i \in 1..Len(hist)
      BY <1>2, <1>3, <2>3
    <3> QED
      BY <1>3, <2>1, <3>1 DEF HistInv, HistoryReadable
  <2> QED
    BY <2>2, <2>3
<1>8. Len(copied') = 0 /\ copied' = << >>
  BY <1>1
<1>9. HistoryReadable'
  BY <1>6, <1>7 DEF HistoryReadable, Neighbours
<1> QED
  BY <1>5, <1>8, <1>9 DEF HistInv

(* Every other step: what is copied and saved stays as it is. *)
LEMMA OtherHist ==
  ASSUME P!TypeOK, FrameTypes, Standing, HistInv, [Next]_vars, ~CopyWord, ~SaveLine
  PROVE  HistInv'
<1>1. UNCHANGED <<copied, hist>>
  BY DEF Next, Card, Host, TermInit, EndLine, AnnounceScroll, AskRedraw,
     SendShutdown, BlankWord, PutWord, Shift, CardProtocol, HandleShutdown, Draw, Fail,
     DumpWord, HostProtocol, viewer, text, vars
<1>2. copied # << >> => hpc' = "dispatch" /\ upd' = "SCROLLUP"
  <2> SUFFICES ASSUME copied # << >> PROVE hpc' = "dispatch" /\ upd' = "SCROLLUP"
    OBVIOUS
  <2>1. hpc = "dispatch" /\ upd = "SCROLLUP"
    BY DEF HistInv
  <2>2. CASE Card
    BY <2>1, <2>2 DEF Card, TermInit, BlankWord, PutWord, EndLine, AnnounceScroll, Shift,
       AskRedraw, SendShutdown, CardProtocol, P!NotifyPlain, P!NotifyArg,
       P!SignalArg, P!SeeDrawn, P!ClearDrawn, P!hostVars, protocol
  <2>3. CASE Host
    BY <2>1, <2>3 DEF Host, HandleShutdown, Draw, Fail, DumpWord, HostProtocol,
       P!HandleOther, P!HandleDraw, P!HandleFails, P!LineAborts, P!PollHit, P!PollExpire,
       P!ClearAvail, P!DrawDone, Leaves, KeyEnds, P!Exit,
       P!ExitLost, P!KeyAborts, P!KeyExits, P!KeyEnds, protocol, P!ArgKinds, P!NoUpdate
  <2>4. CASE UNCHANGED vars
    BY <2>1, <2>4 DEF vars, protocol
  <2> QED
    BY <2>2, <2>3, <2>4 DEF Next
<1>3. ASSUME NEW w \in 1..2 PROVE fb[w] <= fb'[w] /\ fb[w] \in Int /\ fb'[w] \in Int
  <2>1. 1 \in 1..(Height - 1) /\ Of(1, w) = w /\ w \in 1..Words
    BY Sizes DEF Of
  <2>2. fb[w] <= fb'[w]
    <3>1. fb[Of(1, w)] <= fb'[Of(1, w)]
      BY <2>1, WordsRise
    <3> QED
      BY <2>1, <3>1
  <2>3. FrameTypes'
    BY FrameTypesStep
  <2>4. fb \in [1..Words -> Int] /\ fb' \in [1..Words -> Int]
    <3>1. fb' \in [1..Words -> Left..MaxLines]
      BY <2>3 DEF FrameTypes
    <3> QED
      BY <3>1, LinesAssumption, Numbers DEF Left
  <2> QED
    BY <2>1, <2>2, <2>4
<1>4. /\ Len(copied) \in Nat /\ Len(copied) <= 2 /\ \A w \in 1..Len(copied) : copied[w] \in Int
      /\ \A i \in 1..Len(hist), w \in 1..2 : hist[i][w] \in Int
  BY Numbers
<1>5. Len(copied) = 1 => \/ copied[1] = Left \/ fb'[1] = copied[1]
                         \/ fb'[1] = copied[1] + 1 /\ Need' > Credit'
  <2> SUFFICES ASSUME Len(copied) = 1, copied[1] # Left
               PROVE  fb'[1] = copied[1] \/ (fb'[1] = copied[1] + 1 /\ Need' > Credit')
    OBVIOUS
  <2>1. hpc = "dispatch" /\ hpc' = "dispatch" /\ copied[1] \in Int
    <3>1. copied # << >>
      OBVIOUS
    <3> QED
      BY <1>2, <1>4, <3>1 DEF HistInv
  <2>2. CASE fb[1] = copied[1] + 1 /\ Need > Credit
    <3>1. Need' > Credit' /\ ~(Shift /\ pos = 1)
      BY <2>1, <2>2, NeedStep
    <3>2. fb'[1] = fb[1]
      <4> SUFFICES ASSUME fb'[1] # fb[1] PROVE FALSE
        OBVIOUS
      <4>1. fb[1] \in {Left, 0}
        BY <3>1, FirstWord
      <4>2. copied[1] <= Left
        BY <2>1, <2>2, <4>1 DEF Left
      <4>3. copied[1] \in Left..MaxLines
        <5>1. copied \in Seq(Left..MaxLines) /\ 1 \in 1..Len(copied)
          BY Numbers
        <5> QED
          BY <5>1, ElementOfSeq
      <4> QED
        BY <2>1, <4>2, <4>3, LinesAssumption DEF Left
    <3> QED
      BY <2>2, <3>1, <3>2
  <2>3. CASE fb[1] = copied[1] /\ fb'[1] # fb[1]
    <3>1. fb'[1] = fb[1] + 1 /\ (PutWord \/ (Shift /\ pos = 1))
      BY <2>3, FirstWord
    <3>2. Need' = 2 /\ Credit' \in {0, 1}
      <4>1. drawn \in {0, 1} /\ cpc = "run" /\ UNCHANGED <<cpc, drawn>>
        BY <3>1 DEF PutWord, Shift, Idle, protocol, P!TypeOK
      <4>2. PutWord => tpc' \in {"print", "line"}
        BY DEF PutWord
      <4>3. Shift /\ pos = 1 => pos' = 2 \/ tpc' = "redraw"
        BY Sizes DEF Shift
      <4>4. ~(tpc' = "shift" /\ pos' = 1) /\ tpc' # "scroll"
        BY <3>1, <4>2, <4>3 DEF Shift
      <4> QED
        BY <4>1, <4>4 DEF Need, Credit
    <3> QED
      BY <2>3, <3>1, <3>2
  <2>4. CASE fb[1] = copied[1] /\ fb'[1] = fb[1]
    BY <2>4
  <2> QED
    BY <2>2, <2>3, <2>4 DEF HistInv
<1>6. \A w \in 1..Len(copied) : copied[w] <= fb'[w]
  <2> SUFFICES ASSUME NEW w \in 1..Len(copied) PROVE copied[w] <= fb'[w]
    OBVIOUS
  <2>1. w \in 1..2 /\ copied[w] \in Int /\ copied[w] <= fb[w]
    BY <1>4 DEF HistInv
  <2> QED
    BY <1>3, <2>1
<1>7. \A i \in 1..Len(hist), w \in 1..2 : hist[i][w] <= fb'[w]
  <2> SUFFICES ASSUME NEW i \in 1..Len(hist), NEW w \in 1..2 PROVE hist[i][w] <= fb'[w]
    OBVIOUS
  <2>1. hist[i][w] \in Int /\ hist[i][w] <= fb[w]
    BY <1>4 DEF HistInv
  <2> QED
    BY <1>3, <2>1
<1>8. HistoryReadable'
  BY <1>1 DEF HistInv, HistoryReadable
<1>9. /\ Len(copied) = 2 => Neighbours(copied)
      /\ \A i \in 1..Len(hist), w \in 1..Len(copied) : hist[i][w] <= copied[w]
  BY DEF HistInv
<1> QED
  BY <1>1, <1>2, <1>5, <1>6, <1>7, <1>8, <1>9 DEF HistInv

LEMMA HistInvHolds == Spec => []HistInv
<1>1. P!TypeOK /\ FrameTypes /\ Standing /\ HistInv /\ [Next]_vars => HistInv'
  BY CopyHist, SaveHist, OtherHist
<1> QED
  BY <1>1, InitHistInv, RegistersTyped, FrameTypesHold, StandingHolds, PTL DEF Spec

(* However many polls expire, and however far the card then runs ahead of  *)
(* the copy in handle_scrollup: a line in the history is a line of output, *)
(* mixes two neighbouring ones or was saved before term_init had blanked   *)
(* it, and the history never goes back.                                    *)
THEOREM HistoryStaysReadable == Spec => []HistoryReadable
BY HistInvHolds, PTL DEF HistInv

-----------------------------------------------------------------------------
(* A dump, however many acknowledgements are unearned. *)

LEMMA DumpNumbers ==
  ASSUME FrameTypes
  PROVE  /\ dump \in Seq(Left..MaxLines) /\ Len(dump) \in Nat /\ Len(dump) <= Words
         /\ \A i \in 1..Len(dump) : dump[i] \in Int
<1>1. dump \in Seq(Left..MaxLines) /\ Len(dump) <= Words
  BY DEF FrameTypes
<1>2. Len(dump) \in Nat
  BY <1>1
<1>3. ASSUME NEW i \in 1..Len(dump) PROVE dump[i] \in Int
  <2>1. dump[i] \in Left..MaxLines
    BY <1>1, ElementOfSeq
  <2> QED
    BY <2>1, LinesAssumption DEF Left
<1> QED
  BY <1>1, <1>2, <1>3

(* A dump writes the next word as it stands, and keeps those it has        *)
(* written until philix goes on.                                           *)
LEMMA DumpGrows ==
  ASSUME FrameTypes, [Next]_vars
  PROVE  \/ dump' = dump
         \/ dump' = << >> /\ Len(dump') = 0 /\ (P!PollHit \/ P!PollExpire)
         \/ /\ DumpWord /\ UNCHANGED <<protocol, term, text>>
            /\ Len(dump') = Len(dump) + 1 /\ Len(dump') \in 1..Words
            /\ dump'[Len(dump')] = fb[Len(dump')]
            /\ \A i \in 1..Len(dump) : dump'[i] = dump[i]
<1>1. CASE DumpWord
  <2>1. dump' = Append(dump, fb[Len(dump) + 1]) /\ Len(dump) < Words
        /\ UNCHANGED <<protocol, term, text>>
    BY <1>1 DEF DumpWord
  <2>2. Len(dump) + 1 \in 1..Words
    BY <2>1, DumpNumbers, Sizes
  <2>3. fb[Len(dump) + 1] \in Left..MaxLines
    BY <2>2 DEF FrameTypes
  <2> QED
    BY <1>1, <2>1, <2>2, <2>3, DumpNumbers
<1>2. CASE HostProtocol
  BY <1>2 DEF HostProtocol
<1>3. CASE ~DumpWord /\ ~HostProtocol
  BY <1>3 DEF Next, Card, Host, TermInit, EndLine, AnnounceScroll, AskRedraw,
     SendShutdown, BlankWord, PutWord, Shift, CardProtocol, CopyWord, SaveLine,
     HandleShutdown, Draw, Fail, viewer, text, vars
<1> QED
  BY <1>1, <1>2, <1>3

LEMMA InitAscending == Init => Ascending
<1> SUFFICES ASSUME Init PROVE Ascending
  OBVIOUS
<1>1. dump = << >> /\ Len(dump) = 0
  BY DEF Init
<1>2. ASSUME NEW r \in 1..Height, NEW w \in 1..2 PROVE ~(Of(r, w) <= Len(dump))
  BY <1>1, Sizes DEF Of
<1>3. \A r \in 1..(Height - 1) : r \in 1..Height
  BY Sizes
<1> QED
  BY <1>1, <1>2, <1>3 DEF Ascending

LEMMA AscendingStep ==
  ASSUME FrameTypes, Standing, Ascending, [Next]_vars
  PROVE  Ascending'
<1>1. ASSUME hpc' \in {"dispatch", "ack", "draw", "aborted"}, dump' # << >> PROVE FALSE
  <2>1. \/ hpc \in {"dispatch", "ack", "draw", "aborted"} /\ dump' = dump
        \/ hpc = "poll" /\ dump' = << >>
    <3>1. CASE Card \/ UNCHANGED vars
      BY <1>1, <3>1 DEF Card, TermInit, BlankWord, PutWord, EndLine, AnnounceScroll, Shift,
         AskRedraw, SendShutdown, CardProtocol, P!NotifyPlain, P!NotifyArg,
         P!SignalArg, P!SeeDrawn, P!ClearDrawn, P!hostVars, protocol, viewer, vars
    <3>2. CASE Host
      BY <1>1, <3>2 DEF Host, CopyWord, SaveLine, HandleShutdown, Draw, Fail,
         DumpWord, HostProtocol, P!HandleOther, P!HandleDraw, P!HandleFails, P!LineAborts,
         P!PollHit, P!PollExpire, P!ClearAvail, P!DrawDone, Leaves, KeyEnds, P!Exit,
       P!ExitLost, P!KeyAborts, P!KeyExits, P!KeyEnds, protocol, viewer
    <3> QED
      BY <3>1, <3>2 DEF Next
  <2> QED
    BY <1>1, <2>1 DEF Ascending
<1>2. \/ dump' = dump
      \/ Len(dump') = 0
      \/ /\ UNCHANGED <<protocol, term, text>>
         /\ Len(dump') = Len(dump) + 1 /\ Len(dump') \in 1..Words
         /\ dump'[Len(dump')] = fb[Len(dump')]
         /\ \A i \in 1..Len(dump) : dump'[i] = dump[i]
  BY DumpGrows
<1>3. /\ Len(dump) \in Nat /\ (\A i \in 1..Len(dump) : dump[i] \in Int)
      /\ fb \in [1..Words -> Int] /\ fb' \in [1..Words -> Int]
  <2>1. FrameTypes'
    BY FrameTypesStep
  <2>2. fb \in [1..Words -> Int] /\ fb' \in [1..Words -> Int]
    <3>1. fb' \in [1..Words -> Left..MaxLines]
      BY <2>1 DEF FrameTypes
    <3> QED
      BY <3>1, LinesAssumption, Numbers DEF Left
  <2> QED
    BY <2>2, DumpNumbers
<1>4. ASSUME NEW r \in 1..(Height - 1), NEW w \in 1..2, Of(r, w) <= Len(dump')
      PROVE  dump'[Of(r, w)] <= fb'[Of(r, w)]
  <2>1. r \in 1..Height
    BY Sizes
  <2>2. Of(r, w) \in 1..Words
    BY <2>1, WordOf
  <2>3. fb[Of(r, w)] <= fb'[Of(r, w)]
    BY WordsRise
  <2>4. CASE Of(r, w) <= Len(dump) /\ dump'[Of(r, w)] = dump[Of(r, w)]
    <3>1. Of(r, w) \in 1..Len(dump)
      BY <1>3, <2>2, <2>4, Sizes
    <3>2. dump[Of(r, w)] <= fb[Of(r, w)] /\ dump[Of(r, w)] \in Int
      BY <1>3, <2>4, <3>1 DEF Ascending
    <3> QED
      BY <1>3, <2>2, <2>3, <2>4, <3>2
  <2>5. CASE Of(r, w) = Len(dump') /\ dump'[Len(dump')] = fb[Len(dump')]
    BY <2>3, <2>5
  <2>6. Of(r, w) # 0 /\ Of(r, w) \in Nat
    BY <2>2, Sizes
  <2>7. CASE dump' = dump
    BY <1>4, <2>4, <2>7
  <2>8. CASE Len(dump') = 0
    BY <1>4, <2>6, <2>8
  <2>9. CASE /\ Len(dump') = Len(dump) + 1
             /\ dump'[Len(dump')] = fb[Len(dump')]
             /\ \A i \in 1..Len(dump) : dump'[i] = dump[i]
    <3>1. Of(r, w) = Len(dump') \/ Of(r, w) \in 1..Len(dump)
      BY <1>3, <1>4, <2>6, <2>9
    <3> QED
      BY <1>3, <2>4, <2>5, <2>9, <3>1
  <2> QED
    BY <1>2, <2>7, <2>8, <2>9
<1>5. ASSUME NEW r \in 1..Height, NEW w \in 1..2, Of(r, w) <= Len(dump'),
             NEW q \in 1..(r - 1)
      PROVE  dump'[Of(q, w)] <= dump'[Of(r, w)] \/ dump'[Of(r, w)] <= 0
  <2>1. q \in 1..Height /\ q \in 1..(Height - 1) /\ Of(q, w) < Of(r, w)
        /\ Of(q, w) \in Nat /\ Of(q, w) # 0 /\ Of(r, w) \in Nat
    BY Sizes DEF Of
  <2>2. Of(q, w) \in 1..Words /\ Of(r, w) \in 1..Words
    BY <2>1, WordOf
  <2>3. CASE dump' = dump
    BY <1>5, <2>3 DEF Ascending
  <2>4. CASE Len(dump') = 0
    BY <1>5, <2>1, <2>4
  <2>5. CASE /\ Len(dump') = Len(dump) + 1
             /\ dump'[Len(dump')] = fb[Len(dump')]
             /\ \A i \in 1..Len(dump) : dump'[i] = dump[i]
    <3>1. Of(q, w) \in 1..Len(dump)
      BY <1>3, <1>5, <2>1, <2>5
    <3>2. CASE Of(r, w) = Len(dump')
      <4>1. dump[Of(q, w)] <= fb[Of(q, w)] /\ dump[Of(q, w)] \in Int
        BY <1>3, <2>1, <3>1 DEF Ascending
      <4>2. fb[Of(q, w)] <= fb[Of(r, w)] \/ fb[Of(r, w)] <= 0
        BY WordsAscend
      <4>3. fb[Of(q, w)] \in Int /\ fb[Of(r, w)] \in Int
        BY <1>3, <2>2
      <4> QED
        BY <2>5, <3>1, <3>2, <4>1, <4>2, <4>3
    <3>3. CASE Of(r, w) # Len(dump')
      <4>1. Of(r, w) \in 1..Len(dump) /\ Of(r, w) <= Len(dump)
        BY <1>3, <1>5, <2>1, <2>5, <3>3
      <4> QED
        BY <2>5, <3>1, <4>1 DEF Ascending
    <3> QED
      BY <3>2, <3>3
  <2> QED
    BY <1>2, <2>3, <2>4, <2>5
<1> QED
  BY <1>1, <1>4, <1>5 DEF Ascending

LEMMA AscendingHolds == Spec => []Ascending
BY InitAscending, AscendingStep, FrameTypesHold, StandingHolds, PTL DEF Spec

-----------------------------------------------------------------------------
(* A dump as long as no acknowledgement is unearned. *)

(* Of the lines after a row written as blank, one can be printed before    *)
(* philix has to go on.                                                    *)
LEMMA BlankStep ==
  ASSUME P!TypeOK, FrameTypes, Turns, [Next]_vars, unearned = 0,
         hpc = "poll", hpc' = "poll", NEW n \in Nat, StaysBlank(n)
  PROVE  StaysBlank(n)'
<1>1. printed \in Nat /\ sent \in Nat /\ Len(handled) \in Nat /\ Len(handled) <= sent
  <2>1. printed \in Nat
    BY LinesAssumption DEF FrameTypes, Left
  <2>2. sent \in Nat /\ Len(handled) \in Nat /\ seen \in Nat
        /\ Len(handled) <= seen /\ seen <= sent
    BY DEF Turns
  <2> QED
    BY <2>1, <2>2
<1>2. CASE PutWord
  <2>1. cpc = "run" /\ tpc = "print" /\ Handled
    BY <1>2 DEF PutWord, Idle, Turns
  <2>2. n > printed
    BY <2>1 DEF StaysBlank
  <2>3. printed' = printed \/ (printed' = printed + 1 /\ tpc' = "line")
    BY <1>2 DEF PutWord
  <2> QED
    BY <1>1, <2>2, <2>3 DEF StaysBlank
<1>3. CASE TermInit \/ AnnounceScroll \/ AskRedraw \/ SendShutdown \/ P!SignalArg
  <2>1. sent' = sent + 1 /\ handled' = handled
    BY <1>3 DEF TermInit, AnnounceScroll, AskRedraw, SendShutdown,
       P!SignalArg, P!NotifyPlain, P!Raise, P!hostVars
  <2>2. printed' = printed
    BY <1>3 DEF Next, Card, Host, TermInit, EndLine, AnnounceScroll, AskRedraw,
       SendShutdown, BlankWord, PutWord, Shift, CardProtocol, CopyWord, SaveLine,
       HandleShutdown, Draw, Fail, DumpWord, HostProtocol, term, vars, protocol,
       P!SignalArg, P!Raise, Steps, Idle
  <2>3. ~Handled'
    BY <1>1, <2>1 DEF Handled
  <2> QED
    BY <2>2, <2>3 DEF StaysBlank
<1>4. CASE EndLine
  BY <1>4 DEF EndLine, P!NotifyArg, StaysBlank
<1>5. CASE BlankWord \/ Shift
  BY <1>5 DEF BlankWord, Shift, protocol, StaysBlank, Handled, Idle
<1>6. CASE CardProtocol /\ ~P!SignalArg
  BY <1>6 DEF CardProtocol, P!SeeDrawn, P!ClearDrawn, P!hostVars, term, StaysBlank,
     Handled
<1>7. CASE Host \/ UNCHANGED vars
  BY <1>7 DEF Host, CopyWord, SaveLine, HandleShutdown, Draw, Fail, DumpWord,
     HostProtocol, P!HandleOther, P!HandleDraw, P!HandleFails, P!LineAborts, P!PollHit,
     P!PollExpire, P!ClearAvail, P!DrawDone, Leaves, KeyEnds, P!Exit,
       P!ExitLost, P!KeyAborts, P!KeyExits, P!KeyEnds, protocol, term, vars,
     StaysBlank, Handled
<1> QED
  BY <1>2, <1>3, <1>4, <1>5, <1>6, <1>7 DEF Next, Card, CardProtocol

(* philix reads the shutdown only when the terminal has sent it. *)
LEMMA ShutdownStep ==
  ASSUME P!TypeOK, Standing, Turns, TextInv, [Next]_vars, unearned = 0, unearned' = 0,
         upd = "CONSOLE_SHUTDOWN" => tpc = "done", upd' = "CONSOLE_SHUTDOWN"
  PROVE  tpc' = "done"
<1>1. tpc = "done" => tpc' = "done"
  BY DEF Next, Card, Host, TermInit, EndLine, AnnounceScroll, AskRedraw,
     SendShutdown, BlankWord, PutWord, Shift, CardProtocol, CopyWord, SaveLine,
     HandleShutdown, Draw, Fail, DumpWord, HostProtocol, term, vars, Steps
<1>2. CASE P!PollHit
  <2>1. slot # 0 /\ avail = "CONSOLE_SHUTDOWN"
    BY <1>2 DEF P!PollHit
  <2>2. note = "CONSOLE_SHUTDOWN"
    BY <2>1 DEF TextInv, Text, InHand
  <2> QED
    BY <1>1, <2>2 DEF Standing
<1>3. CASE ~P!PollHit
  <2>1. upd' = upd \/ upd' = "NO_UPDATE"
    <3>1. CASE Card \/ UNCHANGED vars
      BY <3>1 DEF Card, TermInit, BlankWord, PutWord, EndLine, AnnounceScroll, Shift,
         AskRedraw, SendShutdown, CardProtocol, P!NotifyPlain, P!NotifyArg,
         P!SignalArg, P!SeeDrawn, P!ClearDrawn, P!hostVars, protocol, vars
    <3>2. CASE Host
      BY <1>3, <3>2 DEF Host, CopyWord, SaveLine, HandleShutdown, Draw, Fail,
         DumpWord, HostProtocol, P!HandleOther, P!HandleDraw, P!HandleFails, P!LineAborts,
         P!PollExpire, P!ClearAvail, P!DrawDone, Leaves, KeyEnds, P!Exit,
       P!ExitLost, P!KeyAborts, P!KeyExits, P!KeyEnds, protocol, P!NoUpdate
    <3> QED
      BY <3>1, <3>2 DEF Next
  <2> QED
    BY <1>1, <2>1
<1> QED
  BY <1>2, <1>3

(* The word a dump by key writes next. *)
LEMMA KeyWord ==
  ASSUME P!TypeOK, FrameTypes, Standing, Turns, TextInv, unearned = 0, hpc = "poll",
         tpc # "init",
         NEW r \in 1..Height, NEW w \in 1..2
  PROVE  LET n == Len(hist) + r
         IN  fb[Of(r, w)] \in {n - 1, n} \/ (fb[Of(r, w)] = 0 /\ StaysBlank(n))
<1> DEFINE n == Len(hist) + r
<1>1. /\ Gone \in Nat /\ printed \in Nat /\ pos \in Nat /\ Height \in Nat /\ row \in Nat
      /\ fb[Of(r, w)] = Content(r, w)
      /\ Len(hist) = IF tpc = "shift" /\ Handled THEN Gone + 1 ELSE Gone
  <2>1. printed \in Nat /\ pos \in Nat /\ Height \in Nat /\ row \in Nat
    BY LinesAssumption, Sizes DEF FrameTypes, Left
  <2> QED
    BY <2>1 DEF Standing, TextInv, Text, Saved
<1>2. CASE tpc # "shift"
  <2>1. n = Gone + r
    BY <1>1, <1>2
  <2>2. Content(r, w) = n \/ (Content(r, w) = 0 /\ n > printed)
    BY <1>1, <1>2, <2>1 DEF Content
  <2> QED
    BY <1>1, <2>2 DEF StaysBlank
<1>3. CASE tpc = "shift" /\ Handled
  <2>1. n = Gone + 1 + r
    BY <1>1, <1>3
  <2>2. row = Height /\ Gone = printed - Height
    BY <1>3 DEF Standing, Gone
  <2>3. Content(r, w) \in {n - 1, n} \/ (Content(r, w) = 0 /\ r = Height)
    BY <1>1, <1>3, <2>1 DEF Content
  <2>4. r = Height => n > printed
    BY <1>1, <2>1, <2>2
  <2> QED
    BY <1>1, <2>3, <2>4 DEF StaysBlank
<1>4. CASE tpc = "shift" /\ ~Handled
  <2>1. n = Gone + r
    BY <1>1, <1>4
  <2>2. cpc # "run" /\ cpc # "reset"
    BY <1>4 DEF Turns
  <2>3. pos = 1
    BY <2>2 DEF Standing
  <2>4. Content(r, w) = n
    BY <1>1, <1>4, <2>1, <2>3, Sizes DEF Content, Of
  <2> QED
    BY <1>1, <2>4
<1> QED
  BY <1>2, <1>3, <1>4

LEMMA KeyDumpStep ==
  ASSUME P!TypeOK, FrameTypes, Standing, Turns, TextInv, Ascending, Current,
         [Next]_vars, unearned = 0, hpc' = "poll",
         NEW r \in 1..Height, NEW w \in 1..2, Of(r, w) <= Len(dump'),
         NEW n \in Nat, n = Len(hist') + r
  PROVE  \/ dump'[Of(r, w)] \in {n - 1, n}
         \/ dump'[Of(r, w)] = 0 /\ StaysBlank(n)'
<1>1. Of(r, w) \in 1..Words /\ Of(r, w) \in Nat /\ Of(r, w) # 0
      /\ Len(dump) \in Nat
  <2>1. Of(r, w) \in 1..Words
    BY WordOf
  <2>2. Len(dump) \in Nat
    BY DumpNumbers
  <2> QED
    BY <2>1, <2>2, Sizes
<1>2. hpc = "poll" /\ hist' = hist
  <2>1. CASE hpc # "poll"
    <3>1. hpc = "draw" /\ dump' = dump
      <4>1. CASE Card \/ UNCHANGED vars
        BY <2>1, <4>1 DEF Card, TermInit, BlankWord, PutWord, EndLine, AnnounceScroll, Shift,
           AskRedraw, SendShutdown, CardProtocol, P!NotifyPlain, P!NotifyArg,
           P!SignalArg, P!SeeDrawn, P!ClearDrawn, P!hostVars, protocol, vars
      <4>2. CASE Host
        BY <2>1, <4>2 DEF Host, CopyWord, SaveLine, HandleShutdown, Draw, Fail,
           DumpWord, HostProtocol, P!HandleOther, P!HandleDraw, P!HandleFails, P!LineAborts,
           P!PollHit, P!PollExpire, P!ClearAvail, P!DrawDone, Leaves, KeyEnds, P!Exit,
       P!ExitLost, P!KeyAborts, P!KeyExits, P!KeyEnds, protocol
      <4> QED
        BY <4>1, <4>2 DEF Next
    <3>2. Len(dump') = 0
      BY <3>1 DEF Ascending
    <3> QED
      BY <1>1, <3>2
  <2>2. CASE hpc = "poll"
    BY <2>2 DEF Next, Card, Host, TermInit, EndLine, AnnounceScroll, AskRedraw,
       SendShutdown, BlankWord, PutWord, Shift, CardProtocol, CopyWord, SaveLine,
       HandleShutdown, Draw, Fail, DumpWord, HostProtocol, viewer, text, vars,
       P!HandleOther, P!HandleDraw, P!HandleFails, P!LineAborts
  <2> QED
    BY <2>1, <2>2
<1>3. StaysBlank(n) => StaysBlank(n)'
  BY <1>2, BlankStep
<1>kept. ASSUME Of(r, w) <= Len(dump), dump'[Of(r, w)] = dump[Of(r, w)]
      PROVE  \/ dump'[Of(r, w)] \in {n - 1, n}
             \/ dump'[Of(r, w)] = 0 /\ StaysBlank(n)'
  <2>1. dump[Of(r, w)] \in {n - 1, n} \/ (dump[Of(r, w)] = 0 /\ StaysBlank(n))
    BY <1>2, <1>kept DEF Current
  <2> QED
    BY <1>3, <1>kept, <2>1
<1>4. CASE dump' = dump
  BY <1>kept, <1>4
<1>5. CASE Len(dump') = 0
  BY <1>1, <1>5
<1>6. CASE DumpWord /\ UNCHANGED <<protocol, term, text>>
           /\ Len(dump') = Len(dump) + 1
           /\ dump'[Len(dump')] = fb[Len(dump')]
           /\ \A i \in 1..Len(dump) : dump'[i] = dump[i]
  <2>1. CASE Of(r, w) = Len(dump')
    <3>t. tpc # "init"
      <4> SUFFICES ASSUME tpc = "init" PROVE FALSE
        OBVIOUS
      <4>1. Len(hist) = Gone /\ Gone = 0
        BY DEF TextInv, Text, Saved, Standing, Gone
      <4>2. hist # << >> /\ hist \in Seq([1..2 -> Left..MaxLines])
        BY <1>6, Numbers DEF DumpWord
      <4> QED
        BY <4>1, <4>2
    <3>1. fb[Of(r, w)] \in {n - 1, n} \/ (fb[Of(r, w)] = 0 /\ StaysBlank(n))
      BY <1>2, <3>t, KeyWord
    <3> QED
      BY <1>3, <1>6, <2>1, <3>1
  <2>2. CASE Of(r, w) # Len(dump')
    <3>1. Of(r, w) \in 1..Len(dump) /\ Of(r, w) <= Len(dump)
      BY <1>1, <1>6, <2>2
    <3> QED
      BY <1>kept, <1>6, <3>1
  <2> QED
    BY <2>1, <2>2
<1> QED
  BY <1>4, <1>5, <1>6, DumpGrows

(* The dump at the shutdown: the terminal is done, nothing moves. *)
LEMMA LastDumpStep ==
  ASSUME P!TypeOK, FrameTypes, Standing, Ascending, Current, [Next]_vars,
         hpc' \in Ending, dump' # << >>
  PROVE  tpc' = "done" /\ \A i \in 1..Len(dump') : dump'[i] = fb'[i]
<1>1. tpc = "done" => tpc' = "done" /\ fb' = fb
  BY DEF Next, Card, Host, TermInit, EndLine, AnnounceScroll, AskRedraw,
     SendShutdown, BlankWord, PutWord, Shift, CardProtocol, CopyWord, SaveLine,
     HandleShutdown, Draw, Fail, DumpWord, HostProtocol, term, vars, Steps
<1>2. CASE DumpWord
  <2>1. hpc = "stopping" /\ upd = "CONSOLE_SHUTDOWN" /\ tpc = "done"
        /\ \A i \in 1..Len(dump) : dump[i] = fb[i]
    <3>1. hpc = "stopping" /\ upd = "CONSOLE_SHUTDOWN"
      BY <1>2 DEF DumpWord, protocol, Ending
    <3>2. tpc = "done"
      BY <3>1 DEF Current
    <3>3. dump = << >> => Len(dump) = 0
      OBVIOUS
    <3> QED
      BY <3>1, <3>2, <3>3 DEF Current, Ending
  <2>2. /\ Len(dump') = Len(dump) + 1 /\ Len(dump) \in Nat
        /\ dump'[Len(dump')] = fb[Len(dump')]
        /\ \A i \in 1..Len(dump) : dump'[i] = dump[i]
    <3>1. dump' = Append(dump, fb[Len(dump) + 1]) /\ hpc' = hpc
      BY <1>2 DEF DumpWord, protocol
    <3>2. dump' # dump /\ ~P!PollHit /\ ~P!PollExpire
      <4>1. Len(dump') = Len(dump) + 1 /\ Len(dump) \in Nat
        BY <3>1, DumpNumbers
      <4> QED
        BY <2>1, <4>1 DEF P!PollHit, P!PollExpire
    <3> QED
      BY <3>2, DumpGrows, DumpNumbers
  <2>3. ASSUME NEW i \in 1..Len(dump') PROVE dump'[i] = fb'[i]
    <3>1. i = Len(dump') \/ i \in 1..Len(dump)
      BY <2>2
    <3> QED
      BY <1>1, <2>1, <2>2, <3>1
  <2> QED
    BY <1>1, <2>1, <2>3
<1>3. CASE ~DumpWord
  <2>1. hpc \in Ending \cup {"dispatch", "draw"} /\ dump' = dump
    <3>1. CASE Card \/ UNCHANGED vars
      BY <3>1 DEF Card, TermInit, BlankWord, PutWord, EndLine, AnnounceScroll, Shift,
         AskRedraw, SendShutdown, CardProtocol, P!NotifyPlain, P!NotifyArg,
         P!SignalArg, P!SeeDrawn, P!ClearDrawn, P!hostVars, protocol, viewer, vars, Ending
    <3>2. CASE Host
      BY <1>3, <3>2 DEF Host, CopyWord, SaveLine, HandleShutdown, Draw, Fail,
         HostProtocol, P!HandleOther, P!HandleDraw, P!HandleFails, P!LineAborts,
         P!PollHit, P!PollExpire, P!ClearAvail, P!DrawDone, Leaves, KeyEnds, P!Exit,
       P!ExitLost, P!KeyAborts, P!KeyExits, P!KeyEnds, protocol, viewer, Ending
    <3> QED
      BY <3>1, <3>2 DEF Next
  <2>2. hpc \in Ending
    BY <2>1 DEF Ascending
  <2> QED
    BY <1>1, <2>1, <2>2 DEF Current
<1> QED
  BY <1>2, <1>3

LEMMA InitCurrent == Init => Current
<1> SUFFICES ASSUME Init PROVE Current
  OBVIOUS
<1>1. dump = << >> /\ Len(dump) = 0 /\ upd # "CONSOLE_SHUTDOWN"
  BY DEF Init, P!Init, P!NoUpdate
<1>2. ASSUME NEW r \in 1..Height, NEW w \in 1..2 PROVE ~(Of(r, w) <= Len(dump))
  BY <1>1, Sizes DEF Of
<1> QED
  BY <1>1, <1>2 DEF Current

LEMMA CurrentStep ==
  ASSUME P!TypeOK, FrameTypes, Standing, Turns, TextInv, Ascending,
         unearned = 0 => Current, [Next]_vars, unearned' = 0
  PROVE  Current'
<1>1. unearned = 0 /\ Current
  BY NoneEarnedLater
<1>2. upd' = "CONSOLE_SHUTDOWN" => tpc' = "done"
  BY <1>1, ShutdownStep DEF Current
<1>3. ASSUME hpc' = "poll", NEW r \in 1..Height, NEW w \in 1..2,
             Of(r, w) <= Len(dump')
      PROVE  (LET n == Len(hist) + r
                  d == dump[Of(r, w)]
              IN  d \in {n - 1, n} \/ (d = 0 /\ StaysBlank(n)))'
  <2>1. Len(hist') + r \in Nat
    <3>1. FrameTypes'
      BY FrameTypesStep
    <3>2. hist' \in Seq([1..2 -> Left..MaxLines])
      BY <3>1 DEF FrameTypes
    <3>3. Len(hist') \in Nat
      BY <3>2
    <3> QED
      BY <3>3, Sizes
  <2>2. PICK n \in Nat : n = Len(hist') + r
    BY <2>1
  <2>3. dump'[Of(r, w)] \in {n - 1, n} \/ (dump'[Of(r, w)] = 0 /\ StaysBlank(n)')
    BY <1>1, <1>3, <2>2, KeyDumpStep
  <2> QED
    BY <2>2, <2>3 DEF StaysBlank
<1>4. hpc' \in Ending /\ dump' # << >> =>
        tpc' = "done" /\ \A i \in 1..Len(dump') : dump'[i] = fb'[i]
  BY <1>1, LastDumpStep
<1>5. hpc' = "poll" => (\A r \in 1..Height, w \in 1..2 : Of(r, w) <= Len(dump) =>
        LET n == Len(hist) + r
            d == dump[Of(r, w)]
        IN  d \in {n - 1, n} \/ (d = 0 /\ StaysBlank(n)))'
  BY <1>3 DEF Of
<1> QED
  BY <1>2, <1>4, <1>5 DEF Current

LEMMA CurrentHolds == Spec => [](unearned = 0 => Current)
<1>1. /\ P!TypeOK /\ FrameTypes /\ Standing /\ Turns /\ TextInv /\ Ascending
      /\ (unearned = 0 => Current) /\ [Next]_vars
      => (unearned = 0 => Current)'
  BY CurrentStep
<1> QED
  BY <1>1, InitCurrent, RegistersTyped, FrameTypesHold, StandingHolds, TurnsHold,
     TextInvariance, AscendingHolds, PTL DEF Spec

LEMMA DumpIsReadable ==
  ASSUME P!TypeOK, FrameTypes, Standing, TextInv, Ascending, unearned = 0 => Current
  PROVE  DumpReadable
<1> SUFFICES ASSUME Len(dump) = Words, NEW r \in 1..Height, NEW w \in 1..2
             PROVE  LET n == Len(hist) + r IN
               /\ \A q \in 1..(r - 1) : Dumped(q, w) <= Dumped(r, w) \/ Dumped(r, w) <= 0
               /\ unearned = 0 /\ hpc = "poll" =>
                    Dumped(r, w) \in {n - 1, n} \/ (Dumped(r, w) = 0 /\ n >= printed)
               /\ unearned = 0 /\ hpc # "poll" =>
                    Dumped(r, w) = IF n <= printed THEN n ELSE 0
  BY DEF DumpReadable, Word
<1>1. /\ Of(r, w) \in 1..Len(dump) /\ Of(r, w) <= Len(dump)
      /\ \A q \in 1..Height, v \in 1..2 : Dumped(q, v) = dump[Of(q, v)]
      /\ printed \in Nat /\ Len(hist) + r \in Nat
  <2>1. Of(r, w) \in 1..Len(dump) /\ Of(r, w) <= Len(dump)
    BY WordOf, Sizes
  <2>2. printed \in Nat /\ Len(hist) \in Nat
    BY Numbers
  <2> QED
    BY <2>1, <2>2, Sizes DEF Dumped, Of, Word
<1>2. ASSUME NEW q \in 1..(r - 1)
      PROVE  Dumped(q, w) <= Dumped(r, w) \/ Dumped(r, w) <= 0
  <2>1. q \in 1..Height
    BY Sizes
  <2> QED
    BY <1>1, <2>1 DEF Ascending
<1>3. ASSUME unearned = 0, hpc = "poll"
      PROVE  LET n == Len(hist) + r
             IN  Dumped(r, w) \in {n - 1, n} \/ (Dumped(r, w) = 0 /\ n >= printed)
  BY <1>1, <1>3 DEF Current, StaysBlank
<1>4. ASSUME unearned = 0, hpc # "poll"
      PROVE  LET n == Len(hist) + r
             IN  Dumped(r, w) = IF n <= printed THEN n ELSE 0
  <2>1. dump # << >> /\ hpc \in Ending
    <3>1. Len(<< >>) = 0
      OBVIOUS
    <3>2. dump # << >>
      BY <3>1, Sizes
    <3> QED
      BY <1>4, <3>2 DEF Ascending, P!TypeOK, P!Ended, Ending
  <2>2. tpc = "done" /\ dump[Of(r, w)] = fb[Of(r, w)]
    BY <1>1, <1>4, <2>1 DEF Current
  <2>3. fb[Of(r, w)] = Content(r, w)
    BY DEF Standing
  <2>4. Len(hist) = Gone /\ Gone \in Nat
    BY <1>4, <2>2 DEF TextInv, Text, Saved
  <2>5. Content(r, w) = IF Gone + r <= printed THEN Gone + r ELSE 0
    BY <2>2 DEF Content, Begun
  <2> QED
    BY <1>1, <2>2, <2>3, <2>4, <2>5
<1> QED
  BY <1>2, <1>3, <1>4

(* A dump never goes back, whenever it is asked for and however early the  *)
(* card is let go; if no acknowledgement was unearned, a dump by key       *)
(* writes each row as it is or as it was one scroll ago, and the dump at   *)
(* the shutdown is the whole output.                                       *)
THEOREM DumpStaysReadable == Spec => []DumpReadable
BY DumpIsReadable, CurrentHolds, RegistersTyped, FrameTypesHold, StandingHolds,
   TextInvariance, AscendingHolds, PTL

=============================================================================
