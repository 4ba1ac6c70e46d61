---------------------------- MODULE ConsoleProofs ----------------------------
(***************************************************************************)
(* The terminal over the register protocol, for every height of the frame  *)
(* buffer, every number of lines and every leftover in the registers.      *)
(***************************************************************************)
EXTENDS Console, TLAPS

(* The register protocol again, with its invariant and its theorems.       *)
Q == INSTANCE HandshakeProofs

(* A step of Console is a step of the register protocol or leaves the      *)
(* registers alone.                                                        *)
LEMMA CardFollows == Card => [P!Next]_(P!vars)
<1>1. ASSUME TermInit \/ AnnounceScroll \/ AskRedraw \/ SendShutdown PROVE P!Next
  <2>1. \E k \in P!PlainKinds : P!NotifyPlain(k)
    BY <1>1 DEF TermInit, AnnounceScroll, AskRedraw, SendShutdown, P!PlainKinds
  <2> QED
    BY <2>1 DEF P!Next, P!Card
<1>2. ASSUME EndLine PROVE P!Next
  <2>1. \E k \in P!ArgKinds : P!NotifyArg(k)
    BY <1>2 DEF EndLine, P!ArgKinds
  <2> QED
    BY <2>1 DEF P!Next, P!Card
<1>3. ASSUME CardProtocol PROVE P!Next
  BY <1>3 DEF CardProtocol, P!Next, P!Card
<1>4. ASSUME BlankWord \/ PutWord \/ Shift PROVE UNCHANGED P!vars
  BY <1>4 DEF BlankWord, PutWord, Shift, protocol, P!vars
<1> QED
  BY <1>1, <1>2, <1>3, <1>4 DEF Card

LEMMA HostFollows == Host => [P!Next]_(P!vars)
<1>1. ASSUME SaveLine \/ HandleShutdown PROVE P!Next
  BY <1>1 DEF SaveLine, HandleShutdown, P!Next, P!Host
<1>2. ASSUME Draw \/ Fail PROVE P!Next
  BY <1>2 DEF Draw, Fail, P!Next, P!Host
<1>3. ASSUME HostProtocol PROVE P!Next
  BY <1>3 DEF HostProtocol, Leaves, KeyEnds, P!Next, P!Host
<1>4. ASSUME CopyWord \/ DumpWord PROVE UNCHANGED P!vars
  BY <1>4 DEF CopyWord, DumpWord, protocol, P!vars
<1> QED
  BY <1>1, <1>2, <1>3, <1>4 DEF Host

(* The terminal and philix keep to the register protocol, so that every    *)
(* theorem about it holds of them.                                         *)
THEOREM KeepsProtocol == Spec => P!Spec
<1>1. Init => P!Init
  BY DEF Init
<1>2. [Next]_vars => [P!Next]_(P!vars)
  <2>1. UNCHANGED vars => UNCHANGED P!vars
    BY DEF vars, protocol, P!vars
  <2> QED
    BY <2>1, CardFollows, HostFollows DEF Next
<1> QED
  BY <1>1, <1>2, PTL DEF Spec, P!Spec

(* The constants of Console are such as the register protocol asks for.    *)
LEMMA ConstantsFit == Q!BoundsAssumption /\ Q!LeftAssumption /\ Q!ModeAssumption
BY LinesAssumption, ProtocolAssumption
   DEF MaxSent, P!UpdateType, P!Kinds, P!ArgKinds, P!PlainKinds, P!NoUpdate,
       Q!BoundsAssumption, Q!LeftAssumption, Q!ModeAssumption,
       Q!UpdateType, Q!Kinds, Q!ArgKinds, Q!PlainKinds, Q!NoUpdate

LEMMA ProtocolInvariance == Spec => []Q!IndInv
<1>1. P!Init => Q!Init
  BY DEF P!Init, Q!Init, P!ArgKinds, Q!ArgKinds, P!NoUpdate, Q!NoUpdate
<1>2. [P!Next]_(P!vars) => [Q!Next]_(Q!vars)
  BY DEF P!Next, Q!Next, P!Card, Q!Card, P!Host, Q!Host, P!NotifyPlain,
         Q!NotifyPlain, P!NotifyArg, Q!NotifyArg, P!SignalArg, Q!SignalArg,
         P!SeeDrawn, Q!SeeDrawn, P!ClearDrawn, Q!ClearDrawn, P!Raise,
         Q!Raise, P!PollHit, Q!PollHit, P!PollExpire, Q!PollExpire,
         P!HandleDraw, Q!HandleDraw, P!HandleOther, Q!HandleOther,
         P!HandleFails, Q!HandleFails, P!CountHandled, Q!CountHandled,
         P!ClearAvail, Q!ClearAvail, P!DrawDone, Q!DrawDone, P!Exit, Q!Exit,
         P!ExitLost, Q!ExitLost, P!LineAborts, Q!LineAborts, P!KeyAborts,
         Q!KeyAborts, P!KeyExits, Q!KeyExits, P!KeyEnds, Q!KeyEnds,
         P!cardVars, Q!cardVars, P!hostVars, Q!hostVars, P!vars, Q!vars,
         P!ArgKinds, Q!ArgKinds, P!PlainKinds, Q!PlainKinds, P!Kinds,
         Q!Kinds, P!NoUpdate, Q!NoUpdate
<1>3. P!Spec => Q!Spec
  BY <1>1, <1>2, PTL DEF P!Spec, Q!Spec
<1> QED
  BY <1>3, ConstantsFit, KeepsProtocol, Q!Invariance, PTL

(* The kernel waits while philix handles its notification, if no           *)
(* acknowledgement was unearned: it writes nothing to the frame buffer     *)
(* between the moment philix has read the notification and the moment the  *)
(* switch has handled it, so what handle_scrollup copies and what the      *)
(* drawing functions draw stands still.  The keys, and the dump by key,    *)
(* are handled outside this window, while the kernel runs.                 *)
LEMMA WaitsForHost == Spec => []P!Quiescent
<1>1. Q!IndInv => Q!Quiescent
  BY ConstantsFit, Q!IndInvQuiescent
<1>2. Q!Quiescent => P!Quiescent
  BY DEF P!Quiescent, Q!Quiescent
<1> QED
  BY <1>1, <1>2, ProtocolInvariance, PTL

(* The frame buffer as a whole, which the kernel writes in term_init,      *)
(* putchar and term_scrollup: no step changes it in that window.           *)
THEOREM StandsStill ==
  Spec => [][unearned = 0 /\ hpc = "dispatch" => UNCHANGED fb]_vars
<1>1. ASSUME P!Quiescent, [Next]_vars, unearned = 0, hpc = "dispatch"
      PROVE  UNCHANGED fb
  <2>1. cpc # "run"
    BY <1>1 DEF P!Quiescent
  <2>2. ~BlankWord /\ ~PutWord /\ ~Shift
    BY <2>1 DEF BlankWord, PutWord, Shift, Idle
  <2> QED
    BY <1>1, <2>2 DEF Next, Card, Host, TermInit, EndLine, AnnounceScroll,
       AskRedraw, SendShutdown, CardProtocol, CopyWord, SaveLine, HandleShutdown,
       Draw, Fail, DumpWord, HostProtocol, term, vars
<1>2. P!Quiescent /\ [Next]_vars
      => [unearned = 0 /\ hpc = "dispatch" => UNCHANGED fb]_vars
  BY <1>1
<1> QED
  BY <1>2, WaitsForHost, PTL DEF Spec

-----------------------------------------------------------------------------
(* What the register protocol says of the turns of the two sides as long   *)
(* as no acknowledgement is unearned.                                      *)

(* philix has left its loop and has not reset the card. *)
Stopped == {"stopping", "lost", "aborted"}

(* The latest notification has been handled. *)
Handled == Len(handled) = sent

Turns ==
  /\ handled \in Seq(Nat) /\ unearned \in Nat
  /\ sent \in Nat /\ slot \in Nat /\ seen \in Nat /\ cur \in Nat
  /\ hpc \in {"poll", "dispatch", "ack", "draw", "gone"} \cup Stopped
  /\ seen <= sent /\ slot <= sent /\ Len(handled) <= seen
  /\ unearned = 0 =>
       /\ cpc \in {"run", "signal", "clear"} \/ (cpc = "wait" /\ drawn # 0)
          => Handled /\ hpc \in {"poll"} \cup Stopped /\ cur = 0
       /\ cpc = "signal" => note \in P!ArgKinds
       /\ hpc = "dispatch" => cpc = "wait" /\ cur = sent /\ Len(handled) = sent - 1
       /\ hpc \in {"poll", "draw"} /\ Handled => slot = 0
       /\ hpc = "draw" => Handled
       /\ cpc = "reset" <=> hpc = "gone"

LEMMA TurnsFollow == Q!IndInv => Turns
<1> SUFFICES ASSUME Q!IndInv PROVE Turns
  OBVIOUS
<1>1. Q!TypeOK /\ Q!HandShape /\ Q!SlotShape /\ Q!Accounting /\ Q!ArgShape
  BY DEF Q!IndInv
<1>2. /\ handled \in Seq(Nat) /\ unearned \in Nat /\ drawn \in {0, 1}
      /\ sent \in Nat /\ slot \in Nat /\ seen \in Nat /\ cur \in Nat
      /\ Len(handled) \in Nat
      /\ hpc \in {"poll", "dispatch", "ack", "draw", "gone"} \cup Stopped
  BY <1>1 DEF Q!TypeOK, Q!Ended, Stopped
<1>3. /\ seen <= sent /\ slot <= sent /\ cur \in {0, seen} 
      /\ Len(handled) <= seen /\ (cur # 0 => Len(handled) + 1 <= seen)
      /\ cpc = "reset" <=> hpc = "gone"
  BY <1>1, <1>2 DEF Q!HandShape, Q!Bit
<1> SUFFICES ASSUME unearned = 0
             PROVE  /\ \/ cpc \in {"run", "signal", "clear"}
                       \/ cpc = "wait" /\ drawn # 0
                       => Handled /\ hpc \in {"poll"} \cup Stopped /\ cur = 0
                    /\ cpc = "signal" => note \in P!ArgKinds
                    /\ hpc = "dispatch" =>
                         cpc = "wait" /\ cur = sent /\ Len(handled) = sent - 1
                    /\ hpc \in {"poll", "draw"} /\ Handled => slot = 0
                    /\ hpc = "draw" => Handled
  BY <1>2, <1>3 DEF Turns
<1>4. hpc = "dispatch" => cur # 0
  BY <1>1, <1>2 DEF Q!HandShape
<1>5. cpc \in {"run", "signal", "clear"} \/ (cpc = "wait" /\ drawn # 0)
      => Handled /\ hpc \in {"poll"} \cup Stopped /\ cur = 0
  BY <1>1, <1>2, <1>3, <1>4
     DEF Handled, Q!Accounting, Q!Owed, Q!Standing, Q!Waiting, Q!Bit, Stopped
<1>6. hpc = "dispatch" => cpc = "wait" /\ cur = sent /\ Len(handled) = sent - 1
  BY <1>1, <1>2, <1>3, <1>4
     DEF Q!Accounting, Q!Owed, Q!Standing, Q!Waiting, Q!Bit
<1>7. hpc \in {"poll", "draw"} /\ Handled => slot = 0
  BY <1>1, <1>2, <1>3 DEF Handled, Q!SlotShape
<1>8. hpc = "draw" => Handled
  BY <1>1, <1>2, <1>3
     DEF Handled, Q!Accounting, Q!Owed, Q!Standing, Q!Waiting, Q!Bit
<1>9. cpc = "signal" => note \in P!ArgKinds
  BY <1>1 DEF Q!ArgShape, P!ArgKinds, Q!ArgKinds
<1> QED
  BY <1>5, <1>6, <1>7, <1>8, <1>9

-----------------------------------------------------------------------------
(* What stands where, as long as no acknowledgement is unearned. *)

(* How many lines have left the frame buffer. *)
Gone == IF tpc \in {"line", "scroll", "shift"} THEN printed - row
        ELSE printed - row + 1

TermTypes ==
  /\ fb \in [1..Words -> Int]
  /\ tpc \in {"init", "blank", "print", "line", "scroll", "shift", "redraw", "done"}
  /\ row \in 1..Height /\ printed \in Nat /\ pos \in 1..Words
  /\ copied \in Seq(Int) /\ hist \in Seq(Seq(Int))

(* philix has in hand what the card has raised last. *)
InHand ==
  /\ slot # 0 => avail = note /\ cpc \in {"wait", "reset"}
  /\ slot # 0 /\ hpc \in Stopped => cur # 0 \/ slot > seen
  /\ hpc = "dispatch" => upd = note
  /\ cpc \in {"signal", "wait"} => (note = "SCROLLUP" <=> tpc = "shift")

Cursor ==
  /\ tpc \in {"init", "blank"} => row = 1
  /\ tpc \in {"scroll", "shift", "redraw"} => row = Height
  /\ pos # 1 => \/ /\ tpc = "print" /\ pos = 2 /\ printed < MaxLines
                   /\ fb[2 * row - 1] = printed + 1
                \/ tpc \in {"init", "shift"} /\ cpc \in {"run", "reset"}

(* Every line that has left the frame buffer, or is about to and has been  *)
(* saved, is in the history.                                               *)
Saved ==
  /\ Gone \in Nat
  /\ Len(hist) = IF tpc = "shift" /\ Handled THEN Gone + 1 ELSE Gone
  /\ \A n \in 1..Len(hist) : hist[n] = <<n, n>>
  /\ copied # << >> => hpc = "dispatch" /\ upd = "SCROLLUP"
  /\ copied \in {<< >>, <<Gone + 1>>, <<Gone + 1, Gone + 1>>}

(* The rows of the frame buffer, above and below what is being moved. *)
Shown ==
  \A r \in 1..Height :
    /\ tpc # "shift" /\ Gone + r <= printed =>
         fb[2 * r - 1] = Gone + r /\ fb[2 * r] = Gone + r
    /\ tpc = "shift" =>
         /\ pos <= 2 * r - 1             => fb[2 * r - 1] = Gone + r
         /\ pos <= 2 * r                 => fb[2 * r] = Gone + r
         /\ pos > 2 * r - 1 /\ r # Height => fb[2 * r - 1] = Gone + r + 1
         /\ pos > 2 * r /\ r # Height     => fb[2 * r] = Gone + r + 1

Text == InHand /\ Cursor /\ Saved /\ Shown

TextInv == TermTypes /\ (unearned = 0 => Text)

LEMMA InitTextInv == Init => TextInv
<1> SUFFICES ASSUME Init PROVE TextInv
  OBVIOUS
<1>1. /\ fb = [i \in 1..Words |-> -1] /\ Words \in Nat /\ Words >= 4
      /\ Height \in Nat /\ Height >= 2
      /\ tpc = "init" /\ row = 1 /\ printed = 0 /\ pos = 1
      /\ copied = << >> /\ hist = << >>
      /\ slot = 0 /\ hpc = "poll" /\ cpc = "run"
  BY HeightAssumption DEF Init, Left, Words, Word, P!Init
<1>2. TermTypes
  BY <1>1 DEF TermTypes
<1>3. Gone = 0
  BY <1>1 DEF Gone
<1>4. InHand /\ Cursor
  BY <1>1 DEF InHand, Cursor
<1>5. Saved
  BY <1>1, <1>3 DEF Saved
<1>6. Shown
  BY <1>1, <1>3 DEF Shown
<1> QED
  BY <1>2, <1>4, <1>5, <1>6 DEF TextInv, Text

(* An acknowledgement that was unearned stays so. *)
LEMMA NoneEarnedLater ==
  ASSUME Turns, [Next]_vars, unearned' = 0
  PROVE  unearned = 0
<1>1. ASSUME P!PollHit \/ P!PollExpire PROVE unearned' \in {unearned, unearned + 1}
  BY <1>1 DEF P!PollHit, P!PollExpire
<1>2. ASSUME ~ (P!PollHit \/ P!PollExpire) PROVE unearned' = unearned
  <2>1. CASE Card
    BY <2>1 DEF Card, TermInit, BlankWord, PutWord, EndLine, AnnounceScroll, Shift,
       AskRedraw, SendShutdown, CardProtocol, P!NotifyPlain, P!NotifyArg,
       P!SignalArg, P!SeeDrawn, P!ClearDrawn, P!hostVars, protocol
  <2>2. CASE Host
    BY <1>2, <2>2 DEF Host, CopyWord, SaveLine, HandleShutdown, Draw, Fail,
       DumpWord, HostProtocol, P!HandleOther, P!HandleDraw, P!HandleFails, P!LineAborts,
       P!ClearAvail, P!DrawDone,
       Leaves, KeyEnds, P!Exit, P!ExitLost, P!KeyAborts,
       P!KeyExits, P!KeyEnds, P!CountHandled, protocol
  <2>3. CASE UNCHANGED vars
    BY <2>3 DEF vars, protocol
  <2> QED
    BY <2>1, <2>2, <2>3 DEF Next
<1> QED
  BY <1>1, <1>2 DEF Turns

(* The terminal's fields and the history keep their types. *)
LEMMA TypesStep ==
  ASSUME Turns, TextInv, [Next]_vars
  PROVE  TermTypes'
<1> USE DEF TextInv, TermTypes
<1>1. Words = 2 * Height /\ Height \in Nat /\ Height >= 2
  BY HeightAssumption DEF Words, Word
<1>b. CASE BlankWord
  <2>1. fb' \in [1..Words -> Int]
    BY <1>b DEF BlankWord
  <2>2. pos' \in 1..Words /\ tpc' \in {"init", "blank"}
    BY <1>1, <1>b DEF BlankWord
  <2> QED
    BY <1>b, <2>1, <2>2 DEF BlankWord, viewer, text
<1>2. CASE PutWord
  <2>1. printed + 1 \in Nat /\ printed + 1 \in Int
    OBVIOUS
  <2>2. fb' \in [1..Words -> Int]
    BY <1>2, <2>1 DEF PutWord
  <2>3. pos' \in 1..Words /\ printed' \in Nat /\ tpc' \in {"print", "line"}
    BY <1>1, <1>2 DEF PutWord, Word
  <2> QED
    BY <1>2, <2>2, <2>3 DEF PutWord, viewer, text
<1>3. CASE Shift
  <2>1. fb' \in [1..Words -> Int]
    <3> DEFINE new == IF pos + Word <= Words THEN fb[pos + Word] ELSE 0
    <3>1. new \in Int
      BY <1>1 DEF Word
    <3>2. fb' = [fb EXCEPT ![pos] = new]
      BY <1>3 DEF Shift
    <3> HIDE DEF new
    <3> QED
      BY <3>1, <3>2
  <2>2. pos' \in 1..Words /\ tpc' \in {"shift", "redraw"}
    BY <1>1, <1>3 DEF Shift
  <2> QED
    BY <1>3, <2>1, <2>2 DEF Shift, viewer, text
<1>4. CASE SaveLine
  <2>1. << >> \in Seq(Int) /\ Append(hist, copied) \in Seq(Seq(Int))
    OBVIOUS
  <2> QED
    BY <1>4, <2>1 DEF SaveLine, term
<1>5. CASE TermInit \/ EndLine \/ AnnounceScroll \/ AskRedraw \/ SendShutdown
  <2>1. UNCHANGED <<fb, printed, pos, copied, hist>>
    BY <1>5 DEF TermInit, EndLine, AnnounceScroll, AskRedraw, SendShutdown,
       viewer, text
  <2>2. tpc' \in {"print", "scroll", "shift", "done"}
    BY <1>5 DEF TermInit, EndLine, AnnounceScroll, AskRedraw, SendShutdown,
       Steps
  <2>3. row' = row \/ (row < Height /\ row' = row + 1)
    BY <1>1, <1>5 DEF TermInit, EndLine, AnnounceScroll, AskRedraw,
       SendShutdown
  <2> QED
    BY <1>1, <2>1, <2>2, <2>3
<1>6. CASE CopyWord
  <2>1. Len(copied) \in Nat /\ Len(copied) < 2
    BY <1>6 DEF CopyWord, Word
  <2>2. fb[Len(copied) + 1] \in Int
    BY <1>1, <2>1
  <2>3. Append(copied, fb[Len(copied) + 1]) \in Seq(Int)
    BY <2>2
  <2> QED
    BY <1>6, <2>3 DEF CopyWord, term
<1>7. CASE \/ CardProtocol \/ HandleShutdown \/ Draw \/ Fail
           \/ DumpWord \/ HostProtocol \/ UNCHANGED vars
  BY <1>7 DEF CardProtocol, HandleShutdown, Draw, Fail, DumpWord, HostProtocol,
     viewer, text, term, vars
<1> QED
  BY <1>b, <1>2, <1>3, <1>4, <1>5, <1>6, <1>7 DEF Next, Card, Host

(* The steps of the protocol alone. *)
LEMMA ProtocolStep ==
  ASSUME Turns, TermTypes, unearned = 0, unearned' = 0, Text,
         CardProtocol \/ HandleShutdown \/ Draw \/ Fail \/ HostProtocol
  PROVE  Text'
<1> USE DEF Text
<1>1. UNCHANGED <<term, copied, hist>> /\ UNCHANGED Gone
  BY DEF CardProtocol, HandleShutdown, Draw, Fail, HostProtocol, viewer, text, term,
         Gone
<1>2. UNCHANGED <<fb, tpc, row, printed, pos, copied, hist>>
  BY <1>1 DEF term
<1>3. CASE P!SignalArg
  <2>1. tpc # "shift"
    BY <1>3 DEF Turns, InHand, P!ArgKinds, P!SignalArg
  <2>2. InHand'
    BY <1>2, <1>3, <2>1 DEF InHand, Turns, Stopped, P!SignalArg, P!Raise,
       P!hostVars, P!ArgKinds
  <2>3. Cursor' /\ Saved' /\ Shown'
    BY <1>1, <1>2, <1>3, <2>1 DEF Cursor, Saved, Shown, P!SignalArg, P!Raise,
       P!hostVars
  <2> QED
    BY <2>2, <2>3
<1>4. CASE P!SeeDrawn \/ P!ClearDrawn
  <2>1. InHand'
    <3>1. Handled /\ hpc \in {"poll"} \cup Stopped /\ cur = 0
      BY <1>4 DEF Turns, P!SeeDrawn, P!ClearDrawn, InHand
    <3>2. slot = 0
      BY <3>1 DEF Turns, InHand, Handled
    <3> QED
      BY <1>2, <1>4, <3>1, <3>2 DEF InHand, P!SeeDrawn, P!ClearDrawn, P!hostVars
  <2>2. Cursor' /\ Saved' /\ Shown'
    BY <1>1, <1>2, <1>4 DEF Cursor, Saved, Shown, Handled, P!SeeDrawn,
       P!ClearDrawn, P!hostVars
  <2> QED
    BY <2>1, <2>2
<1>5. CASE HandleShutdown \/ Draw
  <2>1. /\ hpc = "dispatch" /\ upd # "SCROLLUP" /\ hpc' = "ack"
        /\ UNCHANGED <<cpc, note, sent, slot, avail, upd, seen>> /\ cur' = 0
    BY <1>5 DEF HandleShutdown, Draw, P!HandleOther, P!HandleDraw, P!ArgKinds,
       P!NoUpdate, P!CountHandled, P!cardVars
  <2>2. tpc # "shift" /\ copied = << >>
    BY <2>1 DEF Turns, InHand, Saved
  <2>3. InHand' /\ Cursor' /\ Saved' /\ Shown'
    BY <1>1, <1>2, <2>1, <2>2 DEF InHand, Stopped, Cursor, Saved, Shown
  <2> QED
    BY <2>3
<1>6. CASE Fail
  <2>1. InHand'
    BY <1>2, <1>6 DEF InHand, Turns, Stopped, Fail, P!HandleFails, P!LineAborts, P!cardVars
  <2>2. Cursor' /\ Saved' /\ Shown'
    BY <1>1, <1>2, <1>6 DEF Cursor, Saved, Shown, Handled, Fail,
       P!HandleFails, P!LineAborts, P!cardVars
  <2> QED
    BY <2>1, <2>2
<1>7. CASE HostProtocol
  <2>1. UNCHANGED <<note, sent, handled>> /\ (cpc' = cpc \/ cpc' = "reset")
    BY <1>7 DEF HostProtocol, P!PollHit, P!PollExpire, P!ClearAvail,
       P!DrawDone,
       Leaves, KeyEnds, P!Exit, P!ExitLost, P!KeyAborts, P!KeyExits, P!KeyEnds, P!cardVars
  <2>2. hpc # "dispatch"
    BY <1>7 DEF HostProtocol, P!PollHit, P!PollExpire, P!ClearAvail,
       P!DrawDone,
       Leaves, KeyEnds, P!Exit, P!ExitLost, P!KeyAborts, P!KeyExits, P!KeyEnds
  <2>3. Cursor' /\ Saved' /\ Shown'
    BY <1>1, <1>2, <2>1, <2>2 DEF Cursor, Saved, Shown, Handled
  <2>4. InHand'
    BY <1>2, <1>7 DEF InHand, Turns, Stopped, HostProtocol, P!PollHit, P!PollExpire,
       P!ClearAvail, P!DrawDone,
       Leaves, KeyEnds, P!Exit, P!ExitLost, P!KeyAborts, P!KeyExits, P!KeyEnds, P!cardVars
  <2> QED
    BY <2>3, <2>4
<1> QED
  BY <1>3, <1>4, <1>5, <1>6, <1>7 DEF CardProtocol

(* The steps of the terminal that raise a notification. *)
LEMMA NotifyStep ==
  ASSUME Turns, TermTypes, unearned = 0, Text,
         TermInit \/ EndLine \/ AnnounceScroll \/ AskRedraw \/ SendShutdown
  PROVE  Text'
<1> USE DEF Text
<1>1. /\ cpc = "run" /\ Handled /\ hpc \in {"poll"} \cup Stopped /\ cur = 0
      /\ slot = 0
  <2>1. cpc = "run"
    BY DEF TermInit, EndLine, AnnounceScroll, AskRedraw, SendShutdown, Steps,
           Idle
  <2> QED
    BY <2>1 DEF Turns, InHand
<1>2. UNCHANGED <<fb, printed, pos, copied, hist, hpc, cur, seen, handled>>
  BY DEF TermInit, EndLine, AnnounceScroll, AskRedraw, SendShutdown, viewer, text,
         P!NotifyPlain, P!NotifyArg, P!hostVars
<1>3. copied = << >>
  BY <1>1 DEF Saved, Stopped
<1>4. CASE EndLine
  <2>1. /\ tpc = "line" /\ note' = "LINE_DRAWN" /\ cpc' = "signal"
        /\ UNCHANGED <<avail, slot, sent>>
        /\ tpc' = IF row = Height THEN "scroll" ELSE "print"
        /\ row' = IF row = Height THEN row ELSE row + 1
    BY <1>4 DEF EndLine, Steps, P!NotifyArg
  <2>2. UNCHANGED Gone
    BY <2>1, <1>2, HeightAssumption DEF Gone, TermTypes
  <2>3. InHand'
    BY <1>1, <1>2, <2>1 DEF InHand, Stopped
  <2>4. Cursor'
    BY <1>2, <2>1 DEF Cursor
  <2>5. Saved'
    BY <1>2, <1>3, <2>1, <2>2 DEF Saved
  <2>6. Shown'
    BY <1>2, <2>1, <2>2 DEF Shown
  <2> QED
    BY <2>3, <2>4, <2>5, <2>6
<1>5. CASE TermInit \/ AnnounceScroll \/ AskRedraw \/ SendShutdown
  <2>1. /\ \/ tpc = "blank"  /\ tpc' = "print"  /\ note' = "SCREEN_REDRAW"
           \/ tpc = "scroll" /\ tpc' = "shift"  /\ note' = "SCROLLUP"
           \/ tpc = "redraw" /\ tpc' = "print"  /\ note' = "SCREEN_REDRAW"
           \/ /\ tpc = "print" /\ tpc' = "done" /\ note' = "CONSOLE_SHUTDOWN"
              /\ printed = MaxLines
        /\ avail' = note' /\ cpc' = "wait"
        /\ sent' = sent + 1 /\ slot' = sent + 1
        /\ UNCHANGED row
    BY <1>5 DEF TermInit, AnnounceScroll, AskRedraw, SendShutdown, Steps,
       P!NotifyPlain, P!Raise
  <2>2. UNCHANGED Gone
    BY <2>1, <1>2 DEF Gone
  <2>3. InHand'
    BY <1>1, <1>2, <2>1 DEF InHand, Turns, Stopped
  <2>4. pos = 1
    BY <2>1, LinesAssumption DEF Cursor, TermTypes
  <2>5. Cursor'
    BY <1>2, <2>1, <2>4 DEF Cursor
  <2>6. ~ Handled'
    BY <1>1, <1>2, <2>1 DEF Handled, Turns
  <2>7. Saved'
    BY <1>2, <1>3, <2>1, <2>2, <2>6 DEF Saved
  <2>8. Shown'
    <3>1. ASSUME tpc' = "shift", NEW r \in 1..Height
          PROVE  fb[2 * r - 1] = Gone + r /\ fb[2 * r] = Gone + r
      <4>1. row = Height /\ Gone = printed - Height
        BY <2>1, <3>1 DEF Cursor, Gone
      <4>2. Gone + r <= printed
        BY <4>1, HeightAssumption DEF TermTypes
      <4> QED
        BY <2>1, <3>1, <4>2 DEF Shown
    <3> QED
      BY <1>2, <2>1, <2>2, <2>4, <3>1, HeightAssumption DEF Shown
  <2> QED
    BY <2>3, <2>5, <2>7, <2>8
<1> QED
  BY <1>4, <1>5

(* A word of the frame buffer is blanked: nothing has been printed yet. *)
LEMMA BlankWordStep ==
  ASSUME Turns, TermTypes, unearned = 0, Text, BlankWord
  PROVE  Text'
<1> USE DEF Text
<1>1. /\ cpc = "run" /\ tpc = "init" /\ tpc' \in {"init", "blank"}
      /\ tpc' = "blank" => pos' = 1
      /\ fb' = [fb EXCEPT ![pos] = 0]
      /\ UNCHANGED <<row, printed, copied, hist, slot, avail, note, hpc, upd,
                     cur, seen, cpc, handled, sent>>
  BY DEF BlankWord, Idle, viewer, text, protocol
<1>2. UNCHANGED Gone
  BY <1>1 DEF Gone
<1>3. InHand' /\ Cursor' /\ Saved'
  BY <1>1, <1>2 DEF InHand, Cursor, Saved, Handled
<1>4. Gone = printed
  BY <1>1 DEF Gone, Cursor, TermTypes
<1>5. Shown'
  BY <1>1, <1>2, <1>4, HeightAssumption DEF Shown, TermTypes
<1> QED
  BY <1>3, <1>5

(* A word of a line is printed. *)
LEMMA PutWordStep ==
  ASSUME Turns, TermTypes, unearned = 0, Text, PutWord
  PROVE  Text'
<1> USE DEF Text
<1>1. /\ cpc = "run" /\ tpc = "print" /\ printed < MaxLines
      /\ fb' = [fb EXCEPT ![2 * (row - 1) + pos] = printed + 1]
      /\ pos \in {1, 2}
      /\ pos = 1 => pos' = 2 /\ tpc' = "print" /\ printed' = printed
      /\ pos = 2 => pos' = 1 /\ tpc' = "line" /\ printed' = printed + 1
      /\ UNCHANGED <<row, copied, hist, slot, avail, note, hpc, upd, cur,
                     seen, cpc, handled, sent>>
  BY DEF PutWord, Word, Cursor, Idle, viewer, text, protocol
<1>2. Words = 2 * Height /\ Height \in Nat
  BY HeightAssumption DEF Words, Word
<1>3. UNCHANGED Gone
  BY <1>1 DEF Gone, TermTypes
<1>4. InHand'
  BY <1>1 DEF InHand
<1>5. Saved'
  BY <1>1, <1>3 DEF Saved, Handled
<1>6. 2 * (row - 1) + pos \in 1..Words
  BY <1>1, <1>2 DEF TermTypes
<1>7. /\ pos = 1 => fb'[2 * row - 1] = printed + 1
      /\ pos = 2 => fb'[2 * row] = printed + 1 /\ fb'[2 * row - 1] = fb[2 * row - 1]
      /\ \A r \in 1..Height : r # row =>
           fb'[2 * r - 1] = fb[2 * r - 1] /\ fb'[2 * r] = fb[2 * r]
  BY <1>1, <1>2, <1>6 DEF TermTypes
<1>8. Cursor'
  BY <1>1, <1>7 DEF Cursor
<1>9. Shown'
  <2> SUFFICES ASSUME NEW r \in 1..Height, Gone + r <= printed'
               PROVE  fb'[2 * r - 1] = Gone + r /\ fb'[2 * r] = Gone + r
    BY <1>1, <1>3 DEF Shown
  <2>1. Gone = printed - row + 1
    BY <1>1 DEF Gone
  <2>2. CASE r = row
    <3>1. pos = 2 /\ Gone + r = printed + 1
      BY <1>1, <2>1, <2>2 DEF TermTypes
    <3>2. fb[2 * row - 1] = printed + 1
      BY <1>1, <3>1 DEF Cursor
    <3> QED
      BY <1>7, <2>2, <3>1, <3>2
  <2>3. CASE r # row
    <3>1. Gone + r <= printed
      BY <1>1, <2>1, <2>3 DEF TermTypes
    <3> QED
      BY <1>1, <1>7, <2>3, <3>1 DEF Shown
  <2> QED
    BY <2>2, <2>3
<1> QED
  BY <1>4, <1>5, <1>8, <1>9

(* A word of the frame buffer is moved up. *)
LEMMA ShiftStep ==
  ASSUME Turns, TermTypes, unearned = 0, Text, Shift
  PROVE  Text'
<1> USE DEF Text
<1> DEFINE new == IF pos + 2 <= Words THEN fb[pos + 2] ELSE 0
<1>1. /\ cpc = "run" /\ tpc = "shift" /\ row = Height
      /\ fb' = [fb EXCEPT ![pos] = new]
      /\ pos < Words => pos' = pos + 1 /\ tpc' = "shift"
      /\ pos = Words => pos' = 1 /\ tpc' = "redraw"
      /\ UNCHANGED <<row, printed, copied, hist, slot, avail, note, hpc, upd,
                     cur, seen, cpc, handled, sent>>
  BY DEF Shift, Word, Cursor, Idle, viewer, text, protocol, TermTypes
<1>2. Words = 2 * Height /\ Height \in Nat /\ Height >= 2
  BY HeightAssumption DEF Words, Word
<1>3. Gone = printed - Height
  BY <1>1 DEF Gone
<1>4. Handled /\ hpc # "dispatch" /\ copied = << >>
  BY <1>1 DEF Turns, Saved, Stopped
<1>5. /\ tpc' = "shift" => Gone' = Gone
      /\ tpc' = "redraw" => Gone' = Gone + 1
  BY <1>1, <1>3 DEF Gone, TermTypes
<1>6. InHand'
  BY <1>1 DEF InHand
<1>7. Saved'
  <2>1. Gone \in Nat /\ Len(hist) = Gone + 1
    BY <1>1, <1>4 DEF Saved
  <2>2. /\ Gone' \in Nat
        /\ Len(hist) = IF tpc' = "shift" /\ Handled' THEN Gone' + 1 ELSE Gone'
    <3>1. tpc' \in {"shift", "redraw"} /\ Handled'
      BY <1>1, <1>2, <1>4 DEF Handled, TermTypes
    <3> QED
      BY <1>5, <2>1, <3>1
  <2> QED
    BY <1>1, <1>4, <2>2 DEF Saved
<1>8. Cursor'
  BY <1>1, <1>2 DEF Cursor, TermTypes
<1>9. /\ fb'[pos] = new
      /\ \A i \in 1..Words : i # pos => fb'[i] = fb[i]
  BY <1>1 DEF TermTypes
<1> HIDE DEF new
<1>10. ASSUME NEW r \in 1..Height
       PROVE  /\ pos < 2 * r - 1 => fb'[2 * r - 1] = Gone + r
              /\ pos < 2 * r     => fb'[2 * r] = Gone + r
              /\ pos >= 2 * r - 1 /\ r # Height => fb'[2 * r - 1] = Gone + r + 1
              /\ pos >= 2 * r /\ r # Height     => fb'[2 * r] = Gone + r + 1
  <2>1. 2 * r - 1 \in 1..Words /\ 2 * r \in 1..Words /\ pos \in Nat
    BY <1>2 DEF TermTypes
  <2>2. /\ pos <= 2 * r - 1             => fb[2 * r - 1] = Gone + r
        /\ pos <= 2 * r                 => fb[2 * r] = Gone + r
        /\ pos > 2 * r - 1 /\ r # Height => fb[2 * r - 1] = Gone + r + 1
        /\ pos > 2 * r /\ r # Height     => fb[2 * r] = Gone + r + 1
    BY <1>1 DEF Shown
  <2>3. ASSUME r # Height, pos \in {2 * r - 1, 2 * r}
        PROVE  new = Gone + r + 1
    <3>1. r + 1 \in 1..Height /\ pos + 2 <= Words
      BY <1>2, <2>3
    <3>2. PICK s \in 1..Height : s = r + 1
      BY <3>1
    <3>3. /\ pos <= 2 * s - 1 => fb[2 * s - 1] = Gone + s
          /\ pos <= 2 * s     => fb[2 * s] = Gone + s
      BY <1>1 DEF Shown
    <3>4. pos + 2 = 2 * s - 1 \/ pos + 2 = 2 * s
      BY <2>3, <3>2
    <3>5. fb[pos + 2] = Gone + s
      BY <2>1, <3>2, <3>3, <3>4
    <3>6. Gone + s = Gone + r + 1
      BY <1>3, <3>2 DEF TermTypes
    <3> QED
      BY <3>1, <3>5, <3>6 DEF new
  <2> QED
    BY <1>9, <2>1, <2>2, <2>3
<1>11. Shown'
  <2>1. CASE pos < Words
    BY <1>1, <1>2, <1>5, <1>10, <2>1 DEF Shown, TermTypes
  <2>2. CASE pos = Words
    <3> SUFFICES ASSUME NEW r \in 1..Height, Gone' + r <= printed
                 PROVE  fb'[2 * r - 1] = Gone' + r /\ fb'[2 * r] = Gone' + r
      BY <1>1, <2>2 DEF Shown
    <3>1. r # Height /\ Gone' + r = Gone + r + 1
      BY <1>1, <1>2, <1>3, <1>5, <2>2 DEF TermTypes
    <3>2. pos >= 2 * r - 1 /\ pos >= 2 * r
      BY <1>2, <2>2
    <3> QED
      BY <1>10, <3>1, <3>2
  <2> QED
    BY <1>2, <2>1, <2>2 DEF TermTypes
<1> QED
  BY <1>6, <1>7, <1>8, <1>11

LEMMA SameTwice ==
  ASSUME NEW g, NEW s \in Seq({g}), Len(s) = 2
  PROVE  s = <<g, g>>
<1>1. s[1] = g /\ s[2] = g
  OBVIOUS
<1> QED
  BY <1>1

LEMMA AppendSame == ASSUME NEW g PROVE Append(<<g>>, g) = <<g, g>>
<1>1. <<g>> \in Seq({g})
  OBVIOUS
<1>2. Append(<<g>>, g) \in Seq({g}) /\ Len(Append(<<g>>, g)) = 2
  BY <1>1
<1> QED
  BY <1>2, SameTwice

(* handle_scrollup copies a word of the first line, which stands still. *)
LEMMA CopyWordStep ==
  ASSUME Turns, TermTypes, unearned = 0, Text, CopyWord
  PROVE  Text'
<1> USE DEF Text
<1>1. /\ hpc = "dispatch" /\ upd = "SCROLLUP" /\ Len(copied) < 2
      /\ copied' = Append(copied, fb[Len(copied) + 1])
      /\ UNCHANGED <<fb, tpc, row, printed, pos, hist, slot, avail, note, hpc,
                     upd, cur, seen, cpc, handled, sent>>
  BY DEF CopyWord, Word, protocol, term
<1>2. tpc = "shift" /\ cpc = "wait" /\ pos = 1
  BY <1>1 DEF Turns, InHand, Cursor
<1>3. fb[1] = Gone + 1 /\ fb[2] = Gone + 1
  <2>1. 1 \in 1..Height
    BY HeightAssumption
  <2> QED
    BY <1>2, <2>1 DEF Shown
<1>4. copied' \in {<<Gone + 1>>, <<Gone + 1, Gone + 1>>}
  <2>1. CASE copied = << >>
    BY <1>1, <1>3, <2>1
  <2>2. CASE copied = <<Gone + 1>>
    <3>1. Len(copied) = 1
      BY <2>2
    <3>2. copied' = Append(<<Gone + 1>>, Gone + 1)
      BY <1>1, <1>3, <2>2, <3>1
    <3>3. Append(<<Gone + 1>>, Gone + 1) = <<Gone + 1, Gone + 1>>
      BY AppendSame
    <3> QED
      BY <3>2, <3>3
  <2> QED
    BY <1>1, <2>1, <2>2 DEF Saved
<1>5. UNCHANGED Gone
  BY <1>1 DEF Gone
<1>6. Saved'
  BY <1>1, <1>4, <1>5 DEF Saved, Handled
<1>7. InHand' /\ Cursor' /\ Shown'
  BY <1>1, <1>5 DEF InHand, Cursor, Shown
<1> QED
  BY <1>6, <1>7

(* The line it has copied is linked into the history. *)
LEMMA SaveLineStep ==
  ASSUME Turns, TermTypes, unearned = 0, Text, SaveLine
  PROVE  Text'
<1> USE DEF Text
<1>1. /\ hpc = "dispatch" /\ upd = "SCROLLUP" /\ Len(copied) = 2
      /\ hist' = Append(hist, copied) /\ copied' = << >> /\ hpc' = "ack"
      /\ UNCHANGED <<fb, tpc, row, printed, pos, slot, avail, note, upd, seen,
                     cpc, sent>>
  BY DEF SaveLine, Word, term, P!HandleOther, P!cardVars
<1>2. tpc = "shift" /\ cpc = "wait" /\ ~ Handled /\ Handled'
  <2>1. cpc = "wait" /\ cur = sent /\ Len(handled) = sent - 1
    BY <1>1 DEF Turns
  <2>2. sent # 0 /\ Len(handled) \in Nat
    BY <2>1 DEF Turns
  <2>3. handled' = Append(handled, cur)
    BY <2>1, <2>2 DEF SaveLine, P!HandleOther, P!CountHandled
  <2>4. Len(handled') = Len(handled) + 1
    BY <2>3 DEF Turns
  <2> QED
    BY <1>1, <2>1, <2>4 DEF Handled, InHand, Turns
<1>3. copied = <<Gone + 1, Gone + 1>>
  <2>1. copied # << >>
    BY <1>1
  <2>2. copied # <<Gone + 1>>
    <3>1. Len(<<Gone + 1>>) # 2
      OBVIOUS
    <3> QED
      BY <1>1, <3>1
  <2>3. copied \in {<< >>, <<Gone + 1>>, <<Gone + 1, Gone + 1>>}
    BY DEF Saved
  <2> QED
    BY <2>1, <2>2, <2>3
<1>4. UNCHANGED Gone
  BY <1>1 DEF Gone
<1>5. Saved'
  <2>1. Gone \in Nat /\ Len(hist) = Gone
    BY <1>2 DEF Saved
  <2>2. Len(hist') = Gone + 1
    BY <1>1, <2>1 DEF TermTypes
  <2>3. ASSUME NEW n \in 1..Len(hist') PROVE hist'[n] = <<n, n>>
    <3>1. CASE n = Gone + 1
      BY <1>1, <1>3, <2>1, <3>1 DEF TermTypes
    <3>2. CASE n # Gone + 1
      <4>1. n \in 1..Len(hist)
        BY <2>1, <2>2, <3>2
      <4>2. hist'[n] = hist[n]
        BY <1>1, <4>1 DEF TermTypes
      <4> QED
        BY <4>1, <4>2 DEF Saved
    <3> QED
      BY <3>1, <3>2
  <2> QED
    BY <1>1, <1>2, <1>4, <2>1, <2>2, <2>3 DEF Saved
<1>6. InHand' /\ Cursor' /\ Shown'
  BY <1>1, <1>4 DEF InHand, Stopped, Cursor, Shown
<1> QED
  BY <1>5, <1>6

LEMMA StepTextInv == Turns /\ TextInv /\ [Next]_vars => TextInv'
<1> SUFFICES ASSUME Turns, TextInv, [Next]_vars PROVE TextInv'
  OBVIOUS
<1>1. TermTypes'
  BY TypesStep
<1>2. ASSUME unearned' = 0 PROVE Text'
  <2>1. TermTypes /\ Text /\ unearned = 0
    BY <1>2, NoneEarnedLater DEF TextInv
  <2>2. CASE DumpWord \/ UNCHANGED vars
    BY <2>1, <2>2 DEF DumpWord, vars, protocol, term, viewer, text, Text, InHand, Cursor,
       Saved, Shown, Gone, Handled
  <2>3. CASE CardProtocol \/ HandleShutdown \/ Draw \/ Fail \/ HostProtocol
    BY <1>2, <2>1, <2>3, ProtocolStep
  <2>4. CASE TermInit \/ EndLine \/ AnnounceScroll \/ AskRedraw \/ SendShutdown
    BY <2>1, <2>4, NotifyStep
  <2>5. CASE PutWord
    BY <2>1, <2>5, PutWordStep
  <2>9. CASE BlankWord
    BY <2>1, <2>9, BlankWordStep
  <2>6. CASE Shift
    BY <2>1, <2>6, ShiftStep
  <2>7. CASE CopyWord
    BY <2>1, <2>7, CopyWordStep
  <2>8. CASE SaveLine
    BY <2>1, <2>8, SaveLineStep
  <2> QED
    BY <2>2, <2>3, <2>4, <2>5, <2>6, <2>7, <2>8, <2>9 DEF Next, Card, Host
<1> QED
  BY <1>1, <1>2 DEF TextInv

LEMMA TextInvKeepsOutput == TextInv => OutputKept
<1> SUFFICES ASSUME TextInv, unearned = 0, tpc # "shift"
             PROVE  /\ printed <= Len(hist) + Height
                    /\ \A n \in 1..printed : LineAt(n) = <<n, n>>
  BY DEF OutputKept
<1>1. TermTypes /\ Saved /\ Shown
  BY DEF TextInv, Text
<1>2. Gone \in Nat /\ Len(hist) = Gone /\ printed <= Gone + Height
  BY <1>1, HeightAssumption DEF Saved, Gone, TermTypes
<1>3. ASSUME NEW n \in 1..printed PROVE LineAt(n) = <<n, n>>
  <2>1. CASE n <= Gone
    BY <1>1, <1>2, <2>1 DEF LineAt, Saved
  <2>2. CASE n > Gone
    <3>1. PICK r \in 1..Height : r = n - Gone
      BY <1>1, <1>2, <2>2, HeightAssumption DEF TermTypes
    <3>2. Gone + r = n /\ Gone + r <= printed
      BY <1>1, <1>2, <3>1 DEF TermTypes
    <3>3. fb[2 * r - 1] = n /\ fb[2 * r] = n
      BY <1>1, <3>2 DEF Shown
    <3> QED
      BY <1>2, <2>2, <3>1, <3>3 DEF LineAt, Word
  <2> QED
    BY <1>2, <2>1, <2>2 DEF TermTypes
<1> QED
  BY <1>2, <1>3

-----------------------------------------------------------------------------
(* philix has drawn the frame buffer once it has handled the update, and   *)
(* nothing is written to it before the kernel goes on.                     *)
ScreenInv ==
  /\ unearned = 0 /\ ~NoCurses /\ Handled
  /\ cpc \in {"wait", "clear"} /\ note \in {"LINE_DRAWN", "SCREEN_REDRAW"}
  => screen = fb

LEMMA StepScreenInv ==
  Turns /\ TextInv /\ ScreenInv /\ [Next]_vars => ScreenInv'
<1> SUFFICES ASSUME Turns, TextInv, ScreenInv, [Next]_vars, unearned' = 0,
                    ~NoCurses', Handled', cpc' \in {"wait", "clear"},
                    note' \in {"LINE_DRAWN", "SCREEN_REDRAW"}
             PROVE  screen' = fb'
  BY DEF ScreenInv
<1>1. unearned = 0 /\ InHand /\ ~NoCurses
  BY NoneEarnedLater DEF TextInv, Text
<1>2. CASE TermInit \/ AnnounceScroll \/ AskRedraw \/ SendShutdown \/ P!SignalArg
  <2>1. sent' = sent + 1 /\ handled' = handled /\ Len(handled) <= sent
        /\ Len(handled) \in Nat
    BY <1>2 DEF TermInit, AnnounceScroll, AskRedraw, SendShutdown,
       P!SignalArg, P!NotifyPlain, P!Raise, P!hostVars, Turns
  <2> QED
    BY <2>1 DEF Handled, Turns
<1>3. CASE BlankWord \/ PutWord \/ Shift \/ EndLine
  <2>1. cpc' \in {"run", "signal"}
    BY <1>3 DEF BlankWord, PutWord, Shift, EndLine, Idle, protocol, P!NotifyArg
  <2> QED
    BY <2>1
<1>4. CASE CardProtocol /\ ~ P!SignalArg
  <2>1. /\ UNCHANGED <<fb, screen, note, sent, handled>>
        /\ cpc = "wait" /\ cpc' = "clear"
    BY <1>4 DEF CardProtocol, term, viewer, text, P!SeeDrawn, P!ClearDrawn, P!hostVars
  <2> QED
    BY <1>1, <2>1 DEF ScreenInv, Handled
<1>5. CASE Draw
  <2>1. upd = note /\ note' = note
    BY <1>1, <1>5 DEF Draw, P!HandleDraw, P!cardVars, InHand
  <2> QED
    BY <1>1, <1>5, <2>1 DEF Draw, term
<1>6. CASE SaveLine \/ HandleShutdown
  <2>1. upd \in {"SCROLLUP", "CONSOLE_SHUTDOWN"} /\ upd = note /\ note' = note
    BY <1>1, <1>6 DEF SaveLine, HandleShutdown, P!HandleOther, P!cardVars, InHand
  <2> QED
    BY <2>1
<1>7. CASE CopyWord \/ Fail \/ DumpWord \/ HostProtocol \/ UNCHANGED vars
  <2>1. UNCHANGED <<fb, screen, note, sent, handled>> /\ cpc' \in {cpc, "reset"}
    BY <1>7 DEF CopyWord, Fail, DumpWord, HostProtocol, vars, protocol, term,
       viewer, text,
       P!HandleFails, P!LineAborts, P!PollHit, P!PollExpire, P!ClearAvail, P!DrawDone,
       Leaves, KeyEnds, P!Exit, P!ExitLost, P!KeyAborts, P!KeyExits, P!KeyEnds, P!cardVars
  <2> QED
    BY <1>1, <2>1 DEF ScreenInv, Handled
<1> QED
  BY <1>2, <1>3, <1>4, <1>5, <1>6, <1>7 DEF Next, Card, Host, CardProtocol

LEMMA TurnsHold == Spec => []Turns
BY ProtocolInvariance, TurnsFollow, PTL

LEMMA TextInvariance == Spec => []TextInv
BY TurnsHold, InitTextInv, StepTextInv, PTL DEF Spec

(* As long as no acknowledgement is unearned, no line of the output is     *)
(* lost, doubled or torn on its way through the frame buffer to the        *)
(* history, whatever the height of the screen and however long the output. *)
THEOREM KeepsOutput == Spec => []OutputKept
BY TextInvariance, TextInvKeepsOutput, PTL

(* When a line update or a redraw is acknowledged, philix shows the frame  *)
(* buffer as it is, if no acknowledgement was unearned.                    *)
THEOREM DrawsWhatStands == Spec => []ScreenCurrent
<1>1. Init => ScreenInv
  BY DEF Init, P!Init, ScreenInv
<1>2. Spec => []ScreenInv
  BY <1>1, StepScreenInv, TurnsHold, TextInvariance, PTL DEF Spec
<1>3. Turns /\ ScreenInv => ScreenCurrent
  BY DEF Turns, ScreenInv, ScreenCurrent
<1> QED
  BY <1>2, <1>3, TurnsHold, PTL
=============================================================================
