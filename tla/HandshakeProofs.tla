--------------------------- MODULE HandshakeProofs ---------------------------
(***************************************************************************)
(* The safety properties of Handshake for every value of its constants.    *)
(*                                                                         *)
(* LossBound is not inductive: whether a store to OUTPUT_AVAIL may cost a  *)
(* notification depends on why the card was let go.  Accounting keeps the  *)
(* books: every acknowledgement the card has used up, sees raised or will  *)
(* see raised is covered by a handled notification or by an unearned       *)
(* acknowledgement.                                                        *)
(***************************************************************************)
EXTENDS Handshake, TLAPS

Bit(b) == IF b THEN 1 ELSE 0

(* The latest notification is still without an acknowledgement.            *)
Waiting == Bit(cpc \in {"wait", "reset"})

(* OUTPUT_DRAWN is set and the card has not yet consumed it.               *)
Standing == IF cpc = "clear" THEN 0 ELSE drawn

(* The host is about to set OUTPUT_DRAWN: for a notification it has        *)
(* handled, or for none.                                                   *)
Owed == Bit(hpc \in {"ack", "draw"} \/ (hpc = "dispatch" /\ cur = 0))

Accounting == sent + Standing + Owed <= Len(handled) + unearned + Waiting

(* What the host has in hand and what it has read.                         *)
HandShape ==
  /\ seen <= sent /\ slot <= sent
  /\ cur \in {0, seen}
  /\ cur # 0 => hpc \in {"dispatch", "stopping"} \cup Ended
  /\ Len(handled) + Bit(cur # 0) <= seen
  /\ hpc = "dispatch" /\ cur = 0 => unearned > 0
  /\ cpc = "reset" <=> hpc = "gone"

(* What stands in OUTPUT_AVAIL: a value nobody raised is a leftover of the *)
(* previous boot and is there only until the first store.                  *)
SlotShape ==
  /\ slot # 0 => avail \in Kinds
  /\ slot = 0 /\ avail # NoUpdate => seen = 0
  /\ hpc = "poll" => slot = 0 \/ slot > seen
  /\ hpc = "draw" => slot = 0 \/ slot > seen

(* The notifications handled are in order and older than the one in hand.  *)
Ordered ==
  /\ \A i, j \in 1..Len(handled) : i < j => handled[i] < handled[j]
  /\ \A i \in 1..Len(handled) :
       handled[i] <= seen /\ (cur # 0 => handled[i] < cur)

(* The coordinate registers.                                               *)
ArgShape ==
  /\ \A k \in ArgKinds : argReg[k] <= sent + Bit(cpc \in {"signal", "reset"})
  /\ cpc = "signal" => note \in ArgKinds /\ argReg[note] = sent + 1
  /\ avail \in ArgKinds => argReg[avail] >= slot
  /\ hpc = "dispatch" /\ upd \in ArgKinds => argReg[upd] >= seen

IndInv ==
  /\ TypeOK
  /\ HandShape
  /\ SlotShape
  /\ Ordered
  /\ ArgShape
  /\ Accounting
  /\ LossBound
  /\ ArgsFresh

-----------------------------------------------------------------------------
(* Initially only the leftovers of the previous boot are there. *)
LEMMA InitIndInv == Init => IndInv
<1> SUFFICES ASSUME Init PROVE IndInv
  OBVIOUS
<1>1. drawn \in {0, 1} /\ avail \in UpdateType
  BY LeftAssumption DEF Init
<1>2. TypeOK
  BY <1>1 DEF Init, TypeOK, UpdateType, Kinds
<1>3. HandShape /\ SlotShape
  BY <1>1 DEF Init, HandShape, SlotShape, Bit
<1>4. Ordered
  BY DEF Init, Ordered
<1>5. ArgShape
  BY <1>1 DEF Init, ArgShape, Bit, ArgKinds
<1>6. Accounting /\ LossBound
  BY <1>1 DEF Init, Accounting, LossBound, Lost, Pending, Waiting, Standing,
     Owed, Bit
<1>7. ArgsFresh
  BY DEF Init, ArgsFresh
<1> QED
  BY <1>2, <1>3, <1>4, <1>5, <1>6, <1>7 DEF IndInv

(* The books show that the card stands still: with no unearned             *)
(* acknowledgement nothing but the notification in hand can be owed.       *)
LEMMA IndInvQuiescent == IndInv => Quiescent
<1> SUFFICES ASSUME IndInv, unearned = 0, hpc = "dispatch"
             PROVE  cpc = "wait" /\ cur = sent
  BY DEF Quiescent
<1> USE DEF IndInv, TypeOK
<1>1. cur # 0 /\ cur = seen
  BY DEF HandShape
<1>2. Len(handled) \in Nat /\ Len(handled) + 1 <= seen /\ seen <= sent
  BY <1>1 DEF HandShape, Bit
<1>3. Standing \in {0, 1} /\ Waiting \in {0, 1}
  BY DEF Standing, Waiting, Bit
<1>4. sent + Standing <= Len(handled) + Waiting
  <2>1. Owed = 0
    BY <1>1 DEF Owed, Bit
  <2> QED
    BY <1>2, <1>3, <2>1 DEF Accounting
<1>5. Waiting = 1 /\ seen = sent
  BY <1>1, <1>2, <1>3, <1>4
<1>6. cpc = "wait"
  BY <1>5 DEF Waiting, Bit, HandShape
<1> QED
  BY <1>1, <1>5, <1>6

(* Every step keeps the invariant. *)
LEMMA StepIndInv == IndInv /\ [Next]_vars => IndInv'
<1> SUFFICES ASSUME IndInv, [Next]_vars PROVE IndInv'
  OBVIOUS
<1> USE DEF IndInv, Ended
<1>q. Quiescent
  BY IndInvQuiescent
<1>1. ASSUME NEW k \in PlainKinds, NotifyPlain(k) PROVE IndInv'
  <2>1. TypeOK'
    BY <1>1 DEF TypeOK, UpdateType, Kinds, NotifyPlain, Raise, hostVars
  <2>2. HandShape'
    BY <1>1 DEF HandShape, TypeOK, NotifyPlain, Raise, hostVars
  <2>3. SlotShape'
    BY <1>1 DEF SlotShape, HandShape, TypeOK, Kinds, NotifyPlain, Raise,
       hostVars
  <2>4. ArgShape'
    BY <1>1 DEF ArgShape, TypeOK, PlainKinds, ArgKinds, Bit, NotifyPlain,
       Raise, hostVars
  <2>5. Accounting'
    BY <1>1 DEF Accounting, Waiting, Standing, Owed, TypeOK, Bit,
       NotifyPlain, Raise, hostVars
  <2>6. LossBound'
    BY <1>1 DEF LossBound, Lost, Pending, HandShape, Accounting, Waiting,
       Standing, Owed, TypeOK, Bit, NotifyPlain, Raise, hostVars
  <2>7. Ordered' /\ ArgsFresh'
    BY <1>1 DEF Ordered, ArgsFresh, NotifyPlain, hostVars
  <2> QED
    BY <2>1, <2>2, <2>3, <2>4, <2>5, <2>6, <2>7
<1>2. ASSUME NEW k \in ArgKinds, NotifyArg(k) PROVE IndInv'
  <2>1. TypeOK'
    BY <1>2 DEF TypeOK, Kinds, NotifyArg, hostVars
  <2>2. HandShape'
    BY <1>2 DEF HandShape, NotifyArg, hostVars
  <2>3. ArgShape'
    BY <1>2 DEF ArgShape, TypeOK, Bit, NotifyArg, hostVars
  <2>4. Accounting'
    BY <1>2 DEF Accounting, Waiting, Standing, Owed, NotifyArg, hostVars
  <2>5. SlotShape' /\ Ordered' /\ LossBound' /\ ArgsFresh'
    BY <1>2 DEF SlotShape, Ordered, LossBound, Lost, Pending, ArgsFresh,
       NotifyArg, hostVars
  <2> QED
    BY <2>1, <2>2, <2>3, <2>4, <2>5
<1>3. ASSUME SignalArg PROVE IndInv'
  <2>1. TypeOK'
    BY <1>3 DEF TypeOK, UpdateType, SignalArg, Raise, hostVars
  <2>2. HandShape'
    BY <1>3 DEF HandShape, TypeOK, SignalArg, Raise, hostVars
  <2>3. SlotShape'
    BY <1>3 DEF SlotShape, HandShape, ArgShape, TypeOK, Kinds, SignalArg,
       Raise, hostVars
  <2>4. ArgShape'
    BY <1>3 DEF ArgShape, Bit, SignalArg, Raise, hostVars
  <2>5. Accounting'
    BY <1>3 DEF Accounting, Waiting, Standing, Owed, TypeOK, Bit, SignalArg,
       Raise, hostVars
  <2>6. LossBound'
    BY <1>3 DEF LossBound, Lost, Pending, HandShape, Accounting, Waiting,
       Standing, Owed, TypeOK, Bit, SignalArg, Raise, hostVars
  <2>7. Ordered' /\ ArgsFresh'
    BY <1>3 DEF Ordered, ArgsFresh, SignalArg, hostVars
  <2> QED
    BY <2>1, <2>2, <2>3, <2>4, <2>5, <2>6, <2>7
<1>4. ASSUME SeeDrawn PROVE IndInv'
  <2>1. TypeOK'
    BY <1>4 DEF TypeOK, SeeDrawn, hostVars
  <2>2. HandShape'
    BY <1>4 DEF HandShape, SeeDrawn, hostVars
  <2>3. ArgShape'
    BY <1>4 DEF ArgShape, SeeDrawn, hostVars
  <2>4. Accounting'
    BY <1>4 DEF Accounting, Waiting, Standing, Owed, TypeOK, Bit, SeeDrawn,
       hostVars
  <2>5. SlotShape' /\ Ordered' /\ LossBound' /\ ArgsFresh'
    BY <1>4 DEF SlotShape, Ordered, LossBound, Lost, Pending, ArgsFresh,
       SeeDrawn, hostVars
  <2> QED
    BY <2>1, <2>2, <2>3, <2>4, <2>5
<1>5. ASSUME ClearDrawn PROVE IndInv'
  <2>1. TypeOK'
    BY <1>5 DEF TypeOK, ClearDrawn, hostVars
  <2>2. HandShape'
    BY <1>5 DEF HandShape, ClearDrawn, hostVars
  <2>3. ArgShape'
    BY <1>5 DEF ArgShape, ClearDrawn, hostVars
  <2>4. Accounting'
    BY <1>5 DEF Accounting, Waiting, Standing, Owed, ClearDrawn, hostVars
  <2>5. SlotShape' /\ Ordered' /\ LossBound' /\ ArgsFresh'
    BY <1>5 DEF SlotShape, Ordered, LossBound, Lost, Pending, ArgsFresh,
       ClearDrawn, hostVars
  <2> QED
    BY <2>1, <2>2, <2>3, <2>4, <2>5
<1>6. ASSUME PollHit PROVE IndInv'
  <2>1. TypeOK'
    BY <1>6 DEF TypeOK, PollHit, cardVars
  <2>2. HandShape'
    BY <1>6 DEF HandShape, TypeOK, SlotShape, Bit, PollHit, cardVars
  <2>3. SlotShape'
    BY <1>6 DEF SlotShape, PollHit
  <2>4. Ordered'
    BY <1>6 DEF Ordered, SlotShape, TypeOK, PollHit
  <2>5. ArgShape'
    BY <1>6 DEF ArgShape, SlotShape, PollHit, cardVars
  <2>6. Accounting'
    BY <1>6 DEF Accounting, Waiting, Standing, Owed, TypeOK, Bit, PollHit,
       cardVars
  <2>7. LossBound'
    BY <1>6 DEF LossBound, Lost, Pending, HandShape, SlotShape, TypeOK,
       PollHit, cardVars
  <2>8. ArgsFresh'
    BY <1>6 DEF ArgsFresh, PollHit
  <2> QED
    BY <2>1, <2>2, <2>3, <2>4, <2>5, <2>6, <2>7, <2>8
<1>7. ASSUME PollExpire PROVE IndInv'
  <2>1. TypeOK'
    BY <1>7 DEF TypeOK, PollExpire, cardVars
  <2>2. HandShape'
    BY <1>7 DEF HandShape, TypeOK, PollExpire, cardVars
  <2>3. SlotShape'
    BY <1>7 DEF SlotShape, PollExpire
  <2>4. ArgShape'
    BY <1>7 DEF ArgShape, ArgKinds, NoUpdate, PollExpire, cardVars
  <2>5. Accounting'
    BY <1>7 DEF Accounting, Waiting, Standing, Owed, TypeOK, Bit,
       PollExpire, cardVars
  <2>6. LossBound'
    BY <1>7 DEF LossBound, Lost, Pending, TypeOK, PollExpire, cardVars
  <2>7. ArgsFresh'
    BY <1>7 DEF ArgsFresh, PollExpire
  <2>8. Ordered'
    BY <1>7 DEF Ordered, PollExpire
  <2> QED
    BY <2>1, <2>2, <2>3, <2>4, <2>5, <2>6, <2>7, <2>8
<1>8. ASSUME HandleDraw PROVE IndInv'
  <2>1. TypeOK'
    BY <1>8 DEF TypeOK, HandleDraw, CountHandled, cardVars
  <2>2. HandShape'
    BY <1>8 DEF HandShape, Bit, HandleDraw, CountHandled, cardVars
  <2>3. SlotShape'
    BY <1>8 DEF SlotShape, HandleDraw
  <2>4. Ordered'
    BY <1>8 DEF Ordered, HandShape, HandleDraw, CountHandled
  <2>5. ArgShape'
    BY <1>8 DEF ArgShape, HandleDraw, cardVars
  <2>6. Accounting'
    <3>1. CASE cur = 0
      BY <1>8, <3>1 DEF Accounting, Waiting, Standing, Owed, TypeOK, Bit,
         HandleDraw, CountHandled, cardVars
    <3>2. CASE cur # 0
      <4>1. Len(handled') = Len(handled) + 1 /\ Len(handled) \in Nat
        BY <1>8, <3>2 DEF HandleDraw, CountHandled, TypeOK
      <4> QED
        BY <1>8, <3>2, <4>1 DEF Accounting, Waiting, Standing, Owed, TypeOK,
           Bit, HandleDraw, CountHandled, cardVars
    <3> QED
      BY <3>1, <3>2
  <2>7. LossBound'
    <3>1. CASE cur = 0
      BY <1>8, <3>1 DEF LossBound, Lost, Pending, TypeOK, HandleDraw,
         CountHandled, cardVars
    <3>2. CASE cur # 0
      <4>1. Len(handled') = Len(handled) + 1 /\ Len(handled) \in Nat
        BY <1>8, <3>2 DEF HandleDraw, CountHandled, TypeOK
      <4> QED
        BY <1>8, <3>2, <4>1 DEF LossBound, Lost, Pending, TypeOK,
           HandleDraw, CountHandled, cardVars
    <3> QED
      BY <3>1, <3>2
  <2>8. ArgsFresh'
    BY <1>8, <1>q DEF ArgsFresh, Quiescent, ArgShape, HandShape, TypeOK,
       Bit, HandleDraw
  <2> QED
    BY <2>1, <2>2, <2>3, <2>4, <2>5, <2>6, <2>7, <2>8
<1>9. ASSUME HandleOther PROVE IndInv'
  <2>1. TypeOK'
    BY <1>9 DEF TypeOK, HandleOther, CountHandled, cardVars
  <2>2. HandShape'
    BY <1>9 DEF HandShape, Bit, HandleOther, CountHandled, cardVars
  <2>3. SlotShape'
    BY <1>9 DEF SlotShape, HandleOther
  <2>4. Ordered'
    BY <1>9 DEF Ordered, HandShape, HandleOther, CountHandled
  <2>5. ArgShape'
    BY <1>9 DEF ArgShape, HandleOther, cardVars
  <2>6. Accounting'
    <3>1. CASE cur = 0
      BY <1>9, <3>1 DEF Accounting, Waiting, Standing, Owed, TypeOK, Bit,
         HandleOther, CountHandled, cardVars
    <3>2. CASE cur # 0
      <4>1. Len(handled') = Len(handled) + 1 /\ Len(handled) \in Nat
        BY <1>9, <3>2 DEF HandleOther, CountHandled, TypeOK
      <4> QED
        BY <1>9, <3>2, <4>1 DEF Accounting, Waiting, Standing, Owed, TypeOK,
           Bit, HandleOther, CountHandled, cardVars
    <3> QED
      BY <3>1, <3>2
  <2>7. LossBound'
    <3>1. CASE cur = 0
      BY <1>9, <3>1 DEF LossBound, Lost, Pending, TypeOK, HandleOther,
         CountHandled, cardVars
    <3>2. CASE cur # 0
      <4>1. Len(handled') = Len(handled) + 1 /\ Len(handled) \in Nat
        BY <1>9, <3>2 DEF HandleOther, CountHandled, TypeOK
      <4> QED
        BY <1>9, <3>2, <4>1 DEF LossBound, Lost, Pending, TypeOK,
           HandleOther, CountHandled, cardVars
    <3> QED
      BY <3>1, <3>2
  <2>8. ArgsFresh'
    BY <1>9 DEF ArgsFresh, ArgKinds, HandleOther
  <2> QED
    BY <2>1, <2>2, <2>3, <2>4, <2>5, <2>6, <2>7, <2>8
<1>10. ASSUME HandleFails PROVE IndInv'
  <2>1. TypeOK'
    BY <1>10 DEF TypeOK, HandleFails, cardVars
  <2>2. HandShape'
    BY <1>10 DEF HandShape, HandleFails, cardVars
  <2>3. SlotShape'
    BY <1>10 DEF SlotShape, HandleFails
  <2>4. ArgShape'
    BY <1>10 DEF ArgShape, HandleFails, cardVars
  <2>5. Accounting'
    BY <1>10 DEF Accounting, Waiting, Standing, Owed, TypeOK, Bit,
       HandleFails, cardVars
  <2>6. ArgsFresh'
    BY <1>10 DEF ArgsFresh, HandleFails
  <2>7. Ordered' /\ LossBound'
    BY <1>10 DEF Ordered, LossBound, Lost, Pending, HandleFails, cardVars
  <2> QED
    BY <2>1, <2>2, <2>3, <2>4, <2>5, <2>6, <2>7
<1>11. ASSUME ClearAvail PROVE IndInv'
  <2>1. TypeOK'
    BY <1>11 DEF TypeOK, UpdateType, ClearAvail, cardVars
  <2>2. HandShape'
    BY <1>11 DEF HandShape, TypeOK, ClearAvail, cardVars
  <2>3. SlotShape'
    BY <1>11 DEF SlotShape, ClearAvail
  <2>4. ArgShape'
    BY <1>11 DEF ArgShape, TypeOK, ClearAvail, cardVars
  <2>5. Accounting'
    BY <1>11 DEF Accounting, Waiting, Standing, Owed, ClearAvail, cardVars
  <2>6. LossBound'
    BY <1>11 DEF LossBound, Lost, Pending, Accounting, Waiting, Standing,
       Owed, TypeOK, Bit, ClearAvail, cardVars
  <2>7. ArgsFresh'
    BY <1>11 DEF ArgsFresh, ClearAvail
  <2>8. Ordered'
    BY <1>11 DEF Ordered, ClearAvail
  <2> QED
    BY <2>1, <2>2, <2>3, <2>4, <2>5, <2>6, <2>7, <2>8
<1>12. ASSUME DrawDone PROVE IndInv'
  <2>1. TypeOK'
    BY <1>12 DEF TypeOK, DrawDone, cardVars
  <2>2. HandShape'
    BY <1>12 DEF HandShape, DrawDone, cardVars
  <2>3. SlotShape'
    BY <1>12 DEF SlotShape, DrawDone
  <2>4. ArgShape'
    BY <1>12 DEF ArgShape, DrawDone, cardVars
  <2>5. Accounting'
    BY <1>12 DEF Accounting, Waiting, Standing, Owed, TypeOK, Bit, DrawDone,
       cardVars
  <2>6. ArgsFresh'
    BY <1>12 DEF ArgsFresh, DrawDone
  <2>7. Ordered' /\ LossBound'
    BY <1>12 DEF Ordered, LossBound, Lost, Pending, DrawDone, cardVars
  <2> QED
    BY <2>1, <2>2, <2>3, <2>4, <2>5, <2>6, <2>7
<1>13. ASSUME Exit PROVE IndInv'
  <2>1. TypeOK'
    BY <1>13 DEF TypeOK, Exit
  <2>2. HandShape'
    BY <1>13 DEF HandShape, Exit
  <2>3. SlotShape'
    BY <1>13 DEF SlotShape, Exit
  <2>4. ArgShape'
    BY <1>13 DEF ArgShape, TypeOK, Bit, Exit
  <2>5. Accounting'
    BY <1>13 DEF Accounting, Waiting, Standing, Owed, TypeOK, Bit, Exit
  <2>6. ArgsFresh'
    BY <1>13 DEF ArgsFresh, Exit
  <2>7. Ordered' /\ LossBound'
    BY <1>13 DEF Ordered, LossBound, Lost, Pending, Exit
  <2> QED
    BY <2>1, <2>2, <2>3, <2>4, <2>5, <2>6, <2>7
<1>14. ASSUME NEW end \in {"aborted", "stopping"}, KeyEnds(end) PROVE IndInv'
  <2>1. TypeOK'
    BY <1>14 DEF TypeOK, KeyEnds, cardVars
  <2>2. HandShape'
    BY <1>14 DEF HandShape, KeyEnds, cardVars
  <2>3. SlotShape'
    BY <1>14 DEF SlotShape, KeyEnds
  <2>4. ArgShape'
    BY <1>14 DEF ArgShape, KeyEnds, cardVars
  <2>5. Accounting'
    BY <1>14 DEF Accounting, Waiting, Standing, Owed, TypeOK, Bit, KeyEnds,
       cardVars
  <2>6. ArgsFresh'
    BY <1>14 DEF ArgsFresh, KeyEnds
  <2>7. Ordered' /\ LossBound'
    BY <1>14 DEF Ordered, LossBound, Lost, Pending, KeyEnds, cardVars
  <2> QED
    BY <2>1, <2>2, <2>3, <2>4, <2>5, <2>6, <2>7
<1>15. ASSUME LineAborts \/ ExitLost PROVE IndInv'
  <2>1. TypeOK'
    BY <1>15 DEF TypeOK, LineAborts, ExitLost, cardVars
  <2>2. HandShape'
    BY <1>15 DEF HandShape, LineAborts, ExitLost, cardVars
  <2>3. SlotShape'
    BY <1>15 DEF SlotShape, LineAborts, ExitLost
  <2>4. ArgShape'
    BY <1>15 DEF ArgShape, LineAborts, ExitLost, cardVars
  <2>5. Accounting'
    <3>1. sent' = sent /\ unearned' = unearned /\ Len(handled') = Len(handled)
          /\ Waiting' = Waiting /\ Standing' = Standing
      BY <1>15 DEF Waiting, Standing, LineAborts, ExitLost, cardVars
    <3>2. Owed' = 0 /\ Owed \in {0, 1}
      BY <1>15 DEF Owed, Bit, LineAborts, ExitLost
    <3>3. Standing \in Nat /\ Waiting \in Nat /\ Len(handled) \in Nat
      BY DEF Standing, Waiting, Bit, TypeOK
    <3> QED
      BY <3>1, <3>2, <3>3 DEF Accounting, TypeOK
  <2>6. ArgsFresh'
    BY <1>15 DEF ArgsFresh, LineAborts, ExitLost
  <2>7. Ordered' /\ LossBound'
    BY <1>15 DEF Ordered, LossBound, Lost, Pending, LineAborts, ExitLost,
       cardVars
  <2> QED
    BY <2>1, <2>2, <2>3, <2>4, <2>5, <2>6, <2>7
<1>16. CASE UNCHANGED vars
  <2>1. TypeOK' /\ HandShape' /\ SlotShape' /\ Ordered' /\ ArgShape'
    BY <1>16 DEF vars, TypeOK, HandShape, SlotShape, Ordered, ArgShape
  <2>2. Accounting' /\ LossBound' /\ ArgsFresh'
    BY <1>16 DEF vars, Accounting, Waiting, Standing, Owed, LossBound, Lost,
       Pending, ArgsFresh
  <2> QED
    BY <2>1, <2>2
<1> QED
  BY <1>1, <1>2, <1>3, <1>4, <1>5, <1>6, <1>7, <1>8, <1>9, <1>10, <1>11,
     <1>12, <1>13, <1>14, <1>15, <1>16
     DEF Next, Card, Host, KeyAborts, KeyExits

-----------------------------------------------------------------------------
THEOREM Invariance == Spec => []IndInv
<1> QED
  BY InitIndInv, StepIndInv, PTL DEF Spec

(* Every register, program counter and history variable keeps its type, so *)
(* OUTPUT_DRAWN stays a flag although both sides write it.                 *)
THEOREM TypeCorrect == Spec => []TypeOK
<1>1. IndInv => TypeOK
  BY DEF IndInv
<1> QED
  BY Invariance, <1>1, PTL

(* However the loops interleave, an unearned acknowledgement costs at most *)
(* one notification and nothing else costs any.                            *)
THEOREM LossIsBounded == Spec => []LossBound
<1>1. IndInv => LossBound
  BY DEF IndInv
<1> QED
  BY Invariance, <1>1, PTL

(* Without unearned acknowledgements the card waits, for this very         *)
(* notification, whenever the host reads the frame buffer.                 *)
THEOREM CardStandsStill == Spec => []Quiescent
<1> QED
  BY Invariance, IndInvQuiescent, PTL

(* The coordinates the host draws are never older than the notification it *)
(* handles.                                                                *)
THEOREM ArgumentsAreFresh == Spec => []ArgsFresh
<1>1. IndInv => ArgsFresh
  BY DEF IndInv
<1> QED
  BY Invariance, <1>1, PTL

-----------------------------------------------------------------------------
(* How far the card can get while the host handles a notification: it may  *)
(* raise one more for the acknowledgement it has consumed, and one for     *)
(* that which stands in OUTPUT_DRAWN.                                      *)
Credit ==
  CASE cpc \in {"run", "signal"} -> 1 + drawn
    [] cpc = "wait"              -> drawn
    [] cpc = "clear"             -> 1
    [] OTHER                     -> 0

AheadInv ==
  /\ slot # 0 => slot = sent
  /\ hpc = "dispatch" /\ cur # 0 => sent + Credit <= cur + 2

LEMMA AheadStep == IndInv /\ AheadInv /\ [Next]_vars => AheadInv'
<1> SUFFICES ASSUME IndInv, AheadInv, [Next]_vars PROVE AheadInv'
  OBVIOUS
<1>1. TypeOK
  BY DEF IndInv
<1>2. ASSUME NEW k \in PlainKinds, NotifyPlain(k) PROVE AheadInv'
  BY <1>1, <1>2 DEF AheadInv, Credit, TypeOK, NotifyPlain, Raise, hostVars
<1>3. ASSUME NEW k \in ArgKinds, NotifyArg(k) PROVE AheadInv'
  BY <1>1, <1>3 DEF AheadInv, Credit, TypeOK, NotifyArg, hostVars
<1>4. CASE SignalArg
  BY <1>1, <1>4 DEF AheadInv, Credit, TypeOK, SignalArg, Raise, hostVars
<1>5. CASE SeeDrawn
  BY <1>1, <1>5 DEF AheadInv, Credit, TypeOK, SeeDrawn, hostVars
<1>6. CASE ClearDrawn
  BY <1>1, <1>6 DEF AheadInv, Credit, TypeOK, ClearDrawn, hostVars
<1>7. CASE PollHit
  BY <1>1, <1>7 DEF AheadInv, Credit, TypeOK, PollHit, cardVars
<1>8. CASE PollExpire
  BY <1>1, <1>8 DEF AheadInv, IndInv, HandShape, Ended, PollExpire, cardVars
<1>9. CASE \/ HandleDraw \/ HandleOther \/ HandleFails \/ LineAborts
           \/ ClearAvail \/ DrawDone \/ KeyAborts \/ KeyExits
           \/ Exit \/ ExitLost
  BY <1>9 DEF AheadInv, HandleDraw, HandleOther, HandleFails, LineAborts,
              ClearAvail, DrawDone, KeyEnds, KeyAborts, KeyExits, Exit,
              ExitLost, cardVars
<1>10. CASE UNCHANGED vars
  BY <1>10 DEF AheadInv, Credit, vars
<1> QED
  BY <1>2, <1>3, <1>4, <1>5, <1>6, <1>7, <1>8, <1>9, <1>10 DEF Next, Card, Host

(* However many polls expire, the card is never more than two              *)
(* notifications ahead of the one the host handles.                        *)
THEOREM AheadIsBounded == Spec => []CardAtMostTwoAhead
<1>1. Init => AheadInv
  BY DEF Init, AheadInv
<1>2. IndInv /\ AheadInv => CardAtMostTwoAhead
  BY DEF AheadInv, CardAtMostTwoAhead, Credit, IndInv, TypeOK
<1>3. Spec => []AheadInv
  BY <1>1, AheadStep, Invariance, PTL DEF Spec
<1> QED
  BY <1>2, <1>3, Invariance, PTL

-----------------------------------------------------------------------------
(* The steps of the registers map to steps of the channel: a store to      *)
(* OUTPUT_AVAIL raises, a handler that has run delivers, nothing else shows.*)

LEMMA RaiseRefines ==
  ASSUME Card \/ UNCHANGED vars
  PROVE  Channel!Raise \/ UNCHANGED Channel!chanVars
BY DEF Card, NotifyPlain, NotifyArg, SignalArg, SeeDrawn, ClearDrawn, Raise,
       vars, hostVars, Channel!Raise, Channel!chanVars

LEMMA DeliverRefines ==
  ASSUME IndInv, CountHandled, sent' = sent
  PROVE  Channel!Next \/ UNCHANGED Channel!chanVars
<1>1. CASE cur = 0
  BY <1>1 DEF CountHandled, Channel!chanVars
<1>2. CASE cur # 0
  <2>1. cur \in 1..sent
    BY <1>2 DEF IndInv, TypeOK, HandShape
  <2>2. Channel!Deliver(cur)
    BY <1>2 DEF IndInv, TypeOK, Ordered, CountHandled, Channel!Deliver
  <2> QED
    BY <2>1, <2>2 DEF Channel!Next
<1> QED
  BY <1>1, <1>2

LEMMA StepRefines ==
  ASSUME IndInv, [Next]_vars
  PROVE  Channel!Next \/ UNCHANGED Channel!chanVars
<1>1. CASE Card \/ UNCHANGED vars
  BY <1>1, RaiseRefines DEF Channel!Next
<1>2. CASE HandleDraw \/ HandleOther
  BY <1>2, DeliverRefines DEF HandleDraw, HandleOther, cardVars
<1>3. CASE \/ PollHit \/ PollExpire \/ HandleFails \/ LineAborts
           \/ ClearAvail \/ DrawDone \/ KeyAborts \/ KeyExits
           \/ Exit \/ ExitLost
  BY <1>3 DEF PollHit, PollExpire, HandleFails, LineAborts, ClearAvail,
              DrawDone, KeyEnds, KeyAborts, KeyExits, Exit, ExitLost,
              cardVars, Channel!chanVars
<1> QED
  BY <1>1, <1>2, <1>3 DEF Next, Host

(* The registers implement the lossy channel: philix handles no            *)
(* notification twice, none out of order and none that was not raised.     *)
THEOREM Refinement == Spec => ChannelSpec
<1>1. Init => Channel!Init
  BY DEF Init, Channel!Init
<1>2. IndInv /\ [Next]_vars => [Channel!Next]_(Channel!chanVars)
  BY StepRefines
<1> QED
  BY <1>1, <1>2, Invariance, PTL DEF Spec, ChannelSpec, Channel!Spec
=============================================================================
