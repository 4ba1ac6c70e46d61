------------------------------ MODULE Handshake ------------------------------
(***************************************************************************)
(* The register protocol between a card kernel (winky/xeon_phi.c) and the  *)
(* philix console on the host (src/philix.c).  Both map the same page of   *)
(* GDDR; the card writes the kind of a notification to OUTPUT_AVAIL and    *)
(* spins on OUTPUT_DRAWN, the host polls OUTPUT_AVAIL, handles what it     *)
(* finds, zeroes OUTPUT_AVAIL and sets OUTPUT_DRAWN.  Every access to a    *)
(* register is a step of its own.                                          *)
(*                                                                         *)
(* The host gives up a poll after about 0.1 s and then runs the rest of    *)
(* its loop body all the same, so it also zeroes OUTPUT_AVAIL and sets     *)
(* OUTPUT_DRAWN when it has seen no notification: an unearned              *)
(* acknowledgement.                                                        *)
(*                                                                         *)
(* philix ends in one of three ways: it resets the card on its way out     *)
(* ("gone"), it tries to and micctrl fails ("lost"), or an assertion ends  *)
(* it and nothing is done about the card ("aborted").                      *)
(***************************************************************************)
EXTENDS Integers, Sequences

CONSTANTS
  MaxSent,      \* bound: notifications raised by the card kernel
  MaxUnearned,  \* bound: the polls that may expire stop at this many
                \*   unearned acknowledgements
  NoCurses,     \* TRUE for philix -n, which draws nothing
  LeftAvail,    \* what OUTPUT_AVAIL may hold when philix starts to poll
  LeftDrawn     \* what OUTPUT_DRAWN may hold then

NoUpdate == "NO_UPDATE"

(* The notifications that carry a coordinate or row in a register of their *)
(* own, and those that are a single store to OUTPUT_AVAIL.                 *)
ArgKinds   == {"CHAR_DRAWN", "LINE_DRAWN"}
PlainKinds == {"SCREEN_REDRAW", "SCROLLUP", "CONSOLE_SHUTDOWN"}
Kinds      == ArgKinds \cup PlainKinds

(* What the host may find in OUTPUT_AVAIL: INVAL stands for all values its *)
(* switch has no case for.                                                 *)
UpdateType == Kinds \cup {NoUpdate, "CURSOR_UPDATE", "INVAL"}

ASSUME BoundsAssumption == MaxSent \in Nat /\ MaxUnearned \in Nat
ASSUME LeftAssumption   == LeftAvail \subseteq UpdateType /\ LeftDrawn \subseteq {0, 1}
ASSUME ModeAssumption   == NoCurses \in BOOLEAN

VARIABLES
  avail,   \* OUTPUT_AVAIL_REG
  drawn,   \* OUTPUT_DRAWN_REG
  argReg,  \* CHAR_REG and LINE_REG: the number of the notification they describe
  cpc,     \* where the card kernel is
  note,    \* the kind of its latest notification
  hpc,     \* where the host loop is
  upd,     \* the host's local variable "update"
  \* history variables: they record what happened and guard nothing
  sent,    \* number of notifications raised
  slot,    \* the number of the notification in OUTPUT_AVAIL, 0 for none
  seen,    \* the number of the last notification the host read
  cur,     \* the one the host has read and not yet handled, 0 for none
  got,     \* which notification the coordinates last read belong to
  handled, \* the notifications handled, in order
  unearned \* acknowledgements given, or in the making, for no notification

cardVars  == <<cpc, note, sent>>
hostVars  == <<hpc, upd, seen, cur, got, handled, unearned>>
vars      == <<avail, drawn, argReg, cpc, note, hpc, upd,
               sent, slot, seen, cur, got, handled, unearned>>

(***************************************************************************)
(* The card memory is not initialised by either side before the host       *)
(* starts to poll: the registers hold what the previous boot left there.   *)
(***************************************************************************)
Init ==
  /\ avail \in LeftAvail
  /\ drawn \in LeftDrawn
  /\ argReg = [k \in ArgKinds |-> 0]
  /\ cpc = "run" /\ note = NoUpdate
  /\ hpc = "poll" /\ upd = NoUpdate
  /\ sent = 0 /\ slot = 0 /\ seen = 0 /\ cur = 0 /\ got = 0
  /\ handled = << >>
  /\ unearned = drawn

-----------------------------------------------------------------------------
(* The card kernel. *)

(* The store to OUTPUT_AVAIL that every phi_notify function ends with. *)
Raise(k) ==
  /\ avail' = k
  /\ slot' = sent + 1
  /\ sent' = sent + 1
  /\ note' = k
  /\ cpc' = "wait"

(* phi_notify_redraw, phi_notify_scrollup, phi_send_cons_shutdown. *)
NotifyPlain(k) ==
  /\ cpc = "run" /\ sent < MaxSent
  /\ Raise(k)
  /\ UNCHANGED <<drawn, argReg, hostVars>>

NotifyArg_NoStore(k) ==                      \* defect: the store is missing
  /\ cpc = "run" /\ sent < MaxSent
  /\ note' = k
  /\ cpc' = "signal"
  /\ UNCHANGED <<avail, drawn, argReg, sent, slot, hostVars>>

(* phi_notify_char_write, phi_notify_line_draw: the argument goes first. *)
NotifyArg(k) ==
  /\ cpc = "run" /\ sent < MaxSent
  /\ argReg' = [argReg EXCEPT ![k] = sent + 1]
  /\ note' = k
  /\ cpc' = "signal"
  /\ UNCHANGED <<avail, drawn, sent, slot, hostVars>>

SignalArg ==
  /\ cpc = "signal"
  /\ Raise(note)
  /\ UNCHANGED <<drawn, argReg, hostVars>>

(* wait_for_out_cmpl: the read that ends the spin ... *)
SeeDrawn ==
  /\ cpc = "wait" /\ drawn # 0
  /\ cpc' = "clear"
  /\ UNCHANGED <<avail, drawn, argReg, note, sent, slot, hostVars>>

ClearDrawn_NoReset ==                \* defect: OUTPUT_DRAWN stays set
  /\ cpc = "clear"
  /\ cpc' = IF note = "CONSOLE_SHUTDOWN" THEN "halted" ELSE "run"
  /\ UNCHANGED <<avail, drawn, argReg, note, sent, slot, hostVars>>

(* ... and the store after it.  A kernel that has sent the shutdown        *)
(* notification returns from main and halts.                               *)
ClearDrawn ==
  /\ cpc = "clear"
  /\ drawn' = 0
  /\ cpc' = IF note = "CONSOLE_SHUTDOWN" THEN "halted" ELSE "run"
  /\ UNCHANGED <<avail, argReg, note, sent, slot, hostVars>>

-----------------------------------------------------------------------------
(* The host. *)

(* philix has ended. *)
Ended == {"gone", "lost", "aborted"}

(* wait_for_cons_update reads something other than TYPE_NO_UPDATE. *)
PollHit ==
  /\ hpc = "poll" /\ avail # NoUpdate
  /\ upd' = avail
  /\ hpc' = "dispatch"
  /\ cur' = slot
  /\ IF slot = 0
       THEN unearned' = unearned + 1 /\ UNCHANGED seen
       ELSE seen' = slot /\ UNCHANGED unearned
  /\ UNCHANGED <<avail, drawn, argReg, cardVars, slot, got, handled>>

(* The last of its thousand reads still finds nothing: it returns          *)
(* TYPE_NO_UPDATE.                                                         *)
PollExpire ==
  /\ hpc = "poll" /\ avail = NoUpdate /\ unearned < MaxUnearned
  /\ upd' = NoUpdate
  /\ hpc' = "dispatch"
  /\ unearned' = unearned + 1
  /\ UNCHANGED <<avail, drawn, argReg, cardVars, slot, seen, cur, got, handled>>

(* The switch has run its case: the notification in hand is handled. *)
CountHandled ==
  /\ handled' = IF cur = 0 THEN handled ELSE Append(handled, cur)
  /\ cur' = 0

(* The cases that draw or do nothing.  The curses loop reads the           *)
(* coordinates of a character or the row of a line here; the rows a kernel *)
(* writes are rows of the screen.                                          *)
HandleDraw ==
  /\ hpc = "dispatch"
  /\ upd \in ArgKinds \cup {NoUpdate, "SCREEN_REDRAW", "CURSOR_UPDATE"}
  /\ got' = IF upd \in ArgKinds /\ ~NoCurses THEN argReg[upd] ELSE got
  /\ CountHandled
  /\ hpc' = "ack"
  /\ UNCHANGED <<avail, drawn, argReg, cardVars, slot, upd, seen, unearned>>

HandleOther_AckFirst ==     \* defect: OUTPUT_DRAWN set before AVAIL is zeroed
  /\ hpc = "dispatch" /\ upd \in {"SCROLLUP", "CONSOLE_SHUTDOWN"}
  /\ CountHandled
  /\ drawn' = 1
  /\ hpc' = "ack"
  /\ UNCHANGED <<avail, argReg, cardVars, slot, upd, seen, got, unearned>>

(* handle_scrollup saves the first line of the frame buffer; shutdown has  *)
(* nothing to do before the acknowledgement.                               *)
HandleOther ==
  /\ hpc = "dispatch" /\ upd \in {"SCROLLUP", "CONSOLE_SHUTDOWN"}
  /\ CountHandled
  /\ hpc' = "ack"
  /\ UNCHANGED <<avail, drawn, argReg, cardVars, slot, upd, seen, got, unearned>>

(* handle_scrollup finds no memory, or the switch has no case: the main    *)
(* loop returns and the notification is never acknowledged.                *)
HandleFails ==
  /\ hpc = "dispatch" /\ upd \in {"SCROLLUP", "INVAL"}
  /\ hpc' = "stopping"
  /\ UNCHANGED <<avail, drawn, argReg, cardVars, slot, upd, seen, cur, got,
                 handled, unearned>>

(* assert(row < PHI_FB_HEIGHT) of handle_line_update: a leftover in        *)
(* OUTPUT_AVAIL asks for a line and the leftover in LINE_REG is no row.    *)
LineAborts ==
  /\ hpc = "dispatch" /\ upd = "LINE_DRAWN" /\ ~NoCurses
  /\ argReg["LINE_DRAWN"] = 0
  /\ hpc' = "aborted"
  /\ UNCHANGED <<avail, drawn, argReg, cardVars, slot, upd, seen, cur, got,
                 handled, unearned>>

ClearAvail_Skipped ==                \* defect: OUTPUT_AVAIL is not zeroed
  /\ hpc = "ack"
  /\ hpc' = "draw"
  /\ UNCHANGED <<avail, slot, drawn, argReg, cardVars, upd, seen, cur, got,
                 handled, unearned>>

(* console_write_reg(OUTPUT_AVAIL_REG_OFFSET, 0) *)
ClearAvail ==
  /\ hpc = "ack"
  /\ avail' = NoUpdate
  /\ slot' = 0
  /\ hpc' = "draw"
  /\ UNCHANGED <<drawn, argReg, cardVars, upd, seen, cur, got, handled, unearned>>

DrawDone_OnlyIfUpdate ==   \* defect: an expired poll zeroes AVAIL, acks nothing
  /\ hpc = "draw"
  /\ drawn' = IF upd = NoUpdate THEN drawn ELSE 1
  /\ hpc' = IF upd = "CONSOLE_SHUTDOWN" THEN "stopping" ELSE "poll"
  /\ UNCHANGED <<avail, argReg, cardVars, slot, upd, seen, cur, got, handled,
                 unearned>>

DrawDone_NoExit ==                   \* defect: exit(0) is missing
  /\ hpc = "draw"
  /\ drawn' = 1
  /\ hpc' = "poll"
  /\ UNCHANGED <<avail, argReg, cardVars, slot, upd, seen, cur, got, handled,
                 unearned>>

DrawDone_Counts ==                   \* defect: a counter instead of a flag
  /\ hpc = "draw"
  /\ drawn' = drawn + 1
  /\ hpc' = IF upd = "CONSOLE_SHUTDOWN" THEN "stopping" ELSE "poll"
  /\ UNCHANGED <<avail, argReg, cardVars, slot, upd, seen, cur, got, handled,
                 unearned>>

(* draw_done(); after a shutdown the host goes on to exit(0). *)
DrawDone ==
  /\ hpc = "draw"
  /\ drawn' = 1
  /\ hpc' = IF upd = "CONSOLE_SHUTDOWN" THEN "stopping" ELSE "poll"
  /\ UNCHANGED <<avail, argReg, cardVars, slot, upd, seen, cur, got, handled,
                 unearned>>

(* The curses loop goes on to a key, and the key ends philix: the update   *)
(* is acknowledged, the loop does not come round again.                    *)
KeyEnds(end) ==
  /\ hpc = "draw" /\ upd # "CONSOLE_SHUTDOWN" /\ ~NoCurses
  /\ drawn' = 1
  /\ hpc' = end
  /\ UNCHANGED <<avail, argReg, cardVars, slot, upd, seen, cur, got, handled,
                 unearned>>

(* assert(line) of scroll_output_win: a scroll key without a history. *)
KeyAborts == KeyEnds("aborted")

(* The dump by key opens no file, or walks a history that is not there     *)
(* into the SIGSEGV handler: both call exit().                             *)
KeyExits == KeyEnds("stopping")

(* exit() or the return from main runs the atexit handler, which has       *)
(* micctrl reset the card ...                                              *)
Exit ==
  /\ hpc = "stopping"
  /\ hpc' = "gone"
  /\ cpc' = "reset"
  /\ UNCHANGED <<avail, drawn, argReg, note, sent, slot, upd, seen, cur, got,
                 handled, unearned>>

(* ... and does not look at whether it did. *)
ExitLost ==
  /\ hpc = "stopping"
  /\ hpc' = "lost"
  /\ UNCHANGED <<avail, drawn, argReg, cardVars, slot, upd, seen, cur, got,
                 handled, unearned>>

-----------------------------------------------------------------------------
Card ==
  \/ \E k \in PlainKinds : NotifyPlain(k)
  \/ \E k \in ArgKinds : NotifyArg(k)
  \/ SignalArg \/ SeeDrawn \/ ClearDrawn

Host ==
  \/ PollHit \/ PollExpire
  \/ HandleDraw \/ HandleOther \/ HandleFails \/ LineAborts
  \/ ClearAvail \/ DrawDone \/ KeyAborts \/ KeyExits
  \/ Exit \/ ExitLost

Next == Card \/ Host

Spec == Init /\ [][Next]_vars

(***************************************************************************)
(* The kernel finishes a phi_notify call it has started and the host       *)
(* process keeps running its loop.  Nothing obliges the kernel to send     *)
(* another notification, a poll to expire, an allocation to fail or the    *)
(* user to press a key.                                                    *)
(***************************************************************************)
Fairness ==
  /\ WF_vars(SignalArg) /\ WF_vars(SeeDrawn) /\ WF_vars(ClearDrawn)
  /\ WF_vars(PollHit)
  /\ WF_vars(HandleDraw) /\ WF_vars(HandleOther \/ HandleFails)
  /\ WF_vars(ClearAvail) /\ WF_vars(DrawDone) /\ WF_vars(Exit \/ ExitLost)

FairSpec == Spec /\ Fairness

-----------------------------------------------------------------------------
(* Properties. *)

(* Every register, program counter and history variable has its type; in   *)
(* particular OUTPUT_DRAWN is a flag, however often the host sets it.      *)
TypeOK ==
  /\ avail \in UpdateType /\ upd \in UpdateType
  /\ note \in Kinds \cup {NoUpdate}
  /\ drawn \in {0, 1}
  /\ argReg \in [ArgKinds -> Nat]
  /\ cpc \in {"run", "signal", "wait", "clear", "halted", "reset"}
  /\ hpc \in {"poll", "dispatch", "ack", "draw", "stopping"} \cup Ended
  /\ sent \in Nat /\ slot \in Nat /\ seen \in Nat /\ cur \in Nat
  /\ got \in Nat /\ unearned \in Nat
  /\ handled \in Seq(Nat)

(* A notification is pending while it stands in OUTPUT_AVAIL unread.       *)
Pending == slot > seen

(* Those raised that are not handled, not in the host's hand and not       *)
(* pending: overwritten by the card or zeroed by the host.                 *)
Lost == sent - Len(handled) - (IF Pending THEN 1 ELSE 0)
                            - (IF cur # 0 THEN 1 ELSE 0)

(* Every unearned acknowledgement costs at most one notification, and      *)
(* nothing else costs any: about the unconditional acknowledgement in the  *)
(* main loops and the overwriting stores of the phi_notify functions.      *)
LossBound == 0 <= Lost /\ Lost <= unearned

(* As long as no acknowledgement was unearned the card stands still while  *)
(* the host handles its notification, so that handle_scrollup and the      *)
(* drawing functions read a frame buffer nobody writes.                    *)
Quiescent ==
  unearned = 0 /\ hpc = "dispatch" => cpc = "wait" /\ cur = sent

(* However many polls expire, the card is never more than two              *)
(* notifications ahead of the one the host handles, which bounds what it   *)
(* can overwrite under the host's eyes: an acknowledgement may stand in    *)
(* OUTPUT_DRAWN and another may be given while the card consumes it.       *)
CardAtMostTwoAhead == hpc = "dispatch" /\ cur # 0 => sent <= cur + 2

(* The coordinates the host draws are never older than the notification it *)
(* handles, and are those of that notification as long as no               *)
(* acknowledgement was unearned: about CHAR_REG and LINE_REG, which the    *)
(* card may overwrite while the host still handles an earlier update.      *)
ArgsFresh ==
  hpc = "ack" /\ upd \in ArgKinds /\ ~NoCurses =>
    /\ got >= seen
    /\ unearned = 0 => got = seen

(* Notifications are delivered at most once and in order, whatever is      *)
(* lost: the two loops implement the lossy channel.                        *)
Channel == INSTANCE UpdateChannel
ChannelSpec == Channel!Spec

(* While philix lives the kernel does not spin in wait_for_out_cmpl for    *)
(* ever: a notification it waits for is acknowledged, handled or not, and  *)
(* a philix that ends resets the card.  Only a philix that dies without a  *)
(* reset, by an assertion or because micctrl fails, can leave it spinning. *)
CardReleased == (cpc = "wait") ~> (cpc # "wait" \/ hpc \in {"lost", "aborted"})

(* If no acknowledgement is ever unearned, every notification raised is    *)
(* handled, unless philix ends before.                                     *)
HandledSet == {handled[i] : i \in 1..Len(handled)}
AllHandled ==
  [](unearned = 0) =>
    \A n \in 1..MaxSent : (sent >= n) ~> (n \in HandledSet \/ hpc \in Ended)

(* README, "phi_send_cons_shutdown: Tell philix that it can disconnect     *)
(* from the Xeon Phi": once it has returned, philix disconnects.           *)
ShutdownDisconnects == (cpc = "halted") ~> (hpc \in Ended)
=============================================================================
