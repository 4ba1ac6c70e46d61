------------------------------- MODULE Console -------------------------------
(***************************************************************************)
(* The example kernel's terminal (winky/cga.c) printing through the        *)
(* register protocol to philix: what becomes of the text.                  *)
(*                                                                         *)
(* A line of the frame buffer is two words; term_scrollup copies the frame *)
(* buffer word by word and philix saves its first line word by word, each  *)
(* copy a step of its own.  The two words of the n-th line the kernel      *)
(* prints are both n, 0 is blank, Left is what the previous boot left in   *)
(* the card's memory.  Register accesses are those of module Handshake.    *)
(***************************************************************************)
EXTENDS Integers, Sequences

CONSTANTS
  Height,       \* VGA_HEIGHT
  MaxLines,     \* bound: lines the kernel prints before it shuts down
  MaxUnearned,  \* bound: see Handshake
  NoCurses,     \* philix -n
  LeftAvail,    \* see Handshake
  LeftDrawn

ASSUME HeightAssumption == Height \in Nat /\ Height >= 2
ASSUME LinesAssumption  == MaxLines \in Nat

(* The notifications of a run: term_init's, one per line, two per scroll,  *)
(* the shutdown.                                                           *)
MaxSent == 2 + 3 * MaxLines

VARIABLES
  avail, drawn, argReg, cpc, note, hpc, upd,              \* see Handshake
  sent, slot, seen, cur, got, handled, unearned,
  fb,       \* the frame buffer, as words
  tpc,      \* what the terminal does next
  row,      \* term.row, counted from 1
  printed,  \* lines printed so far
  pos,      \* the next word term_init, term_scrollup or putchar writes
  copied,   \* the words handle_scrollup has copied
  hist,     \* the history: lines as pairs of words, oldest first
  screen,   \* what philix has drawn
  dump      \* the words of the frame buffer a dump has written

protocol == <<avail, drawn, argReg, cpc, note, hpc, upd,
              sent, slot, seen, cur, got, handled, unearned>>
term     == <<fb, tpc, row, printed, pos>>
text     == <<copied, hist, screen>>
viewer   == <<text, dump>>
vars     == <<protocol, term, viewer>>

P == INSTANCE Handshake

ASSUME ProtocolAssumption ==
  /\ MaxUnearned \in Nat /\ NoCurses \in BOOLEAN
  /\ LeftAvail \subseteq P!UpdateType /\ LeftDrawn \subseteq {0, 1}

Word  == 2                              \* words in a line
Words == Word * Height
Left  == -1
Blank == [i \in 1..Words |-> 0]

Init ==
  /\ P!Init
  /\ fb = [i \in 1..Words |-> Left] /\ tpc = "init" /\ row = 1 /\ printed = 0 /\ pos = 1
  /\ copied = << >> /\ hist = << >> /\ screen = Blank /\ dump = << >>

-----------------------------------------------------------------------------
(* The terminal.  It goes on only when the notification it has sent is     *)
(* acknowledged and the register cleared.                                  *)

Idle == cpc = "run"

Steps(from, to) == Idle /\ tpc = from /\ tpc' = to

(* term_init blanks the frame buffer word by word ... *)
BlankWord ==
  /\ Idle /\ tpc = "init"
  /\ fb' = [fb EXCEPT ![pos] = 0]
  /\ IF pos < Words THEN pos' = pos + 1 /\ UNCHANGED tpc
                    ELSE pos' = 1 /\ tpc' = "blank"
  /\ UNCHANGED <<row, printed, protocol, viewer>>

(* ... and asks for a redraw. *)
TermInit ==
  /\ Steps("blank", "print")
  /\ P!NotifyPlain("SCREEN_REDRAW")
  /\ UNCHANGED <<fb, row, printed, pos, viewer>>

(* putchar: a word of the line, in the row of the cursor. *)
PutWord ==
  /\ Idle /\ tpc = "print" /\ printed < MaxLines
  /\ fb' = [fb EXCEPT ![Word * (row - 1) + pos] = printed + 1]
  /\ IF pos < Word
       THEN pos' = pos + 1 /\ UNCHANGED <<tpc, printed>>
       ELSE pos' = 1 /\ tpc' = "line" /\ printed' = printed + 1
  /\ UNCHANGED <<row, protocol, viewer>>

EndLine_NoClamp ==      \* defect: term_scrollup does not take the row back
  /\ Steps("line", IF row = Height THEN "scroll" ELSE "print")
  /\ P!NotifyArg("LINE_DRAWN")
  /\ row' = row + 1
  /\ UNCHANGED <<fb, printed, pos, viewer>>

(* putchar at the end of a line: phi_notify_line_draw, then the next row,  *)
(* and a scroll if there is none.                                          *)
EndLine ==
  /\ Steps("line", IF row = Height THEN "scroll" ELSE "print")
  /\ P!NotifyArg("LINE_DRAWN")
  /\ row' = IF row = Height THEN row ELSE row + 1
  /\ UNCHANGED <<fb, printed, pos, viewer>>

(* term_scrollup tells philix before it starts to copy ... *)
AnnounceScroll ==
  /\ Steps("scroll", "shift")
  /\ P!NotifyPlain("SCROLLUP")
  /\ UNCHANGED <<fb, row, printed, pos, viewer>>

Shift_Early ==     \* defect: the copy starts before the answer
  /\ cpc \in {"run", "wait"} /\ tpc = "shift"
  /\ fb' = [fb EXCEPT ![pos] = IF pos + Word <= Words THEN fb[pos + Word] ELSE 0]
  /\ IF pos < Words THEN pos' = pos + 1 /\ UNCHANGED tpc
                    ELSE pos' = 1 /\ tpc' = "redraw"
  /\ UNCHANGED <<row, printed, protocol, viewer>>

(* ... copies every word from the line below, blanks the last line ...     *)
Shift ==
  /\ Idle /\ tpc = "shift"
  /\ fb' = [fb EXCEPT ![pos] = IF pos + Word <= Words THEN fb[pos + Word] ELSE 0]
  /\ IF pos < Words THEN pos' = pos + 1 /\ UNCHANGED tpc
                    ELSE pos' = 1 /\ tpc' = "redraw"
  /\ UNCHANGED <<row, printed, protocol, viewer>>

(* ... and asks for a redraw. *)
AskRedraw ==
  /\ Steps("redraw", "print")
  /\ P!NotifyPlain("SCREEN_REDRAW")
  /\ UNCHANGED <<fb, row, printed, pos, viewer>>

(* main is done: phi_send_cons_shutdown. *)
SendShutdown ==
  /\ printed = MaxLines
  /\ Steps("print", "done")
  /\ P!NotifyPlain("CONSOLE_SHUTDOWN")
  /\ UNCHANGED <<fb, row, printed, pos, viewer>>

(* The rest of a phi_notify function. *)
CardProtocol ==
  /\ P!SignalArg \/ P!SeeDrawn \/ P!ClearDrawn
  /\ UNCHANGED <<term, viewer>>

-----------------------------------------------------------------------------
(* philix. *)

(* handle_scrollup copies the next word of the first line. *)
CopyWord ==
  /\ hpc = "dispatch" /\ upd = "SCROLLUP" /\ Len(copied) < Word
  /\ copied' = Append(copied, fb[Len(copied) + 1])
  /\ UNCHANGED <<protocol, term, hist, screen, dump>>

SaveLine_WrongEnd ==    \* defect: the line is linked at the old end
  /\ upd = "SCROLLUP" /\ Len(copied) = Word
  /\ P!HandleOther
  /\ hist' = <<copied>> \o hist
  /\ copied' = << >>
  /\ UNCHANGED <<term, screen, dump>>

(* It has copied the line: the line is linked into the history.            *)
SaveLine ==
  /\ upd = "SCROLLUP" /\ Len(copied) = Word
  /\ P!HandleOther
  /\ hist' = Append(hist, copied)
  /\ copied' = << >>
  /\ UNCHANGED <<term, screen, dump>>

HandleShutdown ==
  /\ upd = "CONSOLE_SHUTDOWN"
  /\ P!HandleOther
  /\ UNCHANGED <<term, viewer>>

Draw_FirstLineOnly ==   \* defect: a redraw draws a single line
  /\ P!HandleDraw
  /\ screen' = IF ~NoCurses /\ upd \in {"LINE_DRAWN", "SCREEN_REDRAW"}
               THEN [screen EXCEPT ![1] = fb[1], ![2] = fb[2]] ELSE screen
  /\ UNCHANGED <<term, copied, hist, dump>>

(* A line update and a redraw draw the whole window; the user has not      *)
(* scrolled back.                                                          *)
Draw ==
  /\ P!HandleDraw
  /\ screen' = IF ~NoCurses /\ upd \in {"LINE_DRAWN", "SCREEN_REDRAW"}
               THEN fb ELSE screen
  /\ UNCHANGED <<term, copied, hist, dump>>

(* An allocation fails before anything is copied, the update has no case,  *)
(* or the row of a leftover line update is no row.                         *)
Fail ==
  /\ copied = << >>
  /\ P!HandleFails \/ P!LineAborts
  /\ UNCHANGED <<term, viewer>>

(* dump_console_to_file, after the history: output_fb_to_file writes the   *)
(* next word.  The key 'o' is handled while the kernel runs; the shutdown  *)
(* dumps under -n and -d.                                                  *)
DumpWord ==
  /\ \/ hpc = "poll" /\ ~NoCurses
     \/ hpc = "stopping" /\ upd = "CONSOLE_SHUTDOWN"
  /\ hist # << >> /\ Len(dump) < Words
  /\ dump' = Append(dump, fb[Len(dump) + 1])
  /\ UNCHANGED <<protocol, term, text>>

(* No dump is under way.                                                   *)
NotDumping == Len(dump) \in {0, Words}

(* Batch mode does not exit before it has dumped (without a history the    *)
(* dump is where it ends: Lifecycle); curses mode dumps only under -d.     *)
DumpDue == NoCurses /\ upd = "CONSOLE_SHUTDOWN" /\ hist # << >>

Leaves == P!Exit \/ P!ExitLost

(* A scroll key needs a history; a dump by key may find no file to open.   *)
KeyEnds == (hist = << >> /\ P!KeyAborts) \/ P!KeyExits

HostProtocol ==
  /\ \/ NotDumping /\ (P!PollHit \/ P!PollExpire) /\ dump' = << >>
     \/ NotDumping /\ (DumpDue => dump # << >>) /\ Leaves /\ UNCHANGED dump
     \/ (P!ClearAvail \/ P!DrawDone \/ KeyEnds) /\ UNCHANGED dump
  /\ UNCHANGED <<term, text>>

-----------------------------------------------------------------------------
Card ==
  \/ BlankWord \/ TermInit \/ PutWord \/ EndLine \/ AnnounceScroll \/ Shift \/ AskRedraw
  \/ SendShutdown \/ CardProtocol

Host ==
  \/ CopyWord \/ SaveLine \/ HandleShutdown \/ Draw \/ Fail \/ DumpWord
  \/ HostProtocol

Next == Card \/ Host

Spec == Init /\ [][Next]_vars

(* The kernel prints what it has to print and philix keeps running its     *)
(* loop; no poll has to expire, no allocation to fail and no key to be     *)
(* pressed.                                                                *)
FairSpec ==
  /\ Spec
  /\ WF_vars(Card)
  /\ WF_vars(P!PollHit /\ HostProtocol)
  /\ WF_vars(CopyWord) /\ WF_vars(SaveLine \/ HandleShutdown)
  /\ WF_vars(Draw)
  /\ WF_vars(upd = "INVAL" /\ Fail)
  /\ WF_vars((P!ClearAvail \/ P!DrawDone \/ Leaves) /\ HostProtocol)
  /\ WF_vars((dump # << >> \/ DumpDue) /\ DumpWord)

-----------------------------------------------------------------------------
(* Properties. *)

(* Every variable of the terminal and of the viewer has its type.          *)
TypeOK ==
  /\ P!TypeOK
  /\ fb \in [1..Words -> Left..MaxLines] /\ screen \in [1..Words -> Left..MaxLines]
  /\ tpc \in {"init", "blank", "print", "line", "scroll", "shift", "redraw", "done"}
  /\ row \in 1..Height /\ printed \in 0..MaxLines /\ pos \in 1..Words
  /\ copied \in Seq(Left..MaxLines) /\ Len(copied) <= Word
  /\ hist \in Seq([1..Word -> Left..MaxLines])
  /\ dump \in Seq(Left..MaxLines) /\ Len(dump) <= Words

(* As long as no acknowledgement is unearned nothing of the output is lost *)
(* or torn: the history followed by the frame buffer is what the kernel    *)
(* has printed (while term_scrollup is at work a line may be in both).     *)
LineAt(n) ==
  IF n <= Len(hist) THEN hist[n]
  ELSE LET r == n - Len(hist) IN <<fb[Word * r - 1], fb[Word * r]>>
OutputKept ==
  unearned = 0 /\ tpc # "shift" =>
    /\ printed <= Len(hist) + Height
    /\ \A n \in 1..printed : LineAt(n) = <<n, n>>

(* However early the card is let go, a line in the history is a line of    *)
(* output, a mix of two neighbouring ones, or a line saved before          *)
(* term_init had blanked it, and the history never goes back: about the    *)
(* copy in handle_scrollup, which the card may overtake.                   *)
HistoryReadable ==
  /\ \A i \in 1..Len(hist) :
       Left \in {hist[i][1], hist[i][2]} \/ hist[i][1] - hist[i][2] \in -1..1
  /\ \A i \in 2..Len(hist), w \in 1..Word : hist[i - 1][w] <= hist[i][w]

(* When phi_notify_line_draw or phi_notify_redraw returns, philix has      *)
(* drawn the frame buffer as it is, if no acknowledgement was unearned.    *)
ScreenCurrent ==
  unearned = 0 /\ ~NoCurses /\ cpc = "clear" /\ note \in {"LINE_DRAWN", "SCREEN_REDRAW"}
    => screen = fb

(* A dump never goes back, whenever it is asked for and however early the  *)
(* card is let go (rows without output aside).  If no acknowledgement was  *)
(* unearned, a dump by key writes each row as it is or as it was one       *)
(* scroll ago (the kernel may scroll once meanwhile, so lines can be       *)
(* missing or doubled), and the dump at the shutdown is the whole output.  *)
Dumped(r, w) == dump[Word * (r - 1) + w]
DumpReadable ==
  Len(dump) = Words =>
    \A r \in 1..Height, w \in 1..Word :
      LET n == Len(hist) + r IN
      /\ \A q \in 1..(r - 1) : Dumped(q, w) <= Dumped(r, w) \/ Dumped(r, w) <= 0
      /\ unearned = 0 /\ hpc = "poll" =>
           Dumped(r, w) \in {n - 1, n} \/ (Dumped(r, w) = 0 /\ n >= printed)
      /\ unearned = 0 /\ hpc # "poll" =>
           Dumped(r, w) = IF n <= printed THEN n ELSE 0

(* If no acknowledgement is unearned the kernel gets to its shutdown and   *)
(* philix ends, if nothing has ended it before.                            *)
RunCompletes == [](unearned = 0) => <>(hpc \in P!Ended)

(* philix.c, "save the first line, it's about to go away", and xeon_phi.c, *)
(* "tell host to save the first line in its buffer": the n-th line in the  *)
(* history is the n-th line that went away.                                *)
HistoryExact == \A i \in 1..Len(hist) : hist[i] = <<i, i>>
=============================================================================
