----------------------------- MODULE LineHistory -----------------------------
(***************************************************************************)
(* The scroll-back of the curses console in src/philix.c: the linked list  *)
(* of lines that have left the frame buffer, the window the keys move over *)
(* it and what the drawing functions put on the screen.                    *)
(*                                                                         *)
(* line_hist is the newest line; next leads to older lines and is NULL at  *)
(* the oldest; prev leads to newer lines, and the prev of the newest is    *)
(* the oldest.  A line of text is the number of its row of output: row r   *)
(* of the frame buffer holds line base + r.                                *)
(*                                                                         *)
(* The card is taken to shift the frame buffer once for every line philix  *)
(* has saved, as it does as long as no acknowledgement is unearned (module *)
(* Handshake, Quiescent).                                                  *)
(***************************************************************************)
EXTENDS Integers, Sequences, FiniteSets

CONSTANTS
  Cell,      \* the memory malloc may return for a struct line_elm
  Null,      \* the NULL pointer
  Height,    \* PHI_FB_HEIGHT
  MaxHist,   \* MAX_HIST_LINES
  MaxLines   \* bound: lines scrolled off the frame buffer

ASSUME HeightAssumption == Height \in Nat \ {0}
ASSUME HistAssumption   == MaxHist \in Nat /\ MaxHist >= 2
ASSUME LinesAssumption  == MaxLines \in Nat
ASSUME NullAssumption   == Null \notin Cell

VARIABLES
  live,      \* the cells that are allocated
  line,      \* the field "line" of every cell, freed ones included
  next,      \* the field "next"
  prev,      \* the field "prev"
  lineHist,  \* console.line_hist
  histCnt,   \* console.hist_cnt
  winPtr,    \* console.win_ptr
  lineIdx,   \* console.line_idx
  base,      \* how often the card has shifted the frame buffer
  saved,     \* how often handle_scrollup has run
  screen,    \* the lines that can be read in each row of the terminal
  dump,      \* what the last step wrote to the dump file, if it was a dump
  fault,     \* how philix ended, "none" while it runs
  \* history variables
  chain,     \* the cells of the list, newest first
  astray     \* win_ptr has outlived the cell it was set to

listVars == <<live, line, next, prev, lineHist, histCnt, chain>>
winVars  == <<winPtr, lineIdx, astray>>
vars     == <<listVars, winVars, base, saved, screen, dump, fault>>

Row      == 1..Height
FbLine(r) == base + r

Init ==
  /\ live = {}
  /\ line = [c \in Cell |-> 0]
  /\ next = [c \in Cell |-> Null]
  /\ prev = [c \in Cell |-> Null]
  /\ lineHist = Null /\ histCnt = 0 /\ chain = << >>
  /\ winPtr = Null /\ lineIdx = 0 /\ astray = FALSE
  /\ base = 0 /\ saved = 0
  /\ screen = [r \in Row |-> {}]
  /\ dump = << >>
  /\ fault = "none"

Running == fault = "none"

NoDump == dump' = << >>

Stop(why) ==
  /\ fault' = why /\ NoDump
  /\ UNCHANGED <<listVars, winVars, base, saved, screen>>

-----------------------------------------------------------------------------
(* Saving a line. *)

Oldest == prev[lineHist]

Grow_RingNotClosed(c) ==     \* defect: the old newest line keeps its prev
  /\ histCnt # MaxHist
  /\ histCnt' = histCnt + 1
  /\ live' = live \cup {c}
  /\ prev' = [prev EXCEPT ![c] = IF lineHist = Null THEN c ELSE Oldest]
  /\ next' = [next EXCEPT ![c] = lineHist]
  /\ chain' = <<c>> \o chain
  /\ UNCHANGED astray

Grow_OneTooMany(c) ==        \* defect: hist_cnt compared with > instead of ==
  /\ histCnt <= MaxHist
  /\ histCnt' = histCnt + 1
  /\ live' = live \cup {c}
  /\ prev' = IF lineHist = Null THEN [prev EXCEPT ![c] = c]
             ELSE [prev EXCEPT ![c] = Oldest, ![lineHist] = c]
  /\ next' = [next EXCEPT ![c] = lineHist]
  /\ chain' = <<c>> \o chain
  /\ UNCHANGED astray

(* handle_scrollup while there is room: the list grows at its head.        *)
Grow(c) ==
  /\ histCnt # MaxHist
  /\ histCnt' = histCnt + 1
  /\ live' = live \cup {c}
  /\ prev' = IF lineHist = Null THEN [prev EXCEPT ![c] = c]
             ELSE [prev EXCEPT ![c] = Oldest, ![lineHist] = c]
  /\ next' = [next EXCEPT ![c] = lineHist]
  /\ chain' = <<c>> \o chain
  /\ UNCHANGED astray

Replace_NotCut(c) ==         \* defect: the new oldest line keeps its next
  /\ histCnt = MaxHist
  /\ live' = (live \cup {c}) \ {Oldest}
  /\ prev' = [prev EXCEPT ![c] = prev[Oldest], ![lineHist] = c]
  /\ next' = [next EXCEPT ![c] = lineHist]
  /\ chain' = <<c>> \o SubSeq(chain, 1, Len(chain) - 1)
  /\ astray' = (astray \/ winPtr = Oldest)
  /\ UNCHANGED histCnt

(* handle_scrollup when the history is full: the oldest line is freed.     *)
Replace(c) ==
  /\ histCnt = MaxHist
  /\ live' = (live \cup {c}) \ {Oldest}
  /\ prev' = [prev EXCEPT ![c] = prev[Oldest], ![lineHist] = c]
  /\ next' = [next EXCEPT ![prev[Oldest]] = Null, ![c] = lineHist]
  /\ chain' = <<c>> \o SubSeq(chain, 1, Len(chain) - 1)
  /\ astray' = (astray \/ winPtr = Oldest)
  /\ UNCHANGED histCnt

(* The card is in phi_notify_scrollup: its first line is about to go.      *)
HandleScrollup(c) ==
  /\ Running /\ saved = base /\ saved < MaxLines
  /\ c \notin live
  /\ line' = [line EXCEPT ![c] = FbLine(1)]
  /\ Grow(c) \/ Replace(c)
  /\ lineHist' = c
  /\ saved' = saved + 1
  /\ NoDump
  /\ UNCHANGED <<winPtr, lineIdx, base, screen, fault>>

(* malloc returns NULL: handle_scrollup and the main loop return -1 and    *)
(* main returns.                                                           *)
NoMemory == Running /\ saved = base /\ Stop("exit")

(* term_scrollup on the card, once the notification has been answered.     *)
CardScroll ==
  /\ base < saved
  /\ base' = base + 1
  /\ NoDump
  /\ UNCHANGED <<listVars, winVars, saved, screen, fault>>

-----------------------------------------------------------------------------
(* Drawing. *)

(* The cells met on the first n steps along a link, as long as there are   *)
(* any: draw_hist_buf follows prev from the window pointer.                *)
Follow(link, p, n) ==
  LET at[i \in 0..n] ==
        IF i = 0 THEN p
        ELSE IF at[i - 1] = Null THEN Null ELSE link[at[i - 1]]
  IN  at

Newer(p) == Follow(prev, p, Height)

(* How many rows it draws: it stops, without drawing it, at the newest.    *)
HistRows(p, n) ==
  LET at == Newer(p) IN
    CHOOSE m \in 0..n :
      /\ \A i \in 0..(m - 1) : at[i] # lineHist
      /\ m = n \/ at[m] = lineHist

(* draw_output_win: rows of history, then rows of the frame buffer from    *)
(* its top; a row that neither draws keeps what it showed.                 *)
Drawn(p, idx) ==
  LET n  == IF idx < Height THEN idx ELSE Height
      m  == HistRows(p, n)
      at == Newer(p)
  IN  [r \in Row |-> IF r > n THEN {FbLine(r - n)}
                     ELSE IF r <= m THEN {line[at[r - 1]]} ELSE screen[r]]

(* The pointer leads to freed memory.                                      *)
Dangling == winPtr # Null /\ winPtr \notin live

HandleRedraw_Live ==         \* defect: draws the frame buffer over the history
  /\ Running
  /\ screen' = Drawn(winPtr, 0)
  /\ NoDump
  /\ UNCHANGED <<listVars, winVars, base, saved, fault>>

(* A screen redraw or line update: both draw the whole window.             *)
HandleRedraw ==
  /\ Running
  /\ \/ /\ Dangling /\ lineIdx > 0
        /\ Stop("dangling")
     \/ /\ ~(Dangling /\ lineIdx > 0)
        /\ screen' = Drawn(winPtr, lineIdx)
        /\ NoDump
        /\ UNCHANGED <<listVars, winVars, base, saved, fault>>

HandleChar_TopRow(r) ==      \* defect: the window's row is not set
  /\ Running
  /\ screen' = [screen EXCEPT ![1] = @ \cup {FbLine(r)}]
  /\ NoDump
  /\ UNCHANGED <<listVars, winVars, base, saved, fault>>

(* handle_char_update puts one character of the frame buffer on the row,   *)
(* wherever the window is.                                                 *)
HandleChar(r) ==
  /\ Running
  /\ screen' = [screen EXCEPT ![r] = @ \cup {FbLine(r)}]
  /\ NoDump
  /\ UNCHANGED <<listVars, winVars, base, saved, fault>>

-----------------------------------------------------------------------------
(* Keys. *)

ScrollStart == IF winPtr = Null THEN lineHist ELSE winPtr

Back_NoLimit(n) ==           \* defect: line_idx not compared with hist_cnt
  LET pos[i \in 0..n] ==
        IF i = 0 THEN [ptr |-> ScrollStart, idx |-> lineIdx, end |-> FALSE]
        ELSE LET p == pos[i - 1] IN
          IF p.end \/ p.idx >= MaxHist THEN p
          ELSE IF next[p.ptr] = Null
               THEN [p EXCEPT !.idx = @ + 1, !.end = TRUE]
               ELSE [p EXCEPT !.idx = @ + 1, !.ptr = next[p.ptr]]
  IN  pos[n]

(* scroll_output_win(n), n > 0. *)
Back(n) ==
  LET pos[i \in 0..n] ==
        IF i = 0 THEN [ptr |-> ScrollStart, idx |-> lineIdx, end |-> FALSE]
        ELSE LET p == pos[i - 1] IN
          IF p.end \/ p.idx >= MaxHist \/ p.idx >= histCnt THEN p
          ELSE IF next[p.ptr] = Null
               THEN [p EXCEPT !.idx = @ + 1, !.end = TRUE]
               ELSE [p EXCEPT !.idx = @ + 1, !.ptr = next[p.ptr]]
  IN  pos[n]

Forward_NoFloor(n) ==        \* defect: line_idx not compared with 0
  LET pos[i \in 0..n] ==
        IF i = 0 THEN [ptr |-> ScrollStart, idx |-> lineIdx]
        ELSE LET p == pos[i - 1] IN [ptr |-> prev[p.ptr], idx |-> p.idx - 1]
  IN  pos[n]

(* scroll_output_win(-n). *)
Forward(n) ==
  LET pos[i \in 0..n] ==
        IF i = 0 THEN [ptr |-> ScrollStart, idx |-> lineIdx]
        ELSE LET p == pos[i - 1] IN
          IF p.idx = 0 THEN p ELSE [ptr |-> prev[p.ptr], idx |-> p.idx - 1]
  IN  pos[n]

ShowWindow(ptr, idx) ==
  /\ winPtr' = ptr /\ lineIdx' = idx
  /\ screen' = Drawn(ptr, idx)
  /\ NoDump
  /\ UNCHANGED <<listVars, base, saved, fault>>

(* KEY_UP (n = 1) and KEY_PPAGE (n = Height). *)
KeyBack(n) ==
  /\ Running
  /\ \/ ScrollStart = Null /\ Stop("assert")
     \/ Dangling /\ Stop("dangling")
     \/ /\ ScrollStart # Null /\ ~Dangling
        /\ IF lineIdx >= MaxHist THEN ShowWindow(winPtr, lineIdx)
           ELSE ShowWindow(Back(n).ptr, Back(n).idx)
        /\ UNCHANGED astray

(* KEY_DOWN (n = 1) and KEY_NPAGE (n = Height). *)
KeyForward(n) ==
  /\ Running
  /\ \/ ScrollStart = Null /\ Stop("assert")
     \/ Dangling /\ lineIdx > 0 /\ Stop("dangling")
     \/ /\ ScrollStart # Null /\ ~(Dangling /\ lineIdx > 0)
        /\ IF lineIdx = 0 THEN ShowWindow(winPtr, lineIdx)
           ELSE ShowWindow(Forward(n).ptr, Forward(n).idx)
        /\ UNCHANGED astray

(* 'g': scroll_top does nothing without a history. *)
KeyTop ==
  /\ Running
  /\ IF lineHist = Null
       THEN ShowWindow(winPtr, lineIdx) /\ UNCHANGED astray
       ELSE ShowWindow(Oldest, histCnt) /\ astray' = FALSE

(* 'G': scroll_bottom. *)
KeyBottom == Running /\ ShowWindow(Null, 0) /\ astray' = FALSE

LastByNext_NoSeek == lineHist   \* defect: starts at the newest line

(* dump_console_to_file: output_hist_to_file follows next to the oldest    *)
(* line and writes from there towards, and without, the newest;            *)
(* output_fb_to_file writes the frame buffer.                              *)
LastByNext ==
  LET at == Follow(next, lineHist, Cardinality(live))
  IN  at[CHOOSE m \in DOMAIN at : at[m] # Null /\ next[at[m]] = Null]

DumpText ==
  LET at == Follow(prev, LastByNext, Cardinality(live))
      n  == CHOOSE m \in DOMAIN at : /\ at[m] = lineHist
                                     /\ \A i \in 0..(m - 1) : at[i] # lineHist
  IN  [i \in 1..(n + Height) |-> IF i <= n THEN line[at[i - 1]] ELSE FbLine(i - n)]

(* 'o'; if the file cannot be opened philix exits, without a history       *)
(* cur->next is read through a NULL pointer.                               *)
KeyDump ==
  /\ Running
  /\ \/ Stop("exit")
     \/ lineHist = Null /\ Stop("segv")
     \/ /\ lineHist # Null
        /\ dump' = DumpText
        /\ UNCHANGED <<listVars, winVars, base, saved, screen, fault>>

(* The shutdown notification: philix exits, with a dump under -d or -n if  *)
(* the file can be opened.                                                 *)
Shutdown ==
  /\ Running
  /\ \/ lineHist = Null /\ Stop("segv")
     \/ Stop("exit")
     \/ /\ lineHist # Null
        /\ dump' = DumpText /\ fault' = "exit"
        /\ UNCHANGED <<listVars, winVars, base, saved, screen>>

Next ==
  \/ \E c \in Cell : HandleScrollup(c)
  \/ NoMemory \/ CardScroll \/ HandleRedraw
  \/ \E r \in Row : HandleChar(r)
  \/ \E n \in {1, Height} : KeyBack(n) \/ KeyForward(n)
  \/ KeyTop \/ KeyBottom \/ KeyDump \/ Shutdown

Spec == Init /\ [][Next]_vars

-----------------------------------------------------------------------------
(* Properties. *)

(* Every variable has its type.                                            *)
TypeOK ==
  /\ live \subseteq Cell
  /\ line \in [Cell -> Nat]
  /\ next \in [Cell -> Cell \cup {Null}] /\ prev \in [Cell -> Cell \cup {Null}]
  /\ lineHist \in Cell \cup {Null} /\ winPtr \in Cell \cup {Null}
  /\ histCnt \in 0..MaxHist /\ lineIdx \in 0..MaxHist
  /\ chain \in Seq(Cell) /\ astray \in BOOLEAN
  /\ base \in Nat /\ saved \in {base, base + 1}
  /\ screen \in [Row -> SUBSET Nat]
  /\ dump \in Seq(Nat)
  /\ fault \in {"none", "assert", "dangling", "segv", "exit"}

(* handle_scrollup keeps the list whole: next runs from the newest line to *)
(* the oldest, prev runs back and closes the ring, no cell is on it twice, *)
(* every allocated cell is on it (nothing leaks, nothing freed is linked)  *)
(* and hist_cnt counts them.                                               *)
ListIntact ==
  LET n == Len(chain) IN
  /\ n = histCnt
  /\ \A i, j \in 1..n : i # j => chain[i] # chain[j]
  /\ live = {chain[i] : i \in 1..n}
  /\ lineHist = IF n = 0 THEN Null ELSE chain[1]
  /\ \A i \in 1..n :
       /\ next[chain[i]] = IF i = n THEN Null ELSE chain[i + 1]
       /\ prev[chain[i]] = IF i = 1 THEN chain[n] ELSE chain[i - 1]

(* The list implements the bounded history: the newest lines, in order,    *)
(* whatever the keys do meanwhile.                                         *)
Kept == [i \in 1..Len(chain) |-> line[chain[Len(chain) + 1 - i]]]
History == INSTANCE Scrollback WITH hist <- Kept, Line <- 1..MaxLines
HistorySpec == History!Spec

(* The window never runs ahead of its index: at index n it starts at least *)
(* n - 1 lines behind the newest (scroll_output_win steps over the newest  *)
(* line going back and skips the last step at the oldest one), so a drawing*)
(* leaves at most one row of the history part undrawn.                     *)
WindowBehind ==
  lineIdx > 0 /\ ~astray =>
    /\ lineIdx <= histCnt
    /\ \E i \in lineIdx..histCnt : winPtr = chain[i]

(* What a drawing puts on the screen is in order: each row that shows      *)
(* history is followed by the next line of output, if that row is drawn    *)
(* from the history too.                                                   *)
RowsDrawn == LET n == IF lineIdx < Height THEN lineIdx ELSE Height
             IN  HistRows(winPtr, n)
HistoryInOrder ==
  Running /\ ~Dangling => 
    \A r \in 1..(RowsDrawn - 1) :
       \A a \in Drawn(winPtr, lineIdx)[r], b \in Drawn(winPtr, lineIdx)[r + 1] :
          b = a + 1

(* New output does not disturb a reader: while the window lies wholly in   *)
(* the history, a row that shows a line of it keeps showing it, however    *)
(* many lines are saved and however often the card asks for a redraw: it   *)
(* stays what a drawing would put there.                                   *)
Output == HandleRedraw \/ CardScroll \/ \E c \in Cell : HandleScrollup(c)
Shows(r) == Drawn(winPtr, lineIdx)[r] = screen[r]
ReaderUndisturbed ==
  [][Output /\ lineIdx >= Height /\ ~astray' /\ Running' =>
       /\ RowsDrawn <= RowsDrawn'
       /\ \A r \in 1..RowsDrawn : Shows(r) => Shows(r)' /\ screen'[r] = screen[r]
    ]_vars

(* Single characters do no lasting harm.  While the window is at the live  *)
(* end, a row that shows its line of the frame buffer shows nothing else   *)
(* until the card scrolls.  In the history, where a character is put over  *)
(* another line, the next drawing restores every row but the one that      *)
(* draw_hist_buf may leave undrawn.                                        *)
Draws ==
  \/ HandleRedraw \/ KeyTop \/ KeyBottom
  \/ \E n \in {1, Height} : KeyBack(n) \/ KeyForward(n)
CharactersPass ==
  [][ /\ lineIdx = 0 /\ lineIdx' = 0 /\ base' = base =>
           \A r \in Row : screen[r] = {FbLine(r)} => screen'[r] = screen[r]
      /\ Draws /\ Running' /\ ~astray' =>
           Cardinality({r \in Row : Cardinality(screen'[r]) # 1})
             <= (IF lineIdx' = 0 THEN 0 ELSE 1)
    ]_vars

(* A dump is in order, ends with the frame buffer and lacks at most one    *)
(* line philix still holds.                                                *)
HeldLines == {line[c] : c \in live}
DumpLines == {dump[i] : i \in DOMAIN dump}
DumpNearlyWhole ==
  dump # << >> =>
    /\ \A i \in 1..(Len(dump) - 1) : dump[i] <= dump[i + 1]
    /\ dump[Len(dump)] = FbLine(Height)
    /\ Cardinality(HeldLines \ DumpLines) <= 1

(* include/phi_console.h, line_idx: "> 0 is pointing at hist buff".        *)
IndexPointsAtHistory == lineIdx > 0 => winPtr \in live

=============================================================================
