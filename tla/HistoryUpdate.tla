---------------------------- MODULE HistoryUpdate ----------------------------
(***************************************************************************)
(* handle_scrollup of src/philix.c store by store, with the SIGINT handler *)
(* of batch mode between any two of them.  The handler writes the history  *)
(* to the dump file, so it walks the list while a line is being put on it; *)
(* then it resets the card and returns to where it has come from.          *)
(*                                                                         *)
(* The pointers are plain memory to the compiler.  Without --enable-debug  *)
(* philix is built with -O2, and gcc then stores console.line_hist before  *)
(* new->next; the stores before and the call of free keep their places.    *)
(*                                                                         *)
(* Cells, links and lines of text are those of module LineHistory, whose   *)
(* HandleScrollup is one step.                                             *)
(***************************************************************************)
EXTENDS Integers, Sequences

CONSTANTS
  Cell,      \* the memory malloc may return for a struct line_elm
  Null,      \* the NULL pointer
  Height,    \* PHI_FB_HEIGHT
  MaxHist,   \* MAX_HIST_LINES
  MaxLines   \* bound: lines scrolled off the frame buffer

ASSUME HeightAssumption == Height \in Nat \ {0}
ASSUME HistAssumption   == MaxHist \in Nat /\ MaxHist >= 2
ASSUME LinesAssumption  == MaxLines \in Nat
ASSUME NullAssumption   == Null \notin Cell

VARIABLES
  live, line, next, prev, lineHist, histCnt,  \* the list, as in LineHistory
  pc,        \* the statement of handle_scrollup that comes next
  new,       \* its local variable
  optimised, \* philix is built without --enable-debug
  base,      \* how often the card has shifted the frame buffer
  saved,     \* how often handle_scrollup has returned
  reset,     \* the handler has reset the card
  dump,      \* what the last step wrote to the dump file, if it was a dump
  fault,     \* how philix ended, "none" while it runs
  \* history variable
  settled    \* the list as the last finished handle_scrollup has left it

heap == <<live, line, next, prev>>
list == <<heap, lineHist, histCnt>>
vars == <<list, pc, new, optimised, base, saved, reset, dump, fault, settled>>

FbLine(r) == base + r

List(ring) ==
  [live |-> live, line |-> line, next |-> next, prev |-> prev,
   head |-> lineHist, cnt |-> histCnt, ring |-> ring]

Init ==
  /\ live = {}
  /\ line = [c \in Cell |-> 0]
  /\ next = [c \in Cell |-> Null]
  /\ prev = [c \in Cell |-> Null]
  /\ lineHist = Null /\ histCnt = 0
  /\ pc = "idle" /\ new = Null
  /\ optimised \in BOOLEAN
  /\ base = 0 /\ saved = 0 /\ reset = FALSE
  /\ dump = << >> /\ fault = "none"
  /\ settled = List(<< >>)

Running == fault = "none"

Stop(why) ==
  /\ fault' = why /\ dump' = << >>
  /\ UNCHANGED <<list, pc, new, optimised, base, saved, reset, settled>>

-----------------------------------------------------------------------------
(* handle_scrollup. *)

Full_OneTooMany == histCnt > MaxHist   \* defect: > instead of ==

Full == histCnt = MaxHist

Oldest == prev[lineHist]

(* The order of the statements: of those that evict the oldest line,       *)
EvictionAfter_FreeFirst(s) ==  \* defect: the line is freed, then cut off
  CASE s = "evict" -> "free" [] s = "free" -> "cut" [] s = "cut" -> "back"

EvictionAfter(s) ==
  CASE s = "evict" -> "cut" [] s = "cut" -> "free" [] s = "free" -> "back"

(* of those that put the new line in front,                                *)
LinkAfter_HeadFirst(s) ==    \* defect: the line is published, then linked
  CASE s = "back" -> "head" [] s = "head" -> "next" [] s = "next" -> "idle"

LinkAfter(s) ==
  CASE s = "back" -> IF optimised THEN "head" ELSE "next"
    [] s = "next" -> IF optimised THEN "idle" ELSE "head"
    [] s = "head" -> IF optimised THEN "next" ELSE "idle"

(* and of all.                                                             *)
Following(s) ==
  CASE s = "copy"  -> IF Full THEN "evict" ELSE "grow"
    [] s = "grow"  -> "count"
    [] s = "count" -> "back"
    [] s \in {"evict", "cut", "free"}  -> EvictionAfter(s)
    [] s \in {"back", "next", "head"}  -> LinkAfter(s)

(* The ring when the update under way is finished.                         *)
NewRing ==
  <<new>> \o (IF settled.cnt = MaxHist
              THEN SubSeq(settled.ring, 1, Len(settled.ring) - 1)
              ELSE settled.ring)

At(s) == Running /\ pc = s

(* The statement is done; the last one returns to the main loop.           *)
Done ==
  /\ pc' = Following(pc)
  /\ dump' = << >>
  /\ UNCHANGED <<new, optimised, base, reset, fault>>
  /\ \/ /\ pc' = "idle"
        /\ saved' = saved + 1
        /\ settled' = [live |-> live', line |-> line', next |-> next', prev |-> prev',
                       head |-> lineHist', cnt |-> histCnt', ring |-> NewRing]
     \/ /\ pc' # "idle"
        /\ UNCHANGED <<settled, saved>>

(* malloc and memset; the card waits in phi_notify_scrollup.               *)
Allocate(c) ==
  /\ Running /\ pc = "idle"
  /\ saved = base /\ saved < MaxLines
  /\ c \notin live
  /\ live' = live \cup {c}
  /\ line' = [line EXCEPT ![c] = 0]
  /\ next' = [next EXCEPT ![c] = Null]
  /\ prev' = [prev EXCEPT ![c] = Null]
  /\ new' = c /\ pc' = "copy" /\ dump' = << >>
  /\ UNCHANGED <<lineHist, histCnt, optimised, base, saved, reset, fault, settled>>

(* malloc returns NULL, and main returns.                                  *)
NoMemory == Running /\ pc = "idle" /\ saved = base /\ Stop("exit")

CopyLine ==
  /\ At("copy")
  /\ line' = [line EXCEPT ![new] = FbLine(1)]
  /\ UNCHANGED <<live, next, prev, lineHist, histCnt>>
  /\ Done

(* assert(line_hist->prev), assert(line_hist->prev->prev).                 *)
AssertionsHold == Oldest # Null /\ prev[Oldest] # Null

(* new->prev = line_hist->prev->prev.                                      *)
Evict ==
  /\ At("evict") /\ AssertionsHold
  /\ prev' = [prev EXCEPT ![new] = prev[Oldest]]
  /\ UNCHANGED <<live, line, next, lineHist, histCnt>>
  /\ Done

Cut ==
  /\ At("cut")
  /\ next' = [next EXCEPT ![prev[Oldest]] = Null]
  /\ UNCHANGED <<live, line, prev, lineHist, histCnt>>
  /\ Done

Free ==
  /\ At("free")
  /\ live' = live \ {Oldest}
  /\ UNCHANGED <<line, next, prev, lineHist, histCnt>>
  /\ Done

Grow ==
  /\ At("grow")
  /\ prev' = [prev EXCEPT ![new] = IF lineHist = Null THEN new ELSE Oldest]
  /\ UNCHANGED <<live, line, next, lineHist, histCnt>>
  /\ Done

Count ==
  /\ At("count")
  /\ histCnt' = histCnt + 1
  /\ UNCHANGED <<heap, lineHist>>
  /\ Done

LinkBack_Forgotten ==        \* defect: the old newest line keeps its prev
  /\ At("back")
  /\ UNCHANGED list
  /\ Done

(* line_hist->prev = new, if there is a line.                              *)
LinkBack ==
  /\ At("back")
  /\ prev' = IF lineHist = Null THEN prev ELSE [prev EXCEPT ![lineHist] = new]
  /\ UNCHANGED <<live, line, next, lineHist, histCnt>>
  /\ Done

(* new->next = line_hist, which the optimised code has in a register.      *)
LinkNext ==
  /\ At("next")
  /\ next' = [next EXCEPT ![new] = IF optimised THEN settled.head ELSE lineHist]
  /\ UNCHANGED <<live, line, prev, lineHist, histCnt>>
  /\ Done

SetHead ==
  /\ At("head")
  /\ lineHist' = new
  /\ UNCHANGED <<heap, histCnt>>
  /\ Done

-----------------------------------------------------------------------------
(* The dump. *)

(* s is what the loops of output_hist_to_file walk over, newest first: next *)
(* leads along s to its end, prev back to line_hist.  Walkable says that   *)
(* there is such an s whenever there is a history.                         *)
Trail(s) ==
  /\ s[1] = lineHist
  /\ \A i \in 1..Len(s) : s[i] \in live
  /\ \A i \in 1..Len(s) : next[s[i]] = IF i = Len(s) THEN Null ELSE s[i + 1]
  /\ \A i \in 2..Len(s) : prev[s[i]] = s[i - 1]

Trails == {s \in UNION {[1..n -> live] : n \in 1..MaxHist} : Trail(s)}

(* The oldest line first and the newest not at all, then the frame buffer. *)
DumpText(s) ==
  [i \in 1..(Len(s) - 1 + Height) |->
     IF i < Len(s) THEN line[s[Len(s) + 1 - i]] ELSE FbLine(i - Len(s) + 1)]

DumpFails ==
  \/ Stop("exit")                      \* the file cannot be opened
  \/ lineHist = Null /\ Stop("segv")   \* cur->next

(* ^C in batch mode: dump, reset, and back to the statement interrupted.   *)
Interrupt ==
  /\ Running
  /\ \/ DumpFails
     \/ \E s \in Trails :
          /\ dump' = DumpText(s)
          /\ reset' = TRUE
          /\ UNCHANGED <<list, pc, new, optimised, base, saved, fault, settled>>

(* The shutdown notification: dump and exit.                               *)
Shutdown ==
  /\ Running /\ pc = "idle"
  /\ \/ DumpFails
     \/ \E s \in Trails :
          /\ dump' = DumpText(s) /\ fault' = "exit"
          /\ UNCHANGED <<list, pc, new, optimised, base, saved, reset, settled>>

(* term_scrollup on the card, once the notification has been answered.     *)
CardScroll ==
  /\ base < saved /\ ~reset
  /\ base' = base + 1 /\ dump' = << >>
  /\ UNCHANGED <<list, pc, new, optimised, saved, reset, fault, settled>>

Next ==
  \/ \E c \in Cell : Allocate(c)
  \/ NoMemory \/ CopyLine
  \/ Evict \/ Cut \/ Free
  \/ Grow \/ Count
  \/ LinkBack \/ LinkNext \/ SetHead
  \/ Interrupt \/ Shutdown \/ CardScroll

Spec == Init /\ [][Next]_vars

-----------------------------------------------------------------------------
(* Properties. *)

(* Every variable has its type.                                            *)
Pointer == Cell \cup {Null}
ListType ==
  [live : SUBSET Cell, line : [Cell -> Nat], next : [Cell -> Pointer],
   prev : [Cell -> Pointer], head : Pointer, cnt : 0..MaxHist, ring : Seq(Cell)]

TypeOK ==
  /\ List(settled.ring) \in ListType /\ settled \in ListType
  /\ pc \in {"idle", "copy", "evict", "cut", "free",
             "grow", "count", "back", "next", "head"}
  /\ new \in Pointer /\ optimised \in BOOLEAN /\ reset \in BOOLEAN
  /\ base \in Nat /\ saved \in {base, base + 1}
  /\ dump \in Seq(Nat)
  /\ fault \in {"none", "segv", "exit"}

(* Between the two stores that gcc has exchanged the new line is the list. *)
Severed == optimised /\ pc = "next"

(* What the handler finds: the ring without the oldest line once that is   *)
(* cut off, and with the new one in front once line_hist points to it.     *)
CutOff == pc \in {"free", "back", "head", "next"} /\ settled.cnt = MaxHist
Reach ==
  LET n == Len(settled.ring) IN
  IF Severed THEN <<new>>
  ELSE IF CutOff THEN SubSeq(settled.ring, 1, n - 1) ELSE settled.ring

(* At every statement the list can be walked: from line_hist next runs     *)
(* along the lines of Reach to NULL and prev runs back, and none of them   *)
(* has been freed.  So a dump reads no freed line and comes to an end, and *)
(* the assertions before the eviction hold.                                *)
Walkable ==
  /\ IF Reach = << >> THEN lineHist = Null ELSE Trail(Reach)
  /\ pc = "evict" => AssertionsHold

(* A dump, whatever it interrupts, is in order and ends with the frame     *)
(* buffer; of the lines philix held before the update it lacks the newest  *)
(* only, and the oldest once that is cut off - unless it comes between the *)
(* two exchanged stores, when it holds no history at all.                  *)
DumpNearlyWhole ==
  dump # << >> =>
    LET n == Len(settled.ring)
        lines == {dump[i] : i \in DOMAIN dump}
    IN
    /\ \A i \in 1..(Len(dump) - 1) : dump[i] <= dump[i + 1]
    /\ dump[Len(dump)] = FbLine(Height)
    /\ ~Severed => \A i \in 2..n :
                     settled.line[settled.ring[i]] \in lines \/ (CutOff /\ i = n)
    /\ Severed => Len(dump) = Height

(* The statements together are the one step of LineHistory: to all that    *)
(* looks at the list between two updates, handle_scrollup is atomic.       *)
Atomic == INSTANCE LineHistory WITH
  live <- settled.live, line <- settled.line, next <- settled.next,
  prev <- settled.prev, lineHist <- settled.head, histCnt <- settled.cnt,
  chain <- settled.ring,
  dump <- << >>,
  winPtr <- Null, lineIdx <- 0, astray <- FALSE,
  screen <- [r \in 1..Height |-> {}]
AtomicSpec == Atomic!Spec

=============================================================================
