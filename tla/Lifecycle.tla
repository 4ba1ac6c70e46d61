------------------------------ MODULE Lifecycle ------------------------------
(***************************************************************************)
(* The philix process from main to its end, against the card's driver.     *)
(*                                                                         *)
(* Signals make a process a stack: a handler runs on top of what it        *)
(* interrupts, the dump on top of its caller, and exit() replaces all of   *)
(* it by the exit handler.  stack is that stack, a frame the name of what  *)
(* it does next.  The main loop is its effects on this level: what the     *)
(* registers carry is in Handshake, the history in LineHistory.            *)
(*                                                                         *)
(* signal() masks a signal in its handler, until the handler returns;      *)
(* system() ignores SIGINT in the caller, not in the command.              *)
(***************************************************************************)
EXTENDS Naturals, Sequences, SequencesExt

CONSTANTS
  Batch,    \* the modes considered: TRUE is philix -n
  Newline,  \* whether the driver ends its state file with a newline
  MaxInt    \* bound: SIGINTs

ASSUME ModesAssumption == Batch \subseteq BOOLEAN /\ Newline \subseteq BOOLEAN
ASSUME IntAssumption   == MaxInt \in Nat

VARIABLES
  opts,       \* nocurses, dumponexit; newline is the driver's
  stack,      \* the frames, main's first
  installed,  \* handlers: of signals and of exit
  masked,     \* signals not delivered
  end,        \* "alive", or how the process ended
  card,       \* "busy", "ready", "resetting", or running our kernel: "ours"
  buffered,   \* what the state file's stream answers from its buffer
  mapped,     \* the maps of the card's memory that succeeded
  hist,       \* something has scrolled: line_hist # NULL
  log,        \* the dump file: "none", "part", "live" or "dead" card
  lost,       \* the last micctrl --reset did not reset the card
  refused,    \* the card was ready, and the boot string did not reach it
  returned,   \* a handler has returned, or the exit handler has
  ints        \* SIGINTs so far

process  == <<stack, installed, masked, end>>
device   == <<card, lost, refused>>
outside  == <<opts, device, buffered, mapped, hist, log, returned, ints>>
vars     == <<process, outside>>

Signals  == {"INT", "SEGV"}
InSystem == {"boot.sys", "int.sys", "segv.sys", "exit.sys"}
Frames   == {"options", "map", "stat", "open", "read", "wait", "write",
             "atexit", "sigint", "sigsegv", "sbox", "screen", "loop", "leave",
             "dump", "walk", "int", "segv", "exit", "last"} \union InSystem

Init ==
  /\ opts \in [nocurses: Batch, dumponexit: BOOLEAN, newline: Newline]
  /\ stack = <<"options">> /\ installed = {} /\ masked = {} /\ end = "alive"
  /\ card \in {"busy", "ready"} /\ buffered = "none" /\ lost = FALSE /\ refused = FALSE
  /\ mapped = {} /\ hist = FALSE /\ log = "none" /\ returned = FALSE
  /\ ints = 0

----------------------------------------------------------------------------
(* Frames.                                                                 *)

At(f) == stack # << >> /\ Last(stack) = f

Goto(f)      == stack' = Append(Front(stack), f)
Call(f, ret) == stack' = Front(stack) \o <<ret, f>>
Return       == stack' = Front(stack)

Dies(how) == stack' = << >> /\ end' = how

(* exit(): the exit handler runs once.  An exit() from a signal handler    *)
(* that interrupts it finds no handler left.                               *)
Exit ==
  /\ IF "exit" \in installed
       THEN stack' = <<"exit">> /\ installed' = installed \ {"exit"} /\ end' = end
       ELSE Dies(IF stack[1] \in {"exit", "exit.sys", "last"} THEN "nested" ELSE "exit")
           /\ installed' = installed
  /\ UNCHANGED masked

(* A step from one frame to the next, or a way out, of the process alone.  *)
Step(f, g) == At(f) /\ Goto(g) /\ UNCHANGED <<installed, masked, end>>

Fails(f) == At(f) /\ Exit

(* A SIGSEGV: the faulting instruction is still the next one.              *)
Segfault ==
  IF "SEGV" \in installed \ masked
    THEN /\ stack' = Append(stack, "segv") /\ masked' = masked \union {"SEGV"}
         /\ UNCHANGED <<installed, end>>
    ELSE Dies("segv") /\ UNCHANGED <<installed, masked>>

----------------------------------------------------------------------------
(* The driver.                                                             *)

CardReady ==
  /\ card = "resetting" /\ card' = "ready"
  /\ UNCHANGED <<opts, process, lost, refused, buffered, mapped, hist, log, returned, ints>>

(* reset_phi: micctrl --reset, whose outcome nobody looks at.              *)
Micctrl == \/ card' = "resetting" /\ lost' = FALSE
           \/ card' = card /\ lost' = TRUE

AfterSystem ==
  \/ /\ At("boot.sys") /\ Goto("wait") /\ UNCHANGED <<masked, returned>>
  \/ /\ At("exit.sys") /\ Goto("last") /\ returned' = TRUE /\ UNCHANGED masked
  \/ /\ At("int.sys") /\ Return /\ masked' = masked \ {"INT"} /\ returned' = TRUE
  \/ /\ At("segv.sys") /\ Return /\ masked' = masked \ {"SEGV"} /\ returned' = TRUE

ResetPhi ==
  /\ AfterSystem /\ Micctrl
  /\ UNCHANGED <<opts, installed, end, refused, buffered, mapped, hist, log, ints>>

----------------------------------------------------------------------------
(* main, boot_phi, console_init.                                           *)

Options ==
  /\ Step("options", "map") \/ Fails("options")
  /\ UNCHANGED outside

(* map_phi: main goes on without the card's memory if it fails.            *)
MapPhi ==
  /\ Step("map", "stat") /\ mapped' \in {{}, {"gddr"}}
  /\ UNCHANGED <<opts, device, buffered, hist, log, returned, ints>>

StatImages ==
  /\ Step("stat", "open") \/ Fails("stat")
  /\ UNCHANGED outside

(* A NULL from fopen is not noticed until fscanf uses it.                  *)
OpenState ==
  /\ Step("open", "read") \/ (At("open") /\ Segfault)
  /\ UNCHANGED outside

ReadState ==
  /\ Step("read", IF card = "ready" THEN "write" ELSE "boot.sys")
  /\ UNCHANGED outside

(* Does not wait for the reset to be over.                                 *)
RereadState_Once == Step("wait", "write") /\ UNCHANGED outside

(* Reads on from where the last read ended.                                *)
RereadState_NoRewind == At("wait") /\ UNCHANGED <<process, outside>>

(* rewind and fscanf.  The first rewind repositions the stream, so its     *)
(* place in the file is known from then on: a later one stays within the   *)
(* buffer, unless the last read has hit the end of the file.               *)
RereadState ==
  LET state == IF buffered = "none" THEN card ELSE buffered
  IN /\ Step("wait", IF state = "ready" THEN "write" ELSE "wait")
     /\ buffered' = IF opts.newline THEN state ELSE "none"
     /\ UNCHANGED <<opts, device, mapped, hist, log, returned, ints>>

(* fclose hands the boot string to the driver, which wants a ready card.   *)
(* The string may be refused, or not be written at all: fwrite is tested   *)
(* for a negative count, which it never returns, and fclose for nothing.   *)
WriteBoot ==
  /\ Step("write", "atexit")
  /\ \/ card = "ready" /\ card' = "ours" /\ UNCHANGED refused
     \/ card = "ready" /\ refused' = TRUE /\ UNCHANGED card
     \/ card # "ready" /\ UNCHANGED <<card, refused>>
  /\ UNCHANGED <<opts, lost, buffered, mapped, hist, log, returned, ints>>

Install(f, what, g) ==
  /\ At(f) /\ Goto(g) /\ installed' = installed \union {what}
  /\ UNCHANGED <<masked, end, outside>>

(* No exit handler.                                                        *)
AtExit_Missing == Step("atexit", "sigint") /\ UNCHANGED outside

AtExit      == Install("atexit", "exit", "sigint")
SignalInt   == Install("sigint", "INT", "sigsegv")
SignalSegv  == Install("sigsegv", "SEGV", "sbox")
ConsoleInit == AtExit \/ SignalInt \/ SignalSegv

MapSbox ==
  /\ Step("sbox", IF opts.nocurses THEN "loop" ELSE "screen")
  /\ mapped' \in {mapped, mapped \union {"sbox"}}
  /\ UNCHANGED <<opts, device, buffered, hist, log, returned, ints>>

(* check_terminal_size and setup_screen.                                   *)
SetupScreen ==
  /\ Step("screen", "loop") \/ Fails("screen")
  /\ UNCHANGED outside

Boot == Options \/ MapPhi \/ StatImages \/ OpenState \/ ReadState \/ RereadState
          \/ WriteBoot \/ ConsoleInit \/ MapSbox \/ SetupScreen

----------------------------------------------------------------------------
(* The main loops.  Everything but the fault follows a read of a register. *)

Loops == At("loop") /\ "gddr" \in mapped

LoopFaults ==
  /\ At("loop") /\ "gddr" \notin mapped /\ Segfault
  /\ UNCHANGED outside

(* handle_scrollup.                                                        *)
LineSaved ==
  /\ Loops /\ hist' = TRUE
  /\ UNCHANGED <<opts, process, device, buffered, mapped, log, returned, ints>>

(* The loop returns -1, and main returns.                                  *)
LoopFails ==
  /\ Loops /\ Exit
  /\ UNCHANGED outside

(* A scroll key without a history, or a line update for no line: assert.   *)
LoopAborts ==
  /\ Loops /\ ~opts.nocurses /\ Dies("abort")
  /\ UNCHANGED <<installed, masked, outside>>

(* Resets the card before it dumps its output.                             *)
LoopShutdown_ResetFirst ==
  /\ Loops /\ Call("dump", "leave") /\ Micctrl /\ UNCHANGED <<installed, masked, end>>
  /\ UNCHANGED <<opts, refused, buffered, mapped, hist, log, returned, ints>>

(* TYPE_CONSOLE_SHUTDOWN.                                                  *)
LoopShutdown ==
  /\ Loops /\ UNCHANGED <<installed, masked, end>>
  /\ IF opts.nocurses \/ opts.dumponexit THEN Call("dump", "leave") ELSE Goto("leave")
  /\ UNCHANGED outside

(* The keys 'p' and 'b' write the SBOX.                                    *)
KeyInterrupt ==
  /\ Loops /\ ~opts.nocurses /\ "sbox" \notin mapped /\ Segfault
  /\ UNCHANGED outside

KeyDump ==
  /\ Loops /\ ~opts.nocurses /\ Call("dump", "loop") /\ UNCHANGED <<installed, masked, end>>
  /\ UNCHANGED outside

MainLoop == LineSaved \/ LoopFails \/ LoopAborts \/ LoopShutdown \/ KeyInterrupt \/ KeyDump

----------------------------------------------------------------------------
(* dump_console_to_file.                                                   *)

DumpOpen ==
  /\ \/ Step("dump", "walk") /\ log' = "part"
     \/ Fails("dump") /\ log' = log
  /\ UNCHANGED <<opts, device, buffered, mapped, hist, returned, ints>>

DumpWrite ==
  /\ At("walk") /\ hist /\ Return /\ UNCHANGED <<installed, masked, end>>
  /\ log' = IF card = "ours" THEN "live" ELSE "dead"
  /\ UNCHANGED <<opts, device, buffered, mapped, hist, returned, ints>>

(* Without a history it reads cur->next of NULL.                           *)
DumpFaults ==
  /\ At("walk") /\ ~hist /\ Segfault
  /\ UNCHANGED outside

----------------------------------------------------------------------------
(* Signals and exit.                                                       *)

Caught(sig) == sig \in installed

(* Handlers interrupt each other.                                          *)
Interrupt_Unmasked ==
  /\ ints < MaxInt /\ ints' = ints + 1
  /\ stack # << >> /\ Last(stack) \notin InSystem /\ Caught("INT")
  /\ stack' = Append(stack, "int")
  /\ UNCHANGED <<opts, installed, masked, end, device, buffered, mapped, hist, log, returned>>

(* SIGINT, at any point but in system().                                   *)
Interrupt ==
  /\ ints < MaxInt /\ ints' = ints + 1
  /\ stack # << >> /\ Last(stack) \notin InSystem /\ "INT" \notin masked
  /\ IF Caught("INT")
       THEN stack' = Append(stack, "int") /\ masked' = masked \union {"INT"} /\ end' = end
       ELSE Dies("sigint") /\ masked' = masked
  /\ UNCHANGED <<opts, installed, device, buffered, mapped, hist, log, returned>>

(* ^C during system() reaches micctrl, which inherits the mask.            *)
InterruptMicctrl ==
  /\ ints < MaxInt /\ ints' = ints + 1
  /\ AfterSystem /\ "INT" \notin masked /\ lost' = TRUE
  /\ UNCHANGED <<opts, installed, end, card, refused, buffered, mapped, hist, log>>

(* The handler returns.                                                    *)
CursesSigint_Returns ==
  /\ At("int") /\ ~opts.nocurses /\ Return /\ masked' = masked \ {"INT"}
  /\ UNCHANGED <<installed, end>>

CursesSigint  == At("int") /\ ~opts.nocurses /\ Exit
CursesSigsegv == At("segv") /\ ~opts.nocurses /\ Exit

(* Dumps and does not reset.                                               *)
NocursesSigint_DumpOnly ==
  /\ At("int") /\ opts.nocurses /\ Goto("dump") /\ masked' = masked \ {"INT"}
  /\ UNCHANGED <<installed, end>>

NocursesSigint ==
  At("int") /\ opts.nocurses /\ Call("dump", "int.sys") /\ UNCHANGED <<installed, masked, end>>

NocursesSigsegv == opts.nocurses /\ Step("segv", "segv.sys")

Handler ==
  /\ CursesSigint \/ NocursesSigint \/ CursesSigsegv \/ NocursesSigsegv
  /\ UNCHANGED outside

(* exit(0) after the shutdown; the exit handler before and after its reset *)
Leaving ==
  /\ \/ Fails("leave")
     \/ Step("exit", "exit.sys")
     \/ At("last") /\ Dies("exit") /\ UNCHANGED <<installed, masked>>
  /\ UNCHANGED outside

----------------------------------------------------------------------------
(* What philix does of its own accord, and what happens to it.             *)
Process == Boot \/ ResetPhi \/ LoopFaults \/ DumpOpen \/ DumpWrite \/ DumpFaults
             \/ Handler \/ Leaving

Next == Process \/ CardReady \/ MainLoop \/ Interrupt \/ InterruptMicctrl

Spec     == Init /\ [][Next]_vars
FairSpec == Spec /\ WF_vars(Process) /\ WF_vars(CardReady)

----------------------------------------------------------------------------
TypeOK ==
  /\ opts \in [nocurses: BOOLEAN, dumponexit: BOOLEAN, newline: BOOLEAN]
  /\ stack \in Seq(Frames) /\ Len(stack) <= 5
  /\ installed \subseteq Signals \union {"exit"} /\ masked \subseteq Signals
  /\ end \in {"alive", "exit", "nested", "sigint", "segv", "abort"}
  /\ (end = "alive") = (stack # << >>)
  /\ card \in {"busy", "ready", "resetting", "ours"}
  /\ buffered \in {"none", "busy", "ready", "resetting"}
  /\ mapped \subseteq {"gddr", "sbox"} /\ log \in {"none", "part", "live", "dead"}
  /\ hist \in BOOLEAN /\ lost \in BOOLEAN /\ refused \in BOOLEAN
  /\ returned \in BOOLEAN
  /\ ints \in 0..MaxInt

(* The boot string is never written to a card that is not ready, whether   *)
(* or not it had to be reset first and however often its state was reread: *)
(* when boot_phi returns the card runs the kernel, or it is ready and has  *)
(* refused the string, which philix does not notice.                       *)
ConsoleHasCard ==
  stack # << >> /\ stack[1] = "atexit" =>
    card = "ours" \/ (card = "ready" /\ refused)

(* atexit(handle_exit): a process that ends by exit(), whoever called it   *)
(* and in whatever it interrupted, leaves the card reset, unless micctrl   *)
(* has failed or an exit() has interrupted the exit handler.               *)
ResetOnExit == end = "exit" /\ card = "ours" => lost

(* If the card was booted, a dump in curses mode never shows what a reset  *)
(* has left of its output, whatever interrupts what; and in batch mode the *)
(* interrupt handler, where it is the first to reset the card, has dumped  *)
(* the output of the live card before.                                     *)
LogOfLiveCard ==
  ~refused =>
    /\ log = "dead" => opts.nocurses /\ returned
    /\ At("int.sys") /\ ~returned => log = "live"

(* A caught signal ends philix in curses mode, with every other signal     *)
(* arriving meanwhile.                                                     *)
HandlerEnds ==
  ~opts.nocurses /\ (At("int") \/ At("segv")) ~> end # "alive"

(* In batch mode an interrupt is answered by a reset, even in the middle   *)
(* of a dump or of the exit.                                               *)
BatchInterruptResets ==
  opts.nocurses /\ hist /\ At("int") ~> card # "ours" \/ lost \/ end # "alive"

(* Once reset, a card is booted, if every read of the state file reaches   *)
(* the driver.                                                             *)
BootFinishesUnbuffered ==
  ~opts.newline /\ ~lost /\ At("wait") ~> At("atexit") \/ end # "alive"

----------------------------------------------------------------------------
(* What the documentation and the comments say, and the runs refute.       *)

(* boot_phi's loop rereads the state until the reset is over, to "initiate *)
(* a boot on the card".                                                    *)
BootFinishes == ~lost /\ At("wait") ~> At("atexit") \/ end # "alive"

(* README: phi_send_cons_shutdown tells philix "that it can disconnect".   *)
ShutdownExits == (\E i \in DOMAIN stack : stack[i] = "leave") ~> end # "alive"

=============================================================================
