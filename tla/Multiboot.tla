------------------------------ MODULE Multiboot ------------------------------
(***************************************************************************)
(* The table of modules that inky_mbgen compiles into the boot loader from *)
(* a menu file, and the loader's search in it.                             *)
(*                                                                         *)
(* A path or an argument string is a sequence of tokens: "/" and words.    *)
(***************************************************************************)
EXTENDS Naturals, Sequences, SequencesExt

CONSTANT Wrap  \* 2^32: unsigned int and uint32_t hold less

ASSUME WrapAssumption == Wrap \in Nat \ {0}

U32(n) == n % Wrap

(* A line of the menu: its command, the image's path, where the image      *)
(* stands in the ramdisk, and arguments.                                   *)
Named(menu, cmd) == SelectSeq(menu, LAMBDA line : line.cmd = cmd)

NoKernel == [cmd |-> "kernel", image |-> <<"(null)">>, args |-> << >>,
             offset |-> 0, length |-> 0]

(* A later kernel line replaces an earlier one.                            *)
KernelLine(menu) ==
  LET kernels == Named(menu, "kernel")
  IN  IF kernels = << >> THEN NoKernel ELSE Last(kernels)

ModInfo(line) ==
  [start  |-> U32(line.offset),
   end    |-> U32(line.offset + line.length),
   string |-> line.image \o <<" ">> \o line.args]

(* The kernel is the first entry, the modules follow in the menu's order.  *)
ModTable(menu) ==
  LET lines == <<KernelLine(menu)>> \o Named(menu, "module")
  IN  [i \in DOMAIN lines |-> ModInfo(lines[i])]

----------------------------------------------------------------------------
(* The search.                                                             *)

BaseName_First(string) ==     \* defect: what follows the first slash
  LET slashes == {i \in 2..Len(string) : string[i] = "/"}
  IN  IF slashes = {} THEN string
      ELSE SubSeq(string, Min(slashes) + 1, Len(string))

(* What follows the last slash.  strrchr stops before the first character, *)
(* so a slash there is not found; one in the arguments is.                 *)
BaseName(string) ==
  LET slashes == {i \in 2..Len(string) : string[i] = "/"}
  IN  IF slashes = {} THEN string
      ELSE SubSeq(string, Max(slashes) + 1, Len(string))

(* strncmp looks at as many characters as the name sought has, so a longer *)
(* word that begins with it will do.                                       *)
Begins == {<<"cpu", "cpu">>, <<"cpufreq", "cpu">>, <<"kernel", "kernel">>}

Matches(string, name) ==
  BaseName(string) # << >> /\ <<Head(BaseName(string)), name>> \in Begins

FindModule_PastTheEnd(mods, name) ==     \* defect: one entry too far
  SelectInSeq(mods, LAMBDA mod : Matches(mod.string, name)) + 1

(* The index of the first module that matches, 0 for none.                 *)
FindModule(mods, name) ==
  SelectInSeq(mods, LAMBDA mod : Matches(mod.string, name))
==============================================================================
