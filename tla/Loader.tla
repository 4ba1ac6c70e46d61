------------------------------- MODULE Loader -------------------------------
(***************************************************************************)
(* The boot loader inky, from startup in long mode to the jump into the    *)
(* kernel (inky/loader.c, elf64.c, lib.c).  It runs alone.  What can go    *)
(* wrong is where things stand: the card's firmware has put the loader,    *)
(* the command line and the ramdisk (the kernel's ELF file, and more)      *)
(* somewhere, the loader copies them about by absolute addresses, and      *)
(* nothing but an assertion in memcpy looks at overlaps.                   *)
(*                                                                         *)
(* Memory is a function from addresses to what stands there; the content   *)
(* <<"image", k>> is the k-th cell of the ramdisk.                         *)
(***************************************************************************)
EXTENDS Integers, Sequences, SequencesExt, Multiboot

CONSTANTS
  Page,        \* 4 KB
  Meg,         \* 1 MB
  KernelLoad,  \* 16 MB: where linear_alloc begins
  StatusPort,  \* 0x6a6a6a: print_status writes there, memory or not
  Top,         \* end of the card's memory
  Boots        \* the ways the firmware may start the loader, see Boot

(* One way: is the magic number right, are the boot parameters below 4 GB   *)
(* (boot.S, which comes from 32-bit mode, always passes them so);           *)
(* the loader, its parameters included, from first up to end; command line *)
(* and ramdisk; the table it was built with; the ELF files of the modules,  *)
(* in the order of the table (headers is where the program headers end).   *)
Boot == [magic : BOOLEAN, low : BOOLEAN, first : Nat, end : Nat,
         cmd : Nat, cmdSize : Nat, ramdisk : Nat, size : Nat,
         table : Seq([start : Nat, end : Nat, string : Seq(STRING)]),
         elf : Seq([valid : BOOLEAN, size : Nat, headers : Nat \ {0},
                    relocs : Int, entry : Nat,
                    phdrs : Seq([type : STRING, offset : Nat, vaddr : Nat,
                                 filesz : Nat, memsz : Nat])])]

Apart(from1, len1, from2, len2) ==
  from1 + len1 <= from2 \/ from2 + len2 <= from1

(* At the start nothing overlaps, and there is room to move the ramdisk.   *)
Laid(b) ==
  /\ b.first <= b.end
  /\ Apart(b.cmd, b.cmdSize, b.first, b.end - b.first)
  /\ Apart(b.ramdisk, b.size, b.first, b.end - b.first)
  /\ Apart(b.ramdisk, b.size, b.cmd, b.cmdSize)
  /\ b.cmd + b.cmdSize <= Top /\ b.ramdisk + 2 * b.size + Page <= Top

ASSUME SizesAssumption ==
  /\ {Page, Meg} \subseteq Nat \ {0} /\ {KernelLoad, StatusPort, Top} \subseteq Nat
  /\ StatusPort < KernelLoad /\ KernelLoad < Top /\ Top <= Wrap
ASSUME BootsAssumption ==
  \A b \in Boots : b \in Boot /\ Laid(b) /\ Len(b.elf) = Len(b.table)

VARIABLES
  boot,      \* how the loader was started
  mem,       \* the card's memory
  pc,        \* what the loader does next
  stop,      \* why it has stopped
  cmdline,   \* bp->cmdline_ptr
  image,     \* mb_img_start
  orig,      \* mb_img_orig
  mods,      \* the multiboot module table
  kernel,    \* index of the module to load, 0 before it is known
  alloc,     \* phys_alloc_start
  seg,       \* the program header elf64_load looks at
  entry,     \* kernel_entry
  doorbell   \* the host has not yet cleared what elf64.c's print_status set

vars == <<boot, mem, pc, stop, cmdline, image, orig, mods, kernel, alloc, seg,
          entry, doorbell>>

Stops == {"none", "E0", "Ea", "E3", "E5", "assert", "spin", "lost"}

Addresses == 0 .. Top - 1

(* The code masks bits: its sizes are powers of two.                      *)
ROUND_UP(n, size) == ((n + size - 1) \div size) * size

----------------------------------------------------------------------------
(* Memory.                                                                 *)

Area(from, len) == from .. from + len - 1

(* What stands where when the loader starts.                               *)
Fresh(b) ==
  [a \in Addresses |->
     IF a \in Area(b.first, b.end - b.first) THEN <<"loader", a>>
     ELSE IF a \in Area(b.cmd, b.cmdSize)    THEN <<"cmd", a - b.cmd>>
     ELSE IF a \in Area(b.ramdisk, b.size)   THEN <<"image", a - b.ramdisk>>
     ELSE <<"other", a>>]

(* lib.c asserts this.                                                     *)
NoOverlap(dst, src, len) ==
  \/ src < dst /\ src + len <= dst
  \/ dst < src /\ dst + len <= src

Memcpy(m, dst, src, len) ==
  [a \in DOMAIN m |-> IF a \in Area(dst, len) THEN m[src + (a - dst)] ELSE m[a]]

Memset(m, s, c, n) == [a \in DOMAIN m |-> IF a \in Area(s, n) THEN c ELSE m[a]]

Status(m) == Memset(m, StatusPort, <<"status", 0>>, 1)

Holds(m, at, what, from, len) ==
  \A k \in 0 .. len - 1 : m[at + k] = <<what, from + k>>

LoaderWhole(m) == \A a \in boot.first .. boot.end - 1 : m[a] = <<"loader", a>>

(* Control.  A loader that has overwritten itself may do anything.         *)
Halt(why) == pc' = "halt" /\ stop' = why

Write(m, next) ==
  /\ mem' = m
  /\ IF LoaderWhole(m) THEN pc' = next /\ stop' = stop ELSE Halt("lost")

(* A failed assertion loops for ever.                                      *)
Copy(dst, src, len, next) ==
  IF NoOverlap(dst, src, len) THEN Write(Memcpy(mem, dst, src, len), next)
                              ELSE Halt("assert") /\ mem' = mem

----------------------------------------------------------------------------
(* loader(), up to the search for the kernel.                              *)

Init ==
  /\ boot \in Boots
  /\ mem = Fresh(boot)
  /\ pc = "check" /\ stop = "none"
  /\ cmdline = boot.cmd /\ image = 0 /\ orig = boot.ramdisk
  /\ mods = << >> /\ kernel = 0 /\ alloc = 0 /\ seg = 0 /\ entry = 0
  /\ doorbell \in BOOLEAN

Check ==
  /\ pc = "check"
  /\ IF ~boot.magic THEN Halt("E0") /\ mem' = Status(mem)
     ELSE IF ~boot.low THEN Halt("Ea") /\ mem' = Status(mem)
     ELSE Write(Status(mem), "cmdline")
  /\ mods' = boot.table
  /\ UNCHANGED <<boot, cmdline, image, orig, kernel, alloc, seg, entry, doorbell>>

CopyCmdline ==
  /\ pc = "cmdline"
  /\ LET dst == ROUND_UP(boot.end, Page)
     IN  /\ Copy(dst, cmdline, boot.cmdSize, "away")
         /\ cmdline' = U32(dst)
         /\ image' = ROUND_UP(dst + boot.cmdSize, Meg)
  /\ UNCHANGED <<boot, orig, mods, kernel, alloc, seg, entry, doorbell>>

(* A ramdisk that its copy might overlap is first moved up.                *)
MoveAway ==
  /\ pc = "away"
  /\ IF image + boot.size > boot.ramdisk
       THEN LET up == boot.ramdisk + boot.size + Page
            IN  /\ orig' = up
                /\ Write(Status(Memcpy(mem, up, boot.ramdisk, boot.size)), "place")
       ELSE orig' = boot.ramdisk /\ Write(mem, "place")
  /\ UNCHANGED <<boot, cmdline, image, mods, kernel, alloc, seg, entry, doorbell>>

PlaceImage ==
  /\ pc = "place"
  /\ Copy(image, orig, boot.size, "modules")
  /\ UNCHANGED <<boot, cmdline, image, orig, mods, kernel, alloc, seg, entry, doorbell>>

AdjustModules_FirstOnly ==     \* defect: mod is not advanced
  /\ pc = "modules"
  /\ mods' = [mods EXCEPT ![1].start = U32(@ + image), ![1].end = U32(@ + image)]
  /\ Write(Status(mem), "find")
  /\ UNCHANGED <<boot, cmdline, image, orig, kernel, alloc, seg, entry, doorbell>>

AdjustModules ==
  /\ pc = "modules"
  /\ mods' = [i \in DOMAIN mods |->
                [mods[i] EXCEPT !.start = U32(@ + image), !.end = U32(@ + image)]]
  /\ Write(Status(mem), "find")
  /\ UNCHANGED <<boot, cmdline, image, orig, kernel, alloc, seg, entry, doorbell>>

FindKernel ==
  /\ pc = "find"
  /\ LET cpu   == FindModule(mods, "cpu")
         found == IF cpu # 0 THEN cpu ELSE FindModule(mods, "kernel")
     IN  /\ kernel' = found
         /\ IF found = 0 THEN Halt("E3") /\ mem' = Status(mem)
                         ELSE Write(Status(mem), "header")
  /\ alloc' = KernelLoad
  /\ UNCHANGED <<boot, cmdline, image, orig, mods, seg, entry, doorbell>>

----------------------------------------------------------------------------
(* elf64_load() and the rest of loader().                                  *)

File     == mods[kernel]
FileSize == U32(File.end - File.start)
Elf      == boot.elf[kernel]

(* The file's headers, in its first cells and its last, are read anew for  *)
(* every segment.  Nothing can be said of what is read once one has been   *)
(* overwritten.  (The file may be shorter or longer than the menu says:    *)
(* k1om.cfg gives a fixed length.)                                         *)
FirstCell   == boot.table[kernel].start
HeadersRead ==
  /\ Holds(mem, File.start, "image", FirstCell, Elf.headers)
  /\ Holds(mem, File.start + Elf.size - 1, "image", FirstCell + Elf.size - 1, 1)

(* The program headers must end within the length that the menu gives.     *)
CheckHeader ==
  /\ pc = "header"
  /\ IF FileSize = 0 \/ (HeadersRead /\ (~Elf.valid \/ Elf.headers > FileSize))
       THEN Halt("E5")
     ELSE IF ~HeadersRead THEN Halt("lost")
     ELSE pc' = "segment" /\ stop' = stop
  /\ seg' = 1
  /\ UNCHANGED <<boot, mem, cmdline, image, orig, mods, kernel, alloc, entry, doorbell>>

(* linear_alloc: the next free pages, whatever the address asked for.      *)
Pages(size) == ((size + Page - 1) \div Page) * Page

Loaded(p) ==
  Memset(Memcpy(mem, alloc, File.start + p.offset, p.filesz),
         alloc + p.filesz, <<"zero", 0>>, p.memsz - p.filesz)

(* assert(p->p_vaddr != 0), assert(tls_base == 0) of a TLS segment.          *)
TlsFits(phdrs, i) ==
  phdrs[i].type = "TLS" =>
    phdrs[i].vaddr # 0 /\ \A j \in 1 .. i - 1 : phdrs[j].type # "TLS"

LoadSegment ==
  /\ pc = "segment" /\ HeadersRead /\ seg <= Len(Elf.phdrs)
  /\ LET p == Elf.phdrs[seg]
     IN  IF p.type = "LOAD"
           THEN /\ IF NoOverlap(alloc, File.start + p.offset, p.filesz)
                     THEN Write(Loaded(p), "relocate")
                     ELSE Halt("assert") /\ mem' = mem
                /\ alloc' = alloc + Pages(p.memsz)
                /\ seg' = seg
           ELSE /\ IF TlsFits(Elf.phdrs, seg)
                     THEN seg' = seg + 1 /\ UNCHANGED <<pc, stop>>
                     ELSE Halt("assert") /\ seg' = seg
                /\ UNCHANGED <<mem, alloc>>
  /\ UNCHANGED <<boot, cmdline, image, orig, mods, kernel, entry, doorbell>>

(* elf64.c's print_status waits for the host to clear a doorbell and sets  *)
(* it: a call for the start and one for every relocation.                  *)
Spins == doorbell \/ Elf.relocs > 0

(* elf64_relocate, for a file with relocations and a symbol table (relocs  *)
(* is -1 without).  philix does not know the doorbell: the second call     *)
(* never ends, and no relocation is ever applied.                          *)
Relocate ==
  /\ pc = "relocate"
  /\ IF ~HeadersRead THEN Halt("lost") /\ UNCHANGED <<seg, doorbell>>
     ELSE IF Elf.relocs < 0
       THEN pc' = "segment" /\ stop' = stop /\ seg' = seg + 1 /\ UNCHANGED doorbell
     ELSE IF Spins
       THEN Halt("spin") /\ seg' = seg /\ doorbell' = TRUE
       ELSE pc' = "segment" /\ stop' = stop /\ seg' = seg + 1 /\ doorbell' = TRUE
  /\ UNCHANGED <<boot, mem, cmdline, image, orig, mods, kernel, alloc, entry>>

(* elf_virtual_base64: the lowest address of a segment; 0 counts as unset. *)
VirtualBase_Last(phdrs) ==     \* defect: the last segment's address
  LET low[i \in 0 .. Len(phdrs)] ==
        IF i = 0 THEN 0
        ELSE IF phdrs[i].type = "LOAD" THEN phdrs[i].vaddr ELSE low[i - 1]
  IN  low[Len(phdrs)]

VirtualBase(phdrs) ==
  LET low[i \in 0 .. Len(phdrs)] ==
        IF i = 0 THEN 0
        ELSE IF /\ phdrs[i].type = "LOAD"
                /\ low[i - 1] = 0 \/ phdrs[i].vaddr < low[i - 1]
          THEN phdrs[i].vaddr
          ELSE low[i - 1]
  IN  low[Len(phdrs)]

(* loader() tells the host when it finds no relocations (N1) or no dynamic *)
(* symbols (N2).                                                           *)
Finish ==
  /\ pc = "segment"
  /\ IF ~HeadersRead THEN Halt("lost") /\ UNCHANGED <<mem, entry>>
     ELSE /\ seg > Len(Elf.phdrs)
          /\ entry' = Elf.entry - VirtualBase(Elf.phdrs) + KernelLoad
          /\ \E told \in {mem, Status(mem)} : Write(told, "kernel")
  /\ UNCHANGED <<boot, cmdline, image, orig, mods, kernel, alloc, seg, doorbell>>

----------------------------------------------------------------------------
Next ==
  \/ Check \/ CopyCmdline \/ MoveAway \/ PlaceImage \/ AdjustModules \/ FindKernel
  \/ CheckHeader \/ LoadSegment \/ Relocate \/ Finish

Spec     == Init /\ [][Next]_vars
FairSpec == Spec /\ WF_vars(Next)

----------------------------------------------------------------------------
(* Properties.                                                             *)

(* The layouts that something is promised for.  The ramdisk does not begin *)
(* below the command line's copy, its own copy ends below the kernel, and  *)
(* the status byte, which print_status writes at a fixed address, hits     *)
(* nothing that is still needed.                                           *)
Target == ROUND_UP(boot.end, Page)
Home   == ROUND_UP(Target + boot.cmdSize, Meg)

OutOfTheWay ==
  /\ boot.ramdisk >= Target + boot.cmdSize
  /\ Home + boot.size <= KernelLoad
  /\ StatusPort \notin
       Area(boot.first, Home + boot.size - boot.first) \union Area(boot.cmd, boot.cmdSize)
         \union Area(boot.ramdisk, 2 * boot.size + Page)

(* And the ramdisk does not begin below its copy either.                   *)
WellPlaced ==
  /\ OutOfTheWay
  /\ NoOverlap(Target, boot.cmd, boot.cmdSize)
  /\ boot.ramdisk >= Home

(* A kernel that stands in the ramdisk with all its segments, for which    *)
(* there is memory, and whose segments follow each other page by page.     *)
Loads  == {i \in DOMAIN Elf.phdrs : Elf.phdrs[i].type = "LOAD"}
Lowest == Elf.phdrs[Min(Loads)].vaddr
Move   == KernelLoad - Lowest

Linked ==
  /\ Loads # {} /\ FirstCell + Elf.size <= boot.size
  /\ \A i \in Loads :
       LET p == Elf.phdrs[i]
       IN  /\ p.offset + p.filesz <= Elf.size /\ p.filesz <= p.memsz
           /\ p.vaddr + Move + p.memsz <= Top
  /\ \A i, j \in Loads :
       i < j /\ (\A k \in Loads : k <= i \/ j <= k) =>
         Elf.phdrs[j].vaddr = Elf.phdrs[i].vaddr + Pages(Elf.phdrs[i].memsz)

(* A segment stands at an address: its part of the file, then zeroes.      *)
Stands(p, at) ==
  /\ Holds(mem, at, "image", FirstCell + p.offset, p.filesz)
  /\ \A a \in at + p.filesz .. at + p.memsz - 1 : mem[a] = <<"zero", 0>>

TypeOK ==
  /\ boot \in Boot
  /\ DOMAIN mem = Addresses
  /\ pc \in {"check", "cmdline", "away", "place", "modules", "find", "header",
             "segment", "relocate", "kernel", "halt"}
  /\ stop \in Stops /\ (pc = "halt" <=> stop # "none")
  /\ {cmdline, image, orig, alloc} \subseteq Nat /\ entry \in Int
  /\ kernel \in 0 .. Len(mods)
  /\ seg \in 0 .. (IF kernel = 0 THEN 0 ELSE Len(Elf.phdrs) + 1)
  /\ doorbell \in BOOLEAN

(* When the kernel gets the card, its segments stand as they are linked,   *)
(* moved as a whole to KernelLoad, their file parts copied and the rest    *)
(* zero, and the jump goes to its entry point, moved as far: the copies,   *)
(* the allocator (linear_alloc) and elf_virtual_base64 agree about         *)
(* addresses.  They do not for a kernel of several segments linked at 0,   *)
(* since elf_virtual_base64 takes 0 for no address yet.                    *)
KernelStands ==
  pc = "kernel" /\ OutOfTheWay /\ Linked =>
    /\ Lowest # 0 \/ Loads = {Min(Loads)} => entry = Elf.entry + Move
    /\ \A i \in Loads : Stands(Elf.phdrs[i], Elf.phdrs[i].vaddr + Move)

(* What the multiboot information names is there and whole: the command    *)
(* line, the ramdisk and in it every module.                               *)
HandedOver ==
  pc = "kernel" /\ OutOfTheWay =>
    /\ Holds(mem, cmdline, "cmd", 0, boot.cmdSize)
    /\ Holds(mem, image, "image", 0, boot.size)
    /\ \A i \in DOMAIN mods :
         LET mod == boot.table[i]
         IN  mod.start <= mod.end /\ mod.end <= boot.size =>
               Holds(mem, mods[i].start, "image", mod.start, mods[i].end - mods[i].start)

(* The menu gives the kernel a plain name: what follows the last slash of  *)
(* its path is "cpu", or "kernel" when no other file could pass for "cpu".  *)
(* Nothing is promised of a path whose only slash is its first character   *)
(* nor of arguments with a slash, which hide the name.                     *)
Path(string) == SubSeq(string, 1, SelectInSeq(string, LAMBDA token : token = " ") - 1)
Name(string) == Last(Path(string))

Plainly(string) ==
  LET slashes == {i \in DOMAIN string : string[i] = "/"}
      n       == Len(Path(string))
  IN  /\ n > 0 /\ (n = 1 \/ \E i \in slashes : 1 < i)
      /\ \A i \in slashes : i < n

Findable ==
  LET table == boot.table
  IN  /\ \A i \in DOMAIN table : Plainly(table[i].string)
      /\ \/ Name(table[1].string) = "cpu"
         \/ /\ Name(table[1].string) = "kernel"
            /\ \A i \in DOMAIN table : <<Name(table[i].string), "cpu">> \notin Begins

(* The menu's kernel, static and in a good place, is started: it is the    *)
(* file that the search finds, no copy trips over the assertion in memcpy, *)
(* and the loader does not overwrite itself or what it still reads.        *)
Startable ==
  /\ pc = "check" /\ boot.magic /\ boot.low /\ WellPlaced /\ Findable
  /\ LET elf == boot.elf[1]
     IN  /\ elf.valid /\ boot.table[1].start + elf.size <= boot.size
         /\ elf.headers <= boot.table[1].end - boot.table[1].start
         /\ \A i \in DOMAIN elf.phdrs : TlsFits(elf.phdrs, i)

StaticBoots == Startable /\ boot.elf[1].relocs < 0 ~> pc = "kernel" /\ kernel = 1

(* loader.c:6 says that the kernel "is a relocatable ELF64 image": one     *)
(* with relocations is started as well, the doorbell being clear.          *)
RelocatableBoots == Startable /\ boot.elf[1].relocs >= 0 /\ ~doorbell ~> pc = "kernel" /\ kernel = 1
==============================================================================
