---------------------------- MODULE LoaderProofs ----------------------------
(***************************************************************************)
(* What the loader names in the multiboot information is there and whole   *)
(* when it jumps, for every layout out of the way (HandedOver); the kernel *)
(* stands as it is linked, and is entered where it is (KernelStands).      *)
(*                                                                         *)
(* The argument follows the ramdisk and the command line through memory:   *)
(* before each copy they stand where it reads, and no copy, segment or     *)
(* status byte falls on them.  Then it follows linear_alloc from segment   *)
(* to segment (Progress).                                                  *)
(***************************************************************************)
EXTENDS Loader, WellFoundedInduction, TLAPS

----------------------------------------------------------------------------
(* Arithmetic and memory.                                                  *)

(* Rounding up never goes down.                                            *)
LEMMA RoundsUp ==
  ASSUME NEW n \in Nat, NEW s \in Nat \ {0}
  PROVE  ROUND_UP(n, s) \in Nat /\ ROUND_UP(n, s) >= n
<1> DEFINE q == (n + s - 1) \div s
           r == (n + s - 1) % s
<1>1. n + s - 1 \in Nat
  OBVIOUS
<1>2. q \in Nat /\ r \in Nat /\ r < s /\ n + s - 1 = s * q + r
  BY <1>1, Z3
<1> HIDE DEF q, r
<1>3. q * s \in Nat /\ q * s >= n
  BY <1>2, Z3
<1> QED
  BY <1>3 DEF ROUND_UP, q

(* What is less than 2^32 fits into 32 bits.                               *)
LEMMA FitsIn ==
  ASSUME NEW n \in Nat
  PROVE  U32(n) \in Nat /\ (n < Wrap => U32(n) = n)
  BY WrapAssumption DEF U32

(* Every non-empty set of natural numbers has a least element.             *)
LEMMA LeastNumber ==
  ASSUME NEW S \in SUBSET Nat, S # {}
  PROVE  \E x \in S : \A y \in S : x <= y
<1> DEFINE R == OpToRel(<, Nat)
<1>1. IsWellFoundedOn(R, Nat)
  BY NatLessThanWellFounded
<1>2. ASSUME NEW x \in Nat, NEW y \in Nat, y < x
      PROVE  <<y, x>> \in R
  BY <1>2, Zenon DEF OpToRel
<1> HIDE DEF R
<1>3. PICK x \in S : \A y \in S : <<y, x>> \notin R
  BY <1>1, WFMin
<1>4. \A y \in S : ~(y < x)
  BY <1>2, <1>3
<1> QED
  BY <1>3, <1>4

LEMMA MinIsIn ==
  ASSUME NEW S \in SUBSET Nat, S # {}
  PROVE  Min(S) \in S /\ \A y \in S : Min(S) <= y
<1>1. \E x \in S : \A y \in S : x <= y
  BY LeastNumber
<1> QED
  BY <1>1, Zenon DEF Min

(* Induction over 0 .. n, for a set.                                       *)
LEMMA Steps ==
  ASSUME NEW n \in Nat, NEW S, 0 \in S,
         \A i \in 0 .. n - 1 : i \in S => i + 1 \in S
  PROVE  \A i \in 0 .. n : i \in S
<1> DEFINE D == {i \in 0 .. n : i \notin S}
<1> SUFFICES ASSUME D # {} PROVE FALSE
  OBVIOUS
<1>1. PICK d \in D : \A y \in D : d <= y
  <2>1. D \in SUBSET Nat
    OBVIOUS
  <2> QED
    BY <2>1, LeastNumber
<1>2. d \in 0 .. n /\ d \notin S /\ d # 0
  BY <1>1
<1>3. d - 1 \in 0 .. n - 1 /\ d - 1 \in 0 .. n /\ ~(d <= d - 1) /\ (d - 1) + 1 = d
  BY <1>2
<1>4. d - 1 \in S
  BY <1>1, <1>3
<1> QED
  BY <1>2, <1>3, <1>4

(* The search returns an index of the table, or 0.                         *)
LEMMA Finds ==
  ASSUME NEW seq, Len(seq) \in Nat, NEW name
  PROVE  FindModule(seq, name) \in 0 .. Len(seq)
<1> DEFINE I == {i \in 1 .. Len(seq) : Matches(seq[i].string, name)}
           found == FindModule(seq, name)
<1>1. found = IF I # {} THEN Min(I) ELSE 0
  BY DEF FindModule, SelectInSeq
<1>2. I \in SUBSET Nat /\ I \subseteq 1 .. Len(seq)
  OBVIOUS
<1> HIDE DEF I, found
<1>3. CASE I = {}
  BY <1>1, <1>3 DEF found
<1>4. CASE I # {}
  <2>1. found \in I
    BY <1>1, <1>2, <1>4, MinIsIn
  <2>2. found \in 0 .. Len(seq)
    BY <2>1, <1>2
  <2> QED
    BY <2>2 DEF found
<1> QED
  BY <1>3, <1>4

(* A change of memory somewhere else leaves what stands in an area.        *)
LEMMA SetKeeps ==
  ASSUME NEW m, DOMAIN m = Addresses, NEW s \in Nat, NEW n \in Int, NEW c,
         NEW at \in Nat, NEW len \in Nat, NEW from \in Nat, NEW what,
         Holds(m, at, what, from, len), at + len <= Top, Apart(s, n, at, len)
  PROVE  Holds(Memset(m, s, c, n), at, what, from, len)
  BY SizesAssumption DEF Holds, Memset, Area, Addresses, Apart

LEMMA CopyKeeps ==
  ASSUME NEW m, DOMAIN m = Addresses, NEW dst \in Nat, NEW n \in Nat, NEW src,
         NEW at \in Nat, NEW len \in Nat, NEW from \in Nat, NEW what,
         Holds(m, at, what, from, len), at + len <= Top, Apart(dst, n, at, len)
  PROVE  Holds(Memcpy(m, dst, src, n), at, what, from, len)
  BY SizesAssumption DEF Holds, Memcpy, Area, Addresses, Apart

(* A copy holds what its source holds.                                     *)
LEMMA CopyBrings ==
  ASSUME NEW m, DOMAIN m = Addresses, NEW dst \in Nat, NEW src \in Nat,
         NEW len \in Nat, NEW from \in Nat, NEW what,
         Holds(m, src, what, from, len), dst + len <= Top
  PROVE  Holds(Memcpy(m, dst, src, len), dst, what, from, len)
  BY SizesAssumption DEF Holds, Memcpy, Area, Addresses

LEMMA SameAddresses ==
  ASSUME NEW m, DOMAIN m = Addresses, NEW a, NEW b, NEW c, NEW n
  PROVE  DOMAIN Memcpy(m, a, b, n) = Addresses /\ DOMAIN Memset(m, a, c, n) = Addresses
         /\ DOMAIN Status(m) = Addresses
  BY DEF Memcpy, Memset, Status

----------------------------------------------------------------------------
(* Where things are.                                                       *)

Mod == [start : Nat, end : Nat, string : Seq(STRING)]

(* The loader has moved the command line; has moved the ramdisk to its     *)
(* place; has adjusted the table; loads the kernel.                        *)
Loading   == {"header", "segment", "relocate", "kernel"}
Adjusted  == {"find"} \union Loading
InPlace   == {"modules"} \union Adjusted
LineMoved == {"away", "place"} \union InPlace

Types ==
  /\ boot \in Boots
  /\ DOMAIN mem = Addresses
  /\ pc \in {"check", "cmdline", "halt"} \union LineMoved
  /\ {cmdline, image, orig, alloc} \subseteq Nat
  /\ pc \notin {"check", "halt"} => mods \in Seq(Mod) /\ Len(mods) = Len(boot.table)
  /\ pc \in Loading => kernel \in 1 .. Len(boot.elf) /\ alloc >= KernelLoad
  /\ pc \in {"segment", "relocate", "kernel"} => seg \in Nat \ {0}

HasLine(at)  == Holds(mem, at, "cmd", 0, boot.cmdSize)
HasImage(at) == Holds(mem, at, "image", 0, boot.size)

Moved(mod) == [mod EXCEPT !.start = U32(@ + Home), !.end = U32(@ + Home)]

Places ==
  OutOfTheWay =>
    /\ pc \in {"check", "cmdline"} =>
         cmdline = boot.cmd /\ orig = boot.ramdisk
           /\ HasLine(boot.cmd) /\ HasImage(boot.ramdisk)
    /\ pc \in LineMoved => cmdline = Target /\ image = Home /\ HasLine(Target)
    /\ pc = "away" => HasImage(boot.ramdisk)
    /\ pc = "place" =>
         HasImage(orig) /\ orig \in {boot.ramdisk, boot.ramdisk + boot.size + Page}
    /\ pc \in InPlace => HasImage(Home)
    /\ pc \in {"cmdline", "away", "place", "modules"} => mods = boot.table
    /\ pc \in Adjusted => mods = [i \in DOMAIN boot.table |-> Moved(boot.table[i])]

Inv == Types /\ Places

(* The types of a boot's fields.                                           *)
LEMMA BootTypes ==
  ASSUME NEW b \in Boots
  PROVE  /\ {b.first, b.end, b.cmd, b.cmdSize, b.ramdisk, b.size} \subseteq Nat
         /\ b.table \in Seq(Mod) /\ Len(b.elf) = Len(b.table) /\ Laid(b)
         /\ \A i \in 1 .. Len(b.elf) :
              /\ Len(b.elf[i].phdrs) \in Nat
              /\ DOMAIN b.elf[i].phdrs = 1 .. Len(b.elf[i].phdrs)
              /\ b.elf[i].size \in Nat /\ b.elf[i].entry \in Nat
         /\ \A i \in 1 .. Len(b.elf) : \A j \in 1 .. Len(b.elf[i].phdrs) :
              LET p == b.elf[i].phdrs[j]
              IN  p.offset \in Nat /\ p.vaddr \in Nat /\ p.filesz \in Nat /\ p.memsz \in Nat
<1>1. b \in Boot /\ Laid(b) /\ Len(b.elf) = Len(b.table)
  BY BootsAssumption
<1>2. {b.first, b.end, b.cmd, b.cmdSize, b.ramdisk, b.size} \subseteq Nat
        /\ b.table \in Seq(Mod)
  BY <1>1 DEF Boot, Mod
<1>3. ASSUME NEW i \in 1 .. Len(b.elf)
      PROVE  /\ Len(b.elf[i].phdrs) \in Nat
             /\ DOMAIN b.elf[i].phdrs = 1 .. Len(b.elf[i].phdrs)
             /\ b.elf[i].size \in Nat /\ b.elf[i].entry \in Nat
             /\ \A j \in 1 .. Len(b.elf[i].phdrs) :
                  LET p == b.elf[i].phdrs[j]
                  IN  p.offset \in Nat /\ p.vaddr \in Nat /\ p.filesz \in Nat /\ p.memsz \in Nat
  <2> DEFINE Phdr == [type : STRING, offset : Nat, vaddr : Nat, filesz : Nat, memsz : Nat]
             File1 == [valid : BOOLEAN, size : Nat, headers : Nat \ {0}, relocs : Int,
                       entry : Nat, phdrs : Seq(Phdr)]
  <2>1. b.elf \in Seq(File1)
    BY <1>1, Zenon DEF Boot
  <2> HIDE DEF File1
  <2>2. b.elf[i] \in File1
    BY <2>1
  <2>3. b.elf[i].phdrs \in Seq(Phdr) /\ b.elf[i].size \in Nat /\ b.elf[i].entry \in Nat
    BY <2>2 DEF File1
  <2> HIDE DEF Phdr
  <2>4. ASSUME NEW j \in 1 .. Len(b.elf[i].phdrs)
        PROVE  LET p == b.elf[i].phdrs[j]
               IN  p.offset \in Nat /\ p.vaddr \in Nat /\ p.filesz \in Nat /\ p.memsz \in Nat
    <3>1. b.elf[i].phdrs[j] \in Phdr
      BY <2>3
    <3> QED
      BY <3>1 DEF Phdr
  <2>5. Len(b.elf[i].phdrs) \in Nat /\ DOMAIN b.elf[i].phdrs = 1 .. Len(b.elf[i].phdrs)
    BY <2>3
  <2> QED
    BY <2>3, <2>4, <2>5
<1> QED
  BY <1>1, <1>2, <1>3

(* The order of the areas in a layout that is out of the way.              *)
LEMMA Order ==
  ASSUME boot \in Boots
  PROVE  /\ Target \in Nat /\ Home \in Nat
         /\ boot.end <= Target /\ Target + boot.cmdSize <= Home
<1>0. boot.end \in Nat /\ boot.cmdSize \in Nat /\ Page \in Nat \ {0} /\ Meg \in Nat \ {0}
  BY BootTypes, SizesAssumption
<1>1. Target \in Nat /\ Target >= boot.end
  BY <1>0, RoundsUp DEF Target
<1>2. Home \in Nat /\ Home >= Target + boot.cmdSize
  <2>1. Target + boot.cmdSize \in Nat
    BY <1>0, <1>1
  <2> HIDE DEF Target
  <2> QED
    BY <1>0, <1>1, <2>1, RoundsUp DEF Home
<1> QED
  BY <1>1, <1>2

(* What being out of the way says of the status byte and the copies.       *)
LEMMA Apartness ==
  ASSUME boot \in Boots, OutOfTheWay
  PROVE  /\ Target + boot.cmdSize <= boot.ramdisk /\ Home + boot.size <= KernelLoad
         /\ Apart(StatusPort, 1, boot.cmd, boot.cmdSize)
         /\ Apart(StatusPort, 1, boot.ramdisk, 2 * boot.size + Page)
         /\ Apart(StatusPort, 1, Target, boot.cmdSize)
         /\ Apart(StatusPort, 1, Home, boot.size)
<1>1. boot.first <= boot.end /\ {boot.first, boot.end, boot.cmd, boot.cmdSize, boot.ramdisk,
                                 boot.size, Page, StatusPort, KernelLoad} \subseteq Nat
  BY BootTypes, SizesAssumption DEF Laid
<1>2. /\ Target \in Nat /\ Home \in Nat
      /\ boot.end <= Target /\ Target + boot.cmdSize <= Home
  BY Order
<1>3. boot.ramdisk >= Target + boot.cmdSize /\ Home + boot.size <= KernelLoad
  BY DEF OutOfTheWay
<1>4. /\ StatusPort \notin Area(boot.first, Home + boot.size - boot.first)
      /\ StatusPort \notin Area(boot.cmd, boot.cmdSize)
      /\ StatusPort \notin Area(boot.ramdisk, 2 * boot.size + Page)
  BY DEF OutOfTheWay
<1> HIDE DEF Target, Home
<1> QED
  BY <1>1, <1>2, <1>3, <1>4 DEF Area, Apart

----------------------------------------------------------------------------
(* Inv holds at the start and is kept by every step.                       *)

LEMMA StartsThere == Init => Inv
<1> SUFFICES ASSUME Init PROVE Inv
  OBVIOUS
<1>1. boot \in Boots /\ mem = Fresh(boot) /\ pc = "check"
        /\ cmdline = boot.cmd /\ image = 0 /\ orig = boot.ramdisk /\ alloc = 0
  BY DEF Init
<1>2. Types
  BY <1>1, BootTypes DEF Types, Loading, Adjusted, InPlace, LineMoved, Fresh
<1>3. /\ Laid(boot) /\ {boot.first, boot.end, boot.cmd, boot.cmdSize, boot.ramdisk,
                         boot.size, Top, Page} \subseteq Nat
  BY <1>1, BootTypes, SizesAssumption
<1>4. ASSUME NEW k \in 0 .. boot.cmdSize - 1
      PROVE  mem[boot.cmd + k] = <<"cmd", 0 + k>>
  <2> DEFINE a == boot.cmd + k
  <2>1. /\ a \in Addresses /\ a \notin Area(boot.first, boot.end - boot.first)
        /\ a \in Area(boot.cmd, boot.cmdSize) /\ a - boot.cmd = 0 + k
    BY <1>3 DEF Laid, Apart, Area, Addresses
  <2> HIDE DEF a
  <2>2. mem[a] = <<"cmd", a - boot.cmd>>
    BY <1>1, <2>1 DEF Fresh
  <2> QED
    BY <2>1, <2>2 DEF a
<1>5. ASSUME NEW k \in 0 .. boot.size - 1
      PROVE  mem[boot.ramdisk + k] = <<"image", 0 + k>>
  <2> DEFINE a == boot.ramdisk + k
  <2>1. /\ a \in Addresses /\ a \notin Area(boot.first, boot.end - boot.first)
        /\ a \notin Area(boot.cmd, boot.cmdSize)
        /\ a \in Area(boot.ramdisk, boot.size) /\ a - boot.ramdisk = 0 + k
    BY <1>3 DEF Laid, Apart, Area, Addresses
  <2> HIDE DEF a
  <2>2. mem[a] = <<"image", a - boot.ramdisk>>
    BY <1>1, <2>1 DEF Fresh
  <2> QED
    BY <2>1, <2>2 DEF a
<1>6. Places
  BY <1>1, <1>4, <1>5 DEF Places, HasLine, HasImage, Holds, Loading, Adjusted, InPlace, LineMoved
<1> QED
  BY <1>2, <1>6 DEF Inv

(* A step that ends the loader keeps Inv: nothing is said of what is left. *)
LEMMA Halted ==
  ASSUME Inv, boot' \in Boots, DOMAIN mem' = Addresses, pc' = "halt",
         {cmdline', image', orig', alloc'} \subseteq Nat
  PROVE  Inv'
  BY DEF Inv, Types, Places, Loading, Adjusted, InPlace, LineMoved

LEMMA Written ==
  ASSUME NEW m, NEW next, Write(m, next)
  PROVE  mem' = m /\ (pc' = next \/ pc' = "halt")
  BY DEF Write, Halt

LEMMA SameBoot ==
  ASSUME boot' = boot
  PROVE  /\ OutOfTheWay' <=> OutOfTheWay
         /\ Target' = Target /\ Home' = Home
  BY DEF OutOfTheWay, Target, Home

(* The status byte leaves what stands apart from it.                       *)
LEMMA StatusKeeps ==
  ASSUME NEW m, DOMAIN m = Addresses, NEW at \in Nat, NEW len \in Nat, NEW what,
         Holds(m, at, what, 0, len), at + len <= Top, Apart(StatusPort, 1, at, len)
  PROVE  Holds(Status(m), at, what, 0, len)
  BY SetKeeps, SizesAssumption DEF Status

(* The areas of a layout, and of one that is out of the way, in numbers.   *)
LEMMA Numbers ==
  ASSUME boot \in Boots
  PROVE  /\ boot.cmd \in Nat /\ boot.cmdSize \in Nat /\ boot.ramdisk \in Nat
         /\ boot.size \in Nat /\ Top \in Nat /\ Page \in Nat /\ StatusPort \in Nat
         /\ KernelLoad \in Nat /\ Target \in Nat /\ Home \in Nat /\ Wrap \in Nat \ {0}
         /\ KernelLoad < Top /\ Top <= Wrap
         /\ boot.cmd + boot.cmdSize <= Top /\ boot.ramdisk + 2 * boot.size + Page <= Top
         /\ Target + boot.cmdSize <= Home
  BY BootTypes, Order, SizesAssumption, WrapAssumption DEF Laid

LEMMA Room ==
  ASSUME boot \in Boots, OutOfTheWay
  PROVE  LET up == boot.ramdisk + boot.size + Page
         IN  /\ Target + boot.cmdSize <= Top /\ Home + boot.size <= Top /\ up + boot.size <= Top
             /\ Apart(up, boot.size, Target, boot.cmdSize)
             /\ Apart(Home, boot.size, Target, boot.cmdSize)
             /\ Apart(StatusPort, 1, up, boot.size)
<1>1. /\ Target + boot.cmdSize <= boot.ramdisk /\ Home + boot.size <= KernelLoad
      /\ Apart(StatusPort, 1, boot.ramdisk, 2 * boot.size + Page)
  BY Apartness
<1> HIDE DEF Target, Home
<1> QED
  BY <1>1, Numbers DEF Apart

LEMMA CheckStep ==
  ASSUME Inv, Check
  PROVE  Inv'
<1> USE DEF Loading, Adjusted, InPlace, LineMoved
<1>1. /\ boot' = boot /\ mem' = Status(mem) /\ (pc' = "cmdline" \/ pc' = "halt")
      /\ mods' = boot.table
      /\ UNCHANGED <<cmdline, image, orig, kernel, alloc, seg>>
  BY Written DEF Check, Halt
<1>2. boot \in Boots /\ DOMAIN mem = Addresses /\ DOMAIN mem' = Addresses
        /\ {cmdline, image, orig, alloc} \subseteq Nat /\ pc = "check"
  BY <1>1, SameAddresses DEF Inv, Types, Check
<1>3. CASE pc' = "halt"
  BY <1>1, <1>2, <1>3, Halted
<1>4. CASE pc' = "cmdline"
  <2>1. Types'
    BY <1>1, <1>2, <1>4, BootTypes DEF Types
  <2>2. ASSUME OutOfTheWay'
        PROVE  /\ cmdline' = boot'.cmd /\ orig' = boot'.ramdisk
               /\ HasLine(boot.cmd)' /\ HasImage(boot.ramdisk)'
    <3>1. OutOfTheWay
      BY <1>1, <2>2, SameBoot
    <3>2. /\ cmdline = boot.cmd /\ orig = boot.ramdisk
          /\ Holds(mem, boot.cmd, "cmd", 0, boot.cmdSize)
          /\ Holds(mem, boot.ramdisk, "image", 0, boot.size)
      BY <1>2, <3>1 DEF Inv, Places, HasLine, HasImage
    <3>3. /\ {boot.cmd, boot.cmdSize, boot.ramdisk, boot.size, Top, Page, StatusPort} \subseteq Nat
          /\ boot.cmd + boot.cmdSize <= Top /\ boot.ramdisk + boot.size <= Top
          /\ Apart(StatusPort, 1, boot.cmd, boot.cmdSize)
          /\ Apart(StatusPort, 1, boot.ramdisk, boot.size)
      <4>1. /\ {boot.cmd, boot.cmdSize, boot.ramdisk, boot.size, Top, Page, StatusPort}
                 \subseteq Nat
            /\ boot.cmd + boot.cmdSize <= Top /\ boot.ramdisk + 2 * boot.size + Page <= Top
        BY <1>2, BootTypes, SizesAssumption DEF Laid
      <4>2. /\ Apart(StatusPort, 1, boot.cmd, boot.cmdSize)
            /\ Apart(StatusPort, 1, boot.ramdisk, 2 * boot.size + Page)
        BY <1>2, <3>1, Apartness
      <4> QED
        BY <4>1, <4>2 DEF Apart
    <3>4. /\ Holds(Status(mem), boot.cmd, "cmd", 0, boot.cmdSize)
          /\ Holds(Status(mem), boot.ramdisk, "image", 0, boot.size)
      BY <1>2, <3>2, <3>3, StatusKeeps
    <3> QED
      BY <1>1, <3>2, <3>4 DEF HasLine, HasImage
  <2> QED
    BY <1>1, <1>4, <2>1, <2>2 DEF Inv, Places, HasLine, HasImage
<1> QED
  BY <1>1, <1>3, <1>4

LEMMA CmdlineStep ==
  ASSUME Inv, CopyCmdline
  PROVE  Inv'
<1> USE DEF Loading, Adjusted, InPlace, LineMoved
<1>1. /\ boot' = boot /\ pc = "cmdline"
      /\ cmdline' = U32(Target) /\ image' = Home
      /\ UNCHANGED <<orig, mods, kernel, alloc, seg>>
      /\ \/ mem' = Memcpy(mem, Target, cmdline, boot.cmdSize)
           /\ (pc' = "away" \/ pc' = "halt")
         \/ mem' = mem /\ pc' = "halt"
  BY Written DEF CopyCmdline, Copy, Halt, Target, Home
<1>2. /\ boot \in Boots /\ DOMAIN mem = Addresses /\ DOMAIN mem' = Addresses
      /\ {cmdline, image, orig, alloc} \subseteq Nat
      /\ mods \in Seq(Mod) /\ Len(mods) = Len(boot.table)
  BY <1>1, SameAddresses DEF Inv, Types
<1>3. /\ Target \in Nat /\ Home \in Nat /\ Wrap \in Nat \ {0} /\ U32(Target) \in Nat
      /\ (Target < Wrap => U32(Target) = Target)
  <2>1. Target \in Nat /\ Home \in Nat /\ Wrap \in Nat \ {0}
    BY <1>2, Order, WrapAssumption
  <2> HIDE DEF Target, Home
  <2>2. U32(Target) \in Nat /\ (Target < Wrap => U32(Target) = Target)
    BY <2>1, FitsIn
  <2> QED
    BY <2>1, <2>2
<1>4. CASE pc' = "halt"
  BY <1>1, <1>2, <1>3, <1>4, Halted
<1>5. CASE pc' = "away"
  <2>1. Types'
    BY <1>1, <1>2, <1>3, <1>5 DEF Types
  <2>2. ASSUME OutOfTheWay'
        PROVE  /\ cmdline' = Target /\ mods = boot.table
               /\ HasLine(Target)' /\ HasImage(boot.ramdisk)'
    <3>1. OutOfTheWay
      BY <1>1, <2>2, SameBoot
    <3>2. /\ cmdline = boot.cmd /\ mods = boot.table
          /\ Holds(mem, boot.cmd, "cmd", 0, boot.cmdSize)
          /\ Holds(mem, boot.ramdisk, "image", 0, boot.size)
      BY <1>1, <3>1 DEF Inv, Places, HasLine, HasImage
    <3>3. /\ {boot.cmd, boot.cmdSize, boot.ramdisk, boot.size, Top, Page} \subseteq Nat
          /\ boot.ramdisk + boot.size <= Top
          /\ Target + boot.cmdSize <= Top /\ Target < Wrap
          /\ Apart(Target, boot.cmdSize, boot.ramdisk, boot.size)
      <4>1. /\ {boot.cmd, boot.cmdSize, boot.ramdisk, boot.size, Top, Page, KernelLoad}
                 \subseteq Nat
            /\ KernelLoad < Top /\ Top <= Wrap /\ boot.ramdisk + 2 * boot.size + Page <= Top
        BY <1>2, BootTypes, SizesAssumption DEF Laid
      <4>2. /\ Target + boot.cmdSize <= boot.ramdisk /\ Home + boot.size <= KernelLoad
            /\ Target + boot.cmdSize <= Home
        BY <1>2, <3>1, Apartness, Order
      <4> QED
        BY <1>3, <4>1, <4>2 DEF Apart
    <3>4. /\ Holds(mem', Target, "cmd", 0, boot.cmdSize)
          /\ Holds(mem', boot.ramdisk, "image", 0, boot.size)
      <4>1. mem' = Memcpy(mem, Target, boot.cmd, boot.cmdSize)
        BY <1>1, <1>5, <3>2
      <4>2. Holds(mem', Target, "cmd", 0, boot.cmdSize)
        BY <4>1, <1>2, <1>3, <3>2, <3>3, CopyBrings
      <4>3. Holds(mem', boot.ramdisk, "image", 0, boot.size)
        BY <4>1, <1>2, <1>3, <3>2, <3>3, CopyKeeps
      <4> QED
        BY <4>2, <4>3
    <3> QED
      BY <1>1, <1>3, <3>2, <3>3, <3>4, SameBoot DEF HasLine, HasImage
  <2> QED
    BY <1>1, <1>5, <2>1, <2>2, SameBoot DEF Inv, Places, HasLine, HasImage
<1> QED
  BY <1>1, <1>4, <1>5

LEMMA AwayStep ==
  ASSUME Inv, MoveAway
  PROVE  Inv'
<1> DEFINE up == boot.ramdisk + boot.size + Page
           copied == Memcpy(mem, up, boot.ramdisk, boot.size)
<1> USE DEF Loading, Adjusted, InPlace, LineMoved
<1>1. /\ boot' = boot /\ pc = "away" /\ (pc' = "place" \/ pc' = "halt")
      /\ UNCHANGED <<cmdline, image, mods, kernel, alloc, seg>>
      /\ \/ orig' = up /\ mem' = Status(copied)
         \/ orig' = boot.ramdisk /\ mem' = mem
  BY Written DEF MoveAway
<1>2. /\ boot \in Boots /\ DOMAIN mem = Addresses
      /\ {cmdline, image, orig, alloc} \subseteq Nat
      /\ mods \in Seq(Mod) /\ Len(mods) = Len(boot.table)
  BY <1>1 DEF Inv, Types
<1>3. DOMAIN copied = Addresses /\ DOMAIN mem' = Addresses
  <2>1. DOMAIN copied = Addresses
    BY <1>2, SameAddresses
  <2> HIDE DEF copied
  <2> QED
    BY <1>1, <1>2, <2>1, SameAddresses
<1>4. boot.ramdisk \in Nat /\ up \in Nat
  <2>1. boot.ramdisk \in Nat /\ boot.size \in Nat /\ Page \in Nat
    BY <1>2, Numbers
  <2> QED
    BY <2>1
<1>5. orig' \in Nat /\ up \in Nat
  <2> HIDE DEF up
  <2> QED
    BY <1>1, <1>4
<1>6. CASE pc' = "halt"
  BY <1>1, <1>2, <1>3, <1>5, <1>6, Halted
<1>7. CASE pc' = "place"
  <2>1. Types'
    BY <1>1, <1>2, <1>3, <1>5, <1>7 DEF Types
  <2>2. ASSUME OutOfTheWay'
        PROVE  /\ cmdline = Target /\ image = Home /\ mods = boot.table
               /\ HasLine(Target)' /\ HasImage(orig)'
               /\ orig' \in {boot.ramdisk, up}
    <3>1. OutOfTheWay
      BY <1>1, <2>2, SameBoot
    <3>2. /\ cmdline = Target /\ image = Home /\ mods = boot.table
          /\ Holds(mem, Target, "cmd", 0, boot.cmdSize)
          /\ Holds(mem, boot.ramdisk, "image", 0, boot.size)
      BY <1>1, <3>1 DEF Inv, Places, HasLine, HasImage
    <3>3. CASE orig' = boot.ramdisk /\ mem' = mem
      BY <1>1, <3>2, <3>3, SameBoot DEF HasLine, HasImage
    <3>4. CASE orig' = up /\ mem' = Status(copied)
      <4>1. /\ up + boot.size <= Top /\ Target + boot.cmdSize <= Top
            /\ Apart(up, boot.size, Target, boot.cmdSize)
            /\ Apart(StatusPort, 1, up, boot.size)
            /\ Apart(StatusPort, 1, Target, boot.cmdSize)
        BY <1>2, <3>1, Room, Apartness
      <4>2. /\ Holds(copied, up, "image", 0, boot.size)
            /\ Holds(copied, Target, "cmd", 0, boot.cmdSize)
            /\ DOMAIN copied = Addresses
        BY <1>2, <1>5, <3>2, <4>1, Numbers, CopyBrings, CopyKeeps, SameAddresses
      <4> HIDE DEF copied, up
      <4>3. /\ Holds(mem', up, "image", 0, boot.size)
            /\ Holds(mem', Target, "cmd", 0, boot.cmdSize)
        BY <1>2, <1>5, <3>4, <4>1, <4>2, Numbers, StatusKeeps
      <4> QED
        BY <1>1, <3>2, <3>4, <4>3, SameBoot DEF HasLine, HasImage
    <3> QED
      BY <1>1, <3>3, <3>4
  <2> QED
    BY <1>1, <1>7, <2>1, <2>2, SameBoot DEF Inv, Places
<1> QED
  BY <1>1, <1>6, <1>7

LEMMA PlaceStep ==
  ASSUME Inv, PlaceImage
  PROVE  Inv'
<1> USE DEF Loading, Adjusted, InPlace, LineMoved
<1>1. /\ boot' = boot /\ pc = "place"
      /\ UNCHANGED <<cmdline, image, orig, mods, kernel, alloc, seg>>
      /\ \/ mem' = Memcpy(mem, image, orig, boot.size) /\ (pc' = "modules" \/ pc' = "halt")
         \/ mem' = mem /\ pc' = "halt"
  BY Written DEF PlaceImage, Copy, Halt
<1>2. /\ boot \in Boots /\ DOMAIN mem = Addresses /\ DOMAIN mem' = Addresses
      /\ {cmdline, image, orig, alloc} \subseteq Nat
      /\ mods \in Seq(Mod) /\ Len(mods) = Len(boot.table)
  BY <1>1, SameAddresses DEF Inv, Types
<1>3. CASE pc' = "halt"
  BY <1>1, <1>2, <1>3, Halted
<1>4. CASE pc' = "modules"
  <2>1. Types'
    BY <1>1, <1>2, <1>4 DEF Types
  <2>2. ASSUME OutOfTheWay'
        PROVE  /\ cmdline = Target /\ image = Home /\ mods = boot.table
               /\ HasLine(Target)' /\ HasImage(Home)'
    <3>1. OutOfTheWay
      BY <1>1, <2>2, SameBoot
    <3>2. /\ cmdline = Target /\ image = Home /\ mods = boot.table
          /\ Holds(mem, Target, "cmd", 0, boot.cmdSize)
          /\ Holds(mem, orig, "image", 0, boot.size)
      BY <1>1, <3>1 DEF Inv, Places, HasLine, HasImage
    <3>3. /\ Home + boot.size <= Top /\ Target + boot.cmdSize <= Top
          /\ Apart(Home, boot.size, Target, boot.cmdSize)
      BY <1>2, <3>1, Room
    <3>4. mem' = Memcpy(mem, Home, orig, boot.size)
      BY <1>1, <1>4, <3>2
    <3>5. Holds(mem', Home, "image", 0, boot.size)
      BY <1>2, <3>2, <3>3, <3>4, Numbers, CopyBrings
    <3>6. Holds(mem', Target, "cmd", 0, boot.cmdSize)
      BY <1>2, <3>2, <3>3, <3>4, Numbers, CopyKeeps
    <3> QED
      BY <1>1, <3>2, <3>5, <3>6, SameBoot DEF HasLine, HasImage
  <2> QED
    BY <1>1, <1>4, <2>1, <2>2, SameBoot DEF Inv, Places
<1> QED
  BY <1>1, <1>3, <1>4

LEMMA Adjusts ==
  ASSUME NEW mod \in Mod, NEW n \in Nat
  PROVE  [mod EXCEPT !.start = U32(@ + n), !.end = U32(@ + n)] \in Mod
<1>1. mod.start + n \in Nat /\ mod.end + n \in Nat
  BY DEF Mod
<1>2. U32(mod.start + n) \in Nat /\ U32(mod.end + n) \in Nat
  BY <1>1, FitsIn
<1> QED
  BY <1>2 DEF Mod

LEMMA AdjustsTable ==
  ASSUME NEW table \in Seq(Mod), NEW n \in Nat
  PROVE  LET adjusted == [i \in DOMAIN table |->
                            [table[i] EXCEPT !.start = U32(@ + n), !.end = U32(@ + n)]]
         IN  adjusted \in Seq(Mod) /\ Len(adjusted) = Len(table)
<1> DEFINE adjusted == [i \in DOMAIN table |->
                          [table[i] EXCEPT !.start = U32(@ + n), !.end = U32(@ + n)]]
<1>1. ASSUME NEW i \in DOMAIN table
      PROVE  [table[i] EXCEPT !.start = U32(@ + n), !.end = U32(@ + n)] \in Mod
  <2>1. table[i] \in Mod
    OBVIOUS
  <2> QED
    BY <2>1, Adjusts
<1>2. DOMAIN table = 1 .. Len(table) /\ Len(table) \in Nat
  OBVIOUS
<1>3. adjusted \in [1 .. Len(table) -> Mod]
  BY <1>1, <1>2, Zenon
<1> HIDE DEF adjusted
<1>4. adjusted \in Seq(Mod) /\ Len(adjusted) = Len(table)
  BY <1>2, <1>3
<1> QED
  BY <1>4 DEF adjusted

LEMMA AdjustStep ==
  ASSUME Inv, AdjustModules
  PROVE  Inv'
<1> USE DEF Loading, Adjusted, InPlace, LineMoved
<1>1. /\ boot' = boot /\ pc = "modules" /\ mem' = Status(mem)
      /\ mods' = [i \in DOMAIN mods |->
                    [mods[i] EXCEPT !.start = U32(@ + image), !.end = U32(@ + image)]]
      /\ UNCHANGED <<cmdline, image, orig, kernel, alloc, seg>>
      /\ (pc' = "find" \/ pc' = "halt")
  BY Written DEF AdjustModules
<1>2. /\ boot \in Boots /\ DOMAIN mem = Addresses
      /\ {cmdline, image, orig, alloc} \subseteq Nat /\ image \in Nat
      /\ mods \in Seq(Mod) /\ Len(mods) = Len(boot.table)
  BY <1>1 DEF Inv, Types
<1>3. DOMAIN mem' = Addresses
  BY <1>1, <1>2, SameAddresses
<1>4. CASE pc' = "halt"
  BY <1>1, <1>2, <1>3, <1>4, Halted
<1>5. CASE pc' = "find"
  <2>1. mods' \in Seq(Mod) /\ Len(mods') = Len(boot.table)
    BY <1>1, <1>2, AdjustsTable
  <2>2. Types'
    BY <1>1, <1>2, <1>3, <1>5, <2>1 DEF Types
  <2>3. ASSUME OutOfTheWay'
        PROVE  /\ cmdline = Target /\ image = Home
               /\ HasLine(Target)' /\ HasImage(Home)'
               /\ mods' = [i \in DOMAIN boot.table |-> Moved(boot.table[i])]
    <3>1. OutOfTheWay
      BY <1>1, <2>3, SameBoot
    <3>2. /\ cmdline = Target /\ image = Home /\ mods = boot.table
          /\ Holds(mem, Target, "cmd", 0, boot.cmdSize)
          /\ Holds(mem, Home, "image", 0, boot.size)
      BY <1>1, <3>1 DEF Inv, Places, HasLine, HasImage
    <3>3. /\ Target + boot.cmdSize <= Top /\ Apart(StatusPort, 1, Target, boot.cmdSize)
          /\ Home + boot.size <= Top /\ Apart(StatusPort, 1, Home, boot.size)
      BY <1>2, <3>1, Room, Apartness
    <3>4. /\ Holds(mem', Target, "cmd", 0, boot.cmdSize)
          /\ Holds(mem', Home, "image", 0, boot.size)
      BY <1>1, <1>2, <3>2, <3>3, Numbers, StatusKeeps
    <3>5. mods' = [i \in DOMAIN boot.table |-> Moved(boot.table[i])]
      BY <1>1, <3>2 DEF Moved
    <3> QED
      BY <1>1, <3>2, <3>4, <3>5, SameBoot DEF HasLine, HasImage
  <2> QED
    BY <1>1, <1>5, <2>2, <2>3, SameBoot DEF Inv, Places, Moved
<1> QED
  BY <1>1, <1>4, <1>5

LEMMA FindStep ==
  ASSUME Inv, FindKernel
  PROVE  Inv'
<1> USE DEF Loading, Adjusted, InPlace, LineMoved
<1>1. /\ boot' = boot /\ pc = "find" /\ mem' = Status(mem)
      /\ alloc' = KernelLoad
      /\ UNCHANGED <<cmdline, image, orig, mods, seg>>
      /\ pc' = "halt" \/ (pc' = "header" /\ kernel' # 0)
      /\ kernel' \in {FindModule(mods, "cpu"), FindModule(mods, "kernel")}
  BY Written DEF FindKernel, Halt
<1>2. /\ boot \in Boots /\ DOMAIN mem = Addresses
      /\ {cmdline, image, orig, alloc} \subseteq Nat
      /\ mods \in Seq(Mod) /\ Len(mods) = Len(boot.table)
  BY <1>1 DEF Inv, Types
<1>3. DOMAIN mem' = Addresses /\ KernelLoad \in Nat
  BY <1>1, <1>2, SameAddresses, SizesAssumption
<1>4. kernel' \in 0 .. Len(boot.elf)
  BY <1>1, <1>2, Finds, BootTypes
<1>5. CASE pc' = "halt"
  BY <1>1, <1>2, <1>3, <1>5, Halted
<1>6. CASE pc' = "header"
  <2>1. kernel' \in 1 .. Len(boot.elf)
    BY <1>1, <1>2, <1>4, <1>6, BootTypes
  <2>2. Types'
    BY <1>1, <1>2, <1>3, <1>6, <2>1 DEF Types
  <2>3. ASSUME OutOfTheWay'
        PROVE  /\ cmdline = Target /\ image = Home
               /\ HasLine(Target)' /\ HasImage(Home)'
               /\ mods = [i \in DOMAIN boot.table |-> Moved(boot.table[i])]
    <3>1. OutOfTheWay
      BY <1>1, <2>3, SameBoot
    <3>2. /\ cmdline = Target /\ image = Home
          /\ mods = [i \in DOMAIN boot.table |-> Moved(boot.table[i])]
          /\ Holds(mem, Target, "cmd", 0, boot.cmdSize)
          /\ Holds(mem, Home, "image", 0, boot.size)
      BY <1>1, <3>1 DEF Inv, Places, HasLine, HasImage
    <3>3. /\ Target + boot.cmdSize <= Top /\ Apart(StatusPort, 1, Target, boot.cmdSize)
          /\ Home + boot.size <= Top /\ Apart(StatusPort, 1, Home, boot.size)
      BY <1>2, <3>1, Room, Apartness
    <3>4. /\ Holds(mem', Target, "cmd", 0, boot.cmdSize)
          /\ Holds(mem', Home, "image", 0, boot.size)
      BY <1>1, <1>2, <3>2, <3>3, Numbers, StatusKeeps
    <3> QED
      BY <1>1, <3>2, <3>4, SameBoot DEF HasLine, HasImage
  <2> QED
    BY <1>1, <1>6, <2>2, <2>3, SameBoot DEF Inv, Places, Moved
<1> QED
  BY <1>1, <1>5, <1>6
(* The kernel's parts go to where linear_alloc began or above it.          *)
LEMMA SegmentApart ==
  ASSUME Inv, OutOfTheWay, pc \in Loading, NEW filesz \in Nat, NEW n \in Int
  PROVE  /\ Apart(alloc, filesz, Target, boot.cmdSize)
         /\ Apart(alloc, filesz, Home, boot.size)
         /\ Apart(alloc + filesz, n, Target, boot.cmdSize)
         /\ Apart(alloc + filesz, n, Home, boot.size)
<1>1. /\ boot \in Boots /\ alloc \in Nat /\ alloc >= KernelLoad
  BY DEF Inv, Types
<1>2. Home + boot.size <= KernelLoad
  BY <1>1, Apartness
<1> HIDE DEF Target, Home
<1> QED
  BY <1>1, <1>2, Numbers DEF Apart

LEMMA SegmentKeeps ==
  ASSUME Inv, OutOfTheWay, pc \in Loading, NEW src, NEW filesz \in Nat, NEW n \in Int,
         NEW c
  PROVE  LET loaded == Memset(Memcpy(mem, alloc, src, filesz), alloc + filesz, c, n)
         IN  /\ Holds(loaded, Target, "cmd", 0, boot.cmdSize)
             /\ Holds(loaded, Home, "image", 0, boot.size)
<1> DEFINE copied == Memcpy(mem, alloc, src, filesz)
<1>1. /\ boot \in Boots /\ alloc \in Nat /\ alloc + filesz \in Nat /\ DOMAIN mem = Addresses
  BY DEF Inv, Types
<1>2. /\ Holds(mem, Target, "cmd", 0, boot.cmdSize)
      /\ Holds(mem, Home, "image", 0, boot.size)
  BY DEF Inv, Places, HasLine, HasImage, Loading, Adjusted, InPlace, LineMoved
<1>3. Target + boot.cmdSize <= Top /\ Home + boot.size <= Top
  BY <1>1, Room
<1>4. /\ Holds(copied, Target, "cmd", 0, boot.cmdSize)
      /\ Holds(copied, Home, "image", 0, boot.size)
      /\ DOMAIN copied = Addresses
  BY <1>1, <1>2, <1>3, SegmentApart, Numbers, CopyKeeps, SameAddresses
<1> HIDE DEF copied
<1>5. /\ Holds(Memset(copied, alloc + filesz, c, n), Target, "cmd", 0, boot.cmdSize)
      /\ Holds(Memset(copied, alloc + filesz, c, n), Home, "image", 0, boot.size)
  BY <1>1, <1>3, <1>4, SegmentApart, Numbers, SetKeeps
<1> QED
  BY <1>5 DEF copied
(* The segment the loader looks at is one of the file's, and its sizes are *)
(* numbers.                                                                *)
LEMMA SegmentTypes ==
  ASSUME Inv, pc = "segment", seg <= Len(Elf.phdrs)
  PROVE  LET p == Elf.phdrs[seg]
         IN  p.filesz \in Nat /\ p.memsz \in Nat /\ Pages(p.memsz) \in Nat
<1> DEFINE p == boot.elf[kernel].phdrs[seg]
<1>1. boot \in Boots /\ kernel \in 1 .. Len(boot.elf) /\ seg \in Nat \ {0}
  BY DEF Inv, Types, Loading
<1>2. Len(boot.elf[kernel].phdrs) \in Nat
  BY <1>1, BootTypes
<1>3. seg \in 1 .. Len(boot.elf[kernel].phdrs)
  BY <1>1, <1>2 DEF Elf
<1>4. p.filesz \in Nat /\ p.memsz \in Nat
  BY <1>1, <1>3, BootTypes
<1> HIDE DEF p
<1>5. Pages(p.memsz) \in Nat
  BY <1>4, RoundsUp, SizesAssumption DEF Pages, ROUND_UP
<1> QED
  BY <1>4, <1>5 DEF p, Elf

LEMMA SegmentStep ==
  ASSUME Inv, LoadSegment
  PROVE  Inv'
<1> DEFINE p == Elf.phdrs[seg]
<1>1. /\ boot' = boot /\ pc = "segment"
      /\ UNCHANGED <<cmdline, image, orig, mods, kernel>>
      /\ \/ mem' = Loaded(p) /\ pc' \in {"relocate", "halt"} /\ seg' = seg
              /\ alloc' = alloc + Pages(p.memsz)
         \/ mem' = mem /\ pc' = "halt" /\ seg' = seg /\ alloc' = alloc + Pages(p.memsz)
         \/ mem' = mem /\ pc' = pc /\ seg' = seg + 1 /\ alloc' = alloc
         \/ mem' = mem /\ pc' = "halt" /\ seg' = seg /\ alloc' = alloc
  BY Written DEF LoadSegment, Halt
<1>2. /\ boot \in Boots /\ DOMAIN mem = Addresses
      /\ {cmdline, image, orig, alloc} \subseteq Nat /\ alloc >= KernelLoad
      /\ mods \in Seq(Mod) /\ Len(mods) = Len(boot.table)
      /\ kernel \in 1 .. Len(boot.elf) /\ seg \in Nat \ {0}
  BY <1>1 DEF Inv, Types, Loading
<1>3. p.filesz \in Nat /\ p.memsz \in Nat /\ Pages(p.memsz) \in Nat
  BY <1>1, SegmentTypes DEF LoadSegment
<1>4. DOMAIN mem' = Addresses
  <2>1. DOMAIN Loaded(p) = Addresses
    <3> DEFINE copied == Memcpy(mem, alloc, File.start + p.offset, p.filesz)
    <3> HIDE DEF p
    <3>1. DOMAIN copied = Addresses
      BY <1>2, SameAddresses
    <3>2. Loaded(p) = Memset(copied, alloc + p.filesz, <<"zero", 0>>, p.memsz - p.filesz)
      BY DEF Loaded
    <3> HIDE DEF copied
    <3> QED
      BY <3>1, <3>2, SameAddresses
  <2> QED
    BY <1>1, <1>2, <2>1
<1> HIDE DEF p
<1>5. alloc' \in Nat /\ alloc' >= KernelLoad /\ seg' \in Nat \ {0}
  <2>1. alloc' \in {alloc, alloc + Pages(p.memsz)} /\ seg' \in {seg, seg + 1}
    BY <1>1
  <2>2. KernelLoad \in Nat /\ alloc \in Nat /\ alloc >= KernelLoad /\ seg \in Nat \ {0}
    BY <1>2, SizesAssumption
  <2> QED
    BY <1>3, <2>1, <2>2
<1>6. Types'
  BY <1>1, <1>2, <1>4, <1>5 DEF Types, Loading, Adjusted, InPlace, LineMoved
<1>7. ASSUME OutOfTheWay'
      PROVE  /\ cmdline = Target /\ image = Home
             /\ pc' # "halt" => HasLine(Target)' /\ HasImage(Home)'
             /\ mods = [i \in DOMAIN boot.table |-> Moved(boot.table[i])]
  <2>1. OutOfTheWay
    BY <1>1, <1>7, SameBoot
  <2>2. /\ cmdline = Target /\ image = Home
        /\ mods = [i \in DOMAIN boot.table |-> Moved(boot.table[i])]
        /\ Holds(mem, Target, "cmd", 0, boot.cmdSize)
        /\ Holds(mem, Home, "image", 0, boot.size)
    BY <1>1, <2>1 DEF Inv, Places, HasLine, HasImage, Loading, Adjusted, InPlace, LineMoved
  <2>3. CASE mem' = Loaded(p)
    <3>1. p.memsz - p.filesz \in Int /\ pc \in Loading
      BY <1>1, <1>3 DEF Loading
    <3>2. /\ Holds(Loaded(p), Target, "cmd", 0, boot.cmdSize)
          /\ Holds(Loaded(p), Home, "image", 0, boot.size)
      BY <1>3, <2>1, <3>1, SegmentKeeps DEF Loaded
    <3> QED
      BY <1>1, <2>2, <2>3, <3>2, SameBoot DEF HasLine, HasImage
  <2>4. CASE mem' = mem
    BY <1>1, <2>2, <2>4, SameBoot DEF HasLine, HasImage
  <2> QED
    BY <1>1, <2>3, <2>4, <2>2
<1> QED
  BY <1>1, <1>6, <1>7, SameBoot
     DEF Inv, Places, Moved, Loading, Adjusted, InPlace, LineMoved

(* A status byte spoils nothing of what is out of the way.                 *)
LEMMA ToldKeeps ==
  ASSUME Inv, pc \in Loading, OutOfTheWay, mem' \in {mem, Status(mem)}
  PROVE  /\ Holds(mem', Target, "cmd", 0, boot.cmdSize)
         /\ Holds(mem', Home, "image", 0, boot.size)
<1>1. boot \in Boots /\ DOMAIN mem = Addresses
  BY DEF Inv, Types
<1>2. /\ Holds(mem, Target, "cmd", 0, boot.cmdSize)
      /\ Holds(mem, Home, "image", 0, boot.size)
  BY DEF Inv, Places, HasLine, HasImage, Loading, Adjusted, InPlace, LineMoved
<1>3. /\ Target + boot.cmdSize <= Top /\ Apart(StatusPort, 1, Target, boot.cmdSize)
      /\ Home + boot.size <= Top /\ Apart(StatusPort, 1, Home, boot.size)
  BY <1>1, Room, Apartness
<1>4. /\ Holds(Status(mem), Target, "cmd", 0, boot.cmdSize)
      /\ Holds(Status(mem), Home, "image", 0, boot.size)
  BY <1>1, <1>2, <1>3, Numbers, StatusKeeps
<1> QED
  BY <1>2, <1>4

(* The rest of the loading changes nothing of what Inv speaks of.          *)
LEMMA QuietStep ==
  ASSUME Inv, pc \in Loading, pc' \in {"segment", "relocate", "kernel", "halt"},
         mem' \in {mem, Status(mem)},
         UNCHANGED <<boot, cmdline, image, orig, mods, kernel, alloc>>,
         pc' # "halt" => seg' \in Nat \ {0}
  PROVE  Inv'
<1>1. DOMAIN mem' = Addresses
  BY SameAddresses DEF Inv, Types
<1>2. Types'
  BY <1>1 DEF Inv, Types, Loading, Adjusted, InPlace, LineMoved
<1>3. ASSUME OutOfTheWay'
      PROVE  /\ cmdline = Target /\ image = Home
             /\ HasLine(Target)' /\ HasImage(Home)'
             /\ mods = [i \in DOMAIN boot.table |-> Moved(boot.table[i])]
  <2>1. OutOfTheWay
    BY <1>3, SameBoot
  <2>2. /\ cmdline = Target /\ image = Home
        /\ mods = [i \in DOMAIN boot.table |-> Moved(boot.table[i])]
    BY <2>1 DEF Inv, Places, Loading, Adjusted, InPlace, LineMoved
  <2>3. /\ Holds(mem', Target, "cmd", 0, boot.cmdSize)
        /\ Holds(mem', Home, "image", 0, boot.size)
    BY <2>1, ToldKeeps
  <2> QED
    BY <2>2, <2>3, SameBoot DEF HasLine, HasImage
<1> QED
  BY <1>2, <1>3, SameBoot
     DEF Inv, Places, Moved, Loading, Adjusted, InPlace, LineMoved

LEMMA HeaderStep ==
  ASSUME Inv, CheckHeader
  PROVE  Inv'
<1>1. /\ pc \in Loading /\ pc' \in {"segment", "halt"} /\ seg' = 1
      /\ UNCHANGED <<boot, mem, cmdline, image, orig, mods, kernel, alloc>>
  BY DEF CheckHeader, Halt, Loading
<1> QED
  BY <1>1, QuietStep

LEMMA RelocateStep ==
  ASSUME Inv, Relocate
  PROVE  Inv'
<1>1. /\ pc = "relocate" /\ (pc' = "halt" \/ (pc' = "segment" /\ seg' = seg + 1))
      /\ UNCHANGED <<boot, mem, cmdline, image, orig, mods, kernel, alloc>>
  BY DEF Relocate, Halt
<1>2. seg \in Nat \ {0}
  BY <1>1 DEF Inv, Types
<1> QED
  BY <1>1, <1>2, QuietStep DEF Loading

LEMMA FinishStep ==
  ASSUME Inv, Finish
  PROVE  Inv'
<1>1. /\ pc = "segment" /\ pc' \in {"halt", "kernel"} /\ seg' = seg
      /\ mem' \in {mem, Status(mem)}
      /\ UNCHANGED <<boot, cmdline, image, orig, mods, kernel, alloc>>
  BY Written DEF Finish, Halt
<1>2. seg \in Nat \ {0}
  BY <1>1 DEF Inv, Types
<1> QED
  BY <1>1, <1>2, QuietStep DEF Loading

LEMMA StaysThere == Inv /\ [Next]_vars => Inv'
<1> SUFFICES ASSUME Inv, [Next]_vars PROVE Inv'
  OBVIOUS
<1>1. CASE Check
  BY <1>1, CheckStep
<1>2. CASE CopyCmdline
  BY <1>2, CmdlineStep
<1>3. CASE MoveAway
  BY <1>3, AwayStep
<1>4. CASE PlaceImage
  BY <1>4, PlaceStep
<1>5. CASE AdjustModules
  BY <1>5, AdjustStep
<1>6. CASE FindKernel
  BY <1>6, FindStep
<1>7. CASE CheckHeader
  BY <1>7, HeaderStep
<1>8. CASE LoadSegment
  BY <1>8, SegmentStep
<1>9. CASE Relocate
  BY <1>9, RelocateStep
<1>10. CASE Finish
  BY <1>10, FinishStep
<1>11. CASE UNCHANGED vars
  <2>1. /\ boot' = boot /\ mem' = mem /\ pc' = pc /\ cmdline' = cmdline /\ image' = image
        /\ orig' = orig /\ mods' = mods /\ kernel' = kernel /\ alloc' = alloc /\ seg' = seg
    BY <1>11 DEF vars
  <2>2. Types'
    BY <2>1 DEF Inv, Types
  <2>3. Places'
    BY <2>1, SameBoot DEF Inv, Places, HasLine, HasImage, Moved
  <2> QED
    BY <2>2, <2>3 DEF Inv
<1> QED
  BY <1>1, <1>2, <1>3, <1>4, <1>5, <1>6, <1>7, <1>8, <1>9, <1>10, <1>11 DEF Next

----------------------------------------------------------------------------
(* What the loader hands over.                                             *)

(* A part of an area that holds the ramdisk holds that part of it.         *)
LEMMA PartHolds ==
  ASSUME NEW m, NEW at \in Nat, NEW size \in Nat, NEW from \in Nat, NEW to \in Nat,
         Holds(m, at, "image", 0, size), from <= to, to <= size
  PROVE  Holds(m, from + at, "image", from, (to + at) - (from + at))
<1> SUFFICES ASSUME NEW k \in 0 .. (to + at) - (from + at) - 1
             PROVE  m[(from + at) + k] = <<"image", from + k>>
  BY DEF Holds
<1>1. from + k \in 0 .. size - 1 /\ at + (from + k) = (from + at) + k
        /\ 0 + (from + k) = from + k
  OBVIOUS
<1> QED
  BY <1>1 DEF Holds

LEMMA InvHandsOver == Inv => HandedOver
<1> SUFFICES ASSUME Inv, pc = "kernel", OutOfTheWay
             PROVE  /\ Holds(mem, cmdline, "cmd", 0, boot.cmdSize)
                    /\ Holds(mem, image, "image", 0, boot.size)
                    /\ \A i \in DOMAIN mods :
                         LET mod == boot.table[i]
                         IN  mod.start <= mod.end /\ mod.end <= boot.size =>
                               Holds(mem, mods[i].start, "image", mod.start,
                                     mods[i].end - mods[i].start)
  BY DEF HandedOver
<1>1. /\ boot \in Boots /\ cmdline = Target /\ image = Home
      /\ Holds(mem, Target, "cmd", 0, boot.cmdSize)
      /\ Holds(mem, Home, "image", 0, boot.size)
      /\ mods = [i \in DOMAIN boot.table |-> Moved(boot.table[i])]
  BY DEF Inv, Types, Places, HasLine, HasImage, Loading, Adjusted, InPlace, LineMoved
<1>2. ASSUME NEW i \in DOMAIN mods,
             boot.table[i].start <= boot.table[i].end, boot.table[i].end <= boot.size
      PROVE  Holds(mem, mods[i].start, "image", boot.table[i].start,
                   mods[i].end - mods[i].start)
  <2> DEFINE from == boot.table[i].start
             to   == boot.table[i].end
  <2>1. boot.table[i] \in Mod /\ mods[i] = Moved(boot.table[i])
    BY <1>1, <1>2, BootTypes
  <2>2. from \in Nat /\ to \in Nat /\ mods[i].start = U32(from + Home)
          /\ mods[i].end = U32(to + Home)
    BY <2>1 DEF Mod, Moved
  <2>3. /\ Home \in Nat /\ boot.size \in Nat /\ Wrap \in Nat \ {0}
        /\ Home + boot.size < Wrap
    <3>1. Home + boot.size <= KernelLoad
      BY <1>1, Apartness
    <3> HIDE DEF Home
    <3> QED
      BY <1>1, <3>1, Numbers
  <2> HIDE DEF from, to, Home
  <2>4. from <= to /\ to <= boot.size
    BY <1>2 DEF from, to
  <2>5. U32(from + Home) = from + Home /\ U32(to + Home) = to + Home
    <3>1. /\ from + Home \in Nat /\ to + Home \in Nat
          /\ from + Home < Wrap /\ to + Home < Wrap
      BY <2>2, <2>3, <2>4
    <3> QED
      BY <3>1, FitsIn
  <2>6. Holds(mem, from + Home, "image", from, (to + Home) - (from + Home))
    BY <1>1, <2>2, <2>3, <2>4, PartHolds
  <2> QED
    BY <2>2, <2>5, <2>6 DEF from
<1> QED
  BY <1>1, <1>2

(* Whatever the sizes, menus and layouts: in a layout out of the way the   *)
(* kernel finds the command line, the ramdisk and every module of the      *)
(* table where the multiboot information says (loader.c's copies, the      *)
(* addition of the image's address to the table, elf64_load's segments).   *)
THEOREM HandsOver == Spec => []HandedOver
<1>1. Spec => []Inv
  BY StartsThere, StaysThere, PTL DEF Spec
<1> QED
  BY <1>1, InvHandsOver, PTL

----------------------------------------------------------------------------
(* elf_virtual_base64. *)

Based(low, phdrs, n) ==
  low = [i \in 0 .. n |->
           IF i = 0 THEN 0
           ELSE IF /\ phdrs[i].type = "LOAD"
                   /\ low[i - 1] = 0 \/ phdrs[i].vaddr < low[i - 1]
             THEN phdrs[i].vaddr
             ELSE low[i - 1]]

LEMMA BasedExists ==
  ASSUME NEW phdrs, NEW n \in Nat
  PROVE  \E low : Based(low, phdrs, n)
<1> DEFINE S == {k \in 0 .. n : \E low : Based(low, phdrs, k)}
<1>1. 0 \in S
  <2> DEFINE low == [i \in 0 .. 0 |-> 0]
  <2>1. Based(low, phdrs, 0)
    BY DEF Based
  <2> QED
    BY <2>1
<1>2. ASSUME NEW k \in 0 .. n - 1, k \in S
      PROVE  k + 1 \in S
  <2>1. PICK f : Based(f, phdrs, k)
    BY <1>2
  <2> DEFINE low == [i \in 0 .. k + 1 |->
                       IF i = 0 THEN 0
                       ELSE IF /\ phdrs[i].type = "LOAD"
                               /\ f[i - 1] = 0 \/ phdrs[i].vaddr < f[i - 1]
                         THEN phdrs[i].vaddr
                         ELSE f[i - 1]]
  <2>2. \A i \in 0 .. k : low[i] = f[i]
    <3>1. \A i \in 0 .. k : f[i] = IF i = 0 THEN 0
                       ELSE IF /\ phdrs[i].type = "LOAD"
                               /\ f[i - 1] = 0 \/ phdrs[i].vaddr < f[i - 1]
                         THEN phdrs[i].vaddr
                         ELSE f[i - 1]
      BY <2>1 DEF Based
    <3> QED
      BY <3>1
  <2>3. \A i \in 0 .. k + 1 : i # 0 => i - 1 \in 0 .. k
    OBVIOUS
  <2>4. Based(low, phdrs, k + 1)
    BY <2>2, <2>3 DEF Based
  <2>5. k + 1 \in 0 .. n
    OBVIOUS
  <2> QED
    BY <2>4, <2>5
<1> HIDE DEF S
<1>3. \A k \in 0 .. n : k \in S
  BY <1>1, <1>2, Steps
<1> QED
  BY <1>3 DEF S

LEMMA BaseIs ==
  ASSUME NEW phdrs, Len(phdrs) \in Nat
  PROVE  \E low : /\ VirtualBase(phdrs) = low[Len(phdrs)] /\ low[0] = 0
                  /\ \A i \in 1 .. Len(phdrs) :
                       low[i] = IF /\ phdrs[i].type = "LOAD"
                                   /\ low[i - 1] = 0 \/ phdrs[i].vaddr < low[i - 1]
                                  THEN phdrs[i].vaddr
                                  ELSE low[i - 1]
<1> DEFINE low == CHOOSE f : Based(f, phdrs, Len(phdrs))
<1>1. Based(low, phdrs, Len(phdrs))
  BY BasedExists
<1>2. VirtualBase(phdrs) = low[Len(phdrs)]
  BY Zenon DEF VirtualBase, Based
<1> HIDE DEF low
<1>3. low[0] = 0
  BY <1>1 DEF Based
<1>4. ASSUME NEW i \in 1 .. Len(phdrs)
      PROVE  low[i] = IF /\ phdrs[i].type = "LOAD"
                         /\ low[i - 1] = 0 \/ phdrs[i].vaddr < low[i - 1]
                        THEN phdrs[i].vaddr
                        ELSE low[i - 1]
  <2>1. i \in 0 .. Len(phdrs) /\ i # 0
    OBVIOUS
  <2> QED
    BY <1>1, <2>1 DEF Based
<1> QED
  BY <1>2, <1>3, <1>4

(* It is an address.                                                       *)
LEMMA BaseIsNat ==
  ASSUME NEW phdrs, Len(phdrs) \in Nat,
         \A i \in 1 .. Len(phdrs) : phdrs[i].vaddr \in Nat
  PROVE  VirtualBase(phdrs) \in Nat
<1>1. PICK low : /\ VirtualBase(phdrs) = low[Len(phdrs)] /\ low[0] = 0
                 /\ \A i \in 1 .. Len(phdrs) :
                      low[i] \in {phdrs[i].vaddr, low[i - 1]}
  <2>1. PICK low : /\ VirtualBase(phdrs) = low[Len(phdrs)] /\ low[0] = 0
                   /\ \A i \in 1 .. Len(phdrs) :
                        low[i] = IF /\ phdrs[i].type = "LOAD"
                                    /\ low[i - 1] = 0 \/ phdrs[i].vaddr < low[i - 1]
                                   THEN phdrs[i].vaddr
                                   ELSE low[i - 1]
    BY BaseIs
  <2> QED
    BY <2>1
<1> DEFINE S == {k \in 0 .. Len(phdrs) : low[k] \in Nat}
<1>2. 0 \in S
  BY <1>1
<1>3. ASSUME NEW k \in 0 .. Len(phdrs) - 1, k \in S
      PROVE  k + 1 \in S
  <2>1. k + 1 \in 1 .. Len(phdrs) /\ k + 1 \in 0 .. Len(phdrs) /\ (k + 1) - 1 = k
    OBVIOUS
  <2>2. low[k + 1] \in {phdrs[k + 1].vaddr, low[k]}
    BY <1>1, <2>1
  <2> QED
    BY <1>3, <2>1, <2>2
<1> HIDE DEF S
<1>4. \A k \in 0 .. Len(phdrs) : k \in S
  BY <1>2, <1>3, Steps
<1> QED
  BY <1>1, <1>4 DEF S

(* The lowest address, that of the first segment, if no other is lower and *)
(* it is not 0 or there is no other.                                       *)
LEMMA BaseIsLowest ==
  ASSUME NEW phdrs, Len(phdrs) \in Nat, NEW first \in 1 .. Len(phdrs),
         \A i \in 1 .. Len(phdrs) : phdrs[i].vaddr \in Nat,
         phdrs[first].type = "LOAD",
         \A i \in 1 .. Len(phdrs) : phdrs[i].type = "LOAD" =>
           first <= i /\ phdrs[first].vaddr <= phdrs[i].vaddr,
         \/ phdrs[first].vaddr # 0
         \/ \A i \in 1 .. Len(phdrs) : phdrs[i].type = "LOAD" => i = first
  PROVE  VirtualBase(phdrs) = phdrs[first].vaddr
<1> DEFINE v == phdrs[first].vaddr
<1>1. PICK low : /\ VirtualBase(phdrs) = low[Len(phdrs)] /\ low[0] = 0
                 /\ \A i \in 1 .. Len(phdrs) :
                      low[i] = IF /\ phdrs[i].type = "LOAD"
                                  /\ low[i - 1] = 0 \/ phdrs[i].vaddr < low[i - 1]
                                 THEN phdrs[i].vaddr
                                 ELSE low[i - 1]
  BY BaseIs
<1> DEFINE S == {k \in 0 .. Len(phdrs) : low[k] = IF k < first THEN 0 ELSE v}
<1>2. 0 \in S
  BY <1>1
<1>3. ASSUME NEW k \in 0 .. Len(phdrs) - 1, k \in S
      PROVE  k + 1 \in S
  <2>1. k + 1 \in 1 .. Len(phdrs) /\ k + 1 \in 0 .. Len(phdrs) /\ (k + 1) - 1 = k
    OBVIOUS
  <2>2. low[k] = IF k < first THEN 0 ELSE v
    BY <1>3
  <2>3. low[k + 1] = IF /\ phdrs[k + 1].type = "LOAD"
                        /\ low[k] = 0 \/ phdrs[k + 1].vaddr < low[k]
                       THEN phdrs[k + 1].vaddr
                       ELSE low[k]
    BY <1>1, <2>1
  <2>4. CASE k + 1 < first
    BY <2>1, <2>2, <2>3, <2>4
  <2>5. CASE k + 1 = first
    BY <2>1, <2>2, <2>3, <2>5
  <2>6. CASE k >= first
    BY <2>1, <2>2, <2>3, <2>6
  <2> QED
    BY <2>4, <2>5, <2>6
<1> HIDE DEF S
<1>4. \A k \in 0 .. Len(phdrs) : k \in S
  BY <1>2, <1>3, Steps
<1> QED
  BY <1>1, <1>4 DEF S

----------------------------------------------------------------------------
(* How far the kernel is loaded: the next segment goes to where it is      *)
(* linked, moved; those before stand there and end below.                  *)
At(i)   == Elf.phdrs[i].vaddr + Move
Done(i) == i < seg \/ (i = seg /\ pc = "relocate")

Kernelwards == {"segment", "relocate", "kernel"}

Progress ==
  OutOfTheWay /\ Linked =>
    /\ pc = "header" => alloc = KernelLoad
    /\ pc \in Kernelwards =>
         /\ \A i \in Loads : ~Done(i) /\ (\A k \in Loads : k < i => Done(k)) => alloc = At(i)
         /\ \A i \in Loads : Done(i) =>
              /\ Stands(Elf.phdrs[i], At(i))
              /\ KernelLoad <= At(i) /\ At(i) + Elf.phdrs[i].memsz <= alloc
    /\ pc = "kernel" =>
         seg > Len(Elf.phdrs) /\ entry = Elf.entry - VirtualBase(Elf.phdrs) + KernelLoad

(* The types of the file's fields.                                         *)
LEMMA FileTypes ==
  ASSUME Types, pc \in Loading
  PROVE  /\ Elf.size \in Nat /\ Elf.entry \in Nat /\ FirstCell \in Nat
         /\ Len(Elf.phdrs) \in Nat /\ DOMAIN Elf.phdrs = 1 .. Len(Elf.phdrs)
         /\ Loads \subseteq 1 .. Len(Elf.phdrs) /\ Loads \in SUBSET Nat
         /\ \A i \in 1 .. Len(Elf.phdrs) :
              /\ Elf.phdrs[i].offset \in Nat /\ Elf.phdrs[i].vaddr \in Nat
              /\ Elf.phdrs[i].filesz \in Nat /\ Elf.phdrs[i].memsz \in Nat
         /\ KernelLoad \in Nat /\ Top \in Nat
<1>1. boot \in Boots /\ kernel \in 1 .. Len(boot.elf) /\ Len(boot.elf) = Len(boot.table)
  BY BootTypes DEF Types
<1>2. boot.table[kernel] \in Mod
  <2>1. boot.table \in Seq(Mod)
    BY <1>1, BootTypes
  <2> QED
    BY <1>1, <2>1
<1>3. FirstCell \in Nat
  BY <1>2 DEF FirstCell, Mod
<1>4. /\ Elf.size \in Nat /\ Elf.entry \in Nat
      /\ Len(Elf.phdrs) \in Nat /\ DOMAIN Elf.phdrs = 1 .. Len(Elf.phdrs)
      /\ \A i \in 1 .. Len(Elf.phdrs) :
           /\ Elf.phdrs[i].offset \in Nat /\ Elf.phdrs[i].vaddr \in Nat
           /\ Elf.phdrs[i].filesz \in Nat /\ Elf.phdrs[i].memsz \in Nat
  BY <1>1, BootTypes DEF Elf
<1>5. Loads \subseteq 1 .. Len(Elf.phdrs)
  BY <1>4 DEF Loads
<1> QED
  BY <1>3, <1>4, <1>5, SizesAssumption

(* Where the file stands: nothing below depends on the 32 bits.            *)
LEMMA FileAt ==
  ASSUME Inv, OutOfTheWay, Linked, pc \in Loading
  PROVE  File.start = FirstCell + Home /\ Home \in Nat /\ FirstCell + Elf.size <= boot.size
<1>1. /\ boot \in Boots /\ kernel \in 1 .. Len(boot.table)
      /\ mods = [i \in DOMAIN boot.table |-> Moved(boot.table[i])]
  BY BootTypes DEF Inv, Types, Places, Loading, Adjusted, InPlace, LineMoved
<1>2. boot.table \in Seq(Mod) /\ DOMAIN boot.table = 1 .. Len(boot.table)
  <2>1. boot.table \in Seq(Mod)
    BY <1>1, BootTypes
  <2> QED
    BY <2>1
<1>3. File.start = U32(FirstCell + Home)
  <2>1. boot.table[kernel] \in Mod
    BY <1>1, <1>2
  <2>2. mods[kernel] = Moved(boot.table[kernel])
    BY <1>1, <1>2
  <2> QED
    BY <2>1, <2>2 DEF File, FirstCell, Moved, Mod
<1>4. FirstCell \in Nat /\ Elf.size \in Nat
  BY FileTypes DEF Inv
<1>5. Home \in Nat /\ Home + boot.size <= KernelLoad /\ KernelLoad < Wrap /\ KernelLoad \in Nat
        /\ Wrap \in Nat /\ boot.size \in Nat
  <2>1. Home \in Nat /\ KernelLoad < Top /\ Top <= Wrap /\ Top \in Nat /\ Wrap \in Nat
          /\ KernelLoad \in Nat /\ boot.size \in Nat
    BY <1>1, Numbers
  <2>2. Home + boot.size <= KernelLoad
    BY <1>1, Apartness
  <2> HIDE DEF Home
  <2> QED
    BY <2>1, <2>2
<1>6. FirstCell + Elf.size <= boot.size
  BY DEF Linked
<1>7. FirstCell + Home \in Nat /\ FirstCell + Home < Wrap
  <2> HIDE DEF Home
  <2> QED
    BY <1>4, <1>5, <1>6
<1> QED
  BY <1>3, <1>5, <1>6, <1>7, FitsIn

(* What loading a segment does to memory.                                  *)
LEMMA LoadedIs ==
  ASSUME DOMAIN mem = Addresses, alloc \in Nat, NEW p, p.filesz \in Nat, p.memsz \in Nat,
         p.filesz <= p.memsz, alloc + p.memsz <= Top, File.start \in Nat, p.offset \in Nat
  PROVE  /\ \A a \in 0 .. alloc - 1 : Loaded(p)[a] = mem[a]
         /\ \A k \in 0 .. p.filesz - 1 :
              Loaded(p)[alloc + k] = mem[(File.start + p.offset) + k]
         /\ \A a \in alloc + p.filesz .. alloc + p.memsz - 1 : Loaded(p)[a] = <<"zero", 0>>
<1> DEFINE copied == Memcpy(mem, alloc, File.start + p.offset, p.filesz)
<1>1. Top \in Nat /\ DOMAIN copied = Addresses
  BY SameAddresses, SizesAssumption
<1>2. /\ \A a \in 0 .. alloc - 1 : copied[a] = mem[a]
      /\ \A k \in 0 .. p.filesz - 1 : copied[alloc + k] = mem[(File.start + p.offset) + k]
  <2>1. \A a \in Addresses :
          copied[a] = IF a \in alloc .. alloc + p.filesz - 1
                        THEN mem[(File.start + p.offset) + (a - alloc)] ELSE mem[a]
    BY DEF Memcpy, Area
  <2> HIDE DEF copied
  <2>2. ASSUME NEW a \in 0 .. alloc - 1 PROVE copied[a] = mem[a]
    <3>1. a \in Addresses /\ a \notin alloc .. alloc + p.filesz - 1
      BY <1>1 DEF Addresses
    <3> QED
      BY <2>1, <3>1
  <2>3. ASSUME NEW k \in 0 .. p.filesz - 1
        PROVE  copied[alloc + k] = mem[(File.start + p.offset) + k]
    <3>1. /\ alloc + k \in Addresses /\ alloc + k \in alloc .. alloc + p.filesz - 1
          /\ (alloc + k) - alloc = k
      BY <1>1 DEF Addresses
    <3> QED
      BY <2>1, <3>1
  <2> QED
    BY <2>2, <2>3
<1>3. Loaded(p) = Memset(copied, alloc + p.filesz, <<"zero", 0>>, p.memsz - p.filesz)
  BY DEF Loaded
<1> HIDE DEF copied
<1>4. \A a \in Addresses :
        Loaded(p)[a] = IF a \in alloc + p.filesz .. (alloc + p.filesz) + (p.memsz - p.filesz) - 1
                         THEN <<"zero", 0>> ELSE copied[a]
  BY <1>1, <1>3 DEF Memset, Area
<1>5. ASSUME NEW a \in 0 .. alloc - 1 PROVE Loaded(p)[a] = mem[a]
  <2>1. a \in Addresses
          /\ a \notin alloc + p.filesz .. (alloc + p.filesz) + (p.memsz - p.filesz) - 1
    BY <1>1 DEF Addresses
  <2> QED
    BY <1>2, <1>4, <2>1
<1>6. ASSUME NEW k \in 0 .. p.filesz - 1
      PROVE  Loaded(p)[alloc + k] = mem[(File.start + p.offset) + k]
  <2>1. alloc + k \in Addresses
          /\ alloc + k \notin alloc + p.filesz .. (alloc + p.filesz) + (p.memsz - p.filesz) - 1
    BY <1>1 DEF Addresses
  <2> QED
    BY <1>2, <1>4, <2>1
<1>7. ASSUME NEW a \in alloc + p.filesz .. alloc + p.memsz - 1
      PROVE  Loaded(p)[a] = <<"zero", 0>>
  <2>1. a \in Addresses
          /\ a \in alloc + p.filesz .. (alloc + p.filesz) + (p.memsz - p.filesz) - 1
    BY <1>1 DEF Addresses
  <2> QED
    BY <1>4, <2>1
<1> QED
  BY <1>5, <1>6, <1>7

(* The addresses the kernel is linked at depend on nothing that changes.   *)
LEMMA LinkedStays ==
  ASSUME boot' = boot, kernel' = kernel
  PROVE  /\ Elf' = Elf /\ Loads' = Loads /\ Move' = Move /\ FirstCell' = FirstCell
         /\ OutOfTheWay' <=> OutOfTheWay
         /\ Linked' <=> Linked
         /\ \A i : At(i)' = At(i)
  BY SameBoot DEF Elf, Loads, Move, Lowest, FirstCell, At, Linked

LEMMA AtIsInt ==
  ASSUME Inv, pc \in Loading, Linked
  PROVE  /\ Min(Loads) \in Loads /\ \A i \in Loads : Min(Loads) <= i
         /\ Lowest \in Nat /\ Move \in Int /\ \A i \in Loads : At(i) \in Int
<1>1. Loads \in SUBSET Nat /\ Loads # {}
  BY FileTypes DEF Inv, Linked
<1>2. Min(Loads) \in Loads /\ \A i \in Loads : Min(Loads) <= i
  BY <1>1, MinIsIn
<1>3. KernelLoad \in Nat /\ \A i \in Loads : Elf.phdrs[i].vaddr \in Nat
  BY FileTypes DEF Inv
<1>4. Lowest \in Nat /\ Move \in Int
  BY <1>2, <1>3 DEF Lowest, Move
<1> QED
  BY <1>2, <1>3, <1>4 DEF At

LEMMA StandsThere ==
  ASSUME NEW i, Elf' = Elf, FirstCell' = FirstCell, At(i)' = At(i),
         \A k \in 0 .. Elf.phdrs[i].filesz - 1 :
           mem'[At(i) + k] = <<"image", (FirstCell + Elf.phdrs[i].offset) + k>>,
         \A a \in At(i) + Elf.phdrs[i].filesz .. At(i) + Elf.phdrs[i].memsz - 1 :
           mem'[a] = <<"zero", 0>>
  PROVE  Stands(Elf.phdrs[i], At(i))'
  BY DEF Stands, Holds

(* The next segment goes to where it is linked; then the one after it.     *)
LEMMA LoadKeeps ==
  ASSUME Inv, Progress, OutOfTheWay, Linked, LoadSegment, pc' # "halt",
         Elf.phdrs[seg].type = "LOAD"
  PROVE  Progress'
<1> DEFINE p == Elf.phdrs[seg]
<1>0. pc \in Loading
  BY DEF LoadSegment, Loading
<1> USE <1>0
<1>1. /\ boot' = boot /\ kernel' = kernel /\ seg' = seg /\ pc = "segment" /\ pc' = "relocate"
      /\ mem' = Loaded(p) /\ alloc' = alloc + Pages(p.memsz)
      /\ seg <= Len(Elf.phdrs)
  BY Written DEF LoadSegment, Halt
<1>2. pc \in Loading /\ pc \in Kernelwards
  BY <1>1 DEF Loading, Kernelwards
<1>3. /\ Len(Elf.phdrs) \in Nat /\ DOMAIN Elf.phdrs = 1 .. Len(Elf.phdrs)
      /\ Loads \in SUBSET Nat /\ FirstCell \in Nat /\ Elf.size \in Nat
      /\ KernelLoad \in Nat /\ Top \in Nat
      /\ \A i \in Loads :
           /\ Elf.phdrs[i].offset \in Nat /\ Elf.phdrs[i].vaddr \in Nat
           /\ Elf.phdrs[i].filesz \in Nat /\ Elf.phdrs[i].memsz \in Nat
  BY <1>2, FileTypes DEF Inv
<1>4. seg \in Loads /\ seg \in Nat
  BY <1>1, <1>3 DEF Inv, Types, Loads
<1>5. /\ alloc \in Nat /\ alloc >= KernelLoad /\ DOMAIN mem = Addresses
  BY <1>2 DEF Inv, Types
<1>6. \A i \in Loads : Done(i) <=> i < seg
  BY <1>1, <1>3, <1>4 DEF Done
<1>7. alloc = At(seg)
  <2>1. ~Done(seg) /\ \A k \in Loads : k < seg => Done(k)
    BY <1>3, <1>4, <1>6
  <2> QED
    BY <1>2, <1>4, <2>1 DEF Progress
<1>8. /\ p.filesz <= p.memsz /\ p.offset + p.filesz <= Elf.size /\ alloc + p.memsz <= Top
      /\ p.filesz \in Nat /\ p.memsz \in Nat /\ p.offset \in Nat
  BY <1>3, <1>4, <1>7 DEF Linked, At
<1>9. /\ File.start = FirstCell + Home /\ Home \in Nat /\ FirstCell + Elf.size <= boot.size
      /\ Holds(mem, Home, "image", 0, boot.size) /\ boot.size \in Nat
  BY <1>2, FileAt, Numbers
  DEF Inv, Types, Places, HasImage, Loading, Adjusted, InPlace, LineMoved
<1>10. /\ \A a \in 0 .. alloc - 1 : mem'[a] = mem[a]
       /\ \A k \in 0 .. p.filesz - 1 : mem'[alloc + k] = mem[(File.start + p.offset) + k]
       /\ \A a \in alloc + p.filesz .. alloc + p.memsz - 1 : mem'[a] = <<"zero", 0>>
  <2>1. File.start \in Nat
    <3> HIDE DEF Home
    <3> QED
      BY <1>3, <1>9
  <2> QED
    BY <1>1, <1>5, <1>8, <2>1, LoadedIs
<1>11. \A k \in 0 .. p.filesz - 1 : mem'[alloc + k] = <<"image", (FirstCell + p.offset) + k>>
  <2> SUFFICES ASSUME NEW k \in 0 .. p.filesz - 1
               PROVE  mem'[alloc + k] = <<"image", (FirstCell + p.offset) + k>>
    OBVIOUS
  <2> DEFINE j == (FirstCell + p.offset) + k
  <2> HIDE DEF Home, p
  <2>1. j \in 0 .. boot.size - 1 /\ (File.start + p.offset) + k = Home + j /\ 0 + j = j
    <3>1. /\ FirstCell \in Nat /\ Elf.size \in Nat /\ boot.size \in Nat /\ Home \in Nat
          /\ p.filesz \in Nat /\ p.offset \in Nat
      BY <1>3, <1>8, <1>9
    <3>2. /\ p.offset + p.filesz <= Elf.size /\ FirstCell + Elf.size <= boot.size
          /\ File.start = FirstCell + Home
      BY <1>8, <1>9
    <3> QED
      BY <3>1, <3>2
  <2>2. mem[Home + j] = <<"image", 0 + j>>
    BY <1>9, <2>1 DEF Holds
  <2> QED
    BY <1>10, <2>1, <2>2
<1>12. Pages(p.memsz) \in Nat /\ p.memsz <= Pages(p.memsz)
  <2> HIDE DEF p
  <2> QED
    BY <1>8, RoundsUp, SizesAssumption DEF Pages, ROUND_UP
<1>13. /\ Elf' = Elf /\ Loads' = Loads /\ Move' = Move /\ FirstCell' = FirstCell
       /\ \A i : At(i)' = At(i)
  BY <1>1, LinkedStays
<1>14. \A i \in Loads : Done(i)' <=> i <= seg
  BY <1>1, <1>3, <1>4 DEF Done
<1>15. ASSUME NEW i \in Loads, i <= seg
       PROVE  /\ Stands(Elf.phdrs[i], At(i))'
              /\ KernelLoad <= At(i) /\ At(i) + Elf.phdrs[i].memsz <= alloc'
  <2>1. CASE i = seg
    <3>1. Stands(Elf.phdrs[i], At(i))'
      BY <1>7, <1>10, <1>11, <1>13, <2>1, StandsThere
    <3> QED
      BY <1>1, <1>5, <1>7, <1>8, <1>12, <2>1, <3>1
  <2>2. CASE i < seg
    <3> DEFINE q == Elf.phdrs[i]
    <3>1. Stands(q, At(i)) /\ KernelLoad <= At(i) /\ At(i) + q.memsz <= alloc
      BY <1>2, <1>6, <2>2 DEF Progress
    <3>2. q.filesz \in Nat /\ q.memsz \in Nat /\ q.filesz <= q.memsz /\ At(i) \in Int
      BY <1>3, AtIsInt DEF Linked
    <3> HIDE DEF q
    <3>3. /\ \A k \in 0 .. q.filesz - 1 : At(i) + k \in 0 .. alloc - 1
          /\ \A a \in At(i) + q.filesz .. At(i) + q.memsz - 1 : a \in 0 .. alloc - 1
      <4>1. /\ KernelLoad <= At(i) /\ At(i) + q.memsz <= alloc
            /\ KernelLoad \in Nat /\ alloc \in Nat
        BY <1>3, <1>5, <3>1
      <4> HIDE <1>0
      <4> QED
        BY ONLY <3>2, <4>1
    <3>4. /\ \A k \in 0 .. q.filesz - 1 :
               mem'[At(i) + k] = <<"image", (FirstCell + q.offset) + k>>
          /\ \A a \in At(i) + q.filesz .. At(i) + q.memsz - 1 : mem'[a] = <<"zero", 0>>
      BY <1>10, <3>1, <3>3 DEF Stands, Holds
    <3>5. Stands(Elf.phdrs[i], At(i))'
      BY <1>13, <3>4, StandsThere DEF q
    <3>6. At(i) + q.memsz <= alloc'
      BY <1>1, <1>5, <1>12, <3>1, <3>2
    <3> QED
      BY <3>1, <3>5, <3>6 DEF q
  <2> QED
    BY <1>3, <1>4, <1>15, <2>1, <2>2
<1>16. ASSUME NEW i \in Loads, i > seg, \A k \in Loads : k < i => k <= seg
       PROVE  alloc' = At(i)
  <2>1. Elf.phdrs[i].vaddr = p.vaddr + Pages(p.memsz)
    <3>1. seg < i /\ \A k \in Loads : k <= seg \/ i <= k
      BY <1>3, <1>4, <1>16
    <3> QED
      BY <1>4, <3>1 DEF Linked
  <2>2. p.vaddr \in Nat /\ Move \in Int
    BY <1>3, <1>4, AtIsInt
  <2> QED
    BY <1>1, <1>7, <1>12, <2>1, <2>2 DEF At
<1> QED
  BY <1>1, <1>13, <1>14, <1>15, <1>16, LinkedStays, <1>3, <1>4 DEF Progress

(* A status byte, below the kernel, leaves a segment that stands.          *)
LEMMA ToldStands ==
  ASSUME Inv, OutOfTheWay, Linked, pc \in Kernelwards,
         UNCHANGED <<boot, kernel>>, mem' \in {mem, Status(mem)},
         NEW i \in Loads, Stands(Elf.phdrs[i], At(i)), KernelLoad <= At(i)
  PROVE  Stands(Elf.phdrs[i], At(i))'
<1> DEFINE q == Elf.phdrs[i]
<1>1. pc \in Loading
  BY DEF Kernelwards, Loading
<1>2. /\ KernelLoad \in Nat /\ Top \in Nat /\ StatusPort \in Nat /\ StatusPort < KernelLoad
      /\ DOMAIN mem = Addresses
  BY SizesAssumption DEF Inv, Types
<1>3. q.filesz \in Nat /\ q.memsz \in Nat /\ q.filesz <= q.memsz
  BY <1>1, FileTypes DEF Inv, Linked
<1>4. At(i) \in Int /\ At(i) + q.memsz <= Top
  BY <1>1, AtIsInt DEF At, Linked
<1>5. \A a \in KernelLoad .. Top - 1 : mem'[a] = mem[a]
  BY <1>2 DEF Status, Memset, Area, Addresses
<1>6. /\ \A k \in 0 .. q.filesz - 1 : mem[At(i) + k] = <<"image", (FirstCell + q.offset) + k>>
      /\ \A a \in At(i) + q.filesz .. At(i) + q.memsz - 1 : mem[a] = <<"zero", 0>>
  BY DEF Stands, Holds
<1>7. /\ Elf' = Elf /\ FirstCell' = FirstCell /\ At(i)' = At(i)
  BY LinkedStays
<1> HIDE DEF q
<1>8. /\ \A k \in 0 .. q.filesz - 1 : At(i) + k \in KernelLoad .. Top - 1
      /\ \A a \in At(i) + q.filesz .. At(i) + q.memsz - 1 : a \in KernelLoad .. Top - 1
  BY <1>2, <1>3, <1>4
<1>9. /\ \A k \in 0 .. q.filesz - 1 : mem'[At(i) + k] = <<"image", (FirstCell + q.offset) + k>>
      /\ \A a \in At(i) + q.filesz .. At(i) + q.memsz - 1 : mem'[a] = <<"zero", 0>>
  BY <1>5, <1>6, <1>8
<1> QED
  BY <1>7, <1>9, StandsThere DEF q

(* What is not progress, and writes a status byte at most, leaves the      *)
(* progress.                                                               *)
LEMMA ProgressRests ==
  ASSUME Inv, Progress, OutOfTheWay, Linked, pc \in Kernelwards, pc' \in Kernelwards,
         UNCHANGED <<boot, kernel, alloc>>, mem' \in {mem, Status(mem)},
         \A i \in Loads : Done(i)' <=> Done(i),
         pc' = "kernel" =>
           seg' > Len(Elf.phdrs) /\ entry' = Elf.entry - VirtualBase(Elf.phdrs) + KernelLoad
  PROVE  Progress'
<1>1. Elf' = Elf /\ Loads' = Loads /\ FirstCell' = FirstCell /\ \A i : At(i)' = At(i)
  BY LinkedStays
<1>2. ASSUME NEW i \in Loads, Done(i)
      PROVE  Stands(Elf.phdrs[i], At(i))'
  BY <1>2, ToldStands DEF Progress
<1>3. "header" \notin Kernelwards
  BY DEF Kernelwards
<1> QED
  BY <1>1, <1>2, <1>3 DEF Progress

LEMMA ProgressStep == Inv /\ Progress /\ [Next]_vars => Progress'
<1> SUFFICES ASSUME Inv, Progress, [Next]_vars, OutOfTheWay', Linked',
                    pc' \in {"header"} \union Kernelwards
             PROVE  Progress'
  BY DEF Progress, Kernelwards
<1>1. CASE FindKernel
  <2>1. alloc' = KernelLoad /\ pc' = "header" /\ pc' \notin Kernelwards
    BY <1>1, Written DEF FindKernel, Halt, Kernelwards
  <2> QED
    BY <2>1 DEF Progress
<1>2. ASSUME Check \/ CopyCmdline \/ MoveAway \/ PlaceImage \/ AdjustModules PROVE FALSE
  <2>1. CASE Check
    BY <2>1, Written DEF Check, Halt, Kernelwards
  <2>2. CASE CopyCmdline
    BY <2>2, Written DEF CopyCmdline, Copy, Halt, Kernelwards
  <2>3. CASE MoveAway
    BY <2>3, Written DEF MoveAway, Kernelwards
  <2>4. CASE PlaceImage
    BY <2>4, Written DEF PlaceImage, Copy, Halt, Kernelwards
  <2>5. CASE AdjustModules
    <3>1. Write(Status(mem), "find")
      BY <2>5 DEF AdjustModules
    <3>2. pc' \in {"find", "halt"}
      BY <3>1, Written
    <3> QED
      BY <3>2 DEF Kernelwards
  <2> QED
    BY <1>2, <2>1, <2>2, <2>3, <2>4, <2>5
<1>3. CASE CheckHeader \/ LoadSegment \/ Relocate \/ Finish
  <2>1. UNCHANGED <<boot, kernel>> /\ pc \in Loading
    BY <1>3 DEF CheckHeader, LoadSegment, Relocate, Finish, Loading
  <2>2. OutOfTheWay /\ Linked
    BY <2>1, LinkedStays
  <2>3. /\ Loads \in SUBSET Nat /\ DOMAIN Elf.phdrs = 1 .. Len(Elf.phdrs)
        /\ KernelLoad \in Nat
    BY <2>1, FileTypes DEF Inv
  <2>4. CASE CheckHeader
    <3>1. alloc = KernelLoad /\ alloc' = alloc /\ pc' = "segment" /\ seg' = 1
      BY <2>2, <2>4 DEF CheckHeader, Halt, Progress, Kernelwards
    <3>2. /\ Elf' = Elf /\ Loads' = Loads /\ \A i : At(i)' = At(i)
      BY <2>1, LinkedStays
    <3>3. Loads \subseteq 1 .. Len(Elf.phdrs)
      BY <2>3 DEF Loads
    <3>4. \A i \in Loads : ~Done(i)'
      BY <3>1, <3>3, <2>3 DEF Done
    <3>5. ASSUME NEW i \in Loads, \A k \in Loads : ~(k < i)
          PROVE  alloc' = At(i)
      <4>1. i = Min(Loads)
        <5>1. Min(Loads) \in Loads /\ Min(Loads) <= i
          BY <2>1, <2>2, AtIsInt
        <5>2. ~(Min(Loads) < i) /\ Min(Loads) \in Nat /\ i \in Nat
          BY <2>3, <3>5, <5>1
        <5> QED
          BY <5>1, <5>2
      <4>2. At(i) = Lowest + (KernelLoad - Lowest) /\ Lowest \in Nat
        BY <2>1, <2>2, <4>1, AtIsInt DEF At, Move, Lowest
      <4> QED
        BY <2>3, <3>1, <4>2
    <3> QED
      BY <3>1, <3>2, <3>4, <3>5 DEF Progress
  <2>5. CASE LoadSegment
    <3>1. CASE Elf.phdrs[seg].type = "LOAD"
      BY <2>2, <2>5, <3>1, LoadKeeps DEF Kernelwards
    <3>2. CASE Elf.phdrs[seg].type # "LOAD"
      <4>1. /\ pc = "segment" /\ pc' = pc /\ seg' = seg + 1 /\ UNCHANGED <<mem, alloc>>
        BY <2>5, <3>2 DEF LoadSegment, Halt, Kernelwards
      <4>2. seg \in Nat /\ seg \notin Loads
        BY <3>2, <4>1 DEF Inv, Types, Loads
      <4>3. \A i \in Loads : Done(i)' <=> Done(i)
        BY <2>3, <4>1, <4>2 DEF Done
      <4> QED
        BY <2>1, <2>2, <4>1, <4>3, ProgressRests DEF Kernelwards
    <3> QED
      BY <3>1, <3>2
  <2>6. CASE Relocate
    <3>1. /\ pc = "relocate" /\ pc' = "segment" /\ seg' = seg + 1 /\ UNCHANGED <<mem, alloc>>
      BY <2>6 DEF Relocate, Halt, Kernelwards
    <3>2. seg \in Nat
      BY <3>1 DEF Inv, Types
    <3>3. \A i \in Loads : Done(i)' <=> Done(i)
      BY <2>3, <3>1, <3>2 DEF Done
    <3> QED
      BY <2>1, <2>2, <3>1, <3>3, ProgressRests DEF Kernelwards
  <2>7. CASE Finish
    <3>1. /\ pc = "segment" /\ pc' = "kernel" /\ seg' = seg /\ alloc' = alloc
          /\ mem' \in {mem, Status(mem)}
          /\ seg > Len(Elf.phdrs) /\ entry' = Elf.entry - VirtualBase(Elf.phdrs) + KernelLoad
      BY <2>7, Written DEF Finish, Halt, Kernelwards
    <3>2. \A i \in Loads : Done(i)' <=> Done(i)
      BY <3>1 DEF Done
    <3> QED
      BY <2>1, <2>2, <3>1, <3>2, ProgressRests DEF Kernelwards
  <2> QED
    BY <1>3, <2>4, <2>5, <2>6, <2>7
<1>4. CASE UNCHANGED vars
  <2>1. /\ boot' = boot /\ mem' = mem /\ pc' = pc /\ kernel' = kernel /\ alloc' = alloc
        /\ seg' = seg /\ entry' = entry
    BY <1>4 DEF vars
  <2>2. OutOfTheWay /\ Linked
    BY <2>1, LinkedStays
  <2>3. CASE pc = "header"
    BY <2>1, <2>2, <2>3 DEF Progress, Kernelwards
  <2>4. CASE pc \in Kernelwards
    <3>1. \A i \in Loads : Done(i)' <=> Done(i)
      BY <2>1 DEF Done
    <3> QED
      BY <2>1, <2>2, <2>4, <3>1, ProgressRests DEF Progress
  <2> QED
    BY <2>1, <2>3, <2>4
<1> QED
  BY <1>1, <1>2, <1>3, <1>4 DEF Next

(* Every segment done, the base is the lowest address: none is lower,      *)
(* since linear_alloc only goes up.                                        *)
LEMMA KernelIsThere == Inv /\ Progress => KernelStands
<1> SUFFICES ASSUME Inv, Progress, pc = "kernel", OutOfTheWay, Linked
             PROVE  /\ Lowest # 0 \/ Loads = {Min(Loads)} => entry = Elf.entry + Move
                    /\ \A i \in Loads : Stands(Elf.phdrs[i], At(i))
  BY DEF KernelStands, At
<1>1. pc \in Loading /\ pc \in Kernelwards /\ seg \in Nat
  BY DEF Loading, Kernelwards, Inv, Types
<1>2. /\ Len(Elf.phdrs) \in Nat /\ Loads \subseteq 1 .. Len(Elf.phdrs) /\ Elf.entry \in Nat
      /\ KernelLoad \in Nat /\ DOMAIN Elf.phdrs = 1 .. Len(Elf.phdrs)
      /\ \A i \in 1 .. Len(Elf.phdrs) : Elf.phdrs[i].vaddr \in Nat
  BY <1>1, FileTypes DEF Inv
<1>3. /\ Min(Loads) \in Loads /\ \A i \in Loads : Min(Loads) <= i
      /\ Lowest \in Nat
  BY <1>1, AtIsInt
<1>4. seg > Len(Elf.phdrs) /\ entry = Elf.entry - VirtualBase(Elf.phdrs) + KernelLoad
  BY <1>1 DEF Progress
<1>5. \A i \in Loads : Done(i)
  BY <1>1, <1>2, <1>4 DEF Done
<1>6. \A i \in Loads : Stands(Elf.phdrs[i], At(i)) /\ KernelLoad <= At(i)
  BY <1>1, <1>5 DEF Progress
<1>7. ASSUME Lowest # 0 \/ Loads = {Min(Loads)}
      PROVE  entry = Elf.entry + Move
  <2> DEFINE first == Min(Loads)
  <2>1. first \in 1 .. Len(Elf.phdrs) /\ Elf.phdrs[first].type = "LOAD"
          /\ Elf.phdrs[first].vaddr = Lowest
    BY <1>2, <1>3 DEF Loads, Lowest
  <2>2. \A i \in Loads : first <= i /\ Lowest <= Elf.phdrs[i].vaddr
    BY <1>2, <1>3, <1>6 DEF At, Move
  <2>3. \A i \in 1 .. Len(Elf.phdrs) : Elf.phdrs[i].type = "LOAD" => i \in Loads
    BY <1>2 DEF Loads
  <2>4. Lowest # 0 \/ \A i \in Loads : i = first
    BY <1>7
  <2> HIDE DEF first
  <2>5. VirtualBase(Elf.phdrs) = Elf.phdrs[first].vaddr
    BY <1>2, <2>1, <2>2, <2>3, <2>4, BaseIsLowest
  <2> QED
    BY <1>2, <1>3, <1>4, <2>1, <2>5 DEF Move
<1> QED
  BY <1>6, <1>7

(* Whatever the menu, the layout and the sizes: a kernel whose segments    *)
(* follow each other page by page stands, when it gets the card, as it is  *)
(* linked, moved as a whole, and is entered at its entry point.            *)
THEOREM KernelStandsLinked == Spec => []KernelStands
<1>1. Init => Progress
  BY DEF Init, Progress, Kernelwards
<1>2. Spec => []Inv
  BY StartsThere, StaysThere, PTL DEF Spec
<1> QED
  BY <1>1, <1>2, ProgressStep, KernelIsThere, PTL DEF Spec

----------------------------------------------------------------------------
(* Types, of a loader that has stopped as well. *)

Finding == {"check", "cmdline", "away", "place", "modules", "find"}

Stopping == stop \in Stops /\ (pc = "halt" <=> stop # "none")

Ranges ==
  /\ pc = "check" => mods = << >>
  /\ pc # "check" => Len(mods) = Len(boot.table)
  /\ pc \in Finding => kernel = 0
  /\ pc \in Finding \union {"header"} => seg = 0
  /\ kernel \in 0 .. Len(mods)
  /\ seg \in 0 .. (IF kernel = 0 THEN 0 ELSE Len(Elf.phdrs) + 1)
  /\ pc = "relocate" => seg <= Len(Elf.phdrs)
  /\ entry \in Int /\ doorbell \in BOOLEAN

LEMMA StopsStep == Stopping /\ [Next]_vars => Stopping'
<1> SUFFICES ASSUME Stopping, [Next]_vars PROVE Stopping'
  OBVIOUS
<1> USE DEF Stopping, Stops
<1>1. ASSUME NEW m, NEW next \in Finding \union Kernelwards \union {"header"},
             Write(m, next), pc # "halt"
      PROVE  Stopping'
  BY <1>1 DEF Write, Halt, Finding, Kernelwards
<1>2. ASSUME NEW why \in {"E0", "Ea", "E3", "E5", "assert", "spin", "lost"}, Halt(why)
      PROVE  Stopping'
  BY <1>2 DEF Halt
<1>3. ASSUME NEW dst, NEW src, NEW len, NEW next \in Finding,
             Copy(dst, src, len, next), pc # "halt"
      PROVE  Stopping'
  BY <1>1, <1>2, <1>3 DEF Copy
<1>4. ASSUME pc # "halt", pc' # "halt", stop' = stop PROVE Stopping'
  BY <1>4
<1>5. CASE Check
  <2>1. Halt("E0") \/ Halt("Ea") \/ Write(Status(mem), "cmdline")
    BY <1>5 DEF Check
  <2> QED
    BY <1>1, <1>2, <1>5, <2>1 DEF Check, Finding
<1>6. CASE CopyCmdline
  BY <1>3, <1>6 DEF CopyCmdline, Finding
<1>7. CASE MoveAway
  <2>1. \/ Write(Status(Memcpy(mem, boot.ramdisk + boot.size + Page, boot.ramdisk, boot.size)),
                 "place")
        \/ Write(mem, "place")
    BY <1>7 DEF MoveAway
  <2> QED
    BY <1>1, <1>7, <2>1 DEF MoveAway, Finding
<1>8. CASE PlaceImage
  BY <1>3, <1>8 DEF PlaceImage, Finding
<1>9. CASE AdjustModules
  <2>1. Write(Status(mem), "find") /\ pc # "halt"
    BY <1>9 DEF AdjustModules
  <2> QED
    BY <1>1, <2>1 DEF Finding
<1>10. CASE FindKernel
  <2>1. Halt("E3") \/ Write(Status(mem), "header")
    BY <1>10 DEF FindKernel
  <2> QED
    BY <1>1, <1>2, <1>10, <2>1 DEF FindKernel
<1>11. CASE CheckHeader
  BY <1>2, <1>4, <1>11 DEF CheckHeader
<1>12. CASE LoadSegment
  <2>1. \/ Write(Loaded(Elf.phdrs[seg]), "relocate") \/ Halt("assert") \/ UNCHANGED <<pc, stop>>
    BY <1>12 DEF LoadSegment
  <2> QED
    BY <1>1, <1>2, <1>4, <1>12, <2>1 DEF LoadSegment, Kernelwards
<1>13. CASE Relocate
  BY <1>2, <1>4, <1>13 DEF Relocate
<1>14. CASE Finish
  <2>1. Halt("lost") \/ \E told : Write(told, "kernel")
    BY <1>14 DEF Finish
  <2> QED
    BY <1>1, <1>2, <1>14, <2>1 DEF Finish, Kernelwards
<1>15. CASE UNCHANGED vars
  BY <1>15 DEF vars
<1> QED
  BY <1>5, <1>6, <1>7, <1>8, <1>9, <1>10, <1>11, <1>12, <1>13, <1>14, <1>15 DEF Next

LEMMA RangesStep == Inv /\ Ranges /\ [Next]_vars => Ranges'
<1> SUFFICES ASSUME Inv, Ranges, [Next]_vars PROVE Ranges'
  OBVIOUS
<1>1. /\ boot \in Boots /\ Len(boot.table) \in Nat /\ Len(boot.elf) = Len(boot.table)
      /\ KernelLoad \in Int
  <2>1. boot \in Boots
    BY DEF Inv, Types
  <2>2. boot.table \in Seq(Mod) /\ Len(boot.elf) = Len(boot.table)
    BY <2>1, BootTypes
  <2> QED
    BY <2>1, <2>2, SizesAssumption
<1>2. ASSUME pc \in Finding, pc' \notin {"check", "relocate"}, UNCHANGED <<kernel, seg>>,
             UNCHANGED <<boot, entry, doorbell>>, Len(mods') = Len(boot.table)
      PROVE  Ranges'
  BY <1>1, <1>2 DEF Ranges
<1>3. CASE Check \/ CopyCmdline \/ MoveAway \/ PlaceImage
  <2>1. CASE Check
    BY <1>2, <2>1, Written DEF Check, Halt, Finding
  <2>2. CASE CopyCmdline
    BY <1>2, <2>2, Written DEF CopyCmdline, Copy, Halt, Finding, Ranges
  <2>3. CASE MoveAway
    BY <1>2, <2>3, Written DEF MoveAway, Finding, Ranges
  <2>4. CASE PlaceImage
    BY <1>2, <2>4, Written DEF PlaceImage, Copy, Halt, Finding, Ranges
  <2> QED
    BY <1>3, <2>1, <2>2, <2>3, <2>4
<1>4. CASE AdjustModules
  <2>1. mods \in Seq(Mod) /\ Len(mods) = Len(boot.table)
    BY <1>4 DEF AdjustModules, Inv, Types
  <2>2. Len(mods') = Len(boot.table)
    <3>1. image \in Nat
      BY DEF Inv, Types
    <3> QED
      BY <1>4, <2>1, <3>1, AdjustsTable DEF AdjustModules
  <2>3. Write(Status(mem), "find") /\ pc = "modules"
          /\ UNCHANGED <<kernel, seg, boot, entry, doorbell>>
    BY <1>4 DEF AdjustModules
  <2>4. pc' \in {"find", "halt"}
    BY <2>3, Written
  <2> QED
    BY <1>2, <2>2, <2>3, <2>4 DEF Finding
<1>5. CASE FindKernel
  <2>1. /\ kernel' \in {FindModule(mods, "cpu"), FindModule(mods, "kernel")}
        /\ (pc' = "header" /\ kernel' # 0) \/ pc' = "halt"
        /\ UNCHANGED <<boot, mods, seg, entry, doorbell>> /\ pc = "find"
    BY <1>5, Written DEF FindKernel, Halt
  <2>2. kernel' \in 0 .. Len(mods') /\ Len(mods') = Len(boot'.table) /\ seg' = 0
    BY <1>1, <2>1, Finds DEF Ranges, Finding
  <2>3. kernel' # 0 => Len(Elf.phdrs)' \in Nat
    BY <1>1, <2>1, <2>2, BootTypes DEF Elf
  <2> QED
    BY <2>1, <2>2, <2>3 DEF Ranges, Finding
<1>6. CASE CheckHeader \/ LoadSegment \/ Relocate \/ Finish
  <2>1. /\ UNCHANGED <<boot, mods, kernel>> /\ pc \in {"header", "segment", "relocate"}
        /\ pc' \in {"segment", "relocate", "kernel", "halt"}
    BY <1>6, Written DEF CheckHeader, LoadSegment, Relocate, Finish, Halt
  <2>2. kernel # 0 /\ Len(Elf.phdrs) \in Nat /\ Elf.entry \in Int /\ Elf' = Elf
          /\ VirtualBase(Elf.phdrs) \in Int
    <3>1. pc \in Loading /\ Types /\ kernel # 0
      BY <2>1 DEF Loading, Inv, Types
    <3>2. /\ Len(Elf.phdrs) \in Nat /\ Elf.entry \in Int
          /\ \A i \in 1 .. Len(Elf.phdrs) : Elf.phdrs[i].vaddr \in Nat
      BY <3>1, FileTypes
    <3>3. VirtualBase(Elf.phdrs) \in Nat
      BY <3>2, BaseIsNat
    <3>4. Elf' = Elf
      BY <2>1 DEF Elf
    <3> QED
      BY <3>1, <3>2, <3>3, <3>4
  <2>3. entry' \in Int /\ doorbell' \in BOOLEAN
    <3>1. entry' \in {entry, Elf.entry - VirtualBase(Elf.phdrs) + KernelLoad}
      BY <1>6 DEF CheckHeader, LoadSegment, Relocate, Finish
    <3>2. Elf.entry - VirtualBase(Elf.phdrs) + KernelLoad \in Int
      BY <1>1, <2>2
    <3>3. doorbell' \in {doorbell, TRUE}
      BY <1>6 DEF CheckHeader, LoadSegment, Relocate, Finish
    <3>4. doorbell' \in BOOLEAN
      BY <3>3 DEF Ranges
    <3> QED
      BY <3>1, <3>2, <3>4 DEF Ranges
  <2>4. seg' \in 0 .. Len(Elf.phdrs) + 1 /\ (pc' = "relocate" => seg' <= Len(Elf.phdrs))
    <3>1. seg \in 0 .. Len(Elf.phdrs) + 1 /\ (pc = "relocate" => seg <= Len(Elf.phdrs))
      BY <2>2 DEF Ranges
    <3>2. CASE CheckHeader
      BY <2>2, <3>2 DEF CheckHeader, Halt
    <3>3. CASE LoadSegment
      <4>1. seg <= Len(Elf.phdrs) /\ seg' \in {seg, seg + 1}
              /\ (pc' = "relocate" => seg' = seg)
        BY <3>3 DEF LoadSegment
      <4> QED
        BY <2>2, <3>1, <4>1
    <3>4. CASE Relocate
      <4>1. pc = "relocate" /\ seg' \in {seg, seg + 1} /\ pc' # "relocate"
        BY <3>4 DEF Relocate, Halt
      <4> QED
        BY <2>2, <3>1, <4>1
    <3>5. CASE Finish
      BY <3>1, <3>5, Written DEF Finish, Halt
    <3> QED
      BY <1>6, <3>2, <3>3, <3>4, <3>5
  <2> QED
    BY <2>1, <2>2, <2>3, <2>4 DEF Ranges, Finding
<1>7. CASE UNCHANGED vars
  BY <1>7 DEF Ranges, vars, Elf
<1> QED
  BY <1>3, <1>4, <1>5, <1>6, <1>7 DEF Next

(* Every variable keeps its type: the search stays in the table, the       *)
(* loading in the file's program headers, and a loader stops only for one  *)
(* of its reasons.                                                         *)
THEOREM TypesCorrect == Spec => []TypeOK
<1>1. Init => Stopping /\ Ranges
  BY DEF Init, Stopping, Stops, Ranges, Finding
<1>2. Inv /\ Stopping /\ Ranges => TypeOK
  <2> SUFFICES ASSUME Inv, Stopping, Ranges PROVE TypeOK
    OBVIOUS
  <2>1. boot \in Boot
    BY BootsAssumption DEF Inv, Types
  <2> QED
    BY <2>1 DEF Inv, Types, Stopping, Ranges, TypeOK, Loading, Adjusted, InPlace, LineMoved
<1>3. Spec => []Inv
  BY StartsThere, StaysThere, PTL DEF Spec
<1> QED
  BY <1>1, <1>2, <1>3, StopsStep, RangesStep, PTL DEF Spec
=============================================================================
