------------------------------ MODULE MCLoader ------------------------------
(***************************************************************************)
(* Kernels, menus and layouts for the model-checked instance of Loader.    *)
(* An address is a cell; every way to place command line and ramdisk so    *)
(* that nothing overlaps at the start is considered.                       *)
(***************************************************************************)
EXTENDS Loader, FiniteSets

Segment(type, offset, vaddr, filesz, memsz) ==
  [type |-> type, offset |-> offset, vaddr |-> vaddr, filesz |-> filesz,
   memsz |-> memsz]

(* Five cells: headers, two segments of two and one, section headers.      *)
Kernel(valid, relocs, type, base, second) ==
  [valid |-> valid, size |-> 5, headers |-> 1, relocs |-> relocs, entry |-> base + 1,
   phdrs |-> <<Segment("LOAD", 1, base, 2, 3), Segment(type, 3, base, 1, 1),
               Segment("LOAD", 3, second, 1, 2)>>]

Static  == Kernel(TRUE, -1, "TLS", KernelLoad, KernelLoad + 4)
Kernels == {Static,
            Kernel(TRUE, -1, "TLS", KernelLoad, KernelLoad + 8),  \* a gap
            Kernel(TRUE, -1, "TLS", 6, 10),                       \* moved up
            Kernel(TRUE, -1, "TLS", 0, 4),                        \* TLS at 0
            Kernel(TRUE, -1, "NOTE", 0, 4),
            [Kernel(TRUE, -1, "NOTE", 0, 4) EXCEPT !.phdrs = <<@[1], @[2]>>],
            [Static EXCEPT !.phdrs = Append(@, @[2])],            \* TLS twice
            Kernel(TRUE, 0, "DYNAMIC", KernelLoad, KernelLoad + 4),
            Kernel(TRUE, 1, "DYNAMIC", KernelLoad, KernelLoad + 4),
            Kernel(FALSE, -1, "TLS", KernelLoad, KernelLoad + 4),
            [Static EXCEPT !.headers = 2]}

NotElf == [Static EXCEPT !.valid = FALSE, !.size = 1]

Line(cmd, path, args, offset, length) ==
  [cmd |-> cmd, image |-> path, args |-> args, offset |-> offset, length |-> length]

Alone  == <<Line("kernel", <<"cpu">>, << >>, 0, 7)>>
Short  == <<Line("kernel", <<"cpu">>, << >>, 0, 1)>>
Module == <<Line("module", <<"init">>, << >>, 5, 1),
            Line("mmap", <<"map">>, << >>, 0, 0),
            Line("kernel", <<"/", "k1om", "/", "sbin", "/", "cpu">>, << >>, 0, 5)>>
Root   == <<Line("kernel", <<"/", "cpu">>, << >>, 0, 5)>>
Slash  == <<Line("kernel", <<"cpu">>, <<"root=", "/", "dev">>, 0, 5)>>
Driver == <<Line("kernel", <<"kernel">>, << >>, 0, 5),
            Line("module", <<"cpufreq">>, << >>, 5, 1)>>
Plain  == <<Line("kernel", <<"kernel">>, << >>, 0, 5)>>

(* Menu, size of the ramdisk, the files in it.                             *)
Ramdisks ==
  {<<Alone, 5, <<k>>>> : k \in Kernels}
    \union {<<Module, 6, <<Static, NotElf>>>>, <<Slash, 5, <<Static>>>>,
            <<Driver, 6, <<Static, NotElf>>>>, <<Plain, 5, <<Static>>>>,
            <<Root, 5, <<Static>>>>, <<Short, 5, <<[Static EXCEPT !.headers = 2]>>>>}

Placed(end, cmd, cmdSize, at, r) ==
  [magic |-> TRUE, low |-> TRUE, first |-> IF end = 1 THEN 0 ELSE 7, end |-> end, cmd |-> cmd,
   cmdSize |-> cmdSize, ramdisk |-> at, size |-> r[2], table |-> ModTable(r[1]),
   elf |-> r[3]]

MCBoots ==
  {b \in {Placed(end, cmd, cmdSize, at, r) :
            end \in {1, 8, 9, 13, 17}, cmd \in {0, 9, 44}, cmdSize \in {0, 1, 2},
            at \in 0 .. 22, r \in Ramdisks} : Laid(b)}
==============================================================================
