---------------------------- MODULE MCBareMetal ----------------------------
(* BareMetal with memories of two bytes, and two images linker.ld could make. *)
EXTENDS BareMetal

Section(name, alloc, type, addr, size) ==
  [name |-> name, alloc |-> alloc, type |-> type, addr |-> addr, size |-> size]

SmallImages ==
  {<<Section(".text", TRUE, "progbits", 1, 2), Section(".data", TRUE, "progbits", 3, 1),
     Section(".bss", TRUE, "nobits", 4, 1), Section(".debug", FALSE, "progbits", 1, 2)>>,
   <<Section(".text", TRUE, "progbits", 1, 1), Section(".stray", TRUE, "progbits", 6, 1)>>}
=============================================================================
