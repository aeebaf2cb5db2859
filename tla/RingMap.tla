------------------------------- MODULE RingMap -------------------------------
(***************************************************************************)
(* The registers of the ring buffer core as the software sees them         *)
(* (ringbuffer_addrmap.h, ringbuffer_explode.h, generated from one         *)
(* description, and the hand written mm2s_ringbuffer_offsets.h), and what  *)
(* the drivers' set_buffer makes of them.  A field is the set of its bits. *)
(***************************************************************************)
EXTENDS Naturals, Sequences

Flag(n) == {n}
Whole == 0 .. 31
Half == 0 .. 15
Byte(n) == 8 * n .. 8 * n + 7

\* The top level interrupt registers, enable and active alike.
S2MM_0 == 0
S2MM_1 == 1
MM2S_0 == 16
MM2S_1 == 17
Interrupts == {S2MM_0, S2MM_1, MM2S_0, MM2S_1}

-------------------------------------------------------------------------------
(* A channel's registers, each with its fields, and in the order of its struct. *)

Control == [START |-> Flag(0), PAUSE |-> Flag(1), STOP |-> Flag(2), ENABLED_ |-> Flag(3),
            ACTIVE |-> Flag(4), LEVEL |-> Flag(30), ERROR |-> Flag(31)]
Events == [LEVEL |-> Flag(30), ERROR |-> Flag(31)]
Widths == [TDATA |-> Byte(0), M_AXI_ADDR |-> Byte(1), M_AXI_DATA |-> Byte(2), PTR |-> Byte(3)]
With(fields, name, bits) ==
    [f \in DOMAIN fields \cup {name} |-> IF f = name THEN bits ELSE fields[f]]
OVERRUN(fields) == With(fields, "OVERRUN", Flag(29))

mm2sx ==
    [CSR |-> Control,
     BASEADDRESS_LO |-> [all |-> Whole], BASEADDRESS_HI |-> [all |-> Whole],
     SIZE |-> [all |-> Half], HEADPTR |-> [all |-> Half], TAILPTR |-> [all |-> Half],
     WIDTH |-> Widths, RESERVED |-> [all |-> Whole], LEVEL_THRESHOLD |-> [all |-> Half],
     INTR_ENABLE |-> Events, INTR_ACTIVE |-> Events,
     ID |-> [all |-> Whole], VERSION |-> [all |-> Whole], SCRATCH |-> [all |-> Whole]]
s2mmx ==
    [CSR |-> OVERRUN(Control),
     BASEADDRESS_LO |-> [all |-> Whole], BASEADDRESS_HI |-> [all |-> Whole],
     SIZE |-> [all |-> Half], HEADPTR |-> [all |-> Half], TAILPTR |-> [all |-> Half],
     WIDTH |-> Widths, DROPCOUNT |-> [all |-> Whole], LEVEL_THRESHOLD |-> [all |-> Half],
     INTR_ENABLE |-> OVERRUN(Events), INTR_ACTIVE |-> OVERRUN(Events),
     ID |-> [all |-> Whole], VERSION |-> [all |-> Whole], SCRATCH |-> [all |-> Whole]]

\* Each channel has a count of its own where the other has none.
Order(count) ==
    <<"CSR", "BASEADDRESS_LO", "BASEADDRESS_HI", "SIZE", "HEADPTR", "TAILPTR", "WIDTH", count,
      "LEVEL_THRESHOLD", "INTR_ENABLE", "INTR_ACTIVE", "ID", "VERSION", "SCRATCH">>
ringbuffer_mm2sx_t == Order("RESERVED")
ringbuffer_s2mmx_t == Order("DROPCOUNT")
SizeOf(struct) == 4 * Len(struct)

\* Where ringbuffer_t has its channels: two of each kind, after two words and a hole.
ringbuffer_s2mm(n) == 64 + n * SizeOf(ringbuffer_s2mmx_t)
ringbuffer_mm2s(n) == ringbuffer_s2mm(2) + 16 + n * SizeOf(ringbuffer_mm2sx_t)
ringbuffer_t == 304

\* The offsets written by hand.
MM2S_OFFSET ==
    [CSR |-> 0, BASEADDRESS_LO |-> 4, BASEADDRESS_HI |-> 8, SIZE |-> 12, HEADPTR |-> 16,
     TAILPTR |-> 20, WIDTH |-> 24, RESERVED |-> 28, LEVEL_THRESHOLD |-> 32,
     INTR_ENABLE |-> 36, INTR_ACTIVE |-> 40, ID |-> 44, VERSION |-> 48, SCRATCH |-> 52]
S2MM_OFFSET ==
    [CSR |-> 0, BASEADDRESS_LO |-> 4, BASEADDRESS_HI |-> 8, SIZE |-> 12, HEADPTR |-> 16,
     TAILPTR |-> 20, WIDTH |-> 24, DROPCOUNT |-> 28, LEVEL_THRESHOLD |-> 32,
     INTR_ENABLE |-> 36, INTR_ACTIVE |-> 40, ID |-> 44, VERSION |-> 48, SCRATCH |-> 52]

-------------------------------------------------------------------------------
\* set_buffer: the sizes it takes, given the widths of the stream and of the
\* pointers in bytes, and the capacity it writes to SIZE.
Accepts(size, width, ptr_width) == size > width /\ size - width <= 2 ^ (ptr_width * 8) - 1
CapacityOf(size, width) == size - width

\* The headers agree with each other: the structs have the sizes asserted in
\* them and their fields the offsets of the other header, and no two fields of
\* a register overlap.
ASSUME LayoutAgrees ==
    /\ SizeOf(ringbuffer_s2mmx_t) = 56 /\ SizeOf(ringbuffer_mm2sx_t) = 56
    /\ ringbuffer_mm2s(2) = ringbuffer_t
    /\ \A i \in 1 .. 14 :
         /\ MM2S_OFFSET[ringbuffer_mm2sx_t[i]] = 4 * (i - 1)
         /\ S2MM_OFFSET[ringbuffer_s2mmx_t[i]] = 4 * (i - 1)
ASSUME RegisterFieldsApart ==
    \A regs \in {mm2sx, s2mmx} : \A r \in DOMAIN regs : \A f, g \in DOMAIN regs[r] :
        f # g => regs[r][f] \cap regs[r][g] = {}

\* A buffer set_buffer takes has a capacity that the SIZE register and, with
\* pointers of two bytes, the pointer registers can hold.
ASSUME CapacityFits ==
    \A width \in {1, 2, 4}, size \in {1, 2, 4, 5, 2048, 65535, 65536, 65537, 65540} :
        Accepts(size, width, 2) => CapacityOf(size, width) \in 1 .. 2 ^ 16 - 1
==============================================================================
