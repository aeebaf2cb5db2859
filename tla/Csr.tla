-------------------------------- MODULE Csr --------------------------------
(***************************************************************************)
(* The system registers as riscv_csr.h gives them to the software: which   *)
(* registers have accessors, of which kind, the fields and masks it names, *)
(* and what an accessor does.  A register's value is the set of its bits   *)
(* that are one, on a core of 32 bits.                                     *)
(***************************************************************************)
EXTENDS Naturals, FiniteSets

Xlen == 32
Bits == 0 .. Xlen - 1

\* A field of fixed width: its mask is its bits.  For a field whose width
\* depends on Xlen the mask macro shifts one bit to the top of the field, and
\* is the whole field for nobody.
Field(name, offset, width) ==
  [name |-> name, bits |-> offset .. offset + width - 1, mask |-> offset .. offset + width - 1]
WideField(name, offset, width) ==
  [name |-> name, bits |-> offset .. offset + width - 1, mask |-> {offset + width - 1} \cap Bits]

-----------------------------------------------------------------------------
(* The registers with fields, each with its read, write, exchange, set and *)
(* clear accessors.                                                        *)

Pending(levels) ==
  {f \in {Field("MSI", 3, 1), Field("MTI", 7, 1), Field("MEI", 11, 1),
          Field("SSI", 1, 1), Field("STI", 5, 1), Field("SEI", 9, 1),
          Field("USI", 0, 1), Field("UTI", 4, 1), Field("UEI", 8, 1)} :
     \E l \in levels : f.bits \subseteq l}
MLevel == {3, 7, 11}
SLevel == {1, 5, 9}
ULevel == {0, 4, 8}
PlatformDefined == WideField("PLATFORM_DEFINED", 16, Xlen - 16 + 1)

Vector == {WideField("BASE", 2, Xlen - 2), Field("MODE", 0, 2)}
Cause == {Field("INTERRUPT", Xlen - 1, 1), WideField("EXCEPTION_CODE", 0, Xlen - 1)}

mstatus == {Field("SD", 31, 1), Field("MPRV", 17, 1), Field("FS", 13, 2),
            Field("MPP", 11, 2), Field("SPP", 8, 1), Field("MPIE", 7, 1),
            Field("SPIE", 5, 1), Field("MIE", 3, 1), Field("SIE", 2, 1)}
sstatus == {Field("SIE", 2, 1), Field("SPIE", 5, 1), Field("SPP", 8, 1)}
ustatus == {Field("UIE", 1, 1), Field("UPIE", 3, 1)}

mtvec == Vector
stvec == Vector
utvec == Vector

mip == Pending({MLevel, SLevel, ULevel}) \cup {PlatformDefined}
mie == Pending({MLevel, SLevel, ULevel}) \cup {PlatformDefined}
sip == Pending({SLevel, ULevel})
sie == Pending({SLevel, ULevel})
uip == Pending({ULevel})
uie == Pending({ULevel})

mcause == Cause
scause == Cause
ucause == Cause

mcountinhibit == {Field("CY", 0, 1), Field("IR", 2, 1), Field("HPM", 3, 29)}
mcounteren == {Field("CY", 0, 1), Field("TM", 1, 1), Field("IR", 2, 1), Field("HPM", 3, 29)}

Fields ==
  [mstatus |-> mstatus, sstatus |-> sstatus, ustatus |-> ustatus,
   mtvec |-> mtvec, stvec |-> stvec, utvec |-> utvec,
   mip |-> mip, sip |-> sip, uip |-> uip, mie |-> mie, sie |-> sie, uie |-> uie,
   mcause |-> mcause, scause |-> scause, ucause |-> ucause,
   mcountinhibit |-> mcountinhibit, mcounteren |-> mcounteren]

BIT_MASK(register, field) == (CHOOSE f \in Fields[register] : f.name = field).mask

-----------------------------------------------------------------------------
(* The registers without fields: read, write and exchange, or read alone.  *)

Identity == {"mvendorid", "marchid", "mimpid", "mhartid"}
MachineInformation == {"misa"}
MachineDelegation == {"medeleg", "mideleg"}
MachineCounters == {"mcycle", "minstret", "mhpmcounter3", "mhpmevent3"}
MachineTrap == {"mscratch", "mepc"}
SupervisorTrap == {"mtval", "sscratch", "sepc"}
SupervisorDelegation == {"sideleg", "sedeleg"}
UserTrap == {"uscratch", "uepc"}
UserFloat == {"utval", "fflags", "frm", "fcsr"}
UserCounters == {"cycle", "time", "instret", "hpmcounter3", "hpmcounter4", "hpmcounter31",
                 "cycleh", "timeh", "instreth", "hpmcounter3h", "hpmcounter4h", "hpmcounter31h"}
SupervisorMemory == {"stval", "satp"}
HypervisorControl == {"hstatus", "hedeleg", "hideleg", "hcounteren", "hgatp"}
HypervisorTime == {"htimedelta", "htimedeltah"}
VirtualStatus == {"vsstatus", "vsie", "vstvec", "vsscratch", "vsepc"}
VirtualTrap == {"vscause", "vstval", "vsip", "vsatp"}
BaseAndBound == {"mbase", "mbound", "mibase", "mibound"}
DataBaseAndBound == {"mdbase", "mdbound"}
ProtectionConfig == {"pmpcfg0", "pmpcfg1", "pmpcfg2", "pmpcfg3"}
ProtectionAddress == {"pmpaddr0", "pmpaddr1", "pmpaddr15"}
MoreCounters == {"mhpmcounter4", "mhpmcounter31", "mcycleh", "minstreth"}
MoreCountersHigh == {"mhpmcounter3h", "mhpmcounter4h", "mhpmcounter31h"}
MoreEvents == {"mhpmevent4", "mhpmevent31"}
Trigger == {"tselect", "tdata1", "tdata2", "tdata3"}
Debug == {"dcsr", "dpc", "dscratch0", "dscratch1"}
HypervisorTrap == {"hie", "hgeie", "htval", "hip", "htinst"}
HypervisorPending == {"hgeip"}
MachineTrapInstruction == {"mtinst", "mtval2"}
MachineStatusHigh == {"mstatush"}
SupervisorCounterEnable == {"scounteren"}

ReadOnly == Identity \cup UserCounters \cup HypervisorPending
Plain == UNION {MachineInformation, MachineDelegation, MachineCounters, MachineTrap,
  SupervisorTrap, SupervisorDelegation, UserTrap, UserFloat, SupervisorMemory,
  HypervisorControl, HypervisorTime, VirtualStatus, VirtualTrap, BaseAndBound,
  DataBaseAndBound, ProtectionConfig, ProtectionAddress, MoreCounters,
  MoreCountersHigh, MoreEvents, Trigger, Debug, HypervisorTrap,
  MachineTrapInstruction, MachineStatusHigh, SupervisorCounterEnable}
Writable == Plain \cup DOMAIN Fields
Registers == Writable \cup ReadOnly

\* The accessors, on a file of registers: csrr, csrw, csrrs and csrrc.
csr_read(file, r) == file[r]
csr_write(file, r, value) == [file EXCEPT ![r] = value]
csr_set_bits(file, r, mask) == [file EXCEPT ![r] = @ \cup mask]
csr_clr_bits(file, r, mask) == [file EXCEPT ![r] = @ \ mask]

\* No two fields of a register share a bit, so an access through the mask of one
\* leaves the others alone; and no register is in two families.
ASSUME FieldsApart ==
  \A r \in DOMAIN Fields : \A f, g \in Fields[r] :
    f # g => f.name # g.name /\ f.bits \cap g.bits = {}
ASSUME KindsApart == ReadOnly \cap Writable = {} /\ Plain \cap DOMAIN Fields = {}
=============================================================================
