------------------------------ MODULE SimMain ------------------------------
(***************************************************************************)
(* The host side of a simulation: the options, the ELF loader, the reset,  *)
(* the loop that evaluates the design and the verdict printed at its end   *)
(* (sim_main.cpp, elf_load.cpp), with what sim_ctrl and Verilator make of  *)
(* the software's exit.  Whoever extends this module says what happens in  *)
(* one evaluation: Running is the loop's condition.                        *)
(***************************************************************************)
EXTENDS Naturals, Sequences

CONSTANTS Images,                 \* the ELF files, each a sequence of sections
          ItcmBase, ItcmSize, DtcmBase, DtcmSize,
          FatalOnError            \* Verilator aborts on $error, its default

ASSUME TcmAssumption ==
  /\ {ItcmBase, ItcmSize, DtcmBase, DtcmSize} \subseteq Nat
  /\ FatalOnError \in BOOLEAN

VARIABLES phase,      \* where main is
          image,      \* the sections left to load
          file,       \* the ELF file
          memory,     \* the two memories, by address
          limited,    \* --cycles was given
          finish,     \* gotFinish()
          error,      \* gotError()
          sigint,     \* sigint_recevied
          verdict     \* what the run ends with
simVars == <<phase, image, file, memory, limited, finish, error, sigint, verdict>>

Itcm == ItcmBase .. ItcmBase + ItcmSize - 1
Dtcm == DtcmBase .. DtcmBase + DtcmSize - 1
Zero == <<>>

SimInit ==
  /\ phase = "options"
  /\ image = <<>> /\ file = <<>>
  /\ memory = [a \in Itcm \cup Dtcm |-> Zero]    \* randReset(0)
  /\ limited = FALSE
  /\ finish = FALSE /\ error = FALSE /\ sigint = FALSE
  /\ verdict = "none"

Ends(v) == phase' = "end" /\ verdict' = v

\* --help, an option nobody knows, or no file.
Usage ==
  /\ phase = "options"
  /\ Ends("usage")
  /\ UNCHANGED <<image, file, memory, limited, finish, error, sigint>>

Options ==
  /\ phase = "options" /\ phase' = "load"
  /\ \E f \in Images : file' = f /\ image' = f
  /\ limited' \in BOOLEAN
  /\ UNCHANGED <<memory, finish, error, sigint, verdict>>

\* elf_load::load stops with false before the first section only: the memory
\* takes every region and every address is valid to it.
CannotOpen ==
  /\ phase = "load" /\ image = file
  /\ Ends("error")
  /\ UNCHANGED <<image, file, memory, limited, finish, error, sigint>>

M_Accepts(a) == a \in Itcm      \* the data memory forgotten
\* bootstrap::write: the memory the byte is for, and nothing outside of them.
Accepts(a) == a \in Dtcm \/ a \in Itcm

\* A section's bytes, each named by the section and its place in it.
Byte(s, i) == <<s.name, i>>
Loaded(m, s) ==
  [a \in DOMAIN m |->
     IF s.alloc /\ s.type = "progbits" /\ a \in s.addr .. s.addr + s.size - 1 /\ Accepts(a)
     THEN Byte(s, a - s.addr)
     ELSE m[a]]

LoadSection ==
  /\ phase = "load" /\ image # <<>>
  /\ memory' = Loaded(memory, Head(image))
  /\ image' = Tail(image)
  /\ UNCHANGED <<phase, file, limited, finish, error, sigint, verdict>>

LoadDone ==
  /\ phase = "load" /\ image = <<>>
  /\ phase' = "reset"
  /\ UNCHANGED <<image, file, memory, limited, finish, error, sigint, verdict>>

\* The design is clocked in reset until time 1000.
Reset ==
  /\ phase = "reset" /\ phase' = "run"
  /\ UNCHANGED <<image, file, memory, limited, finish, error, sigint, verdict>>

\* sigint_handler, installed before the options are read.
Signal ==
  /\ phase # "end" /\ ~sigint
  /\ sigint' = TRUE
  /\ UNCHANGED <<phase, image, file, memory, limited, finish, error, verdict>>

\* The loop runs on while there was no finish and no signal; with a limit, it
\* may have been reached at any evaluation.
Running == phase = "run" /\ ~finish /\ ~sigint

\* Which of the four messages: the signal first, and the limit only if the
\* simulation did not end in the evaluation that reached it.
M_Message ==    \* the limit first
  CASE sigint  -> "sigint"
    [] ~sigint /\ error -> "error"
    [] ~sigint /\ ~error /\ limited -> "limit"
    [] OTHER -> "finished"
Message ==
  CASE sigint  -> "sigint"
    [] ~sigint /\ error -> "error"
    [] ~sigint /\ ~error /\ ~finish -> "limit"
    [] OTHER -> "finished"

Report ==
  /\ phase = "run"
  /\ finish \/ sigint \/ limited
  /\ Ends(Message)
  /\ UNCHANGED <<image, file, memory, limited, finish, error, sigint>>

\* A write to SIM_CTRL_EXIT: $finish for zero, $error for anything else.
SimCtrlExit(code) ==
  IF code = 0
  THEN finish' = TRUE /\ UNCHANGED <<phase, image, file, memory, limited, error, sigint, verdict>>
  ELSE /\ finish' = TRUE /\ error' = TRUE
       /\ IF FatalOnError THEN Ends("aborted") ELSE UNCHANGED <<phase, verdict>>
       /\ UNCHANGED <<image, file, memory, limited, sigint>>

\* main, but for the signal that may come at any time.
SimStep == Usage \/ Options \/ CannotOpen \/ LoadSection \/ LoadDone \/ Reset \/ Report
=============================================================================
