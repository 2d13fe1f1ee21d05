------------------------------ MODULE Context ------------------------------
(***************************************************************************)
(* The two descriptions of a thread's registers and the copy from the one  *)
(* to the other (session.c:150-180, sys.h).  A description is a function   *)
(* from the names of the registers to their values: Windows has a double   *)
(* word for each, a dbgContext only a word for a segment register, and     *)
(* four words more for control registers, which nothing fills in.          *)
(***************************************************************************)
EXTENDS Integers

CONSTANTS
  Half,  \* 2^16 in the code
  Word   \* 2^32

ASSUME WidthsOK == Half \in Nat \ {0} /\ Word \in Nat /\ Half <= Word

General == {"eax", "ebx", "ecx", "edx", "esi", "edi", "ebp", "esp", "eip", "flags"}
Segment == {"cs", "ds", "es", "fs", "gs", "ss"}
Debug   == {"dr0", "dr1", "dr2", "dr3", "dr6", "dr7"}
Control == {"cr0", "cr1", "cr2", "cr3"}

Registers    == General \cup Segment \cup Debug
DbgRegisters == Registers \cup Control

Win32Contexts == [Registers -> 0..(Word - 1)]

DbgContexts ==
  {d \in [DbgRegisters -> 0..(Word - 1)] : \A r \in Segment \cup Control : d[r] < Half}

(* The rest of a CONTEXT, which ContextFlags tells, is fetched and never   *)
(* copied: the floating-point and extended registers are left out.         *)
DbgContextFromWin32(in) ==
  [r \in DbgRegisters |->
     IF r \in Segment THEN in[r] % Half
     ELSE IF r \in Control THEN 0 ELSE in[r]]

(* What the console shows of a dbgContext (cmd.c:116-133).                 *)
DbgDisplayContext(context) == [r \in General \cup Segment |-> context[r]]
=============================================================================
