------------------------------- MODULE MCBoot -------------------------------
(* The start on three processors (Boot), with their places as APIC           *)
(* identities in any order or with a gap, the repository's modules and two   *)
(* that ask for as many loops as there are, less one, and for as many; or    *)
(* the softirqs of one of the processors after it (SoftIrq); or one of the   *)
(* pure algorithms on one of its inputs, with nothing else happening.        *)
EXTENDS SoftIrq, Boot, Algorithms

MCWants == [m \in Modules |-> IF m = "slow" THEN Times - 1 ELSE IF m = "never" THEN Times ELSE 0]

ASSUME BootAssumption

MCInit ==
  /\ Init
  /\ \/ BootInit /\ Given("boot", <<>>)
     \/ /\ apic_id = [c \in CPUs |-> c] /\ bp = 0 /\ order = SetToSeq(Modules)
        /\ BootInit
        /\ Given("softirq", <<>>) \/ Inputs

Start(c) == part = "boot" /\ Processor(c) /\ UNCHANGED <<part, input, vars>>
Soft(A) == part = "softirq" /\ A /\ UNCHANGED <<part, input, bvars>>

\* Softirqs never end, the start does.
MCvars == <<part, input, vars, bvars>>
MCNext ==
  \/ \E c \in CPUs : Start(c)
  \/ Soft(Next)
  \/ part # "softirq" /\ UNCHANGED MCvars

MCSpec ==
  /\ MCInit /\ [][MCNext]_MCvars
  /\ \A c \in 0..(nr_cpu - 1) : WF_MCvars(Start(c))
  /\ WF_MCvars(Soft(CpuStep)) /\ WF_MCvars(Soft(AnyIrq))
-----------------------------------------------------------------------------
\* With what the code takes for granted, the start never panics and reaches
\* idle on all processors, with every module loaded that asks for fewer loops
\* than there are.
BootCompletes == (part = "boot" /\ Expected) ~> Booted
=============================================================================
