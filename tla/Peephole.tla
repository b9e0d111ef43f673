-------------------------------- MODULE Peephole --------------------------------
(***************************************************************************)
(* The emit layer of the compiler: code is appended to a buffer one        *)
(* instruction at a time, and, when PEEPHOLE is compiled in, the last two  *)
(* may be rewritten.  A buffer is [code, last]: last is the position of    *)
(* the instruction a rewrite may look back at, 0 for none (prevOpStart is  *)
(* kept by the code and read by nothing).                                  *)
(***************************************************************************)
EXTENDS Integers, Sequences
CONSTANTS OptLevel   \* 0: no rewriting, {$OPT-} or a build without PEEPHOLE
ASSUME OptAssumption == OptLevel \in Nat

\* An instruction: its operand n, and, for what a program is seen to do,
\* the token at which the source says so and the part of it.
Ins(op, n) == [op |-> op, n |-> n, at |-> 0, part |-> ""]
Seen(op, n, at, part) == [op |-> op, n |-> n, at |-> at, part |-> part]
NoCode == [code |-> <<>>, last |-> 0]

\* Instructions that end in FinishOp; every other one ends in InvalidateOp.
Finishes(op) == op \in {"get", "set", "tee", "eqz", "release"}
(* Mutant of Window: the end of a block leaves it as it is.                *)
WindowKept(b, op) == IF Finishes(op) THEN Len(b.code) + 1 ELSE IF op = "end" THEN b.last ELSE 0
\* Where a rewrite may look back to once op is appended.
Window(b, op) == IF Finishes(op) THEN Len(b.code) + 1 ELSE 0

\* TryPeephole: set X, get X is tee X; eqz, eqz is nothing.
IsPair(b, ins, first, second) == OptLevel > 0 /\ b.last > 0 /\ b.code[b.last].op = first /\ ins.op = second
IsTee(b, ins) == IsPair(b, ins, "set", "get") /\ b.code[b.last].n = ins.n
IsNothing(b, ins) == IsPair(b, ins, "eqz", "eqz")
Emit(b, ins) ==
  IF IsTee(b, ins) THEN [b EXCEPT !.code[b.last].op = "tee"]
  ELSE IF IsNothing(b, ins) THEN [code |-> SubSeq(b.code, 1, b.last - 1), last |-> 0]
  ELSE [code |-> Append(b.code, ins), last |-> Window(b, ins.op)]
\* Instructions one after the other.
EmitAll(b, instructions) ==
  LET done[k \in 0..Len(instructions)] == IF k = 0 THEN b ELSE Emit(done[k - 1], instructions[k])
  IN done[Len(instructions)]
=============================================================================
