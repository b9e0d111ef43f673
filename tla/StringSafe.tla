----------------------------- MODULE StringSafe ------------------------------
(***************************************************************************)
(* Why string expressions get the strings they mean: the invariant that    *)
(* StatementProofs proves inductive, for statements that leave out the     *)
(* Constructs.                                                             *)
(*                                                                         *)
(* Two sequences say where each pending call stands: slot[k] is the        *)
(* address of its result buffer, start[k] the number of operands there     *)
(* were when it began.  The program keeps neither; it finds the buffer by  *)
(* what $sp and stmtArenaBytes are when the call ends.                     *)
(***************************************************************************)
EXTENDS StringExpr

Depth == Len(calls)
Strings == Seq(Int)
Calls == [ret : BOOLEAN, saved : 0 .. MaxPieces, base : Nat, saveMark : Nat, retMark : Nat,
          temps : Nat, args : Nat, wants : Seq(Strings)]
Ops == [addr : Nat, want : Strings]
OpenOperands == IF expect = "operator" THEN 1 ELSE 0

Kinds ==
  /\ used \in BOOLEAN /\ held \in BOOLEAN /\ temp \in BOOLEAN
  /\ expect \in {"statement", "operand", "operator", "args"}
  /\ form \in {"none", "assign", "test", "call"}

Numbers ==
  /\ arena \in Nat /\ sp \in 1 .. Base
  /\ pieces \in 0 .. MaxPieces /\ cbase \in 0 .. ScratchSlots - LevelSlots
  /\ todo \in 0 .. MaxSteps

Data ==
  /\ DOMAIN mem = 0 .. Top + 1
  /\ scratch \in [0 .. ScratchSlots - 1 -> 0 .. Top]
  /\ calls \in Seq(Calls) /\ ops \in Seq(Ops)
  /\ wants \in Seq(Strings) /\ Len(wants) = pieces

Types == Kinds /\ Numbers /\ Data

(* Nothing is pending between statements, and a buffer or a temp is taken   *)
(* for a reason.                                                            *)
Unused ==
  ~used => /\ arena = 0
           /\ calls = <<>> => sp = Base
           /\ calls # <<>> => /\ Depth = 1 /\ ~calls[1].ret
                              /\ sp + StrSize * calls[1].temps = Base
                              /\ expect # "args" => calls[1].temps = 0

Clean ==
  /\ expect = "statement" =>
       /\ calls = <<>> /\ ops = <<>> /\ pieces = 0 /\ todo = 0 /\ form = "none"
       /\ ~held => ~used
  /\ expect = "args" => calls # <<>> /\ pieces = 0
  /\ held => used
  /\ Unused

(* Each statement leaves $sp room for what it may still take. *)
Room == sp > todo * (StrSize + MaxPieces) + StrSize * (cbase + pieces)

(* The slots of addrConcatScratch are those of the pending calls, the       *)
(* outermost first.                                                         *)
Nested(k) ==
  /\ calls[k].base + calls[k].saved = IF k = Depth THEN cbase ELSE calls[k + 1].base
  /\ calls[k].base \in 0 .. ScratchSlots - LevelSlots
  /\ Len(calls[k].wants) = calls[k].saved
  /\ calls[k].saveMark + StrSize = calls[k].retMark
  /\ calls[k].retMark <= arena + (IF calls[k].ret THEN 0 ELSE StrSize)
  /\ ~calls[k].ret => k = 1 /\ calls[k].saved = 0

Outermost ==
  /\ IF calls = <<>> THEN cbase = 0 ELSE calls[1].base = 0
  /\ form = "call" => calls # <<>> /\ ~calls[1].ret
  /\ form # "call" /\ calls # <<>> => calls[1].ret
  /\ form = "test" => IF calls = <<>> THEN pieces = 0 ELSE calls[1].saved = 0

Levels == (\A k \in 1 .. Depth : Nested(k)) /\ Outermost

(* Where the pending calls stand. *)
StandsAt(k, slot, start) ==
  /\ slot[k] + calls[k].retMark
       = (IF k = Depth THEN sp + arena ELSE slot[k + 1] + calls[k + 1].retMark)
           + StrSize * calls[k].temps
  /\ slot[k] + StrSize + calls[k].saved <= Base
  /\ calls[k].ret => slot[k] >= sp
  /\ start[k] + calls[k].args = IF k = Depth THEN Len(ops) - OpenOperands ELSE start[k + 1]
  /\ ~calls[k].ret => start[k] = 0

Stands(slot, start) ==
  /\ slot \in Seq(Int) /\ Len(slot) = Depth
  /\ start \in Seq(Nat) /\ Len(start) = Depth
  /\ \A k \in 1 .. Depth : StandsAt(k, slot, start)
  /\ \A j, k \in 1 .. Depth :
       j < k => /\ start[j] <= start[k]
                /\ calls[j].ret => slot[j] >= slot[k] + StrSize + calls[k].saved
  /\ Len(ops) >= OpenOperands

(* An operand or a pending piece at a still has the string w: it is in the  *)
(* stack or the frame, or in the temp of copy() while nobody else has it.   *)
Alive(a, w) ==
  /\ Get(mem, a) = w
  /\ a \in sp .. Top - 2 \/ (temp /\ a = CopyTemp)

Operands(start) ==
  \A i \in 1 .. Len(ops) :
    /\ Alive(ops[i].addr, ops[i].want)
    /\ ops[i].addr = CopyTemp /\ calls # <<>> => i > start[Depth]

Pieces == \A j \in 1 .. pieces : Alive(scratch[cbase + j - 1], wants[j])

(* What a call c leaves pending, its buffer at s, is above that buffer: the *)
(* first n operands, the saved pieces and the strings they name.            *)
Holds(c, s, n) ==
  /\ \A i \in 1 .. n : ops[i].addr >= s + StrSize
  /\ \A j \in 1 .. c.saved :
       LET a == Word(mem, s + StrSize + j - 1)
       IN a \in s + StrSize + c.saved .. Top - 2 /\ Get(mem, a) = c.wants[j]

Saved(slot, start) ==
  \A k \in 1 .. Depth : calls[k].ret => Holds(calls[k], slot[k], start[k])

VarsKept == \A x \in Vars : Get(mem, VarAddr(Base, x)) = <<x>>

Placed(slot, start) ==
  Stands(slot, start) /\ Operands(start) /\ Saved(slot, start)

IInv ==
  /\ Types /\ Clean /\ Room /\ Levels /\ Pieces /\ VarsKept /\ ValuesRight
  /\ \E slot, start : Placed(slot, start)
=============================================================================
