------------------------------ MODULE ControlSafe ------------------------------
(***************************************************************************)
(* What holds while a body is compiled and while its code runs: of every   *)
(* construct that is open, the depths that break and continue had around   *)
(* it, which its end gives back, are those of the constructs before it.    *)
(***************************************************************************)
EXTENDS ControlFlow

OpNames ==
  {"block", "loop", "if", "else", "end", "br", "brif", "eqz", "const", "release", "get", "set", "tee",
   "read", "act", "proc", "invoke", "init", "bound", "beyond", "equal", "select", "step"}
Nowhere == ""
PartNames ==
  {Nowhere, "c", "d", "act", "proc", "call", "arg", "argproc", "argcall", "init", "bound", "test", "select", "label", "step"}
(* A release is no place of the source, and a step no place that takes.     *)
Fits(ins) == (ins.op = "release" => ins.part = Nowhere) /\ (ins.op = "step" => ins.part \notin TakeParts)
Instrs == {ins \in [op : OpNames, n : Int, at : Nat, part : PartNames] : Fits(ins)}
(* A rewrite looks at the last instruction or at none.                      *)
Buffer(b) == b \in [code : Seq(Instrs), last : Nat] /\ b.last \in {0, Len(b.code)}
OpenBlocks(code) == Level(code, Len(code) + 1)

Construct ==
  [kind : {"if", "while", "for", "repeat", "case"}, at : Nat, arms : Nat, last : BOOLEAN, break : Int, continue : Int]
(* The nearest loop of the first k constructs, and the depths inside them.  *)
LoopIn(s, k) == Max({i \in 1..k : s[i].kind \in Loops} \cup {0})
BreakIn(s, k) == IF LoopIn(s, k) = 0 THEN -1 ELSE Outer(s)[k] - Outer(s)[LoopIn(s, k) - 1] - 1
ContinueIn(s, k) == IF LoopIn(s, k) = 0 THEN -1 ELSE Outer(s)[k] - Outer(s)[LoopIn(s, k)]
Fors(s) == Sums([k \in 1..Len(s) |-> IF s[k].kind = "for" THEN 1 ELSE 0])
(* The depths x, b, c and f are those inside the constructs s.              *)
Inside(s, x, b, c, f) ==
  /\ s \in Seq(Construct)
  /\ \A k \in 1..Len(s) : s[k].break = BreakIn(s, k - 1) /\ s[k].continue = ContinueIn(s, k - 1)
  /\ x = Outer(s)[Len(s)] /\ b = BreakIn(s, Len(s)) /\ c = ContinueIn(s, Len(s)) /\ f = Fors(s)[Len(s)]

(* A token stands in one before it; the blocks open in the code are those   *)
(* of the constructs; and the code that runs jumps to places of itself.     *)
Jumps == {"br", "brif", "if", "else"}
AnyShape == Shapes \cup Simples \cup {""}
Tokens == [kind : TokenKinds, shape : AnyShape, up : Nat]
TokenInv ==
  /\ src \in Seq(Tokens)
  /\ \A j \in 1..Len(src) : src[j].up < j
  /\ \A k \in 1..Len(nest) : nest[k].at \in 1..Len(src)
DepthInv ==
  /\ Inside(nest, exitDepth, breakDepth, continueDepth, forLimitDepth) /\ forLimitDepth <= MaxFor
  /\ phase # "run" => OpenBlocks(buf.code) = exitDepth + 1
CodeInv ==
  /\ Buffer(buf) /\ phase \in {"parse", "error", "run"} /\ pc \in 1..Len(buf.code) + 1
  /\ phase # "run" => pc = 1
  /\ phase = "run" => \A i \in 1..Len(buf.code) : buf.code[i].op \in Jumps => buf.code[i].n \in 1..Len(buf.code) + 1

(* Position i comes after a release, the step of a for between them or not. *)
Freed(code, i) ==
  \/ i > 1 /\ code[i - 1].op = "release"
  \/ i > 2 /\ code[i - 1].op = "step" /\ code[i - 2].op = "release"
(* Position i is in the head of a loop, d blocks deep: behind its block and *)
(* loop, and nothing that opened in between leads out of them.              *)
InHead(code, i, d) ==
  \E q \in 2..i - 1 :
    /\ code[q - 1].op = "block" /\ code[q].op = "loop" /\ Level(code, i) = Level(code, q) + 1 + d
    /\ \A k \in q + 1..i - 1 : code[k].op \in Openers => Level(code, k) > Level(code, q)
(* A branch comes after a release, or leaves a loop from its head.          *)
BackAt(code, i) ==
  code[i].op \in {"br", "brif"} =>
    Freed(code, i) \/ (code[i].op = "brif" /\ code[i].n = 1 /\ InHead(code, i, 0))
Backs(code) == \A i \in 1..Len(code) : BackAt(code, i)
(* A place that may take bytes is in the code once, and of the tokens so far. *)
Marked(code, i) == code[i].part \in TakeParts
Once(code) ==
  \A i, j \in 1..Len(code) :
    Marked(code, i) /\ code[i].part = code[j].part /\ code[i].at = code[j].at => i = j
UpTo(code, n) == \A i \in 1..Len(code) : Marked(code, i) => code[i].at <= n
(* Where a jump goes: not between a release and its branch.                 *)
Lands(code, n) == n <= Len(code) => n > 1 /\ code[n - 1].op \in {"loop", "end", "else"}
ReleaseInv ==
  /\ Once(buf.code)
  /\ phase # "run" => Backs(buf.code) /\ UpTo(buf.code, Len(src)) /\ taken = {}
  /\ phase = "run" =>
       /\ \A i \in 1..Len(buf.code) : buf.code[i].op \in Jumps =>
            Lands(buf.code, buf.code[i].n) /\ (buf.code[i].n > i \/ Freed(buf.code, i))
       /\ pc <= Len(buf.code) /\ Freed(buf.code, pc) => taken = {}
       /\ \A p \in taken : \E i \in 1..pc - 1 : Marked(buf.code, i) /\ p = <<buf.code[i].at, buf.code[i].part>>
BodyInv == TokenInv /\ DepthInv /\ CodeInv /\ ReleaseInv
================================================================================
