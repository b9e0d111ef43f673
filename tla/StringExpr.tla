----------------------------- MODULE StringExpr ------------------------------
(***************************************************************************)
(* String expressions of one routine's statements: what ParseExpression,   *)
(* ParseCallStatement and ParseStatement keep while they compile them, and *)
(* what the code they emit does to the stack, the operands and the scratch *)
(* slots when it runs (compiler/cpas.pas).                                 *)
(*                                                                         *)
(* The compiler emits code in one pass, so each step here is one piece of  *)
(* source read: it changes the compile-time variables the way the parser   *)
(* does and the run-time ones the way the emitted code does.  That the two *)
(* stay in step is what makes the code right: addresses of result buffers  *)
(* are $sp plus a distance known when the code was compiled.               *)
(*                                                                         *)
(* A string is the sequence of what it was made from: variables, and the   *)
(* marks FnF and FnG for the results of functions.  Memory is words; a     *)
(* string takes two (256 bytes in the program), a saved piece one (4).     *)
(***************************************************************************)
EXTENDS Integers, Sequences, SequencesExt

CONSTANTS
  Vars,          \* the routine's string variables: 0, 1, ...
  MaxPieces,     \* pieces a concatenation saves at most
  ScratchSlots,  \* slots at addrConcatScratch
  Base,          \* the frame base: display[curNestLevel]
  MaxSteps,      \* bound: +'s, calls and further arguments in a statement
  Constructs     \* what the routine's statements are built with, see below

(* Statements that the compiler accepts and Constructs may leave out:       *)
(*   argAfterConcat   P(a + b, c): an argument after a concatenated one     *)
(*   skippedCall      f(b and then (g(x) = y)): a call that may not run     *)
(*   comparedConcat   a + b = c: a concatenation compared                   *)
(*   copies           copy(a, i, n) + copy(b, i, n): more than one temp     *)
(*   indirectCall     a + copy(b, p(i), n): p a procedural variable, called *)
(*                    while a piece is pending                              *)
AllConstructs == {"argAfterConcat", "skippedCall", "comparedConcat", "copies",
                  "indirectCall"}

StrSize == 2
LevelSlots == MaxPieces + 1     \* one more for the last piece, see ParseWriteArgs
Top == Base + StrSize * Cardinality(Vars)
CopyTemp == Top                 \* addrCopyTemp: static, above all else here

ASSUME StringConstants ==
  /\ IsFiniteSet(Vars) /\ Vars = 0 .. Cardinality(Vars) - 1
  /\ MaxPieces \in Nat \ {0} /\ ScratchSlots \in Nat
  /\ LevelSlots <= ScratchSlots
  /\ Base \in Nat \ {0} /\ MaxSteps \in Nat
  /\ Constructs \subseteq AllConstructs

VARIABLES
  (* compile time *)
  used,      \* stmtUsedResultBuf
  held,      \* savedUsedResultBuf of the statement that is parsed
  arena,     \* stmtArenaBytes
  pieces,    \* concatPieces
  cbase,     \* concatScratchBase
  calls,     \* calls whose arguments are parsed, the outermost first
  expect,    \* what comes next in the source
  form,      \* the statement that is parsed
  todo,      \* +'s, calls and further arguments it may still have
  temp,      \* whether it used the copy temp
  (* run time *)
  sp,        \* global $sp
  mem,       \* words of memory
  scratch,   \* the addresses at addrConcatScratch
  ops,       \* the operand stack: [addr, want], want for what is meant
  (* history *)
  wants,     \* what the pending pieces are meant to be
  outcome    \* what the last statement got, and what it should have

source == <<calls, expect, form, todo, temp>>
vars == <<used, held, arena, pieces, cbase, source, sp, mem, scratch, ops,
          wants, outcome>>

-----------------------------------------------------------------------------
(* Memory.  A word holds the head of a string, the rest of one, a saved     *)
(* address, or nothing that anyone meant.                                   *)

Junk == <<"junk", <<>>, 0>>
Lost == <<-1>>               \* what reading an address with no string gives
FnF == -2
FnG == -3
NoAddr == 0

Put(m, a, s) == [m EXCEPT ![a] = <<"str", s, 0>>, ![a + 1] = <<"rest", <<>>, a>>]

Get(m, a) == IF /\ a \in DOMAIN m /\ a + 1 \in DOMAIN m
                /\ m[a][1] = "str" /\ m[a + 1] = <<"rest", <<>>, a>>
               THEN m[a][2] ELSE Lost

Word(m, a) == IF a \in DOMAIN m /\ m[a][1] = "word" THEN m[a][3] ELSE NoAddr

(* A callee's frames and buffers overwrite what is below $sp, its copy()    *)
(* the temp, and its concatenations the scratch slots: at worst all.        *)
Trashed(m, s) == [a \in DOMAIN m |-> IF a < s \/ a >= CopyTemp THEN Junk ELSE m[a]]
NoSlots == [i \in 0 .. ScratchSlots - 1 |-> NoAddr]

(* Between statements the frame alone is of use.  The rest of memory and    *)
(* the slots keep their words, but reading one would be wrong: it is made   *)
(* to show.                                                                 *)
Forget == mem' = Trashed(mem, Base) /\ scratch' = NoSlots
NoOutcome == [got |-> <<>>, want |-> <<>>]

VarAddr(b, x) == b + StrSize * x

(* EmitFramePtr(curNestLevel) *)
FramePtr == IF used THEN Base ELSE sp

top == ops[Len(ops)]
Pop == SubSeq(ops, 1, Len(ops) - 1)
Push(a, w) == Append(ops, [addr |-> a, want |-> w])
call == calls[Len(calls)]

(* __str_append of every saved piece and of the operand on top *)
Joined ==
  FlattenSeq([i \in 1 .. pieces |-> Get(mem, scratch[cbase + i - 1])])
    \o Get(mem, top.addr)
JoinedWant == FlattenSeq(wants) \o top.want

-----------------------------------------------------------------------------

Init ==
  /\ used = FALSE /\ held = FALSE /\ arena = 0 /\ pieces = 0 /\ cbase = 0
  /\ calls = <<>> /\ expect = "statement" /\ form = "none" /\ todo = 0
  /\ temp = FALSE
  /\ sp = Base
  /\ mem = [a \in 0 .. Top + 1 |->
              IF a \in Base .. Top - 1
                THEN IF (a - Base) % StrSize = 0
                       THEN <<"str", <<(a - Base) \div StrSize>>, 0>>
                       ELSE <<"rest", <<>>, a - 1>>
                ELSE Junk]
  /\ scratch = NoSlots
  /\ ops = <<>> /\ wants = <<>>
  /\ outcome = NoOutcome

(* A statement begins: s := e, a test e1 = e2 of an if or a loop, or a      *)
(* procedure statement P(e, ...), whose call is the outermost.              *)
NewCall(ret) ==
  [ret |-> ret, saved |-> pieces, base |-> cbase, saveMark |-> arena + pieces,
   retMark |-> arena + pieces + StrSize, temps |-> 0, args |-> 0,
   wants |-> wants]

(* Mutant of Begin: a nested statement clears stmtUsedResultBuf. *)
BeginCleared(f) ==
  /\ expect = "statement"
  /\ f = "test" => ~held
  /\ sp > MaxSteps * (StrSize + MaxPieces)
  /\ used' = FALSE
  /\ form' = f /\ expect' = "operand" /\ todo' = MaxSteps /\ temp' = FALSE
  /\ calls' = IF f = "call" THEN <<NewCall(FALSE)>> ELSE <<>>
  /\ outcome' = NoOutcome
  /\ UNCHANGED <<held, arena, pieces, cbase, sp, mem, scratch, ops, wants>>

Begin(f) ==
  /\ expect = "statement"
  /\ f \in {"assign", "test", "call"}
  /\ f = "test" => ~held                  \* bound: one statement in another
  /\ sp > MaxSteps * (StrSize + MaxPieces)    \* bound: room for its buffers
  /\ form' = f /\ expect' = "operand" /\ todo' = MaxSteps /\ temp' = FALSE
  /\ calls' = IF f = "call" THEN <<NewCall(FALSE)>> ELSE <<>>
  /\ outcome' = NoOutcome
  /\ UNCHANGED <<used, held, arena, pieces, cbase, sp, mem, scratch, ops,
                 wants>>

Spend == todo > 0 /\ todo' = todo - 1

(* A string variable of the routine. *)
Operand(x) ==
  /\ expect = "operand"
  /\ expect' = "operator"
  /\ ops' = Push(VarAddr(FramePtr, x), <<x>>)
  /\ UNCHANGED <<used, held, arena, pieces, cbase, calls, form, todo, temp, sp,
                 mem, scratch, wants, outcome>>

(* copy(x, 1, 255), its result in the one static temp *)
CopyOperand(x) ==
  /\ expect = "operand"
  /\ ~temp \/ "copies" \in Constructs
  /\ expect' = "operator" /\ temp' = TRUE
  /\ mem' = Put(mem, CopyTemp, Get(mem, VarAddr(FramePtr, x)))
  /\ ops' = Push(CopyTemp, <<x>>)
  /\ UNCHANGED <<used, held, arena, pieces, cbase, calls, form, todo, sp,
                 scratch, wants, outcome>>

(* copy(x, p(i), 255): the callee of an indirect call runs first.  No piece *)
(* is saved for it.                                                         *)
IndirectOperand(x) ==
  /\ expect = "operand"
  /\ pieces = 0 \/ "indirectCall" \in Constructs
  /\ ~temp
  /\ expect' = "operator" /\ temp' = TRUE
  /\ mem' = Put(Trashed(mem, sp), CopyTemp, Get(mem, VarAddr(FramePtr, x)))
  /\ scratch' = NoSlots
  /\ ops' = Push(CopyTemp, <<x>>)
  /\ UNCHANGED <<used, held, arena, pieces, cbase, calls, form, todo, sp,
                 wants, outcome>>

(* Mutant of Plus: no limit on the pieces. *)
PlusUnlimited ==
  /\ expect = "operator" /\ Spend
  /\ form = "test" /\ calls = <<>> => "comparedConcat" \in Constructs
  /\ scratch' = [scratch EXCEPT ![cbase + pieces] = top.addr]
  /\ pieces' = pieces + 1
  /\ wants' = Append(wants, top.want)
  /\ ops' = Pop
  /\ expect' = "operand"
  /\ UNCHANGED <<used, held, arena, cbase, calls, form, temp, sp, mem, outcome>>

(* + after a string: its address goes to a slot. *)
Plus ==
  /\ expect = "operator" /\ Spend
  /\ pieces < MaxPieces                   \* "too many ... pieces"
  /\ form = "test" /\ calls = <<>> => "comparedConcat" \in Constructs
  /\ scratch' = [scratch EXCEPT ![cbase + pieces] = top.addr]
  /\ pieces' = pieces + 1
  /\ wants' = Append(wants, top.want)
  /\ ops' = Pop
  /\ expect' = "operand"
  /\ UNCHANGED <<used, held, arena, cbase, calls, form, temp, sp, mem, outcome>>

(* f(...), f a function that returns a string: the pending pieces are saved *)
(* on the stack and the result buffer is taken below them.                  *)
BeginCall ==
  /\ expect = "operand" /\ Spend
  /\ cbase + pieces + LevelSlots <= ScratchSlots    \* "nested too deeply"
  /\ ~temp \/ "copies" \in Constructs
  /\ sp' = sp - pieces - StrSize
  /\ mem' = [a \in DOMAIN mem |->
               IF a \in sp - pieces .. sp - 1
                 THEN <<"word", <<>>, scratch[cbase + a - (sp - pieces)]>>
                 ELSE mem[a]]
  /\ used' = TRUE
  /\ arena' = arena + pieces + StrSize
  /\ calls' = Append(calls, NewCall(TRUE))
  /\ cbase' = cbase + pieces
  /\ pieces' = 0 /\ wants' = <<>>
  /\ UNCHANGED <<held, expect, form, temp, scratch, ops, outcome>>

(* The argument b and then (g(x) = y) of a call, b and y whatever they are: *)
(* compiled once, run or not.  Without the construct it is b and (...).     *)
ConditionArg(runs) ==
  /\ expect = "operand" /\ Spend
  /\ calls # <<>> /\ pieces = 0
  /\ "skippedCall" \in Constructs \/ runs
  /\ cbase + LevelSlots <= ScratchSlots
  /\ ~temp \/ "copies" \in Constructs
  /\ used' = TRUE
  /\ arena' = arena + StrSize
  /\ IF runs
       THEN /\ sp' = sp - StrSize
            /\ mem' = Put(Trashed(mem, sp'), sp', <<FnG>>)
            /\ scratch' = NoSlots
       ELSE UNCHANGED <<sp, mem, scratch>>
  /\ expect' = "args"
  /\ UNCHANGED <<held, pieces, cbase, calls, form, temp, ops, wants, outcome>>

(* Mutant of EndArg: concatPieces stays. *)
EndArgKeeps ==
  /\ expect = "operator" /\ calls # <<>>
  /\ expect' = "args"
  /\ IF pieces = 0
       THEN /\ calls' = [calls EXCEPT ![Len(calls)].args = @ + 1]
            /\ UNCHANGED <<sp, mem, ops>>
       ELSE /\ sp' = sp - StrSize
            /\ mem' = Put(mem, sp', Joined)
            /\ ops' = Append(Pop, [addr |-> sp', want |-> JoinedWant])
            /\ calls' = [calls EXCEPT ![Len(calls)].args = @ + 1,
                                      ![Len(calls)].temps = @ + 1]
  /\ wants' = <<>>
  /\ UNCHANGED <<used, held, arena, pieces, cbase, form, todo, temp, scratch,
                 outcome>>

(* A string argument is complete.  A concatenation is joined in a temp      *)
(* taken from the stack until the call is done.                             *)
EndArg ==
  /\ expect = "operator" /\ calls # <<>>
  /\ expect' = "args"
  /\ IF pieces = 0
       THEN /\ calls' = [calls EXCEPT ![Len(calls)].args = @ + 1]
            /\ UNCHANGED <<sp, mem, ops>>
       ELSE /\ sp' = sp - StrSize
            /\ mem' = Put(mem, sp', Joined)
            /\ ops' = Append(Pop, [addr |-> sp', want |-> JoinedWant])
            /\ calls' = [calls EXCEPT ![Len(calls)].args = @ + 1,
                                      ![Len(calls)].temps = @ + 1]
  /\ pieces' = 0 /\ wants' = <<>>
  /\ UNCHANGED <<used, held, arena, cbase, form, todo, temp, scratch, outcome>>

NextArg ==
  /\ expect = "args" /\ Spend
  /\ used \/ call.temps = 0 \/ "argAfterConcat" \in Constructs
  /\ expect' = "operand"
  /\ UNCHANGED <<used, held, arena, pieces, cbase, calls, form, temp, sp, mem,
                 scratch, ops, wants, outcome>>

Args == SubSeq(ops, Len(ops) - call.args + 1, Len(ops))
ArgStrings == FlattenSeq([i \in 1 .. Len(Args) |-> Get(mem, Args[i].addr)])
ArgWants == FlattenSeq([i \in 1 .. Len(Args) |-> Args[i].want])

(* Mutant of EndCall: the pending pieces are not copied back. *)
EndCallNoCopy ==
  /\ expect = "args" /\ call.ret
  /\ LET after == sp + call.temps * StrSize
         result == after + (arena - call.retMark)
     IN /\ mem' = Put(Trashed(mem, sp), result, <<FnF>> \o ArgStrings)
        /\ sp' = after
        /\ ops' = Append(SubSeq(ops, 1, Len(ops) - call.args),
                         [addr |-> result, want |-> <<FnF>> \o ArgWants])
  /\ scratch' = NoSlots
  /\ pieces' = call.saved /\ cbase' = call.base /\ wants' = call.wants
  /\ calls' = SubSeq(calls, 1, Len(calls) - 1)
  /\ expect' = "operator" /\ temp' = FALSE
  /\ UNCHANGED <<used, held, arena, form, todo, outcome>>

(* The function runs: it reads its arguments and writes its result to the   *)
(* address it was given.  Then temps are released and pieces restored.      *)
EndCall ==
  /\ expect = "args" /\ call.ret
  /\ LET result == sp + (arena - call.retMark) + call.temps * StrSize
         m == Trashed(mem, sp)
         after == sp + call.temps * StrSize
     IN /\ mem' = IF result \in 1 .. Top - 2
                    THEN Put(m, result, <<FnF>> \o ArgStrings) ELSE m
        /\ sp' = after
        /\ scratch' = [i \in 0 .. ScratchSlots - 1 |->
             IF i \in call.base .. call.base + call.saved - 1
               THEN Word(m, after + (arena - call.saveMark) + (i - call.base))
               ELSE NoAddr]
        /\ ops' = Append(SubSeq(ops, 1, Len(ops) - call.args),
                         [addr |-> after + (arena - call.retMark),
                          want |-> <<FnF>> \o ArgWants])
  /\ pieces' = call.saved /\ cbase' = call.base /\ wants' = call.wants
  /\ calls' = SubSeq(calls, 1, Len(calls) - 1)
  /\ expect' = "operator" /\ temp' = FALSE
  /\ UNCHANGED <<used, held, arena, form, todo, outcome>>

(* Mutant of EndStatement: clears the flag, but does not restore $sp. *)
EndStatementKeeps ==
  /\ expect' = "statement" /\ form' = "none" /\ todo' = 0 /\ temp' = FALSE
  /\ IF used /\ ~held THEN used' = FALSE /\ arena' = 0
                      ELSE UNCHANGED <<used, arena>>
  /\ UNCHANGED <<held, sp>>

(* The end of a statement: EmitStmtArenaRelease, unless a statement around  *)
(* it took a buffer first.                                                  *)
EndStatement ==
  /\ expect' = "statement" /\ form' = "none" /\ todo' = 0 /\ temp' = FALSE
  /\ IF used /\ ~held THEN used' = FALSE /\ arena' = 0 /\ sp' = Base
                      ELSE UNCHANGED <<used, arena, sp>>
  /\ UNCHANGED held

(* P(...): P runs, then temps are released. *)
EndCallStatement ==
  /\ expect = "args" /\ ~call.ret
  /\ outcome' = [got |-> ArgStrings, want |-> ArgWants]
  /\ Forget
  /\ ops' = <<>> /\ calls' = <<>>
  /\ pieces' = call.saved /\ cbase' = call.base /\ wants' = call.wants
  /\ expect' = "statement" /\ form' = "none" /\ todo' = 0 /\ temp' = FALSE
  /\ IF used /\ ~held
       THEN used' = FALSE /\ arena' = 0 /\ sp' = Base
       ELSE /\ sp' = sp + call.temps * StrSize
            /\ UNCHANGED <<used, arena>>
  /\ UNCHANGED held

(* s := e, e complete; a concatenation is joined in a static temp *)
EndAssign ==
  /\ expect = "operator" /\ form = "assign" /\ calls = <<>>
  /\ outcome' = [got |-> Joined, want |-> JoinedWant]
  /\ pieces' = 0 /\ wants' = <<>> /\ ops' = <<>>
  /\ EndStatement /\ Forget
  /\ UNCHANGED <<cbase, calls>>

(* = in a test, after its left side *)
Equal ==
  /\ expect = "operator" /\ form = "test" /\ calls = <<>> /\ Len(ops) = 1
  /\ ops' = <<[top EXCEPT !.want = JoinedWant]>>
  /\ wants' = <<>>
  /\ expect' = "operand"
  /\ UNCHANGED <<used, held, arena, pieces, cbase, calls, form, todo, temp, sp,
                 mem, scratch, outcome>>

(* The test is complete: __str_compare of the two addresses on the stack.   *)
(* Its statement's body follows.  Nothing reads or resets the pieces.       *)
EndTest ==
  /\ expect = "operator" /\ form = "test" /\ calls = <<>> /\ Len(ops) = 2
  /\ outcome' = [got |-> <<Get(mem, ops[1].addr), Get(mem, top.addr)>>,
                 want |-> <<ops[1].want, JoinedWant>>]
  /\ held' = used /\ Forget
  /\ ops' = <<>> /\ wants' = <<>>
  /\ expect' = "statement" /\ form' = "none" /\ todo' = 0 /\ temp' = FALSE
  /\ UNCHANGED <<used, arena, pieces, cbase, calls, sp>>

(* break, continue or exit inside the body, compiled but not taken: the     *)
(* release it emits is not run, though stmtArenaBytes is 0 from here on.    *)
BranchNotTaken ==
  /\ expect = "statement" /\ held
  /\ arena' = 0
  /\ UNCHANGED <<used, held, pieces, cbase, source, sp, mem, scratch, ops,
                 wants, outcome>>

(* The body ends, or is left by a branch: the statement around it releases. *)
EndBody ==
  /\ expect = "statement" /\ held
  /\ held' = FALSE /\ used' = FALSE /\ arena' = 0 /\ sp' = Base
  /\ UNCHANGED <<pieces, cbase, source, mem, scratch, ops, wants, outcome>>

Next ==
  \/ \E f \in {"assign", "test", "call"} : Begin(f)
  \/ \E x \in Vars : Operand(x) \/ CopyOperand(x) \/ IndirectOperand(x)
  \/ Plus \/ BeginCall \/ EndArg \/ NextArg \/ EndCall
  \/ \E runs \in BOOLEAN : ConditionArg(runs)
  \/ EndCallStatement \/ EndAssign \/ Equal \/ EndTest
  \/ BranchNotTaken \/ EndBody

Spec == Init /\ [][Next]_vars
-----------------------------------------------------------------------------
(* Properties. *)

TypeOK ==
  /\ used \in BOOLEAN /\ held \in BOOLEAN /\ arena \in Nat
  /\ pieces \in 0 .. MaxPieces /\ cbase \in 0 .. ScratchSlots - LevelSlots
  /\ expect \in {"statement", "operand", "operator", "args"}
  /\ form \in {"none", "assign", "test", "call"}
  /\ todo \in 0 .. MaxSteps
  /\ sp \in 1 .. Base
  /\ scratch \in [0 .. ScratchSlots - 1 -> 0 .. Top]

(* A statement gets the strings its source means: through calls in calls,   *)
(* concatenations in arguments and arguments in concatenations.             *)
ValuesRight == outcome.got = outcome.want

(* Every address on the operand stack and every pending piece still has the *)
(* string it had when its operand was evaluated.                            *)
OperandsAlive ==
  /\ \A i \in 1 .. Len(ops) : Get(mem, ops[i].addr) = ops[i].want
  /\ \A j \in 1 .. pieces : Get(mem, scratch[cbase + j - 1]) = wants[j]

(* Wherever a variable may be read, it is addressed from the frame base:    *)
(* the comment of EmitFramePtr, "valid because $sp equals the frame base at *)
(* every statement boundary.  A structured function result breaks that".    *)
FrameReached == expect \in {"statement", "operand"} => FramePtr = Base

(* Between statements nothing is pending, and $sp is back unless a          *)
(* statement around them took a buffer.                                     *)
StatementClean ==
  expect = "statement" =>
    /\ pieces = 0 /\ cbase = 0 /\ ops = <<>> /\ calls = <<>>
    /\ ~held => sp = Base /\ ~used /\ arena = 0

(* The frame base is reached wherever it is used, and $sp and all that is   *)
(* pending are back after every statement, whatever it was made of.         *)
BaseKept == TypeOK /\ FrameReached /\ StatementClean
=============================================================================
