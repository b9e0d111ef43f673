------------------------------ MODULE ControlFlow ------------------------------
(***************************************************************************)
(* Statements with control flow (ParseStatement, cpas.pas), one action for *)
(* each: what they emit, and the relative depths that break, continue and  *)
(* exit are compiled to.  When the body is complete its code runs, next to *)
(* the source: want is the place the source says comes next.               *)
(*                                                                         *)
(* Everything computed is one of the places of the source: a statement, a  *)
(* condition, a bound, a label.  What it answers is any answer.            *)
(***************************************************************************)
EXTENDS Peephole, FiniteSetsExt
CONSTANTS
  MaxTokens,        \* bound: tokens of the body
  MaxFor,           \* nested for loops that have a local for their limit, 16
  Shapes,           \* forms of a condition: "plain" c, "not" not c, "ornot" c or else not d
  Simples,          \* "plain" statements; calls through a procedural variable without argument,
                    \* "none", with one, "arg", with another such call as argument, "call"
  RepeatContinues   \* whether continue may stand directly in a repeat

ASSUME BodyConstants ==
  /\ MaxTokens \in Nat /\ MaxFor \in Nat
  /\ Shapes \subseteq {"plain", "not", "ornot"} /\ Simples \subseteq {"plain", "none", "arg", "call"}

VARIABLES
  src,    \* tokens: kind, shape of the condition, construct they belong to
  buf,    \* startCode
  breakDepth, continueDepth, exitDepth, forLimitDepth,
  nest,   \* constructs being parsed, outermost first
  phase,  \* "parse", "error" or "run"
  pc, reg, locals,   \* the code running: next instruction, top of the operand stack
  taken,  \* places that took bytes of the statement arena since it was released
  want    \* where the source is
depths == <<breakDepth, continueDepth, exitDepth, forLimitDepth>>
machine == <<pc, reg, locals, taken, want>>
bodyVars == <<src, buf, depths, nest, phase, machine>>

Loops == {"while", "for", "repeat"}
Done == <<0, "done">>
CaseTemp == 0    \* also for the table index of a call, while its argument is computed
LimitLocal(d) == 1 + d
current == nest[Len(nest)]
inner == SubSeq(nest, 1, Len(nest) - 1)
here == Len(src) + 1

Op(op) == Ins(op, 0)
Br(d) == Ins("br", d)
BrIf(d) == Ins("brif", d)
Place(op, at, part) == Seen(op, 0, at, part)
\* The code of a condition (or else and not of ParseExpression).
Condition(shape, j) ==
  CASE shape = "plain" -> <<Place("read", j, "c")>>
    [] shape = "not" -> <<Place("read", j, "c"), Op("eqz")>>
    [] shape = "ornot" -> <<Place("read", j, "c"), Op("if"), Ins("const", 1), Op("else"),
                            Place("read", j, "d"), Op("eqz"), Op("end")>>
Emits(instructions) == buf' = EmitAll(buf, instructions)

BodyInit ==
  /\ src = <<>> /\ buf = Emit(NoCode, Op("block"))
  /\ breakDepth = -1 /\ continueDepth = -1 /\ exitDepth = 0 /\ forLimitDepth = 0
  /\ nest = <<>> /\ phase = "parse"
  /\ pc = 1 /\ reg = 0 /\ locals = [l \in 0..MaxFor |-> 0] /\ taken = {} /\ want = Done
--------------------------------------------------------------------------------
(* Parsing.                                                                *)
\* A statement may stand here; n more tokens fit.
SpaceFor(n) == phase = "parse" /\ Len(src) + Len(nest) + n <= MaxTokens
Statement(n) == SpaceFor(n) /\ (nest # <<>> /\ current.kind = "case" => current.arms > 0 \/ current.last)
Token(kind, shape) ==
  src' = Append(src, [kind |-> kind, shape |-> shape, up |-> IF nest = <<>> THEN 0 ELSE current.at])
Opens(kind) ==
  nest' = Append(nest, [kind |-> kind, at |-> here, arms |-> 0, last |-> FALSE,
                        break |-> breakDepth, continue |-> continueDepth])
Parsing == UNCHANGED <<phase, machine>>

(* Mutant of Deepened: outside of a loop, too.                             *)
DeepenedAlways(d, k) == d + k
Deepened(d, k) == IF d >= 0 THEN d + k ELSE d
\* k WebAssembly blocks more around what follows (fewer, if negative).
Deepen(k) ==
  /\ breakDepth' = Deepened(breakDepth, k) /\ continueDepth' = Deepened(continueDepth, k)
  /\ exitDepth' = exitDepth + k /\ UNCHANGED forLimitDepth
(* Mutant of LoopDepths: the two depths of while and repeat change places. *)
LoopDepthsSwapped(kind) == IF kind = "for" THEN <<2, 0, 3>> ELSE <<0, 1, 2>>
\* break and continue in the body of a loop, and how much deeper it is.
LoopDepths(kind) == IF kind = "for" THEN <<2, 0, 3>> ELSE <<1, 0, 2>>
EnterLoop(kind) ==
  /\ breakDepth' = LoopDepths(kind)[1] /\ continueDepth' = LoopDepths(kind)[2]
  /\ exitDepth' = exitDepth + LoopDepths(kind)[3]
  /\ forLimitDepth' = forLimitDepth + (IF kind = "for" THEN 1 ELSE 0)
LeaveLoop(kind) ==
  /\ breakDepth' = current.break /\ continueDepth' = current.continue
  /\ exitDepth' = exitDepth - LoopDepths(kind)[3]
  /\ forLimitDepth' = forLimitDepth - (IF kind = "for" THEN 1 ELSE 0)

\* What a statement without statements in it computes, and the code of it: an
\* assignment or a call, or a call through a procedural variable.
Parts(shape) ==
  CASE shape = "plain" -> <<"act">> [] shape = "none" -> <<"proc", "call">>
    [] shape = "arg" -> <<"proc", "arg", "call">> [] shape = "call" -> <<"proc", "argproc", "argcall", "call">>
Argument(shape, j) ==
  CASE shape = "none" -> <<>> [] shape = "arg" -> <<Place("read", j, "arg")>>
    [] shape = "call" -> <<Place("proc", j, "argproc"), Ins("set", CaseTemp), Ins("get", CaseTemp),
                           Place("invoke", j, "argcall")>>
Through(shape, j) ==
  <<Place("proc", j, "proc"), Ins("set", CaseTemp)>> \o Argument(shape, j)
  \o <<Ins("get", CaseTemp), Place("invoke", j, "call")>>
Simple(shape) ==
  /\ Statement(1) /\ Token("simple", shape)
  /\ Emits(IF shape = "plain" THEN <<Place("act", here, "act")>> ELSE Through(shape, here))
  /\ UNCHANGED <<depths, nest>> /\ Parsing
If(shape) ==
  /\ Statement(2) /\ Token("if", shape) /\ Opens("if")
  /\ Emits(Condition(shape, here) \o <<Op("if")>>)
  /\ Deepen(1) /\ Parsing
While(shape) ==
  /\ Statement(2) /\ Token("while", shape) /\ Opens("while")
  /\ Emits(<<Op("block"), Op("loop")>> \o Condition(shape, here) \o <<Op("eqz"), BrIf(1)>>)
  /\ EnterLoop("while") /\ Parsing
(* Mutant of LimitOf: one local for the limits of all loops.               *)
LimitOfAll(d) == LimitLocal(0)
LimitOf(d) == LimitLocal(d)
\* for .. to and for .. downto
For ==
  /\ Statement(2) /\ forLimitDepth < MaxFor /\ Token("for", "") /\ Opens("for")
  /\ Emits(<<Place("init", here, "init"), Place("bound", here, "bound"),
             Ins("set", LimitOf(forLimitDepth)), Op("block"), Op("loop"),
             Ins("get", LimitOf(forLimitDepth)), Place("beyond", here, "test"), BrIf(1), Op("block")>>)
  /\ EnterLoop("for") /\ Parsing
Repeat ==
  /\ Statement(2) /\ Token("repeat", "") /\ Opens("repeat")
  /\ Emits(<<Op("block"), Op("loop")>>)
  /\ EnterLoop("repeat") /\ Parsing
Case ==
  /\ Statement(2) /\ Token("case", "") /\ Opens("case")
  /\ Emits(<<Place("select", here, "select"), Ins("set", CaseTemp)>>)
  /\ UNCHANGED depths /\ Parsing

Within(kind) == phase = "parse" /\ nest # <<>> /\ current.kind = kind
Else ==
  /\ SpaceFor(1) /\ Within("if") /\ ~current.last /\ Token("else", "")
  /\ nest' = Append(inner, [current EXCEPT !.last = TRUE])
  /\ Emits(<<Op("else")>>)
  /\ UNCHANGED depths /\ Parsing
Elses(n) == IF n > 0 THEN <<Op("else")>> ELSE <<>>
\* A label and the statement it is for.
Arm ==
  /\ SpaceFor(1) /\ Within("case") /\ ~current.last /\ Token("arm", "")
  /\ nest' = Append(inner, [current EXCEPT !.arms = @ + 1])
  /\ Emits(Elses(current.arms) \o <<Ins("get", CaseTemp), Place("equal", here, "label"), Op("if")>>)
  /\ Deepen(1) /\ Parsing
CaseElse ==
  /\ SpaceFor(1) /\ Within("case") /\ ~current.last /\ Token("otherwise", "")
  /\ nest' = Append(inner, [current EXCEPT !.last = TRUE])
  /\ Emits(Elses(current.arms)) /\ UNCHANGED depths /\ Parsing

Closes(kind, shape) == Within(kind) /\ Token("end", shape) /\ nest' = inner
EndIf == Closes("if", "") /\ Emits(<<Op("end")>>) /\ Deepen(-1) /\ Parsing
EndCase ==
  /\ Closes("case", "") /\ Emits([k \in 1..current.arms |-> Op("end")])
  /\ Deepen(-current.arms) /\ Parsing
(* Mutant of Again: the release of a loop's iterations is left out.        *)
AgainBare == <<Br(0)>>
\* An iteration is over.
Again == <<Op("release"), Br(0)>>
EndWhile ==
  /\ Closes("while", "") /\ Emits(Again \o <<Op("end"), Op("end")>>)
  /\ LeaveLoop("while") /\ Parsing
EndFor ==
  /\ Closes("for", "")
  /\ Emits(<<Op("end"), Op("release"), Place("step", current.at, "step"), Br(0), Op("end"), Op("end")>>)
  /\ LeaveLoop("for") /\ Parsing
Until(shape) ==
  /\ Closes("repeat", shape)
  /\ Emits(Condition(shape, here) \o <<Op("eqz"), Op("release"), BrIf(0), Op("end"), Op("end")>>)
  /\ LeaveLoop("repeat") /\ Parsing

\* exit, break and continue to the end of the statement arena and away.
Leave(kind, depth) ==
  /\ Statement(1) /\ depth >= 0 /\ Token(kind, "") /\ Emits(<<Op("release"), Br(depth)>>)
  /\ UNCHANGED <<depths, nest>> /\ Parsing
NearestLoop == Max({k \in 1..Len(nest) : nest[k].kind \in Loops} \cup {0})
InRepeat == NearestLoop > 0 /\ nest[NearestLoop].kind = "repeat"
Exit == Leave("exit", exitDepth)
Break == Leave("break", breakDepth)
Continue ==
  /\ InRepeat => RepeatContinues
  /\ Leave("continue", continueDepth)
\* "break outside of loop", "for loops nested too deeply"
Error ==
  /\ \/ Statement(1) /\ breakDepth < 0
     \/ Statement(2) /\ forLimitDepth >= MaxFor
  /\ phase' = "error"
  /\ UNCHANGED <<src, buf, depths, nest, machine>>
--------------------------------------------------------------------------------
(* Where the source goes.                                                  *)
Separators == {"else", "arm", "otherwise", "end"}
Separator(o, j) == Min({k \in j + 1..Len(src) : src[k].kind \in Separators /\ src[k].up = o})
EndOf(o) == CHOOSE k \in 1..Len(src) : src[k].kind = "end" /\ src[k].up = o
LoopAround[j \in 1..Len(src)] ==
  LET o == src[j].up IN IF o = 0 \/ src[o].kind \in Loops THEN o ELSE LoopAround[o]
\* The place where another iteration of loop o begins.
NextRound(o) ==
  CASE src[o].kind = "while" -> <<o, "c">>
    [] src[o].kind = "for" -> <<o, "step">>
    [] src[o].kind = "repeat" -> <<EndOf(o), "c">>
\* The first place from token j on.
Goes[j \in 1..Len(src) + 1] ==
  IF j > Len(src) THEN Done
  ELSE LET t == src[j]
           k == t.kind
       IN CASE k = "simple" -> <<j, Parts(t.shape)[1]>>
            [] k \in {"if", "while"} -> <<j, "c">>
            [] k = "for" -> <<j, "init">>
            [] k = "case" -> <<j, "select">>
            [] k = "repeat" -> Goes[j + 1]
            [] k = "exit" -> Done
            [] k = "break" -> Goes[EndOf(LoopAround[j]) + 1]
            [] k = "continue" -> NextRound(LoopAround[j])
            [] k \in {"else", "arm", "otherwise"} -> Goes[EndOf(t.up) + 1]
            [] k = "end" /\ src[t.up].kind \in Loops -> NextRound(t.up)
            [] OTHER -> Goes[j + 1]
\* A condition that holds or not; a label that is met or not.
Decided(j, holds) ==
  LET t == src[j]
  IN CASE t.kind = "if" -> Goes[IF holds THEN j + 1 ELSE Separator(j, j) + 1]
       [] t.kind \in {"while", "for"} -> Goes[IF holds THEN j + 1 ELSE EndOf(j) + 1]
       [] t.kind = "end" -> Goes[IF holds THEN j + 1 ELSE t.up + 1]
\* The first label of a case from separator k on.
Label(k) == IF src[k].kind = "arm" THEN <<k, "label">> ELSE Goes[k + 1]
IsMet(shape, part, v) == IF shape = "plain" \/ (shape = "ornot" /\ part = "c") THEN v = 1 ELSE v = 0
\* After place p answered v.
After(p, v) ==
  LET j == p[1]
  IN CASE p[2] \in {"act", "call"} -> Goes[j + 1]
       [] p[2] = "c" /\ src[j].shape = "ornot" /\ v = 0 -> <<j, "d">>
       [] p[2] \in {"c", "d"} -> Decided(j, IsMet(src[j].shape, p[2], v))
       [] src[j].kind = "simple" ->
            LET parts == Parts(src[j].shape)
            IN <<j, parts[1 + CHOOSE i \in 1..Len(parts) : parts[i] = p[2]]>>
       [] p[2] = "init" -> <<j, "bound">>
       [] p[2] \in {"bound", "step"} -> <<j, "test">>
       [] p[2] = "test" -> Decided(j, v = 0)
       [] p[2] = "select" -> Label(Separator(j, j))
       [] p[2] = "label" -> IF v = 1 THEN Goes[j + 1] ELSE Label(Separator(src[j].up, j))
--------------------------------------------------------------------------------
(* Running the code.  Structured jumps are made addresses once.            *)
Openers == {"block", "loop", "if"}
Count(code, ops, i) == Cardinality({k \in 1..i - 1 : code[k].op \in ops})
Level(code, i) == Count(code, Openers, i) - Count(code, {"end"}, i)
\* The end, or else, that closes what is open at level l of position i.
Closing(code, ops, l, i) ==
  Min({k \in i + 1..Len(code) : code[k].op \in ops /\ Level(code, k) = l} \cup {Len(code)})
Target(code, i) ==
  LET op == code[i].op
      l == Level(code, i)
      open == Max({k \in 1..i - 1 : code[k].op \in Openers /\ Level(code, k) = l - 1 - code[i].n} \cup {1})
  IN CASE op \in {"br", "brif"} ->
            IF code[open].op = "loop" THEN open + 1 ELSE Closing(code, {"end"}, l - code[i].n, i) + 1
       [] op = "if" -> Closing(code, {"else", "end"}, l + 1, i) + 1
       [] op = "else" -> Closing(code, {"end"}, l, i) + 1
       [] OTHER -> code[i].n
Resolved(code) == [i \in 1..Len(code) |-> [code[i] EXCEPT !.n = Target(code, i)]]

Finish ==
  /\ phase = "parse" /\ nest = <<>> /\ src # <<>>
  /\ buf' = [code |-> Resolved(Emit(buf, Op("end")).code), last |-> 0]
  /\ want' = Goes[1] /\ phase' = "run"
  /\ UNCHANGED <<src, depths, nest, pc, reg, locals, taken>>

instr == buf.code[pc]
Running == phase = "run" /\ pc <= Len(buf.code)
Compiled == UNCHANGED <<src, buf, depths, nest, phase>>
\* Instructions that no source place stands for.
Moves ==
  /\ Running /\ instr.part = ""
  /\ pc' = CASE instr.op \in {"br", "else"} -> instr.n
             [] instr.op = "brif" -> IF reg # 0 THEN instr.n ELSE pc + 1
             [] instr.op = "if" -> IF reg = 0 THEN instr.n ELSE pc + 1
             [] OTHER -> pc + 1
  /\ reg' = CASE instr.op = "const" -> instr.n
              [] instr.op = "eqz" -> IF reg = 0 THEN 1 ELSE 0
              [] instr.op = "get" -> locals[instr.n]
              [] OTHER -> reg
  /\ locals' = IF instr.op \in {"set", "tee"} THEN [locals EXCEPT ![instr.n] = reg] ELSE locals
  /\ taken' = IF instr.op = "release" THEN {} ELSE taken
  /\ UNCHANGED want /\ Compiled
place == <<instr.at, instr.part>>
\* Places answer, and the source goes along while it is there too.  A bound,
\* a selector and a procedural value are known by the token they belong to.
Named == {"bound", "select", "proc"}
Name == IF instr.part \in {"argproc", "argcall"} THEN -instr.at ELSE instr.at
TakeParts == {"c", "d", "init", "bound", "select"}
Takes == instr.part \in TakeParts
Answers ==
  /\ Running /\ instr.part # "" /\ pc' = pc + 1
  /\ \E v \in {0, 1} :
       /\ reg' = IF instr.op \in Named THEN Name ELSE v
       /\ want' = IF place = want THEN After(want, v) ELSE want
  /\ taken' = IF Takes THEN taken \cup {place} ELSE taken
  /\ UNCHANGED locals /\ Compiled

Ended == phase = "error" \/ (phase = "run" /\ pc > Len(buf.code))
Stop == Ended /\ UNCHANGED bodyVars
Parse ==
  \/ (\E s \in Simples : Simple(s)) \/ (\E s \in Shapes : If(s) \/ While(s) \/ Until(s)) \/ For \/ Repeat \/ Case
  \/ Else \/ Arm \/ CaseElse \/ EndIf \/ EndCase \/ EndWhile \/ EndFor
  \/ Exit \/ Break \/ Continue \/ Error \/ Finish
Exec == Moves \/ Answers
BodyNext == Parse \/ Exec \/ Stop
BodySpec == BodyInit /\ [][BodyNext]_bodyVars /\ WF_bodyVars(Exec)
--------------------------------------------------------------------------------
(* Properties.                                                             *)
TokenKinds == {"simple", "if", "else", "while", "for", "repeat", "case", "arm", "otherwise", "end", "exit", "break", "continue"}
\* The blocks of the code that a construct has open around what comes next,
\* and those of the first constructs of nest.
BlocksOf(c) == CASE c.kind \in Loops -> LoopDepths(c.kind)[3] [] c.kind = "if" -> 1 [] c.kind = "case" -> c.arms
Sums(w) ==
  LET sum[k \in 0..Len(w)] == IF k = 0 THEN 0 ELSE sum[k - 1] + w[k]
  IN sum
Outer(constructs) == Sums([k \in 1..Len(constructs) |-> BlocksOf(constructs[k])])
\* Types; and the depths are those of the code: exit leaves every block that
\* is open in what was emitted, whatever was rewritten; break leaves those
\* of the nearest loop, and continue those inside its innermost; outside of
\* every loop both are -1 (their declarations, cpas.pas:645), and are refused.
DepthsTrue ==
  /\ \A j \in 1..Len(src) : src[j].kind \in TokenKinds /\ src[j].up \in 0..j - 1
  /\ phase \in {"parse", "error", "run"} /\ pc \in 1..Len(buf.code) + 1
  /\ buf.last \in {0, Len(buf.code)} /\ exitDepth \in Nat /\ forLimitDepth \in 0..MaxFor
  /\ phase # "run" => Level(buf.code, Len(buf.code) + 1) = exitDepth + 1
  /\ LET blocks == Outer(nest)
     IN /\ exitDepth = blocks[Len(nest)]
        /\ breakDepth = IF NearestLoop = 0 THEN -1 ELSE exitDepth - blocks[NearestLoop - 1] - 1
        /\ continueDepth = IF NearestLoop = 0 THEN -1 ELSE exitDepth - blocks[NearestLoop]

\* The code that runs does what the source says, in its order: whatever the
\* conditions answer, the next place it reaches is the one the source comes
\* to next, it ends when the source does, a loop compares its counter with
\* its own limit, a label is compared with the selector of its own case, a
\* call goes to the routine its variable holds -
\* through every nesting of constructs, every break, continue and exit, and
\* every rewriting of the peephole pass (cpas.pas:9188..9510, 2687..2764).
Owner == IF instr.op = "equal" THEN src[instr.at].up ELSE Name
InStep ==
  phase = "run" =>
    IF Running
    THEN instr.part # "" => place = want /\ (instr.op \in {"beyond", "equal", "invoke"} => reg = Owner)
    ELSE want = Done

\* "A loop cannot walk the stack down one buffer at a time" (cpas.pas:9229):
\* no place takes bytes of the statement arena a second time before they
\* were released.
LoopsRelease == Running /\ Takes => place \notin taken

\* The code that runs keeps coming to places of the source, or ends: no
\* branch goes back to a loop where nothing is asked.
KeepsPace == []<>(Running => instr.part # "")
================================================================================
