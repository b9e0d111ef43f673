------------------------------ MODULE Display -------------------------------
(***************************************************************************)
(* Calls of nested routines at run time: the frame each activation has on  *)
(* the stack, and the display, one global per nesting level, by which      *)
(* compiled code reaches the frames of the routines it is nested in.       *)
(*                                                                         *)
(* The code is generated.  ParseProcDecl saves the display global of the   *)
(* routine's own level in a local on entry; ParseBlock emits the prologue  *)
(* (stack guard, $sp, display), the exit block, the balance check and the  *)
(* epilogue; ParseStatement releases what a statement took of the stack;   *)
(* EmitFramePtr picks the global a variable is addressed by (all           *)
(* compiler/cpas.pas).  Checks are on ({$S+}, the default), and $sp does   *)
(* not wrap: that is module Heap's subject.                                *)
(***************************************************************************)
EXTENDS Integers, Sequences

CONSTANTS
  Procs,            \* the program and its routines
  Main,             \* the program
  Chain,            \* Chain[p]: the routines around p, Main first, then p
  FrameSize,        \* FrameSize[p]: bytes of p's frame
  BufferSizes,      \* sizes of the buffers a statement takes of the stack
  Args,             \* values of a routine's scalar value parameter
  Top,              \* $sp when the program starts
  HeapEnd,          \* $__heap_end, fixed here
  MaxNestLevel,     \* deepest level ParseProcDecl accepts
  MaxDisplayDepth,  \* number of display globals
  MaxCalls          \* bound: activations at once

ASSUME DisplayConstants ==
  /\ Main \in Procs
  /\ Chain \in [Procs -> Seq(Procs)]
  /\ \A p \in Procs :
       /\ Len(Chain[p]) \in 1 .. MaxNestLevel + 1    \* "nesting too deep"
       /\ Chain[p][1] = Main /\ Chain[p][Len(Chain[p])] = p
       /\ \A i \in 1 .. Len(Chain[p]) :
            Chain[Chain[p][i]] = SubSeq(Chain[p], 1, i)
  /\ FrameSize \in [Procs -> Nat]
  /\ BufferSizes \subseteq Nat \ {0}
  /\ Top \in Nat /\ HeapEnd \in Nat /\ HeapEnd <= Top
  /\ MaxNestLevel \in Nat /\ MaxDisplayDepth \in Nat /\ MaxCalls \in Nat

VARIABLES
  sp,        \* global $sp
  display,   \* globals display[0] .. display[MaxDisplayDepth - 1]
  acts,      \* the activations, Main first
  pc         \* whether the program runs, or how it stopped

vars == <<sp, display, acts, pc>>

Level(p) == Len(Chain[p]) - 1
Levels == 0 .. MaxDisplayDepth - 1

(* proc: what runs; saved: its display local; used: stmtUsedResultBuf where  *)
(* it stands; arg: its value parameter, WASM local 0.  History: base, entry  *)
(* and seen are $sp after the prologue, $sp and the display at the call;     *)
(* link[l + 1] is the activation whose level-l variables it means.           *)
Activation == [proc : Procs, saved : Nat, used : BOOLEAN, arg : Args,
               base : Nat, entry : Nat, seen : [Levels -> Nat],
               link : Seq(Nat)]

top == acts[Len(acts)]

(* A module that sets a global that is not there or not mutable is refused  *)
(* when it is instantiated.                                                 *)
ModuleOK == \A p \in Procs : Level(p) \in Levels

Init ==
  /\ sp = Top
  /\ display = [l \in Levels |-> 0]
  /\ acts = <<>>
  /\ pc = IF ModuleOK THEN "run" ELSE "invalid"

(* Mutant of Overflows: does not count the frame. *)
OverflowsBare(p) == FrameSize[p] > 0 /\ sp < HeapEnd

(* The prologue compares before it subtracts; a frame of 0 has none. *)
Overflows(p) == FrameSize[p] > 0 /\ sp < HeapEnd + FrameSize[p]

(* Code of p may call q: q is declared in p or in a routine around p.  An   *)
(* indirect call reaches top-level routines only, which is less.            *)
InScope(q, p) ==
  q # Main /\ \E k \in 1 .. Len(Chain[p]) :
                Chain[q] = Append(SubSeq(Chain[p], 1, k), q)

Callable(q) == IF acts = <<>> THEN q = Main ELSE InScope(q, top.proc)

Enter(q, v) ==
  /\ pc = "run" /\ Len(acts) < MaxCalls
  /\ Callable(q)
  /\ ~Overflows(q)
  /\ sp' = sp - FrameSize[q]
  /\ display' = [display EXCEPT ![Level(q)] = sp']
  /\ acts' = Append(acts,
       [proc |-> q, saved |-> display[Level(q)], used |-> FALSE, arg |-> v,
        base |-> sp', entry |-> sp, seen |-> display,
        link |-> [i \in 1 .. Level(q) + 1 |->
                    IF i = Level(q) + 1 THEN Len(acts) + 1 ELSE top.link[i]]])
  /\ UNCHANGED pc

Overflow(q) ==
  /\ pc = "run" /\ Len(acts) < MaxCalls
  /\ Callable(q)
  /\ Overflows(q)
  /\ pc' = "overflow"
  /\ UNCHANGED <<sp, display, acts>>

(* A statement takes n bytes for a structured result or for pieces of a     *)
(* concatenation.  Nothing is compared first.                               *)
TakeBuffer(n) ==
  /\ pc = "run" /\ acts # <<>>
  /\ sp - n >= 0                          \* bound: $sp does not wrap here
  /\ sp' = sp - n
  /\ acts' = [acts EXCEPT ![Len(acts)].used = TRUE]
  /\ UNCHANGED <<display, pc>>

(* Mutant of Release: the global of the level around, off by one. *)
ReleaseOuter ==
  /\ pc = "run" /\ acts # <<>> /\ top.used
  /\ sp' = IF Level(top.proc) = 0 THEN sp ELSE display[Level(top.proc) - 1]
  /\ acts' = [acts EXCEPT ![Len(acts)].used = FALSE]
  /\ UNCHANGED <<display, pc>>

(* EmitStmtArenaRelease at the end of such a statement, of a loop's turn    *)
(* and before break and continue                                            *)
Release ==
  /\ pc = "run" /\ acts # <<>> /\ top.used
  /\ sp' = display[Level(top.proc)]
  /\ acts' = [acts EXCEPT ![Len(acts)].used = FALSE]
  /\ UNCHANGED <<display, pc>>

(* Mutant of Epilogue: leaves the display as it is. *)
EpilogueNoRestore(s) ==
  LET p == top.proc
  IN IF s # display[Level(p)]
       THEN pc' = "unbalanced" /\ UNCHANGED <<sp, display, acts>>
       ELSE /\ sp' = IF FrameSize[p] > 0
                       THEN display[Level(p)] + FrameSize[p] ELSE s
            /\ UNCHANGED display
            /\ acts' = SubSeq(acts, 1, Len(acts) - 1)
            /\ pc' = IF p = Main THEN "done" ELSE "run"

(* The end of a routine, reached with s in $sp. *)
Epilogue(s) ==
  LET p == top.proc
  IN IF s # display[Level(p)]
       THEN pc' = "unbalanced" /\ UNCHANGED <<sp, display, acts>>
       ELSE /\ sp' = IF FrameSize[p] > 0
                       THEN display[Level(p)] + FrameSize[p] ELSE s
            /\ display' = IF p = Main THEN display
                          ELSE [display EXCEPT ![Level(p)] = top.saved]
            /\ acts' = SubSeq(acts, 1, Len(acts) - 1)
            /\ pc' = IF p = Main THEN "done" ELSE "run"

Return ==
  /\ pc = "run" /\ acts # <<>> /\ ~top.used
  /\ Epilogue(sp)

(* Mutant of Exit: branches without the release. *)
ExitUnreleased ==
  /\ pc = "run" /\ acts # <<>> /\ top.used
  /\ Epilogue(sp)

(* exit releases, then branches to the end of the routine. *)
Exit ==
  /\ pc = "run" /\ acts # <<>> /\ top.used
  /\ Epilogue(display[Level(top.proc)])

Stopped == pc # "run" /\ UNCHANGED vars

Next ==
  \/ \E q \in Procs, v \in Args : Enter(q, v)
  \/ \E q \in Procs : Overflow(q)
  \/ \E n \in BufferSizes : TakeBuffer(n)
  \/ Release \/ Return \/ Exit \/ Stopped

Spec == Init /\ [][Next]_vars
-----------------------------------------------------------------------------
(* What compiled code reads. *)

(* Mutant of FramePtr: $sp serves in any statement. *)
FramePtrSp(l) == IF l = Level(top.proc) THEN sp ELSE display[l]

(* EmitFramePtr: the frame a variable of level l is addressed from.  $sp    *)
(* serves for the running routine's own variables unless the statement took *)
(* a buffer.                                                                *)
FramePtr(l) == IF l = Level(top.proc) /\ ~top.used THEN sp ELSE display[l]

(* A scalar value parameter is a WASM local, whatever routine it belongs to.*)
ValueParam(l) == top.arg
-----------------------------------------------------------------------------
(* Properties. *)

TypeOK ==
  /\ sp \in Nat
  /\ display \in [Levels -> Nat]
  /\ acts \in Seq(Activation)
  /\ pc \in {"run", "done", "overflow", "unbalanced", "invalid"}

(* Every variable is addressed from the frame of the activation the program *)
(* text means: through any recursion, calls outward and inward, exits, and  *)
(* buffers on the stack.                                                    *)
FramesReached ==
  acts # <<>> =>
    \A l \in 0 .. Level(top.proc) :
      /\ acts[top.link[l + 1]].proc = Chain[top.proc][l + 1]
      /\ FramePtr(l) = acts[top.link[l + 1]].base

(* A frame never overlaps the frame of another activation nor what a        *)
(* statement of a caller holds on the stack.                                *)
FramesApart ==
  \A i \in 1 .. Len(acts) :
    /\ acts[i].base + FrameSize[acts[i].proc] = acts[i].entry
    /\ (IF i < Len(acts) THEN acts[i + 1].entry ELSE sp) <= acts[i].base
    /\ acts[i].entry <= Top

(* The balance check never fires: whatever a routine did and however it     *)
(* left its statements, $sp is back at the frame base at its end.           *)
Balanced == pc # "unbalanced"

(* What the stack holds stays apart, and every routine ends at its base.    *)
FramesKept == FramesApart /\ Balanced

(* A call leaves $sp and the whole display as the caller had them, however  *)
(* deep it went: also the levels deeper than the caller's own.              *)
CallerRestored ==
  [][ Len(acts') < Len(acts) /\ Len(acts') > 0
      => sp' = top.entry /\ display' = top.seen ]_vars

(* Frames and display implement lexical scope. *)
EnvOf(a, d) == [i \in 1 .. Level(a.proc) + 1 |-> d[i - 1]]
Env == IF acts = <<>> THEN <<>> ELSE EnvOf(top, display)
Outer == [i \in 1 .. Len(acts) |-> IF i = 1 THEN <<>> ELSE EnvOf(acts[i - 1], acts[i].seen)]
Scope == INSTANCE LexicalScope WITH Places <- 0 .. Top, env <- Env, outer <- Outer
KeepsScope == Scope!SSpec

(* The inductive invariant.  What activation i had in $sp and the display   *)
(* when it last ran is what the activation it called recorded.              *)
SpOf(i) == IF i = Len(acts) THEN sp ELSE acts[i + 1].entry
DisplayOf(i) == IF i = Len(acts) THEN display ELSE acts[i + 1].seen

FrameOK(i, a) ==
  /\ Level(a.proc) \in Levels
  /\ a.proc = Main <=> i = 1
  /\ a.base + FrameSize[a.proc] = a.entry /\ a.entry <= Top
  /\ SpOf(i) <= a.base /\ (~a.used => SpOf(i) = a.base)
  /\ a.saved = a.seen[Level(a.proc)]
  /\ DisplayOf(i) = [a.seen EXCEPT ![Level(a.proc)] = a.base]

LinksOK(i, a) ==
  /\ Len(a.link) = Level(a.proc) + 1
  /\ \A l \in 0 .. Level(a.proc) :
       /\ a.link[l + 1] \in 1 .. i
       /\ acts[a.link[l + 1]].proc = Chain[a.proc][l + 1]
       /\ DisplayOf(i)[l] = acts[a.link[l + 1]].base

IInv == /\ TypeOK
        /\ pc = "run" => ModuleOK
        /\ pc # "unbalanced"
        /\ acts = <<>> => sp <= Top
        /\ \A i \in 1 .. Len(acts) : FrameOK(i, acts[i]) /\ LinksOK(i, acts[i])

(* Not kept by the compiler: see the README.                                *)

(* "Maximum nesting depth is 8" (language reference, Nested Procedures):    *)
(* what the compiler accepts, a host can run.                               *)
AcceptedRuns == pc # "invalid"

(* "A nested procedure can access the local variables of its enclosing      *)
(* procedure" (tutorial, chapter Nested Scopes): a value parameter of a     *)
(* routine around the running one is read as its activation has it.         *)
ParamsReached ==
  acts # <<>> =>
    \A l \in 1 .. Level(top.proc) :
      ValueParam(l) = acts[top.link[l + 1]].arg

=============================================================================
