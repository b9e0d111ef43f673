---------------------------- MODULE DisplayProofs ----------------------------
(***************************************************************************)
(* Proofs about Display: for every tree of routines, every frame size,     *)
(* every depth of recursion and every buffer, compiled code addresses its  *)
(* variables in the frames lexical scope means, and a call disturbs        *)
(* neither $sp nor the display of its caller.  IInv carries the argument:  *)
(* it speaks of every activation, the suspended ones through what the      *)
(* activation they called recorded of $sp and the display.                 *)
(*                                                                         *)
(* From it follows that frames and display implement LexicalScope: the     *)
(* display holds the environment that the program text means.              *)
(***************************************************************************)
EXTENDS Display, SequenceTheorems, TLAPS

(* The chain of routines around a routine. *)
LEMMA ChainFacts ==
  ASSUME NEW p \in Procs
  PROVE  /\ Chain[p] \in Seq(Procs) /\ Len(Chain[p]) \in Nat
         /\ Level(p) \in Nat /\ Chain[p][Level(p) + 1] = p
         /\ FrameSize[p] \in Nat
  BY DisplayConstants DEF Level

(* The main block is at level 0.                                            *)
LEMMA MainFacts == Level(Main) = 0
<1>1. Chain[Main] \in Seq(Procs) /\ Len(Chain[Main]) \in Nat \ {0}
      /\ Chain[Main][1] = Main
  BY DisplayConstants
<1>2. Chain[Chain[Main][1]] = SubSeq(Chain[Main], 1, 1)
  <2>1. \A i \in 1 .. Len(Chain[Main]) :
          Chain[Chain[Main][i]] = SubSeq(Chain[Main], 1, i)
    BY DisplayConstants
  <2>2. 1 \in 1 .. Len(Chain[Main])
    BY <1>1
  <2>3. QED
    BY <2>1, <2>2
<1>3. Len(SubSeq(Chain[Main], 1, 1)) = 1
  BY <1>1
<1>4. QED
  BY <1>1, <1>2, <1>3 DEF Level

(* A routine in scope sees a part of the caller's chain, then itself. *)
LEMMA InScopeFacts ==
  ASSUME NEW p \in Procs, NEW q \in Procs, InScope(q, p)
  PROVE  /\ q # Main /\ Level(q) \in 1 .. Level(p) + 1
         /\ \A i \in 1 .. Level(q) : Chain[q][i] = Chain[p][i]
<1>1. PICK k \in 1 .. Len(Chain[p]) :
        Chain[q] = Append(SubSeq(Chain[p], 1, k), q)
  BY DEF InScope
<1>2. Chain[p] \in Seq(Procs) /\ Len(Chain[p]) \in Nat
  BY ChainFacts
<1>3. /\ SubSeq(Chain[p], 1, k) \in Seq(Procs)
      /\ Len(SubSeq(Chain[p], 1, k)) = k
      /\ \A i \in 1 .. k : SubSeq(Chain[p], 1, k)[i] = Chain[p][i]
  BY <1>2
<1>4. /\ Len(Chain[q]) = k + 1
      /\ \A i \in 1 .. k : Chain[q][i] = Chain[p][i]
  BY <1>1, <1>3
<1>5. QED
  BY <1>2, <1>4 DEF InScope, Level

(* The invariant holds before the program runs.                             *)
LEMMA InitIInv == Init => IInv
  BY DisplayConstants
     DEF Init, IInv, TypeOK, Levels, ModuleOK, Activation

(* What the record of the top activation is. *)
LEMMA TopFacts ==
  ASSUME IInv, acts # <<>>
  PROVE  /\ acts \in Seq(Activation) /\ Len(acts) \in Nat \ {0}
         /\ top \in Activation /\ top.proc \in Procs
         /\ FrameOK(Len(acts), top) /\ LinksOK(Len(acts), top)
         /\ Level(top.proc) \in Levels
         /\ display[Level(top.proc)] = top.base
         /\ SpOf(Len(acts)) = sp
<1>1. acts \in Seq(Activation) /\ Len(acts) \in Nat \ {0}
  BY DEF IInv, TypeOK
<1>2. top \in Activation /\ top.proc \in Procs
  <2>1. top \in Activation
    BY <1>1 DEF top
  <2>2. QED
    BY <2>1 DEF Activation
<1>3. FrameOK(Len(acts), top) /\ LinksOK(Len(acts), top)
  BY <1>1 DEF IInv, top
<1>4. Level(top.proc) \in Levels /\ top.seen \in [Levels -> Nat]
  BY <1>2, <1>3 DEF FrameOK, Activation
<1>5. display[Level(top.proc)] = top.base
  BY <1>3, <1>4 DEF FrameOK, DisplayOf
<1>6. QED
  BY <1>1, <1>2, <1>3, <1>4, <1>5 DEF SpOf

(* A step that leaves everything alone but pc. *)
LEMMA SameFrames ==
  ASSUME IInv, UNCHANGED <<sp, display, acts>>,
         pc' \in {"run", "done", "overflow", "invalid"},
         pc' = "run" => pc = "run"
  PROVE  IInv'
  BY DEF IInv, TypeOK, FrameOK, LinksOK, SpOf, DisplayOf, ModuleOK

(* A buffer taken or released moves $sp under the frame that is on top. *)
LEMMA BufferStep ==
  ASSUME IInv, acts # <<>>, pc = "run", NEW u \in BOOLEAN,
         sp' \in Nat, sp' <= top.base, ~u => sp' = top.base,
         acts' = [acts EXCEPT ![Len(acts)].used = u],
         UNCHANGED <<display, pc>>
  PROVE  IInv'
<1> DEFINE n == Len(acts)
<1>1. acts \in Seq(Activation) /\ n \in Nat \ {0}
  BY TopFacts
<1>2. acts' \in Seq(Activation) /\ Len(acts') = n
  <2>1. acts[n] \in Activation
    BY <1>1
  <2>2. [acts[n] EXCEPT !.used = u] \in Activation
    BY <2>1 DEF Activation
  <2>3. QED
    BY <1>1, <2>2
<1>3. \A i \in 1 .. n : i # n => acts'[i] = acts[i]
  BY <1>1
<1>4. acts'[n] = [acts[n] EXCEPT !.used = u]
  BY <1>1
<1>5. acts[n] \in Activation
  BY <1>1
<1>6. \A i \in 1 .. n :
        /\ acts'[i].proc = acts[i].proc /\ acts'[i].base = acts[i].base
        /\ acts'[i].saved = acts[i].saved /\ acts'[i].entry = acts[i].entry
        /\ acts'[i].seen = acts[i].seen /\ acts'[i].link = acts[i].link
  BY SMTT(30), <1>1, <1>3, <1>4, <1>5 DEF Activation
<1>7. acts'[n].used = u
  BY <1>4, <1>5 DEF Activation
<1>8. ASSUME NEW i \in 1 .. n
      PROVE  DisplayOf(i)' = DisplayOf(i) /\ (i # n => SpOf(i)' = SpOf(i))
             /\ (i = n => SpOf(i)' = sp')
  BY <1>1, <1>2, <1>6 DEF DisplayOf, SpOf
<1>9. ASSUME NEW i \in 1 .. n
      PROVE  FrameOK(i, acts[i])' /\ LinksOK(i, acts[i])'
  <2>1. FrameOK(i, acts[i]) /\ LinksOK(i, acts[i])
    BY DEF IInv
  <2>2. /\ SpOf(i)' <= acts'[i].base
        /\ ~acts'[i].used => SpOf(i)' = acts'[i].base
    BY <1>3, <1>6, <1>7, <1>8, <2>1 DEF FrameOK, top
  <2>3. FrameOK(i, acts[i])'
    BY <1>6, <1>8, <2>1, <2>2 DEF FrameOK, Level, Levels
  <2>4. \A l \in 0 .. Level(acts[i].proc) :
          acts[i].link[l + 1] \in 1 .. n
    BY <1>1, <2>1 DEF LinksOK
  <2>5. LinksOK(i, acts[i])'
    <3>1. Len(acts'[i].link) = Level(acts'[i].proc) + 1
      BY <1>6, <2>1 DEF LinksOK, Level
    <3>2. ASSUME NEW l \in 0 .. Level(acts[i].proc)
          PROVE  /\ acts'[i].link[l + 1] \in 1 .. i
                 /\ acts'[acts'[i].link[l + 1]].proc = Chain[acts'[i].proc][l + 1]
                 /\ DisplayOf(i)'[l] = acts'[acts'[i].link[l + 1]].base
      BY SMTT(30), <1>6, <1>8, <2>1, <2>4, <3>2 DEF LinksOK
    <3>3. QED
      BY <1>6, <3>1, <3>2 DEF LinksOK, Level
  <2>6. QED
    BY <2>3, <2>5
<1>10. QED
  BY SMTT(30), <1>2, <1>9 DEF IInv, TypeOK, Levels, ModuleOK, Level

(* A call adds an activation whose links are its caller's, as far as its    *)
(* chain goes, and itself.                                                  *)
LEMMA EnterStep ==
  ASSUME IInv, NEW q \in Procs, NEW v \in Args, Enter(q, v)
  PROVE  IInv'
<1> PICK n \in Nat : n = Len(acts)
  BY DEF IInv, TypeOK
<1> DEFINE L == Level(q)
           lk == [i \in 1 .. L + 1 |-> IF i = L + 1 THEN n + 1 ELSE top.link[i]]
           r == [proc |-> q, saved |-> display[L], used |-> FALSE, arg |-> v,
                 base |-> sp', entry |-> sp, seen |-> display, link |-> lk]
<1>1. /\ acts \in Seq(Activation) /\ n \in Nat
      /\ sp \in Nat /\ display \in [Levels -> Nat]
      /\ (n = 0 <=> acts = <<>>)
  BY DEF IInv, TypeOK
<1>2. /\ L \in Levels /\ L \in Nat /\ Chain[q][L + 1] = q
      /\ FrameSize[q] \in Nat /\ Len(Chain[q]) = L + 1
  <2>1. ModuleOK
    BY DEF IInv, Enter
  <2>2. QED
    BY <2>1, ChainFacts DEF ModuleOK, Level
<1>3. /\ sp' = sp - FrameSize[q] /\ sp' \in Nat /\ pc' = "run" /\ pc = "run"
      /\ display' = [display EXCEPT ![L] = sp']
      /\ display' \in [Levels -> Nat] /\ display'[L] = sp'
      /\ acts' = Append(acts, r)
  <2>1. sp' = sp - FrameSize[q] /\ pc' = "run" /\ pc = "run"
    BY DEF Enter
  <2>2. display' = [display EXCEPT ![L] = sp'] /\ acts' = Append(acts, r)
    BY DEF Enter
  <2>3. sp' \in Nat
    <3>1. ~Overflows(q) /\ HeapEnd \in Nat
      BY DisplayConstants DEF Enter
    <3>2. QED
      BY SMTT(30), <1>1, <1>2, <2>1, <3>1 DEF Overflows
  <2>4. QED
    BY <1>1, <1>2, <2>1, <2>2, <2>3
<1>4. /\ n = 0 => q = Main /\ L = 0
      /\ n # 0 => /\ q # Main /\ L \in 1 .. Level(top.proc) + 1
                  /\ \A i \in 1 .. L : Chain[q][i] = Chain[top.proc][i]
  <2>1. CASE n = 0
    <3>1. q = Main
      BY <1>1, <2>1 DEF Enter, Callable
    <3>2. QED
      BY <2>1, <3>1, MainFacts
  <2>2. CASE n # 0
    BY <1>1, <2>2, InScopeFacts, TopFacts DEF Enter, Callable
  <2>3. QED
    BY <2>1, <2>2
<1>5. \A i \in 1 .. L :
        /\ n # 0 /\ lk[i] = top.link[i] /\ lk[i] \in 1 .. n
        /\ acts[lk[i]].proc = Chain[q][i]
        /\ display[i - 1] = acts[lk[i]].base
  <2> SUFFICES ASSUME NEW i \in 1 .. L
               PROVE  /\ n # 0 /\ lk[i] = top.link[i] /\ lk[i] \in 1 .. n
                      /\ acts[lk[i]].proc = Chain[q][i]
                      /\ display[i - 1] = acts[lk[i]].base
    OBVIOUS
  <2>1. n # 0 /\ lk[i] = top.link[i]
    BY <1>2, <1>4
  <2>2. LinksOK(n, top) /\ DisplayOf(n) = display /\ Level(top.proc) \in Nat
    BY <1>1, <2>1, TopFacts, ChainFacts DEF DisplayOf
  <2>3. i - 1 \in 0 .. Level(top.proc) /\ (i - 1) + 1 = i
    BY <1>2, <1>4, <2>1, <2>2
  <2>4. /\ top.link[i] \in 1 .. n
        /\ acts[top.link[i]].proc = Chain[top.proc][i]
        /\ display[i - 1] = acts[top.link[i]].base
    BY <2>2, <2>3 DEF LinksOK
  <2>5. QED
    BY <1>4, <2>1, <2>4
<1>6. lk \in Seq(Nat) /\ Len(lk) = L + 1 /\ lk[L + 1] = n + 1
  <2>1. lk = [i \in 1 .. L + 1 |-> lk[i]]
    OBVIOUS
  <2>2. lk[L + 1] = n + 1
    BY <1>2
  <2> HIDE DEF lk
  <2>3. ASSUME NEW i \in 1 .. L + 1 PROVE lk[i] \in Nat
    <3>1. CASE i = L + 1
      BY <1>1, <2>2, <3>1
    <3>2. CASE i # L + 1
      BY <1>1, <1>2, <1>5, <3>2
    <3>3. QED
      BY <3>1, <3>2
  <2>4. QED
    BY SMTT(30), <1>2, <2>1, <2>2, <2>3
<1> HIDE DEF lk
<1>7. r \in Activation
  BY <1>1, <1>2, <1>3, <1>6 DEF Activation
<1>8. /\ acts' \in Seq(Activation) /\ Len(acts') = n + 1
      /\ acts'[n + 1] = r /\ \A i \in 1 .. n : acts'[i] = acts[i]
  BY <1>1, <1>3, <1>7
<1>9. /\ r.proc = q /\ r.saved = display[L] /\ r.used = FALSE
      /\ r.base = sp' /\ r.entry = sp /\ r.seen = display /\ r.link = lk
  OBVIOUS
<1> HIDE DEF r
<1>10. /\ \A i \in 1 .. n : SpOf(i)' = SpOf(i) /\ DisplayOf(i)' = DisplayOf(i)
       /\ SpOf(n + 1)' = sp' /\ DisplayOf(n + 1)' = display'
  <2>1. ASSUME NEW i \in 1 .. n
        PROVE  SpOf(i)' = SpOf(i) /\ DisplayOf(i)' = DisplayOf(i)
    <3>1. i # Len(acts') /\ i + 1 \in 1 .. n + 1
      BY <1>1, <1>8
    <3>2. SpOf(i)' = acts'[i + 1].entry /\ DisplayOf(i)' = acts'[i + 1].seen
      BY <3>1 DEF SpOf, DisplayOf
    <3>3. CASE i = n
      BY <1>8, <1>9, <3>2, <3>3 DEF SpOf, DisplayOf
    <3>4. CASE i # n
      <4>1. i + 1 \in 1 .. n
        BY <1>1, <3>4
      <4>2. QED
        BY <1>8, <3>2, <3>4, <4>1 DEF SpOf, DisplayOf
    <3>5. QED
      BY <3>3, <3>4
  <2>2. SpOf(n + 1)' = sp' /\ DisplayOf(n + 1)' = display'
    BY <1>8 DEF SpOf, DisplayOf
  <2>3. QED
    BY <2>1, <2>2
<1>11. ASSUME NEW i \in 1 .. n
       PROVE  FrameOK(i, acts[i])' /\ LinksOK(i, acts[i])'
  <2>1. FrameOK(i, acts[i]) /\ LinksOK(i, acts[i])
    BY DEF IInv
  <2>2. FrameOK(i, acts[i])'
    BY <1>8, <1>10, <2>1 DEF FrameOK, Level, Levels
  <2>3. \A l \in 0 .. Level(acts[i].proc) : acts[i].link[l + 1] \in 1 .. n
    BY <1>1, <2>1 DEF LinksOK
  <2>4. LinksOK(i, acts[i])'
    <3>1. /\ acts'[i] = acts[i] /\ DisplayOf(i)' = DisplayOf(i)
          /\ Len(acts'[i].link) = Level(acts'[i].proc) + 1
      BY <1>8, <1>10, <2>1 DEF LinksOK
    <3>2. ASSUME NEW l \in 0 .. Level(acts[i].proc)
          PROVE  /\ acts[i].link[l + 1] \in 1 .. i
                 /\ acts'[acts[i].link[l + 1]].proc = Chain[acts[i].proc][l + 1]
                 /\ DisplayOf(i)[l] = acts'[acts[i].link[l + 1]].base
      BY <1>8, <2>1, <2>3, <3>2 DEF LinksOK
    <3>3. QED
      BY <3>1, <3>2 DEF LinksOK, Level
  <2>5. QED
    BY <2>2, <2>4
<1>12. FrameOK(n + 1, acts[n + 1])'
  <2>1. sp <= Top
    <3>1. CASE n = 0
      BY <1>1, <3>1 DEF IInv
    <3>2. CASE n # 0
      <4>1. FrameOK(n, top) /\ SpOf(n) = sp
        BY <1>1, <3>2, TopFacts
      <4>2. top \in Activation /\ top.proc \in Procs
        BY <1>1, <3>2, TopFacts
      <4>3. top.base \in Nat /\ top.entry \in Nat
        BY <4>2 DEF Activation
      <4>4. FrameSize[top.proc] \in Nat /\ Top \in Int
        <5>1. Top \in Int
          BY DisplayConstants
        <5>2. QED
          BY <4>2, <5>1, ChainFacts
      <4>5. /\ sp <= top.base /\ top.base + FrameSize[top.proc] = top.entry
            /\ top.entry <= Top
        BY <4>1 DEF FrameOK
      <4>6. QED
        BY <1>1, <4>3, <4>4, <4>5
    <3>3. QED
      BY <3>1, <3>2
  <2>2. q = Main <=> n + 1 = 1
    BY <1>1, <1>4
  <2>3. QED
    BY <1>1, <1>2, <1>3, <1>8, <1>9, <1>10, <2>1, <2>2
       DEF FrameOK, Level, Levels
<1>13. LinksOK(n + 1, acts[n + 1])'
  <2>1. ASSUME NEW l \in 0 .. L
        PROVE  /\ lk[l + 1] \in 1 .. n + 1
               /\ acts'[lk[l + 1]].proc = Chain[q][l + 1]
               /\ display'[l] = acts'[lk[l + 1]].base
    <3>1. CASE l = L
      BY SMTT(30), <1>1, <1>2, <1>3, <1>6, <1>8, <1>9, <3>1
    <3>2. CASE l # L
      <4>1. l + 1 \in 1 .. L /\ (l + 1) - 1 = l
        BY <1>2, <3>2
      <4>2. l \in Levels
        <5>1. MaxDisplayDepth \in Int
          BY DisplayConstants
        <5>2. l \in Int /\ 0 <= l /\ l <= L
          BY <1>2
        <5>3. QED
          BY <1>2, <5>1, <5>2 DEF Levels
      <4>3. display'[l] = display[l]
        BY <1>1, <1>3, <3>2, <4>2
      <4>4. QED
        BY <1>1, <1>5, <1>8, <4>1, <4>3
    <3>3. QED
      BY <3>1, <3>2
  <2>2. QED
    BY <1>6, <1>8, <1>9, <1>10, <2>1 DEF LinksOK, Level
<1>14. ASSUME NEW i \in 1 .. Len(acts')
       PROVE  FrameOK(i, acts[i])' /\ LinksOK(i, acts[i])'
  BY <1>1, <1>8, <1>11, <1>12, <1>13
<1>15. QED
  BY <1>3, <1>8, <1>14 DEF IInv, TypeOK, Levels, ModuleOK, Level

(* The epilogue, reached with the frame base in $sp, gives back what the    *)
(* caller recorded.                                                         *)
LEMMA EpilogueEffect ==
  ASSUME IInv, acts # <<>>, NEW s, s = top.base, Epilogue(s)
  PROVE  /\ sp' = top.entry
         /\ top.proc # Main => display' = top.seen
         /\ top.proc = Main => display' = display
         /\ acts' = SubSeq(acts, 1, Len(acts) - 1)
         /\ pc' = IF top.proc = Main THEN "done" ELSE "run"
<1> DEFINE p == top.proc
           L == Level(p)
<1>1. /\ p \in Procs /\ L \in Levels /\ display[L] = top.base
      /\ top \in Activation /\ FrameOK(Len(acts), top) /\ s = display[L]
  BY TopFacts
<1>2. /\ sp' = IF FrameSize[p] > 0 THEN display[L] + FrameSize[p] ELSE s
      /\ display' = IF p = Main THEN display
                    ELSE [display EXCEPT ![L] = top.saved]
      /\ acts' = SubSeq(acts, 1, Len(acts) - 1)
      /\ pc' = IF p = Main THEN "done" ELSE "run"
  BY <1>1 DEF Epilogue
<1>3. sp' = top.entry
  <2>1. FrameSize[p] \in Nat /\ top.base \in Nat
    BY <1>1, ChainFacts DEF Activation
  <2>2. top.base + FrameSize[p] = top.entry
    BY <1>1 DEF FrameOK
  <2>3. QED
    BY <1>1, <1>2, <2>1, <2>2
<1>4. p # Main => display' = top.seen
  <2>1. /\ top.saved = top.seen[L] /\ top.seen \in [Levels -> Nat]
        /\ display = [top.seen EXCEPT ![L] = top.base]
    BY <1>1 DEF FrameOK, DisplayOf, Activation
  <2>2. [display EXCEPT ![L] = top.saved] = top.seen
    BY <1>1, <2>1
  <2>3. QED
    BY <1>2, <2>2
<1>5. QED
  BY <1>2, <1>3, <1>4

(* An epilogue that finds $sp at the frame base keeps the invariant.        *)
LEMMA EpilogueStep ==
  ASSUME IInv, acts # <<>>, pc = "run", NEW s, s = top.base, Epilogue(s)
  PROVE  IInv'
<1> PICK n \in Nat : n = Len(acts)
  BY DEF IInv, TypeOK
<1>1. /\ acts \in Seq(Activation) /\ n # 0 /\ top \in Activation
      /\ sp \in Nat /\ display \in [Levels -> Nat] /\ FrameOK(n, top)
      /\ top = acts[n]
  BY TopFacts DEF IInv, TypeOK, top
<1>2. /\ sp' = top.entry
      /\ top.proc # Main => display' = top.seen
      /\ top.proc = Main => display' = display
      /\ acts' = SubSeq(acts, 1, n - 1)
      /\ pc' = IF top.proc = Main THEN "done" ELSE "run"
  BY EpilogueEffect
<1>3. /\ acts' \in Seq(Activation) /\ Len(acts') = n - 1
      /\ \A i \in 1 .. n - 1 : acts'[i] = acts[i]
  BY <1>1, <1>2
<1>4. /\ top.entry \in Nat /\ top.seen \in [Levels -> Nat]
      /\ top.entry <= Top /\ (top.proc = Main <=> n = 1)
  <2>1. top.entry \in Nat /\ top.seen \in [Levels -> Nat]
    BY <1>1 DEF Activation
  <2>2. QED
    BY <1>1, <2>1 DEF FrameOK
<1>5. ASSUME NEW i \in 1 .. n - 1
      PROVE  SpOf(i)' = SpOf(i) /\ DisplayOf(i)' = DisplayOf(i)
  <2>1. top.proc # Main /\ i # n
    BY <1>1, <1>4
  <2>2. CASE i = n - 1
    BY <1>1, <1>2, <1>3, <2>1, <2>2 DEF SpOf, DisplayOf
  <2>3. CASE i # n - 1
    <3>1. i + 1 \in 1 .. n - 1
      BY <1>1, <2>3
    <3>2. QED
      BY <1>3, <2>1, <2>3, <3>1 DEF SpOf, DisplayOf
  <2>4. QED
    BY <2>2, <2>3
<1>6. ASSUME NEW i \in 1 .. n - 1
      PROVE  FrameOK(i, acts[i])' /\ LinksOK(i, acts[i])'
  <2>1. FrameOK(i, acts[i]) /\ LinksOK(i, acts[i]) /\ acts'[i] = acts[i]
    BY <1>1, <1>3 DEF IInv
  <2>2. FrameOK(i, acts[i])'
    BY <1>5, <2>1 DEF FrameOK, Level, Levels
  <2>3. ASSUME NEW l \in 0 .. Level(acts[i].proc)
        PROVE  /\ acts[i].link[l + 1] \in 1 .. i
               /\ acts'[acts[i].link[l + 1]].proc = Chain[acts[i].proc][l + 1]
               /\ DisplayOf(i)'[l] = acts'[acts[i].link[l + 1]].base
    <3>1. acts[i].link[l + 1] \in 1 .. i
      BY <2>1 DEF LinksOK
    <3>2. acts'[acts[i].link[l + 1]] = acts[acts[i].link[l + 1]]
      BY SMTT(30), <1>3, <3>1
    <3>3. QED
      BY <1>5, <2>1, <3>1, <3>2 DEF LinksOK
  <2>4. Len(acts[i].link) = Level(acts[i].proc) + 1
    BY <2>1 DEF LinksOK
  <2>5. LinksOK(i, acts[i])'
    BY <2>1, <2>3, <2>4 DEF LinksOK, Level
  <2>6. QED
    BY <2>2, <2>5
<1>7. ASSUME NEW i \in 1 .. Len(acts')
      PROVE  FrameOK(i, acts[i])' /\ LinksOK(i, acts[i])'
  BY <1>3, <1>6
<1>8. TypeOK'
  BY <1>1, <1>2, <1>3, <1>4 DEF TypeOK, Levels
<1>9. (pc = "run" => ModuleOK)' /\ pc' # "unbalanced"
      /\ (acts' = <<>> => sp' <= Top)
  BY <1>2, <1>4 DEF IInv, ModuleOK, Levels, Level
<1>10. QED
  BY <1>7, <1>8, <1>9 DEF IInv

(* One step for each action. *)
LEMMA NextIInv == IInv /\ [Next]_vars => IInv'
<1> SUFFICES ASSUME IInv, [Next]_vars PROVE IInv'
  OBVIOUS
<1>1. ASSUME NEW q \in Procs, NEW v \in Args, Enter(q, v) PROVE IInv'
  BY <1>1, EnterStep
<1>2. ASSUME NEW q \in Procs, Overflow(q) PROVE IInv'
  BY <1>2, SameFrames DEF Overflow
<1>3. ASSUME NEW n \in BufferSizes, TakeBuffer(n) PROVE IInv'
  <2>1. acts # <<>> /\ pc = "run" /\ sp' = sp - n /\ sp - n >= 0
        /\ acts' = [acts EXCEPT ![Len(acts)].used = TRUE]
        /\ UNCHANGED <<display, pc>>
    BY <1>3 DEF TakeBuffer
  <2>2. sp \in Nat /\ n \in Nat /\ top.base \in Nat /\ sp <= top.base
    <3>1. top \in Activation /\ FrameOK(Len(acts), top) /\ SpOf(Len(acts)) = sp
      BY <2>1, TopFacts
    <3>2. top.base \in Nat /\ sp <= top.base
      BY <3>1 DEF Activation, FrameOK
    <3>3. n \in Nat
      BY DisplayConstants
    <3>4. QED
      BY <3>2, <3>3 DEF IInv, TypeOK
  <2>3. sp' \in Nat /\ sp' <= top.base
    BY <2>1, <2>2
  <2>4. QED
    BY <2>1, <2>3, BufferStep
<1>4. CASE Release
  <2>1. acts # <<>> /\ pc = "run" /\ sp' = display[Level(top.proc)]
        /\ acts' = [acts EXCEPT ![Len(acts)].used = FALSE]
        /\ UNCHANGED <<display, pc>>
    BY <1>4 DEF Release
  <2>2. sp' = top.base /\ top \in Activation
    BY <2>1, TopFacts
  <2>3. sp' \in Nat /\ sp' <= top.base
    BY <2>2 DEF Activation
  <2>4. QED
    BY <2>1, <2>2, <2>3, BufferStep
<1>5. CASE Return
  <2>1. acts # <<>> /\ pc = "run" /\ ~top.used /\ Epilogue(sp)
    BY <1>5 DEF Return
  <2>2. sp = top.base
    BY <2>1, TopFacts DEF FrameOK
  <2>3. QED
    BY <2>1, <2>2, EpilogueStep
<1>6. CASE Exit
  <2>1. acts # <<>> /\ pc = "run" /\ Epilogue(display[Level(top.proc)])
    BY <1>6 DEF Exit
  <2>2. display[Level(top.proc)] = top.base
    BY <2>1, TopFacts
  <2>3. QED
    BY <2>1, <2>2, EpilogueStep
<1>7. CASE Stopped \/ UNCHANGED vars
  <2>1. UNCHANGED <<sp, display, acts>> /\ pc' = pc
    BY <1>7 DEF Stopped, vars
  <2>2. pc' \in {"run", "done", "overflow", "invalid"}
    BY <2>1 DEF IInv, TypeOK
  <2>3. QED
    BY <2>1, <2>2, SameFrames
<1>8. QED
  BY <1>1, <1>2, <1>3, <1>4, <1>5, <1>6, <1>7 DEF Next

(* What every activation's $sp and display were when it last ran, always.   *)
THEOREM DisplayInvariant == Spec => []IInv
<1>1. QED
  BY InitIInv, NextIInv, PTL DEF Spec

(* Every word of the model's state has its type. *)
THEOREM DisplayTypeCorrect == Spec => []TypeOK
<1>1. IInv => TypeOK
  BY DEF IInv
<1>2. QED
  BY <1>1, DisplayInvariant, PTL

(* Non-local variables are reached in the frames lexical scope means.       *)
THEOREM ScopeReached == Spec => []FramesReached
<1>1. IInv => FramesReached
  <2> SUFFICES ASSUME IInv, acts # <<>>, NEW l \in 0 .. Level(top.proc)
               PROVE  /\ acts[top.link[l + 1]].proc = Chain[top.proc][l + 1]
                      /\ FramePtr(l) = acts[top.link[l + 1]].base
    BY DEF FramesReached
  <2>1. /\ FrameOK(Len(acts), top) /\ LinksOK(Len(acts), top)
        /\ SpOf(Len(acts)) = sp /\ display[Level(top.proc)] = top.base
        /\ DisplayOf(Len(acts)) = display
    BY TopFacts DEF DisplayOf
  <2>2. /\ acts[top.link[l + 1]].proc = Chain[top.proc][l + 1]
        /\ display[l] = acts[top.link[l + 1]].base
    BY <2>1 DEF LinksOK
  <2>3. CASE l = Level(top.proc) /\ ~top.used
    <3>1. sp = top.base
      BY <2>1, <2>3 DEF FrameOK
    <3>2. QED
      BY <2>1, <2>2, <2>3, <3>1 DEF FramePtr
  <2>4. CASE ~(l = Level(top.proc) /\ ~top.used)
    BY <2>2, <2>4 DEF FramePtr
  <2>5. QED
    BY <2>3, <2>4
<1>2. QED
  BY <1>1, DisplayInvariant, PTL

(* The generated balance check cannot fire. *)
THEOREM BalanceKept == Spec => []Balanced
<1>1. IInv => Balanced
  BY DEF IInv, Balanced
<1>2. QED
  BY <1>1, DisplayInvariant, PTL

(* Frames are stacked without overlap. *)
THEOREM FramesStacked == Spec => []FramesApart
<1>1. IInv => FramesApart
  BY DEF IInv, FramesApart, FrameOK, SpOf
<1>2. QED
  BY <1>1, DisplayInvariant, PTL

(* Both: what a routine and its statements take of the stack stays apart    *)
(* and is given back. *)
THEOREM StackKept == Spec => []FramesKept
  BY FramesStacked, BalanceKept, PTL DEF FramesKept

(* A call gives its caller $sp and the display back. *)
THEOREM CallsRestore == Spec => CallerRestored
<1>1. ASSUME IInv, [Next]_vars, Len(acts') < Len(acts), Len(acts') > 0
      PROVE  sp' = top.entry /\ display' = top.seen
  <2>1. acts \in Seq(Activation) /\ Len(acts) \in Nat
    BY <1>1 DEF IInv, TypeOK
  <2>2. acts # <<>>
    BY <1>1, <2>1
  <2>3. \A q \in Procs, v \in Args : ~Enter(q, v)
    <3> SUFFICES ASSUME NEW q \in Procs, NEW v \in Args, Enter(q, v)
                 PROVE  FALSE
      OBVIOUS
    <3>1. PICK r : acts' = Append(acts, r)
      BY DEF Enter
    <3>2. Len(acts') = Len(acts) + 1
      BY <2>1, <3>1
    <3>3. QED
      BY <1>1, <2>1, <3>2
  <2>4. /\ \A n \in BufferSizes : ~TakeBuffer(n)
        /\ ~Release /\ \A q \in Procs : ~Overflow(q)
        /\ ~Stopped /\ ~UNCHANGED vars
    BY <1>1, <2>1 DEF TakeBuffer, Release, Overflow, Stopped, vars
  <2>5. PICK s : s = top.base /\ Epilogue(s)
    <3>1. CASE Return
      BY <1>1, <2>2, <3>1, TopFacts DEF Return, FrameOK
    <3>2. CASE Exit
      BY <1>1, <2>2, <3>2, TopFacts DEF Exit
    <3>3. QED
      BY <1>1, <2>3, <2>4, <3>1, <3>2 DEF Next
  <2>6. /\ sp' = top.entry
        /\ top.proc # Main => display' = top.seen
        /\ acts' = SubSeq(acts, 1, Len(acts) - 1)
    BY <1>1, <2>2, <2>5, EpilogueEffect
  <2>7. top.proc # Main
    <3>1. Len(acts') = Len(acts) - 1
      <4>1. PICK n \in Nat : n = Len(acts)
        BY <2>1
      <4>2. n # 0 /\ acts' = SubSeq(acts, 1, n - 1)
        BY <1>1, <2>1, <2>6, <4>1
      <4>3. Len(acts') = n - 1
        BY <2>1, <4>1, <4>2
      <4>4. QED
        BY <4>1, <4>3
    <3>2. Len(acts) # 1
      BY <1>1, <2>1, <3>1
    <3>3. QED
      BY <1>1, <2>2, <3>2, TopFacts DEF FrameOK
  <2>8. QED
    BY <2>6, <2>7
<1>2. IInv /\ [Next]_vars
      => [Len(acts') < Len(acts) /\ Len(acts') > 0
          => sp' = top.entry /\ display' = top.seen]_vars
  BY <1>1
<1>3. QED
  BY <1>2, DisplayInvariant, PTL DEF Spec, CallerRestored

-----------------------------------------------------------------------------
(* The refinement of LexicalScope.                                          *)

(* An environment read off a display is a sequence of frames.               *)
LEMMA EnvIsSeq ==
  ASSUME NEW a \in Activation, Level(a.proc) \in Levels, NEW d \in [Levels -> Nat]
  PROVE  /\ EnvOf(a, d) \in Seq(Nat) /\ Len(EnvOf(a, d)) = Level(a.proc) + 1
         /\ \A i \in 1 .. Level(a.proc) + 1 : EnvOf(a, d)[i] = d[i - 1]
<1>1. Level(a.proc) \in Nat /\ \A i \in 1 .. Level(a.proc) + 1 : i - 1 \in Levels
  BY DisplayConstants DEF Levels
<1>2. \A i \in 1 .. Level(a.proc) + 1 : d[i - 1] \in Nat
  BY <1>1
<1>3. QED
  BY <1>1, <1>2 DEF EnvOf

(* What the scope of a state is, part by part. *)
LEMMA ScopeParts ==
  ASSUME IInv
  PROVE  /\ acts \in Seq(Activation) /\ Len(acts) \in Nat /\ (acts = <<>> <=> Len(acts) = 0)
         /\ Env \in Seq(Nat) /\ Outer \in Seq(Seq(Nat)) /\ Len(Outer) = Len(acts)
         /\ Outer = [i \in 1 .. Len(acts) |-> Outer[i]]
         /\ \A i \in 1 .. Len(acts) : Outer[i] = IF i = 1 THEN <<>> ELSE EnvOf(acts[i - 1], acts[i].seen)
         /\ acts = <<>> => Env = <<>>
         /\ acts # <<>> => Env = EnvOf(top, display)
<1>1. acts \in Seq(Activation) /\ Len(acts) \in Nat /\ (acts = <<>> <=> Len(acts) = 0)
  BY DEF IInv, TypeOK
<1>2. Env \in Seq(Nat)
  <2>1. CASE acts = <<>>
    BY <2>1 DEF Env
  <2>2. CASE acts # <<>>
    BY <2>2, TopFacts, EnvIsSeq DEF Env, IInv, TypeOK
  <2>3. QED
    BY <2>1, <2>2
<1>3. ASSUME NEW i \in 1 .. Len(acts), i # 1
      PROVE  EnvOf(acts[i - 1], acts[i].seen) \in Seq(Nat)
  <2>1. i - 1 \in 1 .. Len(acts) /\ acts[i - 1] \in Activation /\ acts[i] \in Activation
    BY <1>1, <1>3
  <2>2. Level(acts[i - 1].proc) \in Levels
    BY <2>1 DEF IInv, FrameOK
  <2>3. acts[i].seen \in [Levels -> Nat]
    BY <2>1 DEF Activation
  <2>4. QED
    BY <2>1, <2>2, <2>3, EnvIsSeq
<1>4. \A i \in 1 .. Len(acts) :
        (IF i = 1 THEN <<>> ELSE EnvOf(acts[i - 1], acts[i].seen)) \in Seq(Nat)
  BY <1>3
<1>5. /\ Outer \in Seq(Seq(Nat)) /\ Len(Outer) = Len(acts)
      /\ \A i \in 1 .. Len(acts) : Outer[i] = IF i = 1 THEN <<>> ELSE EnvOf(acts[i - 1], acts[i].seen)
      /\ Outer = [i \in 1 .. Len(acts) |-> Outer[i]]
  BY <1>1, <1>4 DEF Outer
<1>6. QED
  BY <1>1, <1>2, <1>5 DEF Env

(* The prologue adds one place to the part of the environment that the      *)
(* routine is declared in.                                                  *)
LEMMA EnterCalls ==
  ASSUME IInv, IInv', NEW q \in Procs, NEW v \in Args, Enter(q, v)
  PROVE  Scope!Call
<1> PICK n \in Nat : n = Len(acts)
  BY ScopeParts
<1> DEFINE L == Level(q)
<1>1. PICK r : /\ acts' = Append(acts, r) /\ r.proc = q /\ r.seen = display /\ r.base = sp'
      /\ display' = [display EXCEPT ![L] = sp']
  BY DEF Enter
<1>2. /\ acts \in Seq(Activation) /\ acts' \in Seq(Activation)
      /\ sp' \in Nat /\ display \in [Levels -> Nat] /\ display' \in [Levels -> Nat]
  BY DEF IInv, TypeOK
<1>3. /\ Len(acts') = n + 1 /\ acts'[n + 1] = r /\ \A i \in 1 .. n : acts'[i] = acts[i]
      /\ acts' # <<>> /\ top' = r
  BY <1>1, <1>2 DEF top
<1>4. r \in Activation
  <2>1. n + 1 \in 1 .. Len(acts')
    BY <1>3
  <2>2. QED
    BY <1>2, <1>3, <2>1
<1>5. L \in Levels /\ L \in Nat /\ sp' <= Top
  <2>1. FrameOK(n + 1, r)'
    BY <1>3 DEF IInv
  <2>2. L \in Levels /\ r.base + FrameSize[q] = r.entry /\ r.entry <= Top
    BY <1>1, <2>1 DEF FrameOK, Level, Levels
  <2>3. FrameSize[q] \in Nat /\ r.entry \in Nat /\ Top \in Nat /\ L \in Nat
    BY <1>4, ChainFacts, DisplayConstants DEF Activation
  <2>4. QED
    BY <1>1, <1>2, <2>2, <2>3
<1>6. /\ Env' \in Seq(Nat) /\ Len(Env') = L + 1
      /\ \A i \in 1 .. L + 1 : Env'[i] = display'[i - 1]
  <2>1. Env' = EnvOf(r, display')
    BY <1>3 DEF Env, EnvOf, Level
  <2>2. PICK d \in [Levels -> Nat] : d = display'
    BY <1>2
  <2>3. Level(r.proc) = L
    BY <1>1
  <2>4. /\ EnvOf(r, d) \in Seq(Nat) /\ Len(EnvOf(r, d)) = L + 1
        /\ \A i \in 1 .. L + 1 : EnvOf(r, d)[i] = d[i - 1]
    BY <1>4, <1>5, <2>3, EnvIsSeq
  <2>5. QED
    BY <2>1, <2>2, <2>4
<1>7. /\ L <= Len(Env) /\ Env \in Seq(Nat) /\ Len(Env) \in Nat
      /\ \A i \in 1 .. L : Env[i] = display[i - 1]
  <2>1. CASE acts = <<>>
    <3>1. q = Main /\ L = 0
      BY <2>1, MainFacts DEF Enter, Callable
    <3>2. QED
      BY <2>1, <3>1, ScopeParts
  <2>2. CASE acts # <<>>
    <3>1. InScope(q, top.proc)
      BY <2>2 DEF Enter, Callable
    <3>2. top \in Activation /\ top.proc \in Procs /\ Level(top.proc) \in Levels
      BY <2>2, TopFacts
    <3>3. L \in 1 .. Level(top.proc) + 1 /\ Level(top.proc) \in Nat
      BY <3>1, <3>2, InScopeFacts, ChainFacts
    <3>4. /\ Len(Env) = Level(top.proc) + 1 /\ Env \in Seq(Nat)
          /\ \A i \in 1 .. Level(top.proc) + 1 : Env[i] = display[i - 1]
      BY SMTT(30), <1>2, <2>2, <3>2, EnvIsSeq, ScopeParts
    <3>5. QED
      BY <3>3, <3>4
  <2>3. QED
    BY <2>1, <2>2
<1>8. Env' = Append(SubSeq(Env, 1, L), sp')
  <2> DEFINE kept == SubSeq(Env, 1, L)
  <2>1. kept \in Seq(Nat) /\ Len(kept) = L /\ \A i \in 1 .. L : kept[i] = Env[i]
    BY <1>5, <1>7
  <2>2. /\ Append(kept, sp') \in Seq(Nat) /\ Len(Append(kept, sp')) = L + 1
        /\ Append(kept, sp')[L + 1] = sp' /\ \A i \in 1 .. L : Append(kept, sp')[i] = kept[i]
    <3> HIDE DEF kept
    <3>1. QED
      BY <1>2, <2>1
  <2>3. ASSUME NEW i \in 1 .. L + 1 PROVE Env'[i] = Append(kept, sp')[i]
    <3>1. CASE i = L + 1
      BY <1>1, <1>2, <1>5, <1>6, <2>2, <3>1
    <3>2. CASE i # L + 1
      <4>1. i \in 1 .. L /\ i - 1 \in Levels /\ i - 1 # L
        <5> L \in 0 .. MaxDisplayDepth - 1 /\ MaxDisplayDepth \in Nat
          BY <1>5, DisplayConstants DEF Levels
        <5> HIDE DEF L
        <5>1. QED
          BY <3>2 DEF Levels
      <4>2. display'[i - 1] = display[i - 1]
        BY <1>1, <1>2, <4>1
      <4>3. QED
        BY <1>6, <1>7, <2>1, <2>2, <4>1, <4>2
    <3>3. QED
      BY <3>1, <3>2
  <2>4. QED
    <3> HIDE DEF kept
    <3>1. Len(Env') = Len(Append(kept, sp')) /\ \A i \in 1 .. Len(Env') : Env'[i] = Append(kept, sp')[i]
      BY <1>6, <2>2, <2>3
    <3>2. Env' = Append(kept, sp')
      BY <1>6, <2>2, <3>1, SeqEqual
    <3>3. QED
      BY <3>2 DEF kept
<1>9. Outer' = Append(Outer, Env)
  <2>1. /\ Outer \in Seq(Seq(Nat)) /\ Len(Outer) = n /\ Env \in Seq(Nat)
        /\ \A i \in 1 .. n : Outer[i] = IF i = 1 THEN <<>> ELSE EnvOf(acts[i - 1], acts[i].seen)
    BY ScopeParts
  <2>2. /\ Append(Outer, Env) \in Seq(Seq(Nat)) /\ Len(Append(Outer, Env)) = n + 1
        /\ Append(Outer, Env)[n + 1] = Env /\ \A i \in 1 .. n : Append(Outer, Env)[i] = Outer[i]
    BY <2>1
  <2>3. Outer' = [i \in 1 .. n + 1 |-> IF i = 1 THEN <<>> ELSE EnvOf(acts'[i - 1], acts'[i].seen)]
    BY <1>3 DEF Outer, EnvOf, Level
  <2>4. ASSUME NEW i \in 1 .. n + 1 PROVE Outer'[i] = Append(Outer, Env)[i]
    <3>1. CASE i = n + 1 /\ n = 0
      BY <2>2, <2>3, <3>1, ScopeParts
    <3>2. CASE i = n + 1 /\ n # 0
      <4>1. Outer'[i] = EnvOf(acts[n], display)
        BY <1>1, <1>3, <2>3, <3>2
      <4>2. Env = EnvOf(acts[n], display)
        BY <3>2, ScopeParts DEF top
      <4>3. QED
        BY <2>2, <3>2, <4>1, <4>2
    <3>3. CASE i # n + 1
      <4>1. i \in 1 .. n /\ (i # 1 => i - 1 \in 1 .. n)
        BY <3>3
      <4>2. QED
        BY <1>3, <2>1, <2>2, <2>3, <4>1
    <3>4. QED
      BY <3>1, <3>2, <3>3
  <2>5. QED
    <3>1. PICK o \in Seq(Seq(Nat)) : o = Append(Outer, Env)
      BY <2>2
    <3>2. o \in [1 .. n + 1 -> Seq(Nat)]
      BY <2>2, <3>1, LenProperties
    <3>3. o = [i \in 1 .. n + 1 |-> o[i]]
      BY <3>2
    <3>4. QED
      BY <2>3, <2>4, <3>1, <3>3
<1>10. L \in 0 .. Len(Env) /\ sp' \in 0 .. Top
  BY <1>2, <1>5, <1>7, DisplayConstants
<1>11. QED
  BY <1>8, <1>9, <1>10 DEF Scope!Call

(* The epilogue goes back to the environment of the caller. *)
LEMMA EpilogueReturns ==
  ASSUME IInv, IInv', acts # <<>>, NEW s, s = top.base, Epilogue(s)
  PROVE  Scope!Return
<1> PICK n \in Nat : n = Len(acts)
  BY ScopeParts
<1>1. /\ acts \in Seq(Activation) /\ n # 0 /\ top = acts[n] /\ FrameOK(n, top)
      /\ Outer \in Seq(Seq(Nat)) /\ Len(Outer) = n
      /\ \A i \in 1 .. n : Outer[i] = IF i = 1 THEN <<>> ELSE EnvOf(acts[i - 1], acts[i].seen)
  BY ScopeParts, TopFacts DEF top
<1>2. /\ top.proc # Main => display' = top.seen
      /\ acts' = SubSeq(acts, 1, n - 1)
  BY EpilogueEffect
<1>3. Len(acts') = n - 1 /\ \A i \in 1 .. n - 1 : acts'[i] = acts[i]
  <2>1. n - 1 \in Nat
    BY <1>1
  <2>2. QED
    BY <1>1, <1>2, <2>1
<1>4. Env' = Outer[n]
  <2>1. CASE n = 1
    BY <1>1, <1>3, <2>1, ScopeParts DEF Env
  <2>2. CASE n # 1
    <3>1. top.proc # Main
      BY <1>1, <2>2 DEF FrameOK
    <3>2. acts' # <<>> /\ top' = acts[n - 1]
      BY <1>1, <1>3, <2>2 DEF top
    <3>3. Env' = EnvOf(acts[n - 1], top.seen)
      BY <1>2, <3>1, <3>2 DEF Env, EnvOf, Level
    <3>4. QED
      BY <1>1, <2>2, <3>3
  <2>3. QED
    BY <2>1, <2>2
<1>5. Outer' = SubSeq(Outer, 1, n - 1)
  <2>1. Outer' = [i \in 1 .. n - 1 |-> IF i = 1 THEN <<>> ELSE EnvOf(acts'[i - 1], acts'[i].seen)]
    BY <1>3 DEF Outer, EnvOf, Level
  <2>2. \A i \in 1 .. n - 1 : Outer'[i] = Outer[i]
    <3> SUFFICES ASSUME NEW i \in 1 .. n - 1 PROVE Outer'[i] = Outer[i]
      OBVIOUS
    <3>1. i \in 1 .. n /\ (i # 1 => i - 1 \in 1 .. n - 1)
      BY <1>1
    <3>2. QED
      BY <1>1, <1>3, <2>1, <3>1
  <2>3. SubSeq(Outer, 1, n - 1) = [i \in 1 .. n - 1 |-> Outer[i]]
    BY <1>1
  <2>4. QED
    BY <2>1, <2>2, <2>3
<1>6. QED
  BY <1>1, <1>4, <1>5 DEF Scope!Return

(* What a statement takes of the stack is not part of any environment.      *)
LEMMA SameScope ==
  ASSUME IInv, acts # <<>>, NEW u, acts' = [acts EXCEPT ![Len(acts)].used = u], UNCHANGED display
  PROVE  UNCHANGED Scope!svars
<1> PICK n \in Nat : n = Len(acts)
  BY ScopeParts
<1>1. acts \in Seq(Activation) /\ n # 0 /\ \A i \in 1 .. n : acts[i] \in Activation
  BY ScopeParts
<1>2. /\ Len(acts') = n /\ acts' # <<>>
      /\ \A i \in 1 .. n : acts'[i].proc = acts[i].proc /\ acts'[i].seen = acts[i].seen
  <2>1. DOMAIN acts' = 1 .. n /\ \A i \in 1 .. n : i # n => acts'[i] = acts[i]
    BY <1>1
  <2>2. acts'[n] = [acts[n] EXCEPT !.used = u]
    BY <1>1
  <2>3. acts'[n].proc = acts[n].proc /\ acts'[n].seen = acts[n].seen
    BY <1>1, <2>2 DEF Activation
  <2>4. Len(acts') = n
    BY <1>1
  <2>5. QED
    BY <1>1, <2>1, <2>3, <2>4
<1>3. Env' = Env
  <2>1. top'.proc = top.proc
    BY <1>1, <1>2 DEF top
  <2>2. QED
    BY <1>2, <2>1 DEF Env, EnvOf, Level
<1>4. Outer' = Outer
  <2>1. \A i \in 1 .. n : i # 1 => EnvOf(acts'[i - 1], acts'[i].seen) = EnvOf(acts[i - 1], acts[i].seen)
    <3> SUFFICES ASSUME NEW i \in 1 .. n, i # 1
                 PROVE  EnvOf(acts'[i - 1], acts'[i].seen) = EnvOf(acts[i - 1], acts[i].seen)
      OBVIOUS
    <3>1. i - 1 \in 1 .. n
      OBVIOUS
    <3>2. QED
      BY <1>2, <3>1 DEF EnvOf, Level
  <2>2. Outer' = [i \in 1 .. n |-> IF i = 1 THEN <<>> ELSE EnvOf(acts'[i - 1], acts'[i].seen)]
    BY <1>2 DEF Outer, EnvOf, Level
  <2>3. QED
    BY <2>1, <2>2 DEF Outer
<1>5. QED
  BY <1>3, <1>4 DEF Scope!svars

(* Every step is a call, a return, or none that scope knows of.             *)
LEMMA StepKeepsScope == IInv /\ IInv' /\ [Next]_vars => [Scope!SNext]_(Scope!svars)
<1> SUFFICES ASSUME IInv, IInv', [Next]_vars
             PROVE  Scope!Call \/ Scope!Return \/ UNCHANGED Scope!svars
  BY DEF Scope!SNext
<1>1. ASSUME NEW q \in Procs, NEW v \in Args, Enter(q, v) PROVE Scope!Call
  BY <1>1, EnterCalls
<1>2. CASE Return
  BY <1>2, TopFacts, EpilogueReturns DEF Return, FrameOK
<1>3. CASE Exit
  BY <1>3, TopFacts, EpilogueReturns DEF Exit
<1>4. ASSUME NEW n \in BufferSizes, TakeBuffer(n) PROVE UNCHANGED Scope!svars
  BY <1>4, SameScope DEF TakeBuffer
<1>5. CASE Release
  BY <1>5, SameScope DEF Release
<1>6. CASE UNCHANGED <<acts, display>>
  BY <1>6 DEF Scope!svars, Env, Outer, EnvOf, Level, top
<1>7. QED
  BY <1>1, <1>2, <1>3, <1>4, <1>5, <1>6 DEF Next, Overflow, Stopped, vars

(* "Lexical scope" is what the display gives: Display implements            *)
(* LexicalScope.                                                            *)
THEOREM DisplayKeepsScope == Spec => KeepsScope
<1>1. Init => Scope!SInit
  BY DEF Init, Scope!SInit, Env, Outer
<1>2. IInv /\ IInv' /\ [Next]_vars => [Scope!SNext]_(Scope!svars)
  BY StepKeepsScope
<1>3. QED
  BY <1>1, <1>2, DisplayInvariant, PTL DEF Spec, KeepsScope, Scope!SSpec
=============================================================================
