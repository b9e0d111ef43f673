------------------------------ MODULE HostProofs ------------------------------
(***************************************************************************)
(* Proofs about the host's side: Embedding, where an instance runs, and    *)
(* CompileHost, where the snapshot compiles.                               *)
(*                                                                         *)
(* Of Embedding: whatever the routines, the limits, the calls of the host  *)
(* and the ways they end, an instance keeps its accounts - fuel, the       *)
(* stack, the program's variables, strings, outcomes - from one call to    *)
(* the next.  IInv carries the argument: of every activation it knows      *)
(* where $sp was when it last ran, from what the one it called recorded.   *)
(*                                                                         *)
(* Of CompileHost: CompileInv follows each argument from the host's vector *)
(* through the areas to what the snapshot knows, and each report through   *)
(* the text on stderr back to the host.                                    *)
(***************************************************************************)
EXTENDS Embedding, CompileSafe, Counting, FiniteSetTheorems, SequenceTheorems, TLAPS

Activation == [proc : Routines, saved : 0 .. Top]
(* Where $sp was when activation i last ran, and before it was entered. *)
Base(i) ==
  IF i = Len(acts) THEN sp
  ELSE IF acts[i].proc = Main THEN display[1] ELSE acts[i + 1].saved
Before(i) == IF i = 1 THEN found.sp ELSE Base(i - 1)
(* The part of an activation's frame that is not the program's. *)
OfRoutine(q) == IF q = Main THEN 0 ELSE Frame[q]

ActivationOK(i) ==
  /\ acts[i].proc = Main => i = 1
  /\ Base(i) \in HeapEnd .. Top
  /\ Base(i) + Frame[acts[i].proc] = Before(i)
  /\ acts[i].proc # Main /\ (i = 1 \/ acts[i - 1].proc = Main) => acts[i].saved = found.inner
  /\ owns => Base(i) + OfRoutine(acts[i].proc) <= display[1]

TopOK ==
  /\ acts = <<>> => sp = found.sp /\ display[2] = found.inner
  /\ acts # <<>> => display[Level(top.proc) + 1] = sp
  /\ acts # <<>> /\ top.proc = Main => display[2] = found.inner

StackInv ==
  /\ acts \in Seq(Activation) /\ sp \in HeapEnd .. Top
  /\ display \in [1 .. 2 -> 0 .. Top]
  /\ found \in [sp : HeapEnd .. Top, inner : 0 .. Top]
  /\ phase = "guest" => TopOK
  /\ phase # "guest" => acts = <<>>
  /\ \A i \in 1 .. Len(acts) : ActivationOK(i)

GlobalInv ==
  /\ ram \in [0 .. Top - 1 -> Nat] /\ global \in Nat /\ owns \in BOOLEAN
  /\ display[1] < Top
  /\ owns => display[1] >= sp /\ ram[display[1]] = global

Ends ==
  {<<"never">>, <<"trap">>} \cup {<<"halt", n>> : n \in Statuses}
    \cup {<<"returned", v>> : v \in Values}
AnswerInv ==
  /\ ended \in Ends /\ pending \in [proc : Routines, form : {"call", "call_args"}]
  /\ phase = "builder" => ended = <<"never">>
  /\ phase = "host" /\ ended # <<"never">> => result = Answer(pending.form, pending.proc, ended)
LinkInv ==
  /\ \A r1, r2 \in registered : r1[1] = r2[1] => r1 = r2
  /\ phase \in {"host", "guest"} => Links(registered)

FuelInv ==
  /\ limits \in AllLimits /\ phase \in {"builder", "host", "guest", "refused"}
  /\ steps \in Nat /\ fuel \in Nat \cup {None}
  /\ phase = "builder" => steps = 0
  /\ phase \in {"host", "guest"} /\ limits.fuel # None => fuel \in Nat
  /\ FuelBounds

StringInv ==
  sent = NoString \/
  /\ sent.addr \in Nat /\ sent.bytes \in Seq(Nat) /\ Len(sent.bytes) <= MaxString
  /\ sent.addr + Len(sent.bytes) < Top
  /\ ram[sent.addr] = Len(sent.bytes)
  /\ \A i \in 1 .. Len(sent.bytes) : ram[sent.addr + i] = sent.bytes[i]

IInv ==
  /\ FuelInv /\ StackInv /\ GlobalInv /\ CallsBalanced
  /\ AnswerInv /\ LinkInv /\ StringInv
  /\ Len(acts) <= MaxDepth /\ calls \in 0 .. MaxCalls

(* The invariant holds of a new instance.                                   *)
LEMMA InitIInv == Init => IInv
<1> SUFFICES ASSUME Init PROVE IInv
  OBVIOUS
<1>1. /\ Main \in Routines /\ HeapEnd \in Nat \ {0} /\ Top \in Nat /\ HeapEnd <= Top
      /\ MaxDepth \in Nat \ {0} /\ MaxCalls \in Nat
  BY EmbeddingConstants
<1>2. FuelInv
  BY DEF Init, FuelInv, FuelBounds
<1>3. StackInv
  BY <1>1 DEF Init, StackInv
<1>4. GlobalInv
  <2>1. 0 < Top /\ display[1] = 0
    BY <1>1 DEF Init
  <2>2. QED
    BY <1>1, <2>1 DEF Init, GlobalInv
<1>5. CallsBalanced /\ AnswerInv
  BY <1>1 DEF Init, CallsBalanced, AnswerInv, Ends, NoCall
<1>6. LinkInv /\ StringInv
  BY DEF Init, LinkInv, StringInv
<1>7. QED
  BY <1>1, <1>2, <1>3, <1>4, <1>5, <1>6 DEF Init, IInv

(* Fuel: a step of a metered guest takes one, and nothing gives any.        *)
LEMMA FuelStep == IInv /\ Next => FuelInv'
<1> SUFFICES ASSUME IInv, Next PROVE FuelInv'
  OBVIOUS
<1>1. FuelInv /\ limits \in AllLimits /\ limits.fuel \in Nat \cup {None}
  BY EmbeddingConstants DEF IInv, FuelInv
<1>2. CASE Register \/ CallUnknown \/ CallUnfit \/ Call \/ WriteString
  BY <1>1, <1>2
     DEF FuelInv, FuelBounds, Register, CallUnknown, CallUnfit, NotRun, Ask, Call,
         FuelOfCall, WriteString, builder
<1>3. CASE Build
  BY <1>1, <1>3 DEF FuelInv, FuelBounds, Build, Instantiate, builder, None
<1>4. CASE New
  BY <1>1, <1>4 DEF FuelInv, FuelBounds, New, Instantiate, Ceilings, builder, None
<1>5. ASSUME Burn, limits' = limits, phase' \in {"guest", "host"}
      PROVE  FuelInv'
  BY <1>1, <1>5 DEF FuelInv, FuelBounds, Burn, None
<1>6. CASE OutOfFuel
  BY <1>1, <1>6 DEF FuelInv, FuelBounds, OutOfFuel, Finish, builder
<1>7. CASE \E q \in Routines : Enter(q) \/ Overflow(q)
  BY <1>5, <1>7 DEF Enter, Overflow, Go, Finish, builder, Burn
<1>8. CASE Return
  BY <1>5, <1>8 DEF Return, Running, Go, Finish, builder, Burn
<1>9. CASE AssignGlobal \/ AssignLocal \/ CallImport \/ Halt \/ Fail \/ Spin
  BY <1>5, <1>9
     DEF AssignGlobal, AssignLocal, CallImport, Halt, Fail, Spin, Running, Go, Finish,
         builder, Burn
<1>10. QED
  BY <1>2, <1>3, <1>4, <1>6, <1>7, <1>8, <1>9 DEF Next, Host, Guest

(* What a builder was given; what an instance was made with.                *)
LEMMA LinkStep == IInv /\ Next => LinkInv'
<1> SUFFICES ASSUME IInv, Next PROVE LinkInv'
  OBVIOUS
<1>1. LinkInv
  BY DEF IInv
<1>2. CASE Register
  BY <1>1, <1>2 DEF LinkInv, Register, Known
<1>3. CASE Build
  BY <1>1, <1>3 DEF LinkInv, Build, Instantiate, Made, builder
<1>4. CASE New
  BY <1>1, <1>4 DEF LinkInv, New, Instantiate, Made, Links, builder
<1>5. ASSUME registered' = registered, phase \in {"host", "guest"}
      PROVE  LinkInv'
  BY <1>1, <1>5 DEF LinkInv, Links
<1>6. CASE CallUnknown \/ CallUnfit \/ Call \/ WriteString
  BY <1>5, <1>6 DEF CallUnknown, CallUnfit, NotRun, Ask, Call, WriteString, builder
<1>7. CASE OutOfFuel \/ \E q \in Routines : Enter(q) \/ Overflow(q)
  BY <1>5, <1>7 DEF OutOfFuel, Enter, Overflow, Go, Finish, builder, Burn
<1>8. CASE Return
  BY <1>5, <1>8 DEF Return, Running, Go, Finish, builder, Burn
<1>9. CASE AssignGlobal \/ AssignLocal \/ CallImport \/ Halt \/ Fail \/ Spin
  BY <1>5, <1>9
     DEF AssignGlobal, AssignLocal, CallImport, Halt, Fail, Spin, Running, Go, Finish,
         builder, Burn
<1>10. QED
  BY <1>2, <1>3, <1>4, <1>6, <1>7, <1>8, <1>9 DEF Next, Host, Guest

(* How the last call ended and what the host was told.                      *)
LEMMA AnswerStep == IInv /\ Next => AnswerInv'
<1> SUFFICES ASSUME IInv, Next PROVE AnswerInv'
  OBVIOUS
<1>1. AnswerInv
  BY DEF IInv
<1>2. CASE Register \/ CallUnknown \/ CallUnfit \/ WriteString
  BY <1>1, <1>2
     DEF AnswerInv, Ends, Register, CallUnknown, CallUnfit, NotRun, WriteString, Ask
<1>3. CASE Build \/ New
  BY <1>1, <1>3 DEF AnswerInv, Build, New, Instantiate
<1>4. CASE Call
  BY <1>1, <1>4 DEF AnswerInv, Call
<1>5. ASSUME NEW how \in Ends, Finish(how)
      PROVE  AnswerInv'
  BY <1>1, <1>5 DEF AnswerInv, Finish, Answer, Classify
<1>6. ASSUME NEW s, Go(s), phase = "guest"
      PROVE  AnswerInv'
  BY <1>1, <1>6 DEF AnswerInv, Go
<1>7. <<"trap">> \in Ends
  BY DEF Ends
<1>8. CASE OutOfFuel \/ Fail \/ \E q \in Routines : Overflow(q)
  BY <1>5, <1>7, <1>8 DEF OutOfFuel, Overflow, Fail
<1>9. CASE Halt
  <2>1. PICK n \in Statuses : Finish(<<"halt", n>>)
    BY <1>9 DEF Halt
  <2>2. <<"halt", n>> \in Ends
    BY DEF Ends
  <2>3. QED
    BY <1>5, <2>1, <2>2
<1>10. CASE Return
  <2>1. PICK v \in Values :
          \/ Go(SubSeq(acts, 1, Len(acts) - 1))
          \/ Finish(<<"returned", v>>)
    BY <1>10 DEF Return
  <2>2. <<"returned", v>> \in Ends
    BY DEF Ends
  <2>3. QED
    BY <1>5, <1>6, <1>10, <2>1, <2>2 DEF Return, Running, Burn
<1>11. CASE AssignGlobal \/ AssignLocal \/ CallImport \/ Spin
  BY <1>6, <1>11 DEF AssignGlobal, AssignLocal, CallImport, Spin, Running, Burn
<1>12. CASE \E q \in Routines : Enter(q)
  BY <1>6, <1>12 DEF Enter, Burn
<1>13. QED
  BY <1>2, <1>3, <1>4, <1>8, <1>9, <1>10, <1>11, <1>12 DEF Next, Host, Guest

(* What a step that leaves $sp, the display and the activations alone keeps. *)
LEMMA Untouched ==
  ASSUME IInv, UNCHANGED <<sp, display, acts, found>>,
         phase' = "guest" <=> phase = "guest", owns' = owns
  PROVE  StackInv'
<1>1. StackInv /\ owns \in BOOLEAN
  BY DEF IInv, GlobalInv
<1>2. TopOK => TopOK'
  BY DEF TopOK, top
<1>3. \A i \in 1 .. Len(acts) : ActivationOK(i)'
  BY <1>1 DEF StackInv, ActivationOK, Base, Before
<1>4. QED
  BY <1>1, <1>2, <1>3 DEF StackInv

(* A call that is broken off: activations go, the rest stays.               *)
LEMMA BrokenOff ==
  ASSUME IInv, UNCHANGED <<sp, display, found>>, acts' = <<>>, phase' = "host"
  PROVE  StackInv'
BY DEF IInv, StackInv

(* The running activation, and the stack below it.                          *)
LEMMA TopFacts ==
  ASSUME IInv, phase = "guest", acts # <<>>
  PROVE  /\ Len(acts) \in Nat \ {0} /\ top \in Activation
         /\ ActivationOK(Len(acts)) /\ Base(Len(acts)) = sp
         /\ display[Level(top.proc) + 1] = sp /\ Frame[top.proc] \in Nat
<1>1. acts \in Seq(Activation) /\ Len(acts) \in Nat \ {0} /\ TopOK
      /\ \A i \in 1 .. Len(acts) : ActivationOK(i)
  BY DEF IInv, StackInv
<1>2. top \in Activation
  BY <1>1 DEF top
<1>3. Frame[top.proc] \in Nat
  BY <1>2, EmbeddingConstants DEF Activation
<1>4. QED
  BY <1>1, <1>2, <1>3 DEF Base, TopOK

(* A prologue keeps what is known of the stack.                             *)
LEMMA EnterStack ==
  ASSUME IInv, NEW q \in Routines, Enter(q)
  PROVE  StackInv'
<1> PICK n \in Nat : n = Len(acts)
  BY DEF IInv, StackInv
<1> DEFINE r == [proc |-> q, saved |-> display[Level(q) + 1]]
<1>1. /\ acts \in Seq(Activation) /\ n \in Nat /\ (n = 0 <=> acts = <<>>)
      /\ sp \in HeapEnd .. Top /\ display \in [1 .. 2 -> 0 .. Top]
      /\ found \in [sp : HeapEnd .. Top, inner : 0 .. Top]
      /\ phase = "guest" /\ TopOK /\ owns \in BOOLEAN
      /\ \A i \in 1 .. n : ActivationOK(i)
  BY DEF IInv, StackInv, GlobalInv, Enter, Burn
<1>2. HeapEnd \in Nat /\ Top \in Nat /\ Frame[q] \in Nat
      /\ Level(q) \in {0, 1} /\ (Level(q) = 0 <=> q = Main) /\ Frame[Main] > 0
  BY EmbeddingConstants DEF Level
<1>3. /\ sp' = sp - Frame[q] /\ sp' \in HeapEnd .. Top
      /\ display' = [display EXCEPT ![Level(q) + 1] = sp']
      /\ acts' = Append(acts, r) /\ phase' = "guest" /\ found' = found
  <2>1. /\ sp' = sp - Frame[q] /\ ~Overflows(q)
        /\ display' = [display EXCEPT ![Level(q) + 1] = sp']
        /\ acts' = Append(acts, r) /\ phase' = "guest" /\ found' = found
    BY <1>1 DEF Enter, Go
  <2>2. sp' \in HeapEnd .. Top
    BY SMTT(30), <1>1, <1>2, <2>1 DEF Overflows
  <2>3. QED
    BY <2>1, <2>2
<1>4. /\ display' \in [1 .. 2 -> 0 .. Top] /\ display'[Level(q) + 1] = sp'
      /\ q = Main => display'[1] = sp' /\ display'[2] = display[2]
      /\ q # Main => display'[1] = display[1] /\ display'[2] = sp'
  BY SMTT(30), <1>1, <1>2, <1>3
<1>5. r \in Activation /\ r.proc = q /\ r.saved = display[Level(q) + 1]
  BY <1>1, <1>2 DEF Activation
<1> HIDE DEF r
<1>6. /\ acts' \in Seq(Activation) /\ Len(acts') = n + 1
      /\ acts'[n + 1] = r /\ \A i \in 1 .. n : acts'[i] = acts[i]
  BY <1>1, <1>3, <1>5
<1>7. /\ n # 0 => q # Main
      /\ q = Main => owns' = TRUE
      /\ q # Main => owns' = owns
  BY <1>1 DEF Enter, Enters, globals
<1>8. \A i \in 1 .. n : Base(i)' = Base(i)
  <2> SUFFICES ASSUME NEW i \in 1 .. n PROVE Base(i)' = Base(i)
    OBVIOUS
  <2>1. n # 0 /\ q # Main
    BY <1>1, <1>7
  <2>2. i # n + 1 /\ i + 1 \in 1 .. n + 1
    BY <1>1
  <2>3. CASE i = n
    <3>1. top = acts[n] /\ display[Level(top.proc) + 1] = sp
      BY <1>1, <2>1 DEF TopOK, top
    <3>2. CASE acts[n].proc = Main
      <4>1. display[1] = sp
        BY <1>2, <3>1, <3>2 DEF Level
      <4>2. QED
        BY <1>1, <1>4, <1>6, <2>1, <2>3, <3>2, <4>1 DEF Base
    <3>3. CASE acts[n].proc # Main
      <4>1. display[2] = sp
        BY <1>2, <3>1, <3>3 DEF Level
      <4>2. r.saved = sp
        BY <1>5, <2>1, <4>1 DEF Level
      <4>3. QED
        BY <1>1, <1>6, <2>3, <3>3, <4>2 DEF Base
    <3>4. QED
      BY <3>2, <3>3
  <2>4. CASE i # n
    <3>1. i + 1 \in 1 .. n
      BY <1>1, <2>4
    <3>2. QED
      BY <1>1, <1>4, <1>6, <2>1, <2>2, <2>4, <3>1 DEF Base
  <2>5. QED
    BY <2>3, <2>4
<1>9. Base(n + 1)' = sp'
  BY <1>6 DEF Base
<1>10. ASSUME NEW i \in 1 .. n PROVE ActivationOK(i)'
  <2>1. ActivationOK(i) /\ q # Main /\ owns' = owns /\ display'[1] = display[1]
    BY <1>1, <1>4, <1>7
  <2>2. Before(i)' = Before(i) /\ (i # 1 => i - 1 \in 1 .. n)
    BY <1>1, <1>3, <1>8 DEF Before
  <2>3. acts'[i] = acts[i] /\ (i # 1 => acts'[i - 1] = acts[i - 1]) /\ Base(i)' = Base(i)
    BY <1>6, <1>8, <2>2
  <2>4. QED
    BY <1>3, <2>1, <2>2, <2>3 DEF ActivationOK
<1>11. ActivationOK(n + 1)'
  <2>1. Before(n + 1)' = sp
    <3>1. CASE n = 0
      BY <1>1, <1>3, <3>1 DEF Before, TopOK
    <3>2. CASE n # 0
      <4>1. n \in 1 .. n /\ n + 1 # 1 /\ (n + 1) - 1 = n
        BY <1>1, <3>2
      <4>2. Base(n) = sp
        BY DEF Base
      <4>3. QED
        BY <1>8, <4>1, <4>2 DEF Before
    <3>3. QED
      BY <3>1, <3>2
  <2>2. q = Main => n + 1 = 1
    BY <1>1, <1>7
  <2>3. q # Main /\ (n + 1 = 1 \/ acts'[(n + 1) - 1].proc = Main) => r.saved = found.inner
    <3>1. CASE n = 0
      BY <1>1, <1>2, <1>5, <3>1 DEF TopOK
    <3>2. CASE n # 0
      <4>1. (n + 1) - 1 = n /\ n \in 1 .. n /\ n + 1 # 1 /\ top = acts[n]
        BY <1>1, <3>2 DEF top
      <4>2. QED
        BY <1>1, <1>2, <1>5, <1>6, <3>2, <4>1 DEF TopOK
    <3>3. QED
      BY <3>1, <3>2
  <2>4. owns' => sp' + OfRoutine(q) <= display'[1]
    <3>1. CASE q = Main
      BY <1>2, <1>3, <1>4, <3>1 DEF OfRoutine
    <3>2. CASE q # Main
      <4>1. owns => display[1] >= sp
        BY DEF IInv, GlobalInv
      <4>2. sp' + OfRoutine(q) = sp
        BY SMTT(30), <1>1, <1>2, <1>3, <3>2 DEF OfRoutine
      <4>3. owns' = owns /\ display'[1] = display[1]
        BY <1>4, <1>7, <3>2
      <4>4. QED
        BY <4>1, <4>2, <4>3
    <3>3. QED
      BY <3>1, <3>2
  <2>5. acts'[n + 1].proc = q /\ acts'[n + 1].saved = r.saved
    BY <1>5, <1>6
  <2>6. sp' + Frame[q] = sp
    BY SMTT(30), <1>1, <1>2, <1>3
  <2>7. QED
    BY <1>3, <1>9, <2>1, <2>2, <2>3, <2>4, <2>5, <2>6 DEF ActivationOK
<1>12. TopOK'
  <2>1. top' = r /\ acts' # <<>>
    BY <1>1, <1>6 DEF top
  <2>2. q = Main => display'[2] = found.inner
    BY <1>1, <1>4, <1>7 DEF TopOK
  <2>3. QED
    BY <1>2, <1>3, <1>4, <1>5, <2>1, <2>2 DEF TopOK, Level
<1>13. QED
  BY SMTT(30), <1>1, <1>3, <1>4, <1>6, <1>10, <1>11, <1>12 DEF StackInv

(* A return puts $sp where it was before the routine was entered, which is  *)
(* where the caller had it; the display of routines as well.                *)
LEMMA ReturnEffect ==
  ASSUME IInv, Return
  PROVE  /\ acts # <<>> /\ phase = "guest"
         /\ sp' = Before(Len(acts)) /\ display'[1] = display[1]
         /\ display' \in [1 .. 2 -> 0 .. Top]
         /\ display'[2] = IF top.proc = Main THEN display[2] ELSE top.saved
<1>1. acts # <<>> /\ phase = "guest" /\ display \in [1 .. 2 -> 0 .. Top]
      /\ sp \in HeapEnd .. Top
  BY DEF IInv, StackInv, Return, Running, Burn
<1>2. /\ top = acts[Len(acts)] /\ display[Level(top.proc) + 1] = sp
      /\ sp + Frame[top.proc] = Before(Len(acts)) /\ Frame[top.proc] \in Nat
      /\ top.saved \in 0 .. Top
  BY <1>1, TopFacts DEF ActivationOK, top, Activation
<1>3. sp' = Before(Len(acts))
  <2>1. CASE Frame[top.proc] > 0
    BY <1>2, <2>1 DEF Return
  <2>2. CASE ~(Frame[top.proc] > 0)
    <3>1. sp' = sp
      BY <2>2 DEF Return
    <3>2. Frame[top.proc] = 0 /\ sp \in Int
      BY <1>1, <1>2, <2>2, EmbeddingConstants
    <3>3. QED
      BY <1>2, <3>1, <3>2
  <2>3. QED
    BY <2>1, <2>2
<1>4. QED
  BY <1>1, <1>2, <1>3 DEF Return, Restored

(* So does an epilogue, and a call it ends is balanced.                     *)
LEMMA ReturnStack ==
  ASSUME IInv, Return
  PROVE  StackInv' /\ CallsBalanced'
<1> PICK n \in Nat : n = Len(acts)
  BY DEF IInv, StackInv
<1>1. /\ acts \in Seq(Activation) /\ n \in Nat \ {0}
      /\ found \in [sp : HeapEnd .. Top, inner : 0 .. Top]
      /\ sp \in HeapEnd .. Top
      /\ phase = "guest" /\ TopOK /\ owns \in BOOLEAN
      /\ \A i \in 1 .. n : ActivationOK(i)
  BY ReturnEffect DEF IInv, StackInv, GlobalInv
<1>2. /\ sp' = Before(n) /\ display'[1] = display[1]
      /\ display' \in [1 .. 2 -> 0 .. Top]
      /\ display'[2] = IF top.proc = Main THEN display[2] ELSE top.saved
      /\ top = acts[n] /\ ActivationOK(n) /\ acts # <<>>
  BY <1>1, ReturnEffect DEF top
<1>3. found' = found /\ (owns' => owns)
  BY <1>1 DEF Return, Go, Finish
<1>4. CASE n = 1
  <2>1. /\ acts' = <<>> /\ phase' = "host" /\ sp' = found.sp
    BY <1>1, <1>2, <1>4 DEF Return, Finish, Before
  <2>2. display'[2] = found.inner
    BY <1>1, <1>2, <1>4 DEF TopOK, ActivationOK
  <2>3. StackInv'
    BY <1>1, <1>2, <1>3, <2>1 DEF StackInv
  <2>4. QED
    BY <1>3, <2>1, <2>2, <2>3 DEF CallsBalanced
<1>5. CASE n # 1
  <2>1. acts' = SubSeq(acts, 1, n - 1) /\ phase' = "guest"
    BY <1>1, <1>5 DEF Return, Go
  <2>2. /\ acts' \in Seq(Activation) /\ Len(acts') = n - 1 /\ n - 1 \in 1 .. n
        /\ \A i \in 1 .. n - 1 : acts'[i] = acts[i]
    BY <1>1, <1>5, <2>1
  <2>3. top.proc # Main /\ sp' = Base(n - 1) /\ sp' \in HeapEnd .. Top
        /\ display'[2] = top.saved
    <3>1. ActivationOK(n - 1)
      BY <1>1, <2>2
    <3>2. QED
      BY <1>1, <1>2, <1>5, <3>1 DEF ActivationOK, Before
  <2>4. \A i \in 1 .. n - 1 : Base(i)' = Base(i)
    <3> SUFFICES ASSUME NEW i \in 1 .. n - 1 PROVE Base(i)' = Base(i)
      OBVIOUS
    <3>1. CASE i = n - 1
      BY <2>2, <2>3, <3>1 DEF Base
    <3>2. CASE i # n - 1
      <4>1. i + 1 \in 1 .. n - 1 /\ i # n
        BY <1>1, <3>2
      <4>2. QED
        BY <1>2, <2>2, <3>2, <4>1 DEF Base
    <3>3. QED
      BY <3>1, <3>2
  <2>5. ASSUME NEW i \in 1 .. n - 1 PROVE ActivationOK(i)'
    <3>1. ActivationOK(i) /\ i \in 1 .. n /\ (i # 1 => i - 1 \in 1 .. n - 1)
      BY <1>1, <1>5
    <3>2. Before(i)' = Before(i)
      BY <1>3, <2>4, <3>1 DEF Before
    <3>3. acts'[i] = acts[i] /\ (i # 1 => acts'[i - 1] = acts[i - 1]) /\ Base(i)' = Base(i)
      BY <2>2, <2>4, <3>1
    <3>4. QED
      BY <1>2, <1>3, <3>1, <3>2, <3>3 DEF ActivationOK
  <2>6. TopOK'
    <3>1. top' = acts[n - 1] /\ acts' # <<>> /\ n - 1 # n /\ (n - 1) + 1 = n
      BY <1>1, <1>5, <2>2 DEF top
    <3>2. CASE acts[n - 1].proc = Main
      <4>1. Base(n - 1) = display[1]
        BY <3>1, <3>2 DEF Base
      <4>2. top.saved = found.inner
        BY <1>2, <2>3, <3>2 DEF ActivationOK
      <4>3. QED
        BY <1>2, <1>3, <2>3, <3>1, <3>2, <4>1, <4>2 DEF TopOK, Level
    <3>3. CASE acts[n - 1].proc # Main
      <4>1. Base(n - 1) = top.saved
        BY <1>2, <3>1, <3>3 DEF Base
      <4>2. QED
        BY <2>3, <3>1, <3>3, <4>1 DEF TopOK, Level
    <3>4. QED
      BY <3>2, <3>3
  <2>7. StackInv'
    BY <1>1, <1>2, <1>3, <2>1, <2>2, <2>3, <2>5, <2>6 DEF StackInv
  <2>8. QED
    BY <2>1, <2>7 DEF CallsBalanced
<1>6. QED
  BY <1>4, <1>5

(* The steps that leave the stack as it is.                                 *)
LEMMA StackStep == IInv /\ Next => StackInv'
<1> SUFFICES ASSUME IInv, Next PROVE StackInv'
  OBVIOUS
<1>1. StackInv
  BY DEF IInv
<1>2. CASE Register \/ CallUnknown \/ CallUnfit \/ WriteString
  BY <1>2, Untouched
     DEF Register, CallUnknown, CallUnfit, NotRun, Ask, WriteString, store, history, globals
<1>3. CASE Build \/ New
  <2>1. phase' # "guest" /\ phase # "guest"
        /\ UNCHANGED <<sp, display, acts, found>> /\ owns' = owns
    BY <1>3 DEF Build, New, Instantiate, store, history, globals
  <2>2. QED
    BY <2>1, Untouched
<1>4. CASE Call
  <2>1. acts' = <<>> /\ sp' = sp /\ display' = display
        /\ found' = [sp |-> sp, inner |-> display[2]]
    BY <1>1, <1>4 DEF StackInv, Call, Ask, store
  <2>2. QED
    BY <1>1, <2>1 DEF StackInv, TopOK
<1>5. CASE OutOfFuel \/ Halt \/ Fail \/ \E q \in Routines : Overflow(q)
  BY <1>5, BrokenOff DEF OutOfFuel, Halt, Fail, Overflow, Finish, store
<1>6. CASE AssignGlobal \/ AssignLocal \/ CallImport \/ Spin
  <2>1. UNCHANGED <<sp, display, acts, found, phase>> /\ owns' = owns
    BY <1>6
       DEF AssignGlobal, AssignLocal, CallImport, Spin, Go, Store, store, globals
  <2>2. QED
    BY <2>1, Untouched
<1>7. QED
  BY <1>2, <1>3, <1>4, <1>5, <1>6, EnterStack, ReturnStack DEF Next, Host, Guest

(* Every step keeps the balance of finished calls.                          *)
LEMMA BalanceStep == IInv /\ Next => CallsBalanced'
<1> SUFFICES ASSUME IInv, Next PROVE CallsBalanced'
  OBVIOUS
<1>1. CallsBalanced /\ AnswerInv
  BY DEF IInv
<1>2. CASE ended' = <<"never">> \/ ended' = <<"trap">> \/ \E n \in Statuses : ended' = <<"halt", n>>
  BY <1>2 DEF CallsBalanced
<1>3. CASE Register \/ CallUnknown \/ CallUnfit \/ WriteString \/ Build \/ New
  BY <1>1, <1>2, <1>3
     DEF AnswerInv, Register, CallUnknown, CallUnfit, NotRun, WriteString, Build, New, Instantiate
<1>4. CASE Call
  BY <1>4 DEF Call, CallsBalanced
<1>5. CASE OutOfFuel \/ Halt \/ Fail \/ \E q \in Routines : Overflow(q)
  BY <1>2, <1>5 DEF OutOfFuel, Halt, Fail, Overflow, Finish
<1>6. ASSUME NEW s, Go(s), phase = "guest" PROVE CallsBalanced'
  BY <1>6 DEF CallsBalanced, Go
<1>7. CASE AssignGlobal \/ AssignLocal \/ CallImport \/ Spin
  BY <1>6, <1>7 DEF AssignGlobal, AssignLocal, CallImport, Spin, Running, Burn
<1>8. CASE \E q \in Routines : Enter(q)
  BY <1>6, <1>8 DEF Enter, Burn
<1>9. QED
  BY <1>3, <1>4, <1>5, <1>7, <1>8, ReturnStack DEF Next, Host, Guest

(* A store of the guest changes one byte.                                   *)
LEMMA Stored ==
  ASSUME ram \in [0 .. Top - 1 -> Nat], NEW a \in Nat, NEW v \in Nat, Store(a, v)
  PROVE  /\ ram' \in [0 .. Top - 1 -> Nat] /\ UNCHANGED <<sp, display>>
         /\ a \in 0 .. Top - 1 => ram'[a] = v
         /\ \A b \in 0 .. Top - 1 : b # a => ram'[b] = ram[b]
         /\ sent' \in {sent, NoString} /\ (sent' # NoString => ~Overlaps(a))
BY DEF Store

(* The stores of the guest: where they are made, which value.               *)
LEMMA GuestStores ==
  ASSUME IInv, AssignGlobal \/ AssignLocal \/ CallImport
  PROVE  \/ UNCHANGED <<ram, sp, display, sent, globals>>
         \/ \E v \in Values : Store(display[1], v) /\ global' = v /\ owns' = owns
         \/ /\ HasLocals /\ UNCHANGED globals
            /\ \E o \in 0 .. Frame[top.proc] - 1, v \in Values : Store(sp + o, v)
<1>1. CASE AssignGlobal
  BY <1>1 DEF AssignGlobal, GlobalAt
<1>2. CASE AssignLocal
  BY <1>2 DEF AssignLocal
<1>3. CASE CallImport
  <2>1. HasLocals /\ UNCHANGED globals /\ acts # <<>> /\ phase = "guest" /\ sp \in Nat
    BY <1>3, EmbeddingConstants
       DEF CallImport, Running, Burn, IInv, StackInv
  <2>2. 0 \in 0 .. Frame[top.proc] - 1 /\ sp + 0 = sp
    BY <2>1, TopFacts DEF HasLocals
  <2>3. PICK n \in DOMAIN Imports, given \in Values \cup {None} :
          IF Imports[n][2] THEN Store(sp, IF given = None THEN 0 ELSE given)
          ELSE UNCHANGED <<store, sent>>
    BY <1>3 DEF CallImport
  <2>4. CASE Imports[n][2]
    <3>1. PICK v \in Values : Store(sp, v)
      BY <2>3, <2>4, EmbeddingConstants
    <3>2. QED
      BY <2>1, <2>2, <3>1
  <2>5. CASE ~Imports[n][2]
    BY <2>1, <2>3, <2>5 DEF store
  <2>6. QED
    BY <2>4, <2>5
<1>4. QED
  BY <1>1, <1>2, <1>3

(* The program's variables: its frame lies above every other that is left.  *)
LEMMA GlobalStep == IInv /\ Next => GlobalInv'
<1> SUFFICES ASSUME IInv, Next PROVE GlobalInv'
  OBVIOUS
<1>1. /\ ram \in [0 .. Top - 1 -> Nat] /\ global \in Nat /\ owns \in BOOLEAN
      /\ owns => display[1] >= sp /\ ram[display[1]] = global
      /\ sp \in HeapEnd .. Top /\ display[1] \in 0 .. Top - 1
      /\ HeapEnd \in Nat /\ Top \in Nat /\ Values \subseteq Nat
  BY SMTT(30), EmbeddingConstants DEF IInv, GlobalInv, StackInv
<1>2. ASSUME UNCHANGED <<ram, sp, display, globals>> PROVE GlobalInv'
  BY <1>1, <1>2 DEF GlobalInv, globals
<1>3. CASE Register \/ Build \/ New \/ CallUnknown \/ CallUnfit \/ Call
  BY <1>2, <1>3
     DEF Register, Build, New, Instantiate, CallUnknown, CallUnfit, NotRun, Call,
         store, history, globals
<1>4. CASE OutOfFuel \/ Halt \/ Fail \/ Spin \/ \E q \in Routines : Overflow(q)
  BY <1>2, <1>4 DEF OutOfFuel, Halt, Fail, Spin, Overflow, store
<1>5. CASE WriteString
  <2>1. UNCHANGED <<sp, display, owns>>
    BY <1>5 DEF WriteString
  <2>2. PICK addr \in Addresses, s \in Strings :
          IF Fault(addr, s) THEN UNCHANGED <<ram, global>>
          ELSE /\ ram' = [a \in DOMAIN ram |->
                            IF a = addr THEN LengthByte(Len(s))
                            ELSE IF a > addr /\ a <= addr + Len(s) THEN s[a - addr] ELSE ram[a]]
               /\ global' = ram'[GlobalAt]
    BY <1>5 DEF WriteString
  <2>3. CASE Fault(addr, s)
    BY <1>2, <2>1, <2>2, <2>3 DEF globals
  <2>4. CASE ~Fault(addr, s)
    <3>1. addr \in Nat /\ s \in Seq(Nat) /\ Len(s) \in Nat /\ LengthByte(Len(s)) \in Nat
      BY EmbeddingConstants DEF LengthByte
    <3>2. ASSUME NEW a \in 0 .. Top - 1, a > addr, a <= addr + Len(s)
          PROVE  s[a - addr] \in Nat
      <4>1. a - addr \in 1 .. Len(s)
        BY <3>1, <3>2
      <4>2. QED
        BY <3>1, <4>1
    <3>3. ram' \in [0 .. Top - 1 -> Nat]
      BY <1>1, <2>2, <2>4, <3>1, <3>2
    <3>4. global' = ram'[display[1]]
      BY <2>2, <2>4 DEF GlobalAt
    <3>5. global' \in Nat
      BY <1>1, <3>3, <3>4
    <3>6. QED
      BY <1>1, <2>1, <3>3, <3>4, <3>5 DEF GlobalInv
  <2>5. QED
    BY <2>3, <2>4
<1>6. CASE \E q \in Routines : Enter(q)
  <2>1. PICK q \in Routines : Enter(q)
    BY <1>6
  <2>2. ram' = ram /\ sp' = sp - Frame[q] /\ Frame[q] \in Nat /\ Frame[Main] > 0
        /\ display' = [display EXCEPT ![Level(q) + 1] = sp']
        /\ display \in [1 .. 2 -> 0 .. Top] /\ sp' \in HeapEnd .. Top
    BY <2>1, EnterStack, EmbeddingConstants DEF Enter, IInv, StackInv
  <2>3. CASE q = Main
    <3>1. display'[1] = sp' /\ global' = ram[sp'] /\ owns' = TRUE
      BY <2>1, <2>2, <2>3 DEF Enter, Level
    <3>2. sp' \in 0 .. Top - 1
      BY SMTT(30), <1>1, <2>2, <2>3
    <3>3. ram[sp'] \in Nat
      BY <1>1, <3>2
    <3>4. QED
      BY SMTT(30), <1>1, <2>2, <3>1, <3>2, <3>3 DEF GlobalInv
  <2>4. CASE q # Main
    <3>1. display'[1] = display[1] /\ global' = global /\ owns' = owns
      BY <2>1, <2>2, <2>4 DEF Enter, Level, globals
    <3>2. sp' <= sp
      BY SMTT(30), <1>1, <2>2
    <3>3. QED
      BY SMTT(30), <1>1, <2>2, <3>1, <3>2 DEF GlobalInv
  <2>5. QED
    BY <2>3, <2>4
<1>7. CASE Return
  <2>1. ram' = ram /\ global' = global /\ owns' = (owns /\ top.proc # Main)
    BY <1>7 DEF Return
  <2>2. /\ sp' = Before(Len(acts)) /\ display'[1] = display[1]
        /\ ActivationOK(Len(acts)) /\ top = acts[Len(acts)]
    BY <1>7, ReturnEffect, TopFacts DEF top
  <2>3. owns' => display[1] >= sp' /\ owns
    BY <2>1, <2>2 DEF ActivationOK, OfRoutine
  <2>4. owns' \in BOOLEAN
    BY <2>1
  <2>5. QED
    BY <1>1, <2>1, <2>2, <2>3, <2>4 DEF GlobalInv
<1>8. CASE AssignGlobal \/ AssignLocal \/ CallImport
  <2>1. CASE UNCHANGED <<ram, sp, display, sent, globals>>
    BY <1>2, <2>1
  <2>2. ASSUME NEW v \in Values, Store(display[1], v), global' = v, owns' = owns
        PROVE  GlobalInv'
    <3>1. v \in Nat /\ display[1] \in Nat
      BY <1>1
    <3>2. ram' \in [0 .. Top - 1 -> Nat] /\ UNCHANGED <<sp, display>>
          /\ (display[1] \in 0 .. Top - 1 => ram'[display[1]] = v)
      BY <1>1, <2>2, <3>1, Stored
    <3>3. QED
      BY <1>1, <2>2, <3>1, <3>2 DEF GlobalInv
  <2>3. ASSUME HasLocals, UNCHANGED globals, acts # <<>>, phase = "guest",
               NEW o \in 0 .. Frame[top.proc] - 1, NEW v \in Values, Store(sp + o, v)
        PROVE  GlobalInv'
    <3>1. v \in Nat /\ sp + o \in Nat /\ Frame[top.proc] \in Nat
      BY <1>1, <2>3, TopFacts
    <3>2. ram' \in [0 .. Top - 1 -> Nat] /\ UNCHANGED <<sp, display>>
          /\ \A b \in 0 .. Top - 1 : b # sp + o => ram'[b] = ram[b]
      BY <1>1, <2>3, <3>1, Stored
    <3>3. owns => sp + Frame[top.proc] <= display[1]
      <4>1. ActivationOK(Len(acts)) /\ Base(Len(acts)) = sp /\ top = acts[Len(acts)]
        BY <2>3, TopFacts DEF top
      <4>2. QED
        BY <2>3, <4>1 DEF ActivationOK, OfRoutine, HasLocals
    <3>4. owns => display[1] # sp + o
      BY <1>1, <3>1, <3>3
    <3>5. global' = global /\ owns' = owns
      BY <2>3 DEF globals
    <3>6. owns => ram'[display[1]] = global
      BY <1>1, <3>2, <3>4
    <3>7. QED
      BY <1>1, <3>2, <3>5, <3>6 DEF GlobalInv
  <2>4. acts # <<>> /\ phase = "guest"
    BY <1>8 DEF AssignGlobal, AssignLocal, CallImport, Running, Burn
  <2>5. QED
    BY <1>8, <2>1, <2>2, <2>3, <2>4, GuestStores
<1>9. QED
  BY <1>3, <1>4, <1>5, <1>6, <1>7, <1>8 DEF Next, Host, Guest

(* No division where the number is small.                                   *)
LEMMA SmallRest == ASSUME NEW n \in Nat, NEW m \in Nat, n <= m PROVE n % (m + 1) = n
OBVIOUS

(* A string the host wrote is there until a store of the guest meets it.    *)
LEMMA StringStep == IInv /\ Next => StringInv'
<1> SUFFICES ASSUME IInv, Next PROVE StringInv'
  OBVIOUS
<1>1. StringInv /\ ram \in [0 .. Top - 1 -> Nat] /\ Top \in Nat /\ Values \subseteq Nat
      /\ MaxString \in Nat
  BY EmbeddingConstants DEF IInv, GlobalInv
<1>2. ASSUME UNCHANGED <<ram, sent>> PROVE StringInv'
  BY <1>1, <1>2 DEF StringInv
<1>3. CASE Register \/ Build \/ New \/ CallUnknown \/ CallUnfit \/ Call
  BY <1>2, <1>3
     DEF Register, Build, New, Instantiate, CallUnknown, CallUnfit, NotRun, Call,
         store, history
<1>4. CASE OutOfFuel \/ Halt \/ Fail \/ Spin \/ Return \/ \E q \in Routines : Overflow(q) \/ Enter(q)
  BY <1>2, <1>4 DEF OutOfFuel, Halt, Fail, Spin, Return, Overflow, Enter, store
<1>5. CASE WriteString
  <2>1. PICK addr \in Addresses, s \in Strings :
          IF Fault(addr, s) THEN UNCHANGED <<ram, sent>>
          ELSE /\ ram' = [a \in DOMAIN ram |->
                            IF a = addr THEN LengthByte(Len(s))
                            ELSE IF a > addr /\ a <= addr + Len(s) THEN s[a - addr] ELSE ram[a]]
               /\ sent' = [addr |-> addr, bytes |-> s]
    BY <1>5 DEF WriteString
  <2>2. CASE Fault(addr, s)
    BY <1>2, <2>1, <2>2
  <2>3. CASE ~Fault(addr, s)
    <3>1. addr \in Nat /\ s \in Seq(Nat) /\ Len(s) \in Nat /\ Len(s) <= MaxString
          /\ addr + Len(s) < Top
      BY <1>1, <2>3, EmbeddingConstants DEF Fault
    <3>2. LengthByte(Len(s)) = Len(s)
      BY <1>1, <3>1, SmallRest DEF LengthByte
    <3>3. sent'.addr = addr /\ sent'.bytes = s
      BY <2>1, <2>3
    <3>4. ram'[addr] = Len(s)
      BY <1>1, <2>1, <2>3, <3>1, <3>2
    <3>5. ASSUME NEW i \in 1 .. Len(s) PROVE ram'[addr + i] = s[i]
      <4>1. addr + i \in 0 .. Top - 1 /\ addr + i # addr /\ addr + i > addr
            /\ addr + i <= addr + Len(s) /\ (addr + i) - addr = i
        BY <1>1, <3>1
      <4>2. QED
        BY <1>1, <2>1, <2>3, <4>1
    <3>6. QED
      BY <3>1, <3>3, <3>4, <3>5 DEF StringInv
  <2>4. QED
    BY <2>2, <2>3
<1>6. ASSUME NEW a \in Nat, NEW v \in Values, Store(a, v) PROVE StringInv'
  <2>1. /\ \A b \in 0 .. Top - 1 : b # a => ram'[b] = ram[b]
        /\ sent' \in {sent, NoString} /\ (sent' # NoString => ~Overlaps(a))
    BY <1>1, <1>6, Stored
  <2>2. CASE sent' = NoString
    BY <2>2 DEF StringInv
  <2>3. CASE sent' # NoString
    <3>1. sent' = sent /\ ~Overlaps(a) /\ sent # NoString
      BY <2>1, <2>3
    <3>2. /\ sent.addr \in Nat /\ sent.bytes \in Seq(Nat) /\ Len(sent.bytes) \in Nat
          /\ sent.addr + Len(sent.bytes) < Top
      BY <1>1, <3>1 DEF StringInv
    <3>3. \A b \in sent.addr .. sent.addr + Len(sent.bytes) : ram'[b] = ram[b]
      BY SMTT(30), <1>1, <2>1, <3>1, <3>2 DEF Overlaps
    <3>4. \A i \in 0 .. Len(sent.bytes) : ram'[sent.addr + i] = ram[sent.addr + i]
      BY SMTT(30), <3>2, <3>3
    <3>5. ram'[sent.addr] = ram[sent.addr]
      BY <3>2, <3>3
    <3>6. ASSUME NEW i \in 1 .. Len(sent.bytes)
          PROVE  ram'[sent.addr + i] = sent.bytes[i]
      <4>1. i \in 0 .. Len(sent.bytes)
        BY <3>2
      <4>2. ram[sent.addr + i] = sent.bytes[i]
        BY <1>1, <3>1 DEF StringInv
      <4>3. QED
        BY <3>4, <4>1, <4>2
    <3>7. QED
      BY <1>1, <3>1, <3>5, <3>6 DEF StringInv
  <2>4. QED
    BY <2>2, <2>3
<1>7. CASE AssignGlobal \/ AssignLocal \/ CallImport
  <2>1. display[1] \in Nat /\ sp \in Nat
    BY EmbeddingConstants DEF IInv, StackInv
  <2>2. ASSUME NEW o \in 0 .. Frame[top.proc] - 1 PROVE sp + o \in Nat
    BY <2>1
  <2>3. QED
    BY <1>2, <1>6, <1>7, <2>1, <2>2, GuestStores
<1>8. QED
  BY <1>3, <1>4, <1>5, <1>7 DEF Next, Host, Guest

(* The bounds of the model are kept.                                        *)
LEMMA BoundStep == IInv /\ Next => (Len(acts) <= MaxDepth /\ calls \in 0 .. MaxCalls)'
<1> SUFFICES ASSUME IInv, Next PROVE (Len(acts) <= MaxDepth /\ calls \in 0 .. MaxCalls)'
  OBVIOUS
<1>1. /\ acts \in Seq(Activation) /\ Len(acts) \in Nat /\ Len(acts) <= MaxDepth
      /\ calls \in 0 .. MaxCalls /\ MaxCalls \in Nat /\ MaxDepth \in Nat \ {0}
  BY EmbeddingConstants DEF IInv, StackInv
<1>2. CASE Register \/ Build \/ New
  BY <1>1, <1>2 DEF Register, Build, New, Instantiate
<1>3. CASE CallUnknown \/ CallUnfit \/ Call \/ WriteString
  BY <1>1, <1>3 DEF CallUnknown, CallUnfit, NotRun, Call, WriteString, Ask
<1>4. ASSUME acts' = acts \/ acts' = <<>>, calls' = calls
      PROVE  (Len(acts) <= MaxDepth /\ calls \in 0 .. MaxCalls)'
  BY <1>1, <1>4
<1>5. CASE OutOfFuel \/ Halt \/ Fail \/ \E q \in Routines : Overflow(q)
  BY <1>4, <1>5 DEF OutOfFuel, Halt, Fail, Overflow, Finish
<1>6. CASE AssignGlobal \/ AssignLocal \/ CallImport \/ Spin
  BY <1>4, <1>6 DEF AssignGlobal, AssignLocal, CallImport, Spin, Go
<1>7. CASE \E q \in Routines : Enter(q)
  <2>1. PICK q \in Routines : Enter(q)
    BY <1>7
  <2>2. acts = <<>> \/ Len(acts) < MaxDepth
    BY <2>1 DEF Enter, Enters
  <2>3. PICK r : acts' = Append(acts, r) /\ calls' = calls
    BY <2>1 DEF Enter, Go
  <2>4. Len(acts') = Len(acts) + 1 /\ (acts = <<>> => Len(acts) = 0)
    BY <1>1, <2>3
  <2>5. QED
    BY <1>1, <2>2, <2>3, <2>4
<1>8. CASE Return
  <2>1. calls' = calls /\ (acts' = <<>> \/ (Len(acts) > 1 /\ acts' = SubSeq(acts, 1, Len(acts) - 1)))
    BY <1>8 DEF Return, Go, Finish
  <2>2. CASE acts' = <<>>
    BY <1>4, <2>1, <2>2
  <2>3. CASE Len(acts) > 1 /\ acts' = SubSeq(acts, 1, Len(acts) - 1)
    <3>1. Len(acts') = Len(acts) - 1
      BY <1>1, <2>3
    <3>2. QED
      BY <1>1, <2>1, <3>1
  <2>4. QED
    BY <2>1, <2>2, <2>3
<1>9. QED
  BY <1>2, <1>3, <1>5, <1>6, <1>7, <1>8 DEF Next, Host, Guest

(* Every step keeps the invariant.                                          *)
LEMMA NextIInv == IInv /\ [Next]_vars => IInv'
<1>1. ASSUME IInv, Next PROVE IInv'
  BY <1>1, FuelStep, StackStep, GlobalStep, BalanceStep, AnswerStep, LinkStep, StringStep,
     BoundStep
     DEF IInv
<1>2. ASSUME IInv, UNCHANGED vars PROVE IInv'
  <2>1. UNCHANGED <<limits, registered, phase, fuel, ram, sp, display, acts, pending, result,
                    calls, steps, ended, found, global, owns, sent>>
    BY <1>2 DEF vars, builder, store, history, globals
  <2>2. FuelInv'
    BY <1>2, <2>1 DEF IInv, FuelInv, FuelBounds
  <2>3. StackInv'
    BY <1>2, <2>1, Untouched
  <2>4. GlobalInv' /\ CallsBalanced'
    BY <1>2, <2>1 DEF IInv, GlobalInv, CallsBalanced
  <2>5. AnswerInv' /\ LinkInv' /\ StringInv'
    BY <1>2, <2>1 DEF IInv, AnswerInv, Answer, LinkInv, Links, StringInv
  <2>6. QED
    BY <1>2, <2>1, <2>2, <2>3, <2>4, <2>5 DEF IInv
<1>3. QED
  BY <1>1, <1>2

(* The inductive invariant holds of every instance.                         *)
THEOREM InstanceInvariant == Spec => []IInv
<1>1. QED
  BY InitIInv, NextIInv, PTL DEF Spec

(* Types; $sp stays between $__heap_end and the top of memory, whatever     *)
(* calls were broken off.                                                   *)
THEOREM InstanceTypeCorrect == Spec => []TypeOK
<1>1. IInv => TypeOK
  <2> SUFFICES ASSUME IInv PROVE TypeOK
    OBVIOUS
  <2>1. sent.addr + Len(sent.bytes) < Top
    <3>1. CASE sent = NoString
      BY <3>1, EmbeddingConstants DEF NoString, None
    <3>2. CASE sent # NoString
      BY <3>2 DEF IInv, StringInv
    <3>3. QED
      BY <3>1, <3>2
  <2>2. QED
    BY <2>1 DEF IInv, FuelInv, StackInv, GlobalInv, TypeOK
<1>2. QED
  BY <1>1, InstanceInvariant, PTL

(* Fuel set by with_limits is the instance's: what the guest has used over  *)
(* all calls and what is left make up what was set.                         *)
THEOREM FuelAccount == Spec => []FuelBounds
<1>1. IInv => FuelBounds
  BY DEF IInv, FuelInv
<1>2. QED
  BY <1>1, InstanceInvariant, PTL

(* A call that returns leaves $sp and the display of routines as it found   *)
(* them, also on an instance whose earlier calls trapped in the middle, and *)
(* exported routines leave the variables of a program that has not ended.   *)
THEOREM InstanceStackKept == Spec => []StackKept
<1>1. IInv => StackKept
  BY DEF IInv, GlobalInv, StackKept, GlobalsOwned
<1>2. QED
  BY <1>1, InstanceInvariant, PTL

(* read_string gives back what write_string was given.                      *)
THEOREM StringsArrive == Spec => []RoundTrip
<1>1. IInv => RoundTrip
  <2> SUFFICES ASSUME IInv, sent.addr # None
               PROVE  ReadBytes(sent.addr) = <<"Ok", sent.bytes>>
    BY DEF RoundTrip
  <2>1. /\ sent.addr \in Nat /\ sent.bytes \in Seq(Nat)
        /\ sent.addr + Len(sent.bytes) < Top
        /\ ram[sent.addr] = Len(sent.bytes)
        /\ \A i \in 1 .. Len(sent.bytes) : ram[sent.addr + i] = sent.bytes[i]
    BY DEF IInv, StringInv, NoString
  <2> DEFINE b == [i \in 1 .. ram[sent.addr] |-> ram[sent.addr + i]]
  <2>2. Top \in Nat /\ Len(sent.bytes) \in Nat
    BY <2>1, EmbeddingConstants
  <2>3. sent.bytes = [i \in 1 .. Len(sent.bytes) |-> sent.bytes[i]]
    BY <2>1
  <2>4. b = sent.bytes
    BY <2>1, <2>3
  <2> HIDE DEF b
  <2>5. SubSeq(b, 1, ram[sent.addr]) = sent.bytes
    BY <2>1, <2>2, <2>4
  <2>6. ~(sent.addr >= Top \/ sent.addr + 1 + ram[sent.addr] > Top)
    BY <2>1, <2>2
  <2>7. QED
    BY <2>5, <2>6 DEF ReadBytes, b
<1>2. QED
  BY <1>1, InstanceInvariant, PTL

(* What runs has its imports under their signatures, and what the host is   *)
(* told of a call is how it ended.                                          *)
THEOREM OutcomesTold == Spec => []OutcomeTrue
<1>1. IInv => OutcomeTrue
  <2> SUFFICES ASSUME IInv PROVE OutcomeTrue
    OBVIOUS
  <2>1. phase \in {"host", "guest"} =>
          \A n \in DOMAIN Imports : Known(n) /\ (\A r \in registered : r[1] = n => r[2] = Imports[n])
    <3> SUFFICES ASSUME phase \in {"host", "guest"}, NEW n \in DOMAIN Imports
                 PROVE  Known(n) /\ \A r \in registered : r[1] = n => r[2] = Imports[n]
      OBVIOUS
    <3>1. <<n, Imports[n]>> \in registered
      BY DEF IInv, LinkInv, Links
    <3>2. \A r \in registered : r[1] = n => r = <<n, Imports[n]>>
      BY <3>1 DEF IInv, LinkInv
    <3>3. QED
      BY <3>1, <3>2 DEF Known
  <2>2. ASSUME phase = "host", ended[1] \in {"halt", "returned", "trap"}
        PROVE  CASE ended[1] = "trap" -> result = <<"Trapped">>
                 [] ended[1] = "halt" /\ ended[2] # 0 -> result = <<"Exit", ended[2]>>
                 [] OTHER -> /\ result[1] = "Ok"
                             /\ Len(result) > 1 => result[2] = (IF ended[1] = "halt" THEN 0 ELSE ended[2])
    <3>1. ended \in Ends /\ result = Answer(pending.form, pending.proc, ended)
      BY <2>2 DEF IInv, AnswerInv
    <3>2. CASE ended[1] = "trap"
      <4>1. ended = <<"trap">>
        BY <3>1, <3>2 DEF Ends
      <4>2. QED
        BY <3>1, <4>1 DEF Answer, Classify
    <3>3. CASE ended[1] = "halt"
      <4>1. PICK n \in Statuses : ended = <<"halt", n>>
        BY <3>1, <3>3 DEF Ends
      <4>2. QED
        BY <3>1, <4>1 DEF Answer, Classify
    <3>4. CASE ended[1] = "returned"
      <4>1. PICK v \in Values : ended = <<"returned", v>>
        BY <3>1, <3>4 DEF Ends
      <4>2. QED
        BY <3>1, <4>1 DEF Answer, Classify
    <3>5. QED
      BY <2>2, <3>2, <3>3, <3>4
  <2>3. QED
    BY <2>1, <2>2 DEF OutcomeTrue
<1>2. QED
  BY <1>1, InstanceInvariant, PTL

(***************************************************************************)
(* CompileHost: the areas.                                                 *)
(***************************************************************************)
(* The cells of the first arguments are the sum of theirs, each with its NUL. *)
LEMMA CellsSum ==
  ASSUME NEW v \in Vectors
  PROVE  /\ CellsOf(v) \in [0..Len(v) -> Nat] /\ CellsOf(v)[0] = 0
         /\ \A i \in 1..Len(v) : CellsOf(v)[i] = CellsOf(v)[i - 1] + Len(v[i]) + 1
<1>n. PICK n \in Nat : n = Len(v)
  BY DEF Vectors
<1> DEFINE F == [i \in 1..n |-> [c \in Nat |-> c + Len(v[i]) + 1]]
           Is(f) == f = [i \in 0..n |-> IF i = 0 THEN 0 ELSE f[i - 1] + Len(v[i]) + 1]
           s == CHOOSE f : Is(f)
<1>1. \A i \in 1..n : Len(v[i]) \in Nat
  BY <1>n DEF Vectors
<1>2. PICK g \in [0..n -> Nat] : Iterates(g, 0, F, n)
  <2>1. F \in Steps(n, Nat)
    BY <1>1 DEF Steps
  <2> HIDE DEF F
  <2>2. QED
    BY <1>1, <2>1, Iterated
<1>3. ASSUME NEW i \in 1..n PROVE g[i] = g[i - 1] + Len(v[i]) + 1
  <2>1. g[i - 1] \in Nat
    BY <1>1, <1>2
  <2> HIDE DEF F
  <2>2. g[i] = F[i][g[i - 1]]
    BY <1>2 DEF Iterates
  <2> USE DEF F
  <2>3. QED
    BY <2>1, <2>2
<1>4. Is(g)
  <2>1. g[0] = 0 /\ g = [i \in 0..n |-> g[i]]
    BY <1>1, <1>2 DEF Iterates
  <2>2. \A i \in 0..n : g[i] = IF i = 0 THEN 0 ELSE g[i - 1] + Len(v[i]) + 1
    BY <1>3, <2>1
  <2>3. QED
    BY ONLY <2>1, <2>2
<1>5. CellsOf(v) = s
  BY <1>n DEF CellsOf
<1>6. Is(s)
  <2> HIDE DEF Is
  <2>1. QED
    BY <1>4
<1>7. \A f : Is(f) => f[0] = 0 /\ \A i \in 1..n : f[i] = f[i - 1] + Len(v[i]) + 1
  <2> TAKE f
  <2> HAVE Is(f)
  <2>1. QED
    OBVIOUS
<1>8. s \in [0..n -> Nat]
  <2> HIDE DEF s
  <2> DEFINE T == {i \in 0..n : s[i] \in Nat}
  <2>1. 0 \in T
    BY <1>1, <1>6, <1>7
  <2>2. ASSUME NEW i \in 0..n - 1, i \in T PROVE i + 1 \in T
    <3>1. i + 1 \in 1..n /\ (i + 1) - 1 = i
      BY <1>1
    <3>2. s[i + 1] = s[i] + Len(v[i + 1]) + 1
      BY <1>6, <1>7, <3>1
    <3>3. QED
      BY <1>1, <2>2, <3>1, <3>2
  <2>3. 0..n \subseteq T
    <3> HIDE DEF T
    <3>1. QED
      BY <2>1, <2>2, CountUp
  <2>4. \A i \in 0..n : s[i] \in Nat
    BY <2>3
  <2>5. DOMAIN s = 0..n /\ s = [i \in 0..n |-> s[i]]
    BY <1>6
  <2>6. QED
    BY <2>4, <2>5
<1>9. QED
  <2>1. s[0] = 0 /\ \A i \in 1..n : s[i] = s[i - 1] + Len(v[i]) + 1
    <3> HIDE DEF s, Is
    <3>1. QED
      BY <1>6, <1>7
  <2> HIDE DEF s
  <2>2. QED
    BY ONLY <1>n, <1>5, <1>8, <2>1

(* They grow with every argument.                                           *)
LEMMA CellsGrow ==
  ASSUME NEW v \in Vectors, NEW i \in 0..Len(v), NEW j \in 0..Len(v), i <= j
  PROVE  CellsOf(v)[i] <= CellsOf(v)[j]
<1> DEFINE n == Len(v)
           T == {k \in 0..n : i <= k => CellsOf(v)[i] <= CellsOf(v)[k]}
<1>0. n \in Nat /\ \A k \in 1..n : Len(v[k]) \in Nat
  BY DEF Vectors
<1>1. PICK s \in [0..n -> Nat] : s = CellsOf(v)
  BY CellsSum
<1>2. \A k \in 1..n : s[k] = s[k - 1] + Len(v[k]) + 1
  BY <1>1, CellsSum
<1>3. 0 \in T
  BY <1>0, <1>1
<1>4. ASSUME NEW k \in 0..n - 1, k \in T PROVE k + 1 \in T
  <2>1. k + 1 \in 1..n /\ k + 1 \in 0..n /\ (k + 1) - 1 = k
    BY <1>0
  <2>2. s[k + 1] = s[k] + Len(v[k + 1]) + 1 /\ Len(v[k + 1]) \in Nat
    BY <1>0, <1>2, <2>1
  <2>3. i <= k => s[i] <= s[k]
    BY <1>1, <1>4
  <2>4. s[i] \in Nat /\ s[k] \in Nat
    BY <1>1, <2>1
  <2>5. i <= k + 1 => s[i] <= s[k + 1]
    BY <2>1, <2>2, <2>3, <2>4
  <2>6. QED
    BY <1>1, <2>1, <2>5
<1>5. 0..n \subseteq T
  <2> HIDE DEF T, n
  <2>1. QED
    BY <1>0, <1>3, <1>4, CountUp
<1>6. QED
  BY <1>5

(* strlen finds the first NUL.                                              *)
LEMMA StrLenFound ==
  ASSUME area \in Areas, NEW addr \in Nat, AreaEnd \in Nat
  PROVE  /\ StrLen(addr) \in 0..AreaEnd /\ EndsAt(addr, StrLen(addr))
         /\ \A k \in 0..(StrLen(addr) - 1) : ~EndsAt(addr, k)
<1> DEFINE T == {n \in Nat : EndsAt(addr, n)}
<1>1. AreaEnd \in T
  BY DEF EndsAt
<1>2. PICK n \in T : \A m \in T : n <= m
  BY <1>1, Least
<1>3. n \in 0..AreaEnd /\ EndsAt(addr, n) /\ \A k \in 0..(n - 1) : ~EndsAt(addr, k)
  BY <1>1, <1>2
<1>4. QED
  <2> HIDE DEF T
  <2> USE DEF StrLen
  <2>1. QED
    BY <1>3

(* Where things are.                                                        *)
LEMMA Sizes ==
  /\ MaxArgs \in Nat \ {0} /\ ArgBufCap \in Nat \ {0} /\ SlotSize \in Nat \ {0}
  /\ addrArgBuf = MaxArgs /\ addrArgSlots = MaxArgs + ArgBufCap
  /\ AreaEnd \in Nat /\ AreaEnd = Slot(MaxArgs)
BY SizesAssumption DEF addrArgBuf, addrArgSlots, AreaEnd, Slot

(* A slot ends before the next begins.                                      *)
LEMMA SlotsApart ==
  ASSUME NEW i \in Nat, NEW j \in Nat, i < j
  PROVE  Slot(i) \in Nat /\ Slot(j) \in Nat /\ addrArgSlots <= Slot(i) /\ Slot(i) + SlotSize <= Slot(j)
<1>1. PICK w \in Nat \ {0} : w = SlotSize
  BY Sizes
<1>2. PICK d \in Nat : j = i + 1 + d
  <2>1. j - i - 1 \in Nat /\ j = i + 1 + (j - i - 1)
    OBVIOUS
  <2>2. QED
    BY <2>1
<1>3. j * w = i * w + w + d * w
  BY <1>2
<1>4. i * w \in Nat /\ d * w \in Nat
  OBVIOUS
<1>5. addrArgSlots \in Nat
  BY Sizes
<1>6. QED
  BY <1>1, <1>3, <1>4, <1>5 DEF Slot

(* What Poke writes, and what it leaves.                                    *)
LEMMA Poked ==
  ASSUME NEW m \in Areas, NEW addr \in Nat, NEW cells \in Seq(Nat)
  PROVE  /\ Poke(m, addr, cells) \in Areas
         /\ \A a \in 0..(AreaEnd - 1) :
              Poke(m, addr, cells)[a] =
                IF addr <= a /\ a < addr + Len(cells) THEN cells[a - addr + 1] ELSE m[a]
<1>1. PICK n \in Nat : n = Len(cells)
  OBVIOUS
<1>2. DOMAIN m = 0..(AreaEnd - 1)
  BY DEF Areas
<1>3. AreaEnd \in Nat
  BY Sizes
<1>4. ASSUME NEW a \in 0..(AreaEnd - 1)
      PROVE  /\ a \in addr..(addr + n - 1) <=> addr <= a /\ a < addr + n
             /\ a \in addr..(addr + n - 1) => cells[a - addr + 1] \in Nat
             /\ m[a] \in Nat
  <2>1. a \in Nat /\ m[a] \in Nat
    BY <1>3 DEF Areas
  <2>2. a \in addr..(addr + n - 1) <=> addr <= a /\ a < addr + n
    BY <1>1, <2>1
  <2>3. ASSUME addr <= a, a < addr + n PROVE cells[a - addr + 1] \in Nat
    <3>1. a - addr + 1 \in 1..n
      BY <1>1, <2>1, <2>3
    <3>2. QED
      BY <1>1, <3>1
  <2>4. QED
    BY <2>1, <2>2, <2>3
<1>5. Poke(m, addr, cells) =
        [a \in 0..(AreaEnd - 1) |-> IF a \in addr..(addr + n - 1) THEN cells[a - addr + 1] ELSE m[a]]
  BY <1>1, <1>2 DEF Poke
<1>6. QED
  BY ONLY <1>1, <1>4, <1>5 DEF Areas

-----------------------------------------------------------------------------
(* What args_get writes with one argument.                                  *)
LEMMA PutDoes ==
  ASSUME AreaTypes, PutArg
  PROVE  /\ AreaTypes' /\ step' = step + 1 /\ args' = args
         /\ bufAt' = bufAt + Len(args[step + 1]) + 1 /\ args[step + 1] \in Seq(Nat)
         /\ \A a \in 0..(AreaEnd - 1) :
              area'[a] = IF bufAt <= a /\ a < bufAt + Len(args[step + 1]) THEN args[step + 1][a - bufAt + 1]
                         ELSE IF a = bufAt + Len(args[step + 1]) THEN Nul
                         ELSE IF a = step THEN Pointer(bufAt) ELSE area[a]
<1>1. PICK s \in Seq(Nat) : s = args[step + 1]
  <2>1. step + 1 \in 1..Len(args)
    BY DEF AreaTypes, PutArg, Vectors
  <2>2. QED
    BY <2>1 DEF AreaTypes, Vectors
<1>2. PICK n \in Nat : n = Len(s)
  OBVIOUS
<1> PICK c : c = CString(s)
  OBVIOUS
<1> PICK p : p = <<Pointer(bufAt)>>
  OBVIOUS
<1>3. c \in Seq(Nat) /\ Len(c) = n + 1 /\ c[n + 1] = Nul /\ \A k \in 1..n : c[k] = s[k]
  <2>1. Nul \in Nat /\ c = Append(s, Nul)
    BY DEF Nul, CString
  <2>2. QED
    BY <1>2, <2>1, AppendProperties
<1>4. p \in Seq(Nat) /\ Len(p) = 1 /\ p[1] = Pointer(bufAt)
  <2>1. Pointer(bufAt) \in Nat
    BY DEF Pointer, AreaTypes
  <2>2. QED
    BY <2>1
<1>5. PICK m \in Areas :
        /\ m = Poke(area, addrArgv + step, p)
        /\ \A a \in 0..(AreaEnd - 1) : m[a] = IF a = step THEN Pointer(bufAt) ELSE area[a]
  <2>1. addrArgv + step \in Nat /\ addrArgv + step = step /\ step \in Nat
    BY DEF AreaTypes, addrArgv
  <2>2. Poke(area, step, p) \in Areas
    BY <1>4, <2>1, Poked DEF AreaTypes
  <2>3. ASSUME NEW a \in 0..(AreaEnd - 1)
        PROVE  Poke(area, step, p)[a] = IF a = step THEN Pointer(bufAt) ELSE area[a]
    <3>0. \A b \in 0..(AreaEnd - 1) :
            Poke(area, step, p)[b] = IF step <= b /\ b < step + Len(p) THEN p[b - step + 1] ELSE area[b]
      BY <1>4, <2>1, Poked DEF AreaTypes
    <3>1. Poke(area, step, p)[a] = IF step <= a /\ a < step + 1 THEN p[a - step + 1] ELSE area[a]
      BY ONLY <1>4, <3>0
    <3>2. a \in Nat /\ (step <= a /\ a < step + 1 <=> a = step)
      BY <2>1, Sizes
    <3>3. a = step => a - step + 1 = 1
      BY <3>2, <2>1
    <3>4. QED
      BY <1>4, <3>1, <3>2, <3>3
  <2>4. QED
    BY <2>1, <2>2, <2>3
<1>6. area' = Poke(m, bufAt, c) /\ bufAt' = bufAt + n + 1 /\ step' = step + 1 /\ args' = args
  BY <1>1, <1>2, <1>3, <1>4, <1>5 DEF PutArg, AreaTypes
<1>7. area' \in Areas
  BY <1>3, <1>6, Poked DEF AreaTypes
<1>8. ASSUME NEW a \in 0..(AreaEnd - 1)
      PROVE  area'[a] = IF bufAt <= a /\ a < bufAt + n THEN s[a - bufAt + 1]
                        ELSE IF a = bufAt + n THEN Nul
                        ELSE IF a = step THEN Pointer(bufAt) ELSE area[a]
  <2>0. \A b \in 0..(AreaEnd - 1) :
          Poke(m, bufAt, c)[b] = IF bufAt <= b /\ b < bufAt + Len(c) THEN c[b - bufAt + 1] ELSE m[b]
    BY <1>3, Poked DEF AreaTypes
  <2>1. area'[a] = IF bufAt <= a /\ a < bufAt + (n + 1) THEN c[a - bufAt + 1] ELSE m[a]
    BY ONLY <1>3, <1>6, <2>0
  <2>2. a \in Nat /\ bufAt \in Nat
    BY Sizes DEF AreaTypes
  <2>3. CASE bufAt <= a /\ a < bufAt + n
    <3>1. a - bufAt + 1 \in 1..n
      BY <2>2, <2>3
    <3>2. QED
      BY <1>3, <2>1, <2>2, <2>3, <3>1
  <2>4. CASE a = bufAt + n
    <3>1. a - bufAt + 1 = n + 1 /\ bufAt <= a /\ a < bufAt + (n + 1) /\ ~(a < bufAt + n)
      BY <2>2, <2>4
    <3>2. QED
      BY <1>3, <2>1, <2>4, <3>1
  <2>5. CASE a < bufAt \/ a > bufAt + n
    <3>1. ~(bufAt <= a /\ a < bufAt + (n + 1)) /\ ~(bufAt <= a /\ a < bufAt + n) /\ a # bufAt + n
      BY <2>2, <2>5
    <3>2. QED
      BY <1>5, <2>1, <3>1
  <2>6. QED
    BY <2>2, <2>3, <2>4, <2>5
<1>9. AreaTypes'
  <2>1. bufAt' \in Nat /\ addrArgBuf <= bufAt' /\ step' \in Nat
    BY <1>6, Sizes DEF AreaTypes
  <2>2. QED
    BY <1>6, <1>7, <2>1 DEF AreaTypes, addrArgBuf, Areas, AreaEnd, addrArgSlots
<1>10. QED
  BY <1>1, <1>2, <1>6, <1>8, <1>9

(* A turn of args_get keeps every pointer before it: what it writes behind  *)
(* them is its string.                                                      *)
LEMMA PutPoints ==
  ASSUME AreaTypes, PutArg, Pointers(step)
  PROVE  Pointers(step)'
<1> SUFFICES ASSUME NEW i \in 0..(MaxArgs - 1), i < step' PROVE area'[i] >= 100
  BY DEF Pointers
<1>1. MaxArgs \in Nat /\ i \in Nat /\ step \in Nat /\ bufAt \in Nat /\ MaxArgs <= bufAt
  BY Sizes DEF AreaTypes
<1>2. i \in 0..(AreaEnd - 1)
  <2>1. MaxArgs <= AreaEnd /\ AreaEnd \in Nat
    <3>1. 0 < MaxArgs
      BY Sizes
    <3>2. addrArgSlots <= Slot(0) /\ Slot(0) + SlotSize <= Slot(MaxArgs) /\ Slot(0) \in Nat
      BY <1>1, <3>1, SlotsApart
    <3>3. QED
      BY <3>2, Sizes
  <2>2. QED
    BY <1>1, <2>1
<1>3. area'[i] = IF i = step THEN Pointer(bufAt) ELSE area[i]
  <2>1. i < bufAt /\ Len(args[step + 1]) \in Nat
    BY <1>1, PutDoes
  <2>2. ~(bufAt <= i) /\ i # bufAt + Len(args[step + 1])
    BY <1>1, <2>1
  <2>3. QED
    BY <1>2, <2>2, PutDoes
<1>4. i = step \/ i < step
  BY <1>1, PutDoes
<1>5. QED
  BY <1>1, <1>3, <1>4 DEF Pointer, Pointers

(* What the start-up loop writes with one argument: into its slot.          *)
LEMMA CopyDoes ==
  ASSUME AreaTypes, NEW i \in 0..(MaxArgs - 1), area[i] >= 100, CopyArg(i)
  PROVE  /\ area' \in Areas /\ UNCHANGED <<args, bufAt>>
         /\ CopyLen(area[i] - 100) \in 0..(SlotSize - 1)
         /\ \A a \in 0..(AreaEnd - 1) :
              area'[a] = IF Slot(i) < a /\ a <= Slot(i) + CopyLen(area[i] - 100)
                           THEN IF area[i] - 100 + (a - Slot(i)) - 1 = Slot(i) THEN CopyLen(area[i] - 100)
                                ELSE area[area[i] - 100 + (a - Slot(i)) - 1]
                         ELSE IF a = Slot(i) THEN CopyLen(area[i] - 100) ELSE area[a]
<1>0. /\ MaxArgs \in Nat \ {0} /\ SlotSize \in Nat \ {0} /\ AreaEnd \in Nat /\ addrArgSlots \in Nat
      /\ i \in Nat /\ i < MaxArgs /\ MaxArgs <= addrArgSlots
  BY Sizes
<1>1. PICK at \in Nat : at = Slot(i) /\ addrArgSlots <= at /\ at + SlotSize <= AreaEnd
  BY <1>0, SlotsApart, Sizes
<1>2. i \in 0..(AreaEnd - 1)
  BY <1>0, <1>1
<1>3. PICK str \in Nat : str = area[i] - 100
  <2>1. area[i] \in Nat
    BY <1>2 DEF AreaTypes, Areas
  <2>2. QED
    BY <2>1
<1>4. PICK len \in 0..(SlotSize - 1) :
        len = CopyLen(str) /\ \A k \in 0..(len - 1) : str + k \in 0..(AreaEnd - 1)
  <2>1. PICK n \in Nat : n = StrLen(str) /\ \A k \in 0..(n - 1) : ~EndsAt(str, k)
    BY <1>0, StrLenFound DEF AreaTypes
  <2>2. PICK l : l = CopyLen(str)
    OBVIOUS
  <2>3. l \in 0..(SlotSize - 1) /\ l <= n
    BY <1>0, <2>1, <2>2 DEF CopyLen
  <2>4. ASSUME NEW k \in 0..(l - 1) PROVE str + k \in 0..(AreaEnd - 1)
    <3>1. k \in 0..(n - 1) /\ k \in Nat
      BY <2>1, <2>3, <1>0
    <3>2. ~(str + k >= AreaEnd)
      BY <2>1, <3>1 DEF EndsAt
    <3>3. QED
      BY <1>0, <3>1, <3>2
  <2>5. QED
    BY <2>2, <2>3, <2>4
<1>5. len \in Nat
  BY <1>0
<1> PICK c : c = <<len>>
  OBVIOUS
<1>6. c \in Seq(Nat) /\ Len(c) = 1 /\ c[1] = len
  BY <1>5
<1>7. PICK m \in Areas :
        /\ m = Poke(area, at, c)
        /\ \A a \in 0..(AreaEnd - 1) : m[a] = IF a = at THEN len ELSE area[a]
  <2>1. Poke(area, at, c) \in Areas
    BY <1>6, Poked DEF AreaTypes
  <2>2. \A b \in 0..(AreaEnd - 1) :
          Poke(area, at, c)[b] = IF at <= b /\ b < at + Len(c) THEN c[b - at + 1] ELSE area[b]
    BY <1>6, Poked DEF AreaTypes
  <2>3. ASSUME NEW a \in 0..(AreaEnd - 1)
        PROVE  Poke(area, at, c)[a] = IF a = at THEN len ELSE area[a]
    <3>1. Poke(area, at, c)[a] = IF at <= a /\ a < at + 1 THEN c[a - at + 1] ELSE area[a]
      BY ONLY <1>6, <2>2
    <3>2. a \in Nat /\ (at <= a /\ a < at + 1 <=> a = at)
      BY <1>0
    <3>3. a = at => a - at + 1 = 1
      OBVIOUS
    <3>4. QED
      BY <1>6, <3>1, <3>2, <3>3
  <2>4. QED
    BY <2>1, <2>3
<1> PICK s : s = [k \in 1..len |-> m[str + k - 1]]
  OBVIOUS
<1>8. s \in Seq(Nat) /\ Len(s) = len /\ \A k \in 1..len : s[k] = m[str + k - 1]
  <2>1. ASSUME NEW k \in 1..len PROVE m[str + k - 1] \in Nat
    <3>1. k - 1 \in 0..(len - 1) /\ str + k - 1 = str + (k - 1)
      BY <1>5
    <3>2. str + k - 1 \in 0..(AreaEnd - 1)
      BY <1>4, <3>1
    <3>3. QED
      BY <1>7, <3>2 DEF Areas
  <2>2. QED
    BY <1>5, <2>1
<1>9. area' = Poke(m, at + 1, s) /\ UNCHANGED <<args, bufAt>>
  <2>1. area[addrArgv + i] - 100 = str /\ CopyLen(str) = len
    BY <1>0, <1>3, <1>4 DEF addrArgv
  <2>2. QED
    BY <1>1, <1>7, <2>1 DEF CopyArg
<1>a. PICK q \in Nat : q = at + 1
  OBVIOUS
<1>b. /\ Poke(m, q, s) \in Areas
      /\ \A b \in 0..(AreaEnd - 1) :
           Poke(m, q, s)[b] = IF q <= b /\ b < q + Len(s) THEN s[b - q + 1] ELSE m[b]
  BY <1>8, Poked
<1>10. area' \in Areas
  BY ONLY <1>9, <1>a, <1>b
<1>11. \A b \in 0..(AreaEnd - 1) :
         Poke(m, at + 1, s)[b] = IF at + 1 <= b /\ b < at + 1 + Len(s) THEN s[b - (at + 1) + 1] ELSE m[b]
  BY ONLY <1>a, <1>b
<1>12. ASSUME NEW a \in 0..(AreaEnd - 1)
       PROVE  area'[a] = IF at < a /\ a <= at + len
                           THEN IF str + (a - at) - 1 = at THEN len ELSE area[str + (a - at) - 1]
                         ELSE IF a = at THEN len ELSE area[a]
  <2>0. a \in Nat
    BY <1>0
  <2>1. CASE at < a /\ a <= at + len
    <3>1. PICK k \in 1..len : k = a - at
      BY <1>5, <2>0, <2>1
    <3>2. at + 1 <= a /\ a < at + 1 + len /\ a - (at + 1) + 1 = k
      BY <1>5, <2>0, <2>1, <3>1
    <3>3. area'[a] = s[k]
      BY ONLY <1>8, <1>9, <1>11, <1>12, <3>2
    <3>4. str + k - 1 \in 0..(AreaEnd - 1)
      <4>1. k - 1 \in 0..(len - 1) /\ str + k - 1 = str + (k - 1)
        BY <1>5
      <4>2. QED
        BY <1>4, <4>1
    <3>5. s[k] = m[str + k - 1]
      BY <1>8
    <3>6. m[str + k - 1] = IF str + k - 1 = at THEN len ELSE area[str + k - 1]
      BY <1>7, <3>4
    <3>7. QED
      BY <2>1, <3>1, <3>3, <3>5, <3>6
  <2>2. CASE ~(at < a /\ a <= at + len)
    <3>1. ~(at + 1 <= a /\ a < at + 1 + len)
      BY <1>5, <2>0, <2>2
    <3>2. area'[a] = m[a]
      BY ONLY <1>8, <1>9, <1>11, <1>12, <3>1
    <3>3. QED
      BY <1>7, <2>2, <3>2
  <2>3. QED
    BY <2>1, <2>2
<1>13. QED
  BY ONLY <1>1, <1>3, <1>4, <1>9, <1>10, <1>12

(* It leaves everything before the slots and every other slot alone.        *)
LEMMA CopyStays ==
  ASSUME AreaTypes, NEW i \in 0..(MaxArgs - 1), area[i] >= 100, CopyArg(i),
         NEW a \in 0..(AreaEnd - 1), a < Slot(i) \/ Slot(i) + SlotSize <= a
  PROVE  area'[a] = area[a]
<1>1. PICK len \in 0..(SlotSize - 1) : len = CopyLen(area[i] - 100)
  BY CopyDoes
<1>2. Slot(i) \in Nat /\ SlotSize \in Nat /\ a \in Nat /\ len \in Nat
  BY SlotsApart, Sizes
<1>3. ~(Slot(i) < a /\ a <= Slot(i) + len) /\ a # Slot(i)
  <2> PICK at \in Nat : at = Slot(i)
    BY <1>2
  <2>1. QED
    BY <1>1, <1>2, Sizes
<1>4. QED
  BY <1>1, <1>3, CopyDoes

(* Where a slot is.                                                         *)
LEMMA SlotIn ==
  ASSUME NEW i \in 0..(MaxArgs - 1)
  PROVE  /\ i \in Nat /\ i \in 0..(AreaEnd - 1) /\ Slot(i) \in 0..(AreaEnd - 1)
         /\ i < Slot(i) /\ addrArgSlots <= Slot(i) /\ Slot(i) + SlotSize <= AreaEnd
         /\ MaxArgs <= addrArgSlots /\ addrArgSlots < AreaEnd
<1>1. MaxArgs \in Nat \ {0} /\ i \in Nat /\ i < MaxArgs /\ SlotSize \in Nat \ {0} /\ ArgBufCap \in Nat \ {0}
  BY Sizes
<1>2. Slot(i) \in Nat /\ addrArgSlots <= Slot(i) /\ Slot(i) + SlotSize <= Slot(MaxArgs)
  BY <1>1, SlotsApart
<1>3. QED
  BY <1>1, <1>2, Sizes

(* A turn of the copy loop: no slot is given a length it has no room for,   *)
(* and no pointer is written over.                                          *)
LEMMA CopyMeasures ==
  ASSUME AreaTypes, step \in 0..(MaxArgs - 1), area[step] >= 100, CopyArg(step), step' = step + 1,
         Measured(step)
  PROVE  AreaTypes' /\ Measured(step)' /\ \A j \in 0..(MaxArgs - 1) : area'[j] = area[j]
<1>1. AreaTypes'
  <2>1. step' \in Nat
    BY Sizes
  <2>2. QED
    BY <2>1, CopyDoes DEF AreaTypes, addrArgBuf, Areas, AreaEnd, addrArgSlots
<1>2. ASSUME NEW j \in 0..(MaxArgs - 1) PROVE area'[j] = area[j]
  <2>1. j < Slot(step) /\ j \in 0..(AreaEnd - 1)
    <3>1. j \in 0..(AreaEnd - 1) /\ j < MaxArgs /\ MaxArgs <= addrArgSlots /\ addrArgSlots \in Nat /\ j \in Nat
      BY SlotIn, Sizes
    <3>2. addrArgSlots <= Slot(step) /\ Slot(step) \in Nat
      BY SlotIn, Sizes
    <3>3. QED
      BY <3>1, <3>2, Sizes
  <2>2. QED
    BY <2>1, CopyStays
<1>3. ASSUME NEW j \in 0..(step' - 1) PROVE area'[Slot(j)] < SlotSize
  <2>0. step \in Nat /\ j \in Nat /\ j \in 0..(MaxArgs - 1) /\ (j < step \/ j = step)
    BY Sizes
  <2>1. CASE j = step
    <3>1. PICK len \in 0..(SlotSize - 1) : len = CopyLen(area[step] - 100)
      BY CopyDoes
    <3>2. Slot(step) \in 0..(AreaEnd - 1) /\ ~(Slot(step) < Slot(step))
      BY SlotIn, Sizes
    <3>3. area'[Slot(step)] = len
      BY <3>1, <3>2, CopyDoes
    <3>4. QED
      BY <2>1, <3>1, <3>3, Sizes
  <2>2. CASE j < step
    <3>1. Slot(j) + SlotSize <= Slot(step) /\ Slot(j) \in Nat /\ Slot(step) \in Nat
      BY <2>0, <2>2, SlotsApart
    <3>2. Slot(j) < Slot(step) /\ Slot(j) \in 0..(AreaEnd - 1)
      BY <2>0, <3>1, SlotIn, Sizes
    <3>3. area'[Slot(j)] = area[Slot(j)]
      BY <3>2, CopyStays
    <3>4. j \in 0..(step - 1)
      BY <2>0, <2>2
    <3>5. QED
      BY <3>3, <3>4 DEF Measured
  <2>3. QED
    BY <2>0, <2>1, <2>2
<1>4. Measured(step)'
  BY <1>3 DEF Measured, Slot, addrArgSlots
<1>5. QED
  BY <1>1, <1>2, <1>4

-----------------------------------------------------------------------------
(* A vector that fits: args_get lays its strings one behind the other, and  *)
(* the start-up loop finds each whole.                                      *)
NoNul == \A i \in DOMAIN args : Nul \notin ToSet(args[i])

(* Where an argument of a vector that fits stands among the others.         *)
LEMMA Place ==
  ASSUME args \in Vectors, FitsAreas(args), NEW i \in 0..(Len(args) - 1)
  PROVE  /\ i \in 0..(MaxArgs - 1) /\ i + 1 \in 1..Len(args) /\ args[i + 1] \in Seq(Nat)
         /\ Len(args[i + 1]) \in Nat /\ Len(args[i + 1]) < SlotSize
         /\ StringAt(i) \in Nat /\ addrArgBuf <= StringAt(i) /\ StringAt(i) + Len(args[i + 1]) < addrArgSlots
         /\ StringAt(i + 1) = StringAt(i) + Len(args[i + 1]) + 1
         /\ \A j \in i + 1..Len(args) : StringAt(i) + Len(args[i + 1]) < StringAt(j)
<1>1. PICK n \in Nat : n = Len(args) /\ n <= MaxArgs
  BY DEF Vectors, FitsAreas
<1>2. i \in 0..(MaxArgs - 1) /\ i + 1 \in 1..n /\ i \in Nat
  BY <1>1, Sizes
<1>3. args[i + 1] \in Seq(Nat) /\ Len(args[i + 1]) < SlotSize
  <2>1. DOMAIN args = 1..n /\ \A k \in 1..n : args[k] \in Seq(Nat)
    BY <1>1 DEF Vectors
  <2>2. QED
    BY <1>2, <2>1 DEF FitsAreas
<1>4. PICK G \in [0..n -> Nat] : G = CellsOf(args)
  BY <1>1, CellsSum
<1>5. PICK m \in Nat : m = Len(args[i + 1])
  BY <1>3
<1>6. G[i + 1] = G[i] + m + 1 /\ G[i] \in Nat /\ G[i + 1] \in Nat
  <2>1. \A k \in 1..n : G[k] = G[k - 1] + Len(args[k]) + 1
    BY <1>1, <1>4, CellsSum
  <2>2. (i + 1) - 1 = i /\ i \in 0..n /\ i + 1 \in 0..n
    BY <1>2
  <2>3. QED
    BY <1>2, <1>4, <1>5, <2>1, <2>2
<1>7. ASSUME NEW j \in i + 1..n PROVE G[i] + m < G[j] /\ G[j] \in Nat
  <2>1. j \in 0..n /\ i + 1 \in 0..n /\ i + 1 <= j
    BY <1>2
  <2>2. G[i + 1] <= G[j]
    BY <1>1, <1>4, <2>1, CellsGrow
  <2>3. G[j] \in Nat
    BY <2>1
  <2>4. QED
    BY <1>6, <2>2, <2>3
<1>8. G[n] <= ArgBufCap
  BY <1>1, <1>4 DEF FitsAreas
<1>9. PICK b \in Nat : b = addrArgBuf /\ addrArgSlots = b + ArgBufCap
  BY Sizes
<1>10. StringAt(i) = b + G[i] /\ StringAt(i + 1) = b + G[i + 1] /\ \A j \in i + 1..n : StringAt(j) = b + G[j]
  BY <1>4, <1>9 DEF StringAt
<1>11. b + G[i] + m < b + ArgBufCap
  <2>1. n \in i + 1..n
    BY <1>2
  <2>2. G[i] + m < G[n] /\ G[n] \in Nat
    BY <1>7, <2>1
  <2>3. \A x, y \in Nat : x + m < y /\ y <= ArgBufCap => b + x + m < b + ArgBufCap
    BY Sizes
  <2>4. QED
    BY ONLY <1>6, <1>8, <2>2, <2>3
<1>12. \A j \in i + 1..n : b + G[i] + m < b + G[j]
  <2>1. \A x, y \in Nat : x + m < y => b + x + m < b + y
    OBVIOUS
  <2>2. QED
    BY ONLY <1>6, <1>7, <2>1
<1>13. b + G[i + 1] = b + G[i] + m + 1 /\ b <= b + G[i] /\ b + G[i] \in Nat
  <2>1. \A x, y \in Nat : y = x + m + 1 => b + y = b + x + m + 1 /\ b <= b + x /\ b + x \in Nat
    OBVIOUS
  <2>2. QED
    BY ONLY <1>6, <2>1
<1>14. QED
  BY ONLY <1>1, <1>2, <1>3, <1>5, <1>9, <1>10, <1>11, <1>12, <1>13

(* A turn of args_get lays its argument and leaves those before it.         *)
LEMMA PutLays ==
  ASSUME AreaTypes, FitsAreas(args), PutArg, Laid(step), bufAt = StringAt(step)
  PROVE  Laid(step)' /\ bufAt' = StringAt(step)'
<1>1. /\ step \in 0..(Len(args) - 1) /\ step' = step + 1 /\ args' = args /\ Len(args) \in Nat
      /\ args \in Vectors
  BY PutDoes DEF PutArg, AreaTypes, Vectors
<1>2. PICK n \in Nat : n = Len(args[step + 1]) /\ bufAt + n < addrArgSlots /\ StringAt(step + 1) = bufAt + n + 1
  BY <1>1, Place
<1>3. bufAt \in Nat /\ MaxArgs <= bufAt /\ MaxArgs \in Nat /\ addrArgSlots \in Nat
      /\ addrArgSlots < AreaEnd /\ AreaEnd \in Nat /\ step < MaxArgs /\ step \in Nat
  <2>1. step \in 0..(MaxArgs - 1)
    BY <1>1, Place
  <2>2. QED
    BY <2>1, SlotIn, Sizes DEF AreaTypes
<1>4. \A j : StringAt(j)' = StringAt(j)
  BY <1>1 DEF StringAt, addrArgBuf
<1>5. bufAt' = StringAt(step)'
  BY <1>1, <1>2, <1>4, PutDoes
<1>6. ASSUME NEW a \in 0..(AreaEnd - 1)
      PROVE  area'[a] = IF bufAt <= a /\ a < bufAt + n THEN args[step + 1][a - bufAt + 1]
                        ELSE IF a = bufAt + n THEN Nul
                        ELSE IF a = step THEN Pointer(bufAt) ELSE area[a]
  BY <1>2, PutDoes
<1>7. ASSUME NEW i \in 0..(step' - 1) PROVE LaidArg(i)'
  <2>0. i \in Nat /\ (i < step \/ i = step) /\ i \in 0..(Len(args) - 1)
    BY <1>1, <1>3
  <2>1. CASE i = step
    <3>1. area'[i] = Pointer(bufAt)
      <4>1. i \in 0..(AreaEnd - 1) /\ ~(bufAt <= i) /\ i # bufAt + n
        BY ONLY <1>2, <1>3, <2>0, <2>1
      <4>2. QED
        BY <1>6, <2>1, <4>1
    <3>2. ASSUME NEW k \in Nat, k < n PROVE area'[bufAt + k] = args[i + 1][k + 1]
      <4>1. bufAt + k \in 0..(AreaEnd - 1) /\ bufAt <= bufAt + k /\ bufAt + k < bufAt + n
            /\ (bufAt + k) - bufAt + 1 = k + 1
        BY ONLY <1>2, <1>3, <3>2
      <4>2. QED
        BY <1>6, <2>1, <4>1
    <3>3. area'[bufAt + n] = Nul
      <4>1. bufAt + n \in 0..(AreaEnd - 1) /\ ~(bufAt + n < bufAt + n)
        BY <1>2, <1>3
      <4>2. QED
        BY <1>6, <4>1
    <3>4. \A k \in 0..(n - 1) : area'[bufAt + k] = args[i + 1][k + 1]
      BY <1>2, <3>2
    <3>5. QED
      BY <1>1, <1>2, <1>4, <2>1, <3>1, <3>3, <3>4 DEF LaidArg, Pointer
  <2>2. CASE i < step
    <3>1. PICK m \in Nat : m = Len(args[i + 1])
      BY <1>1, <2>0, Place
    <3>2. PICK b \in Nat : b = StringAt(i) /\ addrArgBuf <= b /\ b + m < bufAt
      <4>1. step \in i + 1..Len(args)
        BY <1>1, <2>0, <2>2
      <4>2. StringAt(i) \in Nat /\ addrArgBuf <= StringAt(i) /\ StringAt(i) + m < StringAt(step)
        BY <1>1, <2>0, <3>1, <4>1, Place
      <4>3. QED
        BY <4>2
    <3>3. LaidArg(i)
      BY <2>0, <2>2, <1>3 DEF Laid
    <3>4. ASSUME NEW a \in 0..(AreaEnd - 1), a < bufAt, a # step PROVE area'[a] = area[a]
      <4>1. ~(bufAt <= a) /\ a # bufAt + n
        BY <1>2, <1>3, <3>4
      <4>2. QED
        BY <1>6, <3>4, <4>1
    <3>5. area'[i] = area[i]
      <4>1. i \in 0..(AreaEnd - 1) /\ i < bufAt /\ i # step
        BY <1>2, <1>3, <2>0, <2>2
      <4>2. QED
        BY <3>4, <4>1
    <3>6. ASSUME NEW k \in Nat, k <= m PROVE area'[b + k] = area[b + k]
      <4>0. MaxArgs <= b
        BY <3>2, Sizes
      <4>1. b + k \in 0..(AreaEnd - 1) /\ b + k < bufAt /\ b + k # step
        BY ONLY <1>2, <1>3, <3>2, <3>6, <4>0
      <4>2. QED
        BY <3>4, <4>1
    <3>7. area'[b + m] = area[b + m] /\ \A k \in 0..(m - 1) : area'[b + k] = area[b + k]
      BY <3>6
    <3>8. QED
      BY <1>1, <1>4, <3>1, <3>2, <3>3, <3>5, <3>7 DEF LaidArg, Pointer
  <2>3. QED
    BY <2>0, <2>1, <2>2
<1>8. Laid(step)'
  BY <1>7 DEF Laid
<1>9. QED
  BY <1>5, <1>8

(* The start-up code measures an argument up to its own NUL.                *)
LEMMA StrLenWhole ==
  ASSUME AreaTypes, FitsAreas(args), NoNul, NEW i \in 0..(Len(args) - 1), LaidArg(i)
  PROVE  area[i] - 100 = StringAt(i) /\ CopyLen(StringAt(i)) = Len(args[i + 1])
<1>1. /\ i + 1 \in 1..Len(args) /\ args[i + 1] \in Seq(Nat) /\ args \in Vectors
      /\ StringAt(i) + Len(args[i + 1]) < addrArgSlots
      /\ Len(args[i + 1]) < SlotSize /\ i \in 0..(MaxArgs - 1)
  BY Place DEF AreaTypes
<1>2. PICK m \in Nat : m = Len(args[i + 1])
  BY <1>1
<1>3. PICK b \in Nat : b = StringAt(i) /\ b + m < AreaEnd
  <2>1. addrArgSlots \in Nat /\ addrArgSlots < AreaEnd /\ AreaEnd \in Nat
    BY <1>1, SlotIn, Sizes
  <2>2. StringAt(i) \in Nat
    BY Place DEF AreaTypes
  <2>3. QED
    BY <1>1, <1>2, <2>1, <2>2
<1>4. EndsAt(b, m)
  BY <1>2, <1>3 DEF EndsAt, LaidArg
<1>5. ASSUME NEW k \in Nat, k < m PROVE ~EndsAt(b, k)
  <2>1. k \in 0..(m - 1) /\ k + 1 \in 1..m
    BY <1>5
  <2>2. area[b + k] = args[i + 1][k + 1]
    BY <1>2, <1>3, <2>1 DEF LaidArg
  <2>3. args[i + 1][k + 1] # Nul
    <3>1. Nul \notin ToSet(args[i + 1])
      BY <1>1 DEF NoNul, Vectors
    <3>2. k + 1 \in DOMAIN args[i + 1]
      BY <1>1, <1>2, <2>1
    <3>3. QED
      BY <3>1, <3>2 DEF ToSet
  <2>4. ~(b + k >= AreaEnd)
    BY <1>3, <1>5, Sizes
  <2>5. QED
    BY <2>2, <2>3, <2>4 DEF EndsAt
<1>6. StrLen(b) = m
  <2>1. PICK n \in Nat : n = StrLen(b) /\ EndsAt(b, n) /\ \A k \in 0..(n - 1) : ~EndsAt(b, k)
    <3>1. AreaEnd \in Nat /\ area \in Areas
      BY Sizes DEF AreaTypes
    <3>2. /\ StrLen(b) \in 0..AreaEnd /\ EndsAt(b, StrLen(b))
          /\ \A k \in 0..(StrLen(b) - 1) : ~EndsAt(b, k)
      BY <3>1, StrLenFound
    <3>3. QED
      BY <3>1, <3>2
  <2>2. ~(n < m)
    BY <1>5, <2>1
  <2>3. ~(m < n)
    <3>1. m < n => m \in 0..(n - 1)
      BY <2>1
    <3>2. QED
      BY <1>4, <2>1, <3>1
  <2>4. QED
    BY <2>1, <2>2, <2>3
<1>7. CopyLen(b) = m
  BY <1>1, <1>2, <1>6, Sizes DEF CopyLen
<1>8. area[i] - 100 = b
  <2>1. area[i] = 100 + b
    BY <1>3 DEF LaidArg, Pointer
  <2>2. QED
    BY <2>1
<1>9. QED
  BY <1>2, <1>3, <1>7, <1>8

(* A turn of the copy loop fills its slot and leaves the strings and the    *)
(* slots before it.                                                         *)
LEMMA CopyFills ==
  ASSUME AreaTypes, FitsAreas(args), NoNul, Laid(Len(args)), step \in 0..(Len(args) - 1),
         InSlots(step), CopyArg(step), step' = step + 1
  PROVE  Laid(Len(args))' /\ InSlots(step)'
<1>0. SlotSize \in Nat \ {0} /\ AreaEnd \in Nat /\ addrArgSlots \in Nat
  BY Sizes
<1>1. /\ step \in 0..(MaxArgs - 1) /\ step \in Nat /\ Len(args) \in Nat /\ args \in Vectors
      /\ LaidArg(step)
  BY Place DEF Laid, AreaTypes, Vectors
<1>2. PICK b \in Nat : b = StringAt(step)
  BY Place DEF AreaTypes
<1>3. PICK m \in Nat : /\ m = Len(args[step + 1]) /\ CopyLen(b) = m /\ area[step] - 100 = b
                       /\ area[step] >= 100 /\ m < SlotSize /\ b + m < addrArgSlots
  <2>1. area[step] = 100 + b
    BY <1>1, <1>2 DEF LaidArg, Pointer
  <2>2. CopyLen(b) = Len(args[step + 1])
    BY <1>1, <1>2, StrLenWhole
  <2>3. Len(args[step + 1]) \in Nat /\ Len(args[step + 1]) < SlotSize
        /\ b + Len(args[step + 1]) < addrArgSlots
    BY <1>1, <1>2, Place
  <2>4. area[step] - 100 = b /\ area[step] >= 100
    BY <2>1
  <2>5. QED
    BY <2>2, <2>3, <2>4
<1>4. args' = args /\ \A j : StringAt(j)' = StringAt(j) /\ Slot(j)' = Slot(j)
  <2>1. args' = args
    BY <1>1, <1>3, CopyDoes
  <2>2. QED
    BY <2>1 DEF StringAt, addrArgBuf, Slot, addrArgSlots
<1>5. PICK at \in Nat : at = Slot(step) /\ at \in 0..(AreaEnd - 1) /\ addrArgSlots <= at
                        /\ at + SlotSize <= AreaEnd
  BY <1>1, SlotIn, Sizes
<1>s. PICK w \in Nat : w = SlotSize
  BY <1>0
<1>e. PICK e \in Nat : e = AreaEnd
  BY <1>0
<1>g. PICK g \in Nat : g = addrArgSlots
  BY <1>0
<1>l. g <= at /\ at + w <= e /\ at < e
  BY <1>0, <1>5, <1>s, <1>e, <1>g
<1>6. ASSUME NEW a \in Nat, a < AreaEnd, a < at \/ at + SlotSize <= a PROVE area'[a] = area[a]
  <2>1. a \in 0..(AreaEnd - 1)
    BY <1>6, Sizes
  <2>2. QED
    BY <1>1, <1>3, <1>5, <1>6, <2>1, CopyStays
<1>7. Laid(Len(args))'
  <2> SUFFICES ASSUME NEW i \in 0..(Len(args) - 1) PROVE LaidArg(i)'
    BY <1>4 DEF Laid
  <2>1. LaidArg(i)
    BY DEF Laid
  <2>2. PICK c \in Nat, l \in Nat : c = StringAt(i) /\ l = Len(args[i + 1]) /\ c + l < addrArgSlots
    BY <1>1, Place
  <2>3. area'[i] = area[i]
    <3>1. i \in 0..(MaxArgs - 1)
      BY <1>1, Place
    <3>2. i < addrArgSlots /\ i \in Nat /\ addrArgSlots < AreaEnd
      BY <3>1, SlotIn, Sizes
    <3>3. i < at /\ i < AreaEnd
      BY ONLY <1>0, <1>5, <3>2
    <3>4. QED
      BY <1>6, <3>2, <3>3
  <2>4. ASSUME NEW k \in Nat, k <= l PROVE area'[c + k] = area[c + k]
    <3>1. c + k < at /\ c + k < AreaEnd /\ c + k \in Nat
      <4>1. c + l < g
        BY ONLY <1>g, <2>2
      <4>2. c + k < at /\ c + k < e /\ c + k \in Nat
        BY ONLY <1>l, <2>4, <4>1
      <4>3. QED
        BY ONLY <1>e, <4>2
    <3>2. QED
      BY <1>6, <3>1
  <2>5. area'[c + l] = area[c + l] /\ \A k \in 0..(l - 1) : area'[c + k] = area[c + k]
    <3>1. \A k \in Nat : k <= l => area'[c + k] = area[c + k]
      BY <2>4
    <3>2. l <= l /\ \A k \in 0..(l - 1) : k \in Nat /\ k <= l
      OBVIOUS
    <3>3. QED
      BY ONLY <3>1, <3>2
  <2>6. QED
    BY <1>4, <2>1, <2>2, <2>3, <2>5 DEF LaidArg, Pointer
<1>8. InSlots(step)'
  <2> SUFFICES ASSUME NEW i \in 0..step PROVE InSlot(i)'
    BY <1>1 DEF InSlots
  <2>0. i \in Nat /\ (i < step \/ i = step) /\ i \in 0..(Len(args) - 1) /\ i \in 0..(MaxArgs - 1)
    <3>1. i \in Nat /\ (i < step \/ i = step) /\ i \in 0..(Len(args) - 1)
      BY <1>1
    <3>2. QED
      BY <1>1, <3>1, Place
  <2>1. CASE i = step
    <3>0. ASSUME NEW a \in 0..(AreaEnd - 1)
          PROVE  area'[a] = IF at < a /\ a <= at + m
                              THEN IF b + (a - at) - 1 = at THEN m ELSE area[b + (a - at) - 1]
                            ELSE IF a = at THEN m ELSE area[a]
      <4>1. \A x \in 0..(AreaEnd - 1) :
              area'[x] = IF Slot(step) < x /\ x <= Slot(step) + CopyLen(area[step] - 100)
                           THEN IF area[step] - 100 + (x - Slot(step)) - 1 = Slot(step) THEN CopyLen(area[step] - 100)
                                ELSE area[area[step] - 100 + (x - Slot(step)) - 1]
                         ELSE IF x = Slot(step) THEN CopyLen(area[step] - 100) ELSE area[x]
        BY <1>1, <1>3, CopyDoes
      <4>2. QED
        BY ONLY <1>3, <1>5, <4>1, <3>0
    <3>1. area'[at] = m
      BY <1>5, <3>0
    <3>2. ASSUME NEW k \in 1..m PROVE area'[at + k] = args[step + 1][k]
      <4>a. k \in Nat /\ 1 <= k /\ k <= m /\ m < w /\ b + m < g
        BY <1>3, <1>s, <1>g
      <4>b. /\ at + k \in Nat /\ at + k < e /\ at < at + k /\ at + k <= at + m
            /\ b + ((at + k) - at) - 1 = b + (k - 1) /\ b + (k - 1) # at
            /\ k - 1 \in Nat /\ k - 1 < m /\ (k - 1) + 1 = k
        BY ONLY <1>l, <4>a
      <4>1. /\ at + k \in 0..(AreaEnd - 1) /\ at < at + k /\ at + k <= at + m
            /\ b + ((at + k) - at) - 1 = b + (k - 1) /\ b + (k - 1) # at
            /\ k - 1 \in 0..(m - 1) /\ (k - 1) + 1 = k
        BY ONLY <1>e, <4>b
      <4>2. area'[at + k] = area[b + (k - 1)]
        BY <3>0, <4>1
      <4>3. area[b + (k - 1)] = args[step + 1][(k - 1) + 1]
        BY <1>1, <1>2, <1>3, <4>1 DEF LaidArg
      <4>4. QED
        BY <4>1, <4>2, <4>3
    <3>3. QED
      BY <1>3, <1>4, <1>5, <2>1, <3>1, <3>2 DEF InSlot
  <2>2. CASE i < step
    <3>1. InSlot(i)
      BY <1>1, <2>0, <2>2 DEF InSlots
    <3>2. PICK s \in Nat, l \in Nat : s = Slot(i) /\ l = Len(args[i + 1]) /\ s + l < at
      <4>1. Slot(i) \in Nat /\ Slot(i) + SlotSize <= Slot(step)
        BY <1>1, <2>0, <2>2, SlotsApart
      <4>2. Len(args[i + 1]) \in Nat /\ Len(args[i + 1]) < SlotSize
        BY <1>1, <2>0, Place
      <4>a. PICK s \in Nat, l \in Nat : s = Slot(i) /\ l = Len(args[i + 1])
        BY <4>1, <4>2
      <4>b. s + w <= at /\ l < w
        BY ONLY <1>5, <1>s, <4>1, <4>2, <4>a
      <4>3. s + l < at
        BY ONLY <4>b
      <4>4. QED
        BY <4>a, <4>3
    <3>3. ASSUME NEW k \in 0..l PROVE area'[s + k] = area[s + k]
      <4>1. s + k < at /\ s + k \in Nat /\ s + k < AreaEnd
        <5>1. s + l < at
        BY <3>2
      <5>2. s + k < at /\ s + k \in Nat /\ s + k < e
        BY ONLY <1>l, <3>3, <5>1
      <5>3. QED
        BY ONLY <1>e, <5>2
      <4>2. QED
        BY <1>6, <4>1
    <3>4. area'[s] = area[s] /\ \A k \in 1..l : area'[s + k] = area[s + k]
      <4>1. 0 \in 0..l /\ s + 0 = s /\ \A k \in 1..l : k \in 0..l
        OBVIOUS
      <4>2. \A k \in 0..l : area'[s + k] = area[s + k]
        BY <3>3
      <4>3. area'[s + 0] = area[s + 0]
        BY ONLY <4>1, <4>2
      <4>4. QED
        BY ONLY <4>1, <4>2, <4>3
    <3>5. QED
      BY <1>4, <3>1, <3>2, <3>4 DEF InSlot
  <2>3. QED
    BY <2>0, <2>1, <2>2
<1>9. QED
  BY <1>7, <1>8

(* What ParamStr answers.                                                   *)
LEMMA ParamRead ==
  ASSUME AreaTypes, FitsAreas(args), InSlots(Len(args)), NEW i \in 0..(Len(args) - 1)
  PROVE  ParamStr(i) = args[i + 1] /\ args[i + 1] \in Seq(Nat)
<1>1. i \in 0..(MaxArgs - 1) /\ args[i + 1] \in Seq(Nat) /\ i \in Nat
  BY Place DEF AreaTypes
<1>2. i % MaxArgs = i
  BY <1>1, Sizes
<1>3. PICK m \in Nat : m = Len(args[i + 1])
  BY <1>1
<1>4. area[Slot(i)] = m /\ \A k \in 1..m : area[Slot(i) + k] = args[i + 1][k]
  BY <1>3 DEF InSlots, InSlot
<1>5. ParamStr(i) = [k \in 1..m |-> area[Slot(i) + k]]
  BY <1>2, <1>4 DEF ParamStr
<1>6. args[i + 1] = [k \in 1..m |-> args[i + 1][k]]
  BY <1>1, <1>3
<1>7. QED
  BY <1>1, <1>4, <1>5, <1>6

-----------------------------------------------------------------------------
(* Where the arguments of Options::to_args are.                             *)
DefineArg(name) == <<Dash, LetterD>> \o name

(* A flag is one argument or none.                                          *)
LEMMA FlagArgs ==
  ASSUME NEW letter \in Nat, NEW on \in BOOLEAN
  PROVE  /\ Flag(letter, on) \in Vectors /\ Len(Flag(letter, on)) = Ones(on)
         /\ on => Flag(letter, on)[1] = <<Dash, letter>>
<1>1. CASE on
  <2>1. <<Dash, letter>> \in Seq(Nat)
    BY DEF Dash
  <2>2. PICK s \in Seq(Nat) : s = <<Dash, letter>>
    BY <2>1
  <2>3. Flag(letter, on) = <<s>>
    BY <1>1, <2>2 DEF Flag
  <2>4. Flag(letter, on) \in Vectors /\ Len(Flag(letter, on)) = 1 /\ Flag(letter, on)[1] = s
    BY ONLY <2>3, s \in Seq(Nat) DEF Vectors
  <2>5. QED
    BY <1>1, <2>2, <2>4 DEF Ones
<1>2. CASE ~on
  <2>1. Flag(letter, on) = << >>
    BY <1>2 DEF Flag
  <2>2. QED
    BY <1>2, <2>1 DEF Vectors, Ones
<1>3. QED
  BY <1>1, <1>2

(* Positions in two vectors put together.                                   *)
LEMMA Joined ==
  ASSUME NEW S \in Vectors, NEW T \in Vectors
  PROVE  /\ S \o T \in Vectors /\ Len(S) \in Nat /\ Len(T) \in Nat /\ Len(S \o T) = Len(S) + Len(T)
         /\ \A i \in 1..Len(S) : (S \o T)[i] = S[i]
         /\ \A i \in 1..Len(T) : (S \o T)[Len(S) + i] = T[i]
<1>0. PICK m \in Nat, n \in Nat : m = Len(S) /\ n = Len(T)
  BY DEF Vectors
<1>1. /\ S \o T \in Seq(Seq(Nat)) /\ Len(S \o T) = m + n
      /\ \A i \in 1..m + n : (S \o T)[i] = IF i <= m THEN S[i] ELSE T[i - m]
  BY <1>0, ConcatProperties DEF Vectors
<1>2. ASSUME NEW i \in 1..n PROVE (S \o T)[m + i] = T[i]
  <2>1. m + i \in 1..m + n /\ ~(m + i <= m) /\ (m + i) - m = i
    OBVIOUS
  <2>2. QED
    BY ONLY <1>1, <2>1
<1>3. ASSUME NEW i \in 1..m PROVE (S \o T)[i] = S[i]
  <2>1. i \in 1..m + n /\ i <= m
    OBVIOUS
  <2>2. QED
    BY ONLY <1>1, <2>1
<1>4. QED
  BY <1>0, <1>1, <1>2, <1>3 DEF Vectors

(* Which argument stands where in what to_args makes.                       *)
LEMMA ArgsMade ==
  ASSUME NEW o \in OptionSets
  PROVE  LET a == ToArgs(o)
         IN  /\ a \in Vectors /\ Len(a) = BeforeObjects(o) + Len(o.objects)
             /\ BeforeDefines(o) \in Nat /\ BeforeObjects(o) \in Nat /\ BeforeInclude(o) \in Nat /\ Len(o.objects) \in Nat
             /\ Len(o.defines) \in Nat
             /\ BeforeVerbose <= BeforeInclude(o) /\ BeforeInclude(o) <= BeforeDefines(o) /\ BeforeDefines(o) <= BeforeObjects(o)
             /\ a[1] = ProgramName /\ a[2] = Switch(LetterR, o.range) /\ a[3] = Switch(LetterS, o.stack)
             /\ o.verbose => a[4] = <<Dash, LetterV>>
             /\ o.include # NoDir => a[BeforeInclude(o) + 1] = <<Dash, LetterI>>
             /\ \A i \in 1..Len(o.defines) : a[BeforeDefines(o) + i] = DefineArg(o.defines[i])
             /\ \A i \in 1..Len(o.objects) : a[BeforeObjects(o) + i] = o.objects[i]
<1>1. /\ o.range \in BOOLEAN /\ o.stack \in BOOLEAN /\ o.verbose \in BOOLEAN
      /\ o.defines \in Vectors /\ o.objects \in Vectors
  BY CompileConstants DEF Vectors
<1>r. PICK r, s : r = Switch(LetterR, o.range) /\ s = Switch(LetterS, o.stack)
  OBVIOUS
<1>2. ProgramName \in Seq(Nat) /\ r \in Seq(Nat) /\ s \in Seq(Nat)
  BY <1>r DEF ProgramName, Switch, Dash, Plus, LetterR, LetterS
<1>A. PICK A : A = <<ProgramName, r, s>>
  OBVIOUS
<1>3. A \in Vectors /\ Len(A) = 3 /\ A[1] = ProgramName /\ A[2] = r /\ A[3] = s
  BY <1>2, <1>A DEF Vectors
<1>V. PICK V, N, D : /\ V = Flag(LetterV, o.verbose) /\ N = Flag(LetterI, o.include # NoDir)
                   /\ D = [i \in DOMAIN o.defines |-> <<Dash, LetterD>> \o o.defines[i]]
  OBVIOUS
<1>4. V \in Vectors /\ Len(V) = Ones(o.verbose) /\ (o.verbose => V[1] = <<Dash, LetterV>>)
  <2>1. LetterV \in Nat /\ o.verbose \in BOOLEAN
    BY <1>1 DEF LetterV
  <2>2. /\ Flag(LetterV, o.verbose) \in Vectors /\ Len(Flag(LetterV, o.verbose)) = Ones(o.verbose)
        /\ o.verbose => Flag(LetterV, o.verbose)[1] = <<Dash, LetterV>>
    BY <2>1, FlagArgs
  <2>3. QED
    BY ONLY <2>2, <1>V
<1>5. N \in Vectors /\ Len(N) = Ones(o.include # NoDir) /\ (o.include # NoDir => N[1] = <<Dash, LetterI>>)
  <2>1. LetterI \in Nat /\ (o.include # NoDir) \in BOOLEAN
    BY DEF LetterI
  <2>2. /\ Flag(LetterI, o.include # NoDir) \in Vectors
        /\ Len(Flag(LetterI, o.include # NoDir)) = Ones(o.include # NoDir)
        /\ o.include # NoDir => Flag(LetterI, o.include # NoDir)[1] = <<Dash, LetterI>>
    BY <2>1, FlagArgs
  <2>3. QED
    BY ONLY <2>2, <1>V
<1>6. /\ D \in Vectors /\ Len(D) = Len(o.defines) /\ Len(o.defines) \in Nat
      /\ \A i \in 1..Len(o.defines) : D[i] = DefineArg(o.defines[i])
  <2>0. Len(o.defines) \in Nat /\ DOMAIN o.defines = 1..Len(o.defines)
    BY <1>1 DEF Vectors
  <2>a. PICK n \in Nat : n = Len(o.defines)
    BY <2>0
  <2>1. n = Len(o.defines) /\ DOMAIN o.defines = 1..n
    BY ONLY <2>0, <2>a
  <2>2. ASSUME NEW i \in 1..n PROVE DefineArg(o.defines[i]) \in Seq(Nat)
    <3>1. o.defines[i] \in Seq(Nat)
      BY <1>1, <2>1 DEF Vectors
    <3>2. <<Dash, LetterD>> \in Seq(Nat)
      BY DEF Dash, LetterD
    <3>3. QED
      BY <3>1, <3>2, ConcatProperties DEF DefineArg
  <2>3. D = [i \in 1..n |-> DefineArg(o.defines[i])]
    BY <1>V, <2>1 DEF DefineArg
  <2>4. D \in Seq(Seq(Nat)) /\ Len(D) = n /\ \A i \in 1..n : D[i] = DefineArg(o.defines[i])
    BY ONLY <2>2, <2>3, n \in Nat
  <2>5. QED
    BY <2>1, <2>4 DEF Vectors
<1>B. PICK B : B = A \o V
  OBVIOUS
<1>C. PICK C : C = B \o N
  OBVIOUS
<1>E. PICK E : E = C \o D
  OBVIOUS
<1>F. PICK F : F = E \o o.objects
  OBVIOUS
<1>7. PICK p \in Nat, q \in Nat : p = Ones(o.verbose) /\ q = Ones(o.include # NoDir)
  BY DEF Ones
<1>8. (o.verbose => p = 1) /\ (o.include # NoDir => q = 1)
  BY <1>7 DEF Ones
<1>v. PICK v \in Nat : v = 3 + p
  OBVIOUS
<1>d. PICK d \in Nat : d = v + q
  OBVIOUS
<1>k. PICK k \in Nat : k = Len(o.defines)
  BY <1>6
<1>x. PICK x \in Nat : x = d + k
  OBVIOUS
<1>a. PICK y \in Nat : y = Len(o.objects)
  BY <1>1 DEF Vectors
<1>s. BeforeInclude(o) = v /\ BeforeDefines(o) = d /\ BeforeObjects(o) = x
  BY <1>7, <1>v, <1>d, <1>k, <1>x DEF BeforeInclude, BeforeVerbose, BeforeDefines, BeforeObjects
<1>o. 3 <= v /\ v <= d /\ d <= x /\ (o.verbose => v = 4) /\ (o.include # NoDir => d = v + 1)
  BY ONLY <1>8, <1>v, <1>d, <1>x
<1>9. /\ B \in Vectors /\ Len(B) = v /\ (\A i \in 1..3 : B[i] = A[i])
      /\ (o.verbose => B[4] = <<Dash, LetterV>>)
  <2>0. /\ A \o V \in Vectors /\ Len(A \o V) = Len(A) + Len(V)
        /\ \A i \in 1..Len(A) : (A \o V)[i] = A[i]
        /\ \A i \in 1..Len(V) : (A \o V)[Len(A) + i] = V[i]
    BY <1>3, <1>4, Joined
  <2>1. /\ B \in Vectors /\ Len(B) = 3 + p /\ (\A i \in 1..3 : B[i] = A[i])
        /\ \A i \in 1..p : B[3 + i] = V[i]
    BY ONLY <2>0, <1>3, <1>4, <1>7, <1>B
  <2>2. o.verbose => B[4] = V[1]
    <3>1. o.verbose => 1 \in 1..p /\ 3 + 1 = 4
      BY ONLY <1>8
    <3>2. QED
      BY ONLY <2>1, <3>1
  <2>3. QED
    BY ONLY <1>4, <1>v, <2>1, <2>2
<1>11. C \in Vectors /\ Len(C) = d /\ (\A i \in 1..v : C[i] = B[i]) /\ (\A i \in 1..q : C[v + i] = N[i])
  <2>0. /\ B \o N \in Vectors /\ Len(B \o N) = Len(B) + Len(N)
        /\ \A i \in 1..Len(B) : (B \o N)[i] = B[i]
        /\ \A i \in 1..Len(N) : (B \o N)[Len(B) + i] = N[i]
    BY <1>5, <1>9, Joined
  <2>1. QED
    BY ONLY <2>0, <1>5, <1>7, <1>9, <1>C, <1>d
<1>14. E \in Vectors /\ Len(E) = x /\ (\A i \in 1..d : E[i] = C[i]) /\ (\A i \in 1..k : E[d + i] = D[i])
  <2>0. /\ C \o D \in Vectors /\ Len(C \o D) = Len(C) + Len(D)
        /\ \A i \in 1..Len(C) : (C \o D)[i] = C[i]
        /\ \A i \in 1..Len(D) : (C \o D)[Len(C) + i] = D[i]
    BY <1>6, <1>11, Joined
  <2>1. Len(D) = k
    BY <1>6, <1>k
  <2>2. QED
    BY ONLY <2>0, <2>1, <1>11, <1>E, <1>x
<1>15. F \in Vectors /\ Len(F) = x + y /\ (\A i \in 1..x : F[i] = E[i]) /\ (\A i \in 1..y : F[x + i] = o.objects[i])
  <2>0. /\ E \o o.objects \in Vectors /\ Len(E \o o.objects) = Len(E) + Len(o.objects)
        /\ \A i \in 1..Len(E) : (E \o o.objects)[i] = E[i]
        /\ \A i \in 1..Len(o.objects) : (E \o o.objects)[Len(E) + i] = o.objects[i]
    BY <1>1, <1>14, Joined
  <2>1. QED
    BY ONLY <2>0, <1>14, <1>a, <1>F
<1>16. ToArgs(o) = F
  BY <1>A, <1>r, <1>V, <1>B, <1>C, <1>E, <1>F DEF ToArgs
<1>17. ASSUME NEW i \in 1..v PROVE F[i] = B[i]
  <2>1. i \in 1..d /\ i \in 1..x
    BY ONLY <1>o, i \in 1..v, v \in Nat, d \in Nat, x \in Nat
  <2>2. QED
    BY ONLY <1>11, <1>14, <1>15, <2>1, <1>17
<1>18. F[1] = ProgramName /\ F[2] = r /\ F[3] = s /\ (o.verbose => F[4] = <<Dash, LetterV>>)
  <2>1. 1 \in 1..v /\ 2 \in 1..v /\ 3 \in 1..v /\ (o.verbose => 4 \in 1..v) /\ 1 \in 1..3 /\ 2 \in 1..3 /\ 3 \in 1..3
    BY ONLY <1>o
  <2>2. F[1] = A[1] /\ F[2] = A[2] /\ F[3] = A[3]
    BY ONLY <1>9, <1>17, <2>1
  <2>3. QED
    BY ONLY <1>3, <1>9, <1>17, <2>1, <2>2
<1>19. o.include # NoDir => F[v + 1] = <<Dash, LetterI>>
  <2>0. SUFFICES ASSUME o.include # NoDir PROVE F[v + 1] = <<Dash, LetterI>>
    OBVIOUS
  <2>1. v + 1 \in 1..d /\ v + 1 \in 1..x /\ 1 \in 1..q
    BY ONLY <1>8, <1>o, <2>0
  <2>2. F[v + 1] = C[v + 1] /\ C[v + 1] = N[1]
    BY ONLY <1>11, <1>14, <1>15, <2>1
  <2>3. QED
    BY ONLY <1>5, <2>2, <2>0
<1>20. ASSUME NEW i \in 1..k PROVE F[d + i] = DefineArg(o.defines[i])
  <2>1. d + i \in 1..x
    BY ONLY <1>x, i \in 1..k, k \in Nat, d \in Nat
  <2>2. F[d + i] = E[d + i] /\ E[d + i] = D[i]
    BY ONLY <1>14, <1>15, <2>1, <1>20
  <2>3. D[i] = DefineArg(o.defines[i])
    BY <1>6, <1>k
  <2>4. QED
    BY ONLY <2>2, <2>3
<1>21. QED
  <2>1. BeforeVerbose = 3
    BY DEF BeforeVerbose
  <2>2. /\ F \in Vectors /\ Len(F) = x + y /\ 3 <= v /\ v <= d /\ d <= x
        /\ F[1] = ProgramName /\ F[2] = Switch(LetterR, o.range) /\ F[3] = Switch(LetterS, o.stack)
        /\ (o.verbose => F[4] = <<Dash, LetterV>>)
        /\ (o.include # NoDir => F[v + 1] = <<Dash, LetterI>>)
        /\ (\A i \in 1..k : F[d + i] = DefineArg(o.defines[i]))
        /\ (\A i \in 1..y : F[x + i] = o.objects[i])
    BY ONLY <1>15, <1>o, <1>18, <1>r, <1>19, <1>20
  <2>3. QED
    BY ONLY <2>1, <2>2, <1>s, <1>16, <1>k, <1>a

-----------------------------------------------------------------------------
(* Lines and what they read back as.                                        *)

(* At finds the first token that is t, or 0.                                *)
LEMMA FirstAt ==
  ASSUME NEW S, NEW tokens \in Seq(S), NEW t, NEW n \in 1..Len(tokens), tokens[n] = t,
         \A i \in 1..n - 1 : tokens[i] # t
  PROVE  At(tokens, t) = n
<1> DEFINE I == {i \in 1..Len(tokens) : tokens[i] = t}
<1>1. n \in I /\ \A y \in I : n <= y
  OBVIOUS
<1>2. \A x \in I : (\A y \in I : x <= y) => x = n
  BY <1>1
<1>3. At(tokens, t) = IF I # {} THEN CHOOSE x \in I : \A y \in I : x <= y ELSE 0
  BY DEF At, SelectInSeq, Min
<1> HIDE DEF I
<1>4. QED
  BY <1>1, <1>2, <1>3

(* Where no token is t, it is 0.                                            *)
LEMMA NoneAt ==
  ASSUME NEW S, NEW tokens \in Seq(S), NEW t, \A i \in 1..Len(tokens) : tokens[i] # t
  PROVE  At(tokens, t) = 0
BY DEF At, SelectInSeq, Min

(* What the snapshot says of its command line.                              *)
LEMMA CommandLineWorded ==
  /\ Worded([NoPlace(<<"too many conditional symbols">>) EXCEPT !.line = "0", !.col = "0"])
  /\ Worded(NoPlace(<<"too many objects on the command line">>))
  /\ Worded(NoPlace(<<"unknown option", ": ", "s">>))
<1>p. /\ "too many conditional symbols" \in Phrases /\ "too many objects on the command line" \in Phrases
      /\ "unknown option" \in Phrases /\ ": " \in Phrases /\ "s" \in Phrases
  BY DEF Phrases
<1>1. ASSUME NEW a \in Phrases, a # ": "
      PROVE  <<a>> \in Seq(Words \cup Phrases) /\ SplitPosition(<<a>>) = <<"", "", <<a>>>>
  <2>a. PICK b : b = ": "
    OBVIOUS
  <2>0. <<a>> \in Seq(Words \cup Phrases)
    OBVIOUS
  <2>1. PICK w \in Seq(Words \cup Phrases) : w = <<a>>
    BY <2>0
  <2>2. Len(w) = 1 /\ w[1] = a
    BY <2>1
  <2>3. \A i \in 1..Len(w) : w[i] # b
    <3>1. \A i \in 1..Len(w) : i = 1
      BY ONLY <2>2
    <3>2. QED
      BY ONLY <1>1, <2>a, <2>2, <3>1
  <2>4. At(w, b) = 0
    BY ONLY <2>3, w \in Seq(Words \cup Phrases), NoneAt
  <2>5. SplitPosition(w) = <<"", "", w>>
    <3>1. At(w, b) # 4
      BY ONLY <2>4
    <3>2. QED
      BY ONLY <2>a, <3>1 DEF SplitPosition
  <2>6. QED
    BY <2>0, <2>1, <2>5
<1>2. ASSUME NEW a \in Phrases, NEW c \in Phrases, a # ": "
      PROVE  /\ <<a, ": ", c>> \in Seq(Words \cup Phrases)
             /\ SplitPosition(<<a, ": ", c>>) = <<"", "", <<a, ": ", c>>>>
  <2>a. PICK b : b = ": "
    OBVIOUS
  <2>0. <<a, b, c>> \in Seq(Words \cup Phrases)
    <3>1. PICK S : S = Words \cup Phrases
      OBVIOUS
    <3>2. a \in S /\ b \in S /\ c \in S
      BY <1>p, <2>a, <3>1
    <3>3. QED
      BY ONLY <3>1, <3>2
  <2>1. PICK w \in Seq(Words \cup Phrases) : w = <<a, b, c>>
    BY <2>0
  <2>2. Len(w) = 3 /\ w[1] = a /\ w[2] = b
    BY <2>1
  <2>3. 2 \in 1..Len(w) /\ \A i \in 1..2 - 1 : w[i] # b
    <3>1. 2 \in 1..Len(w) /\ \A i \in 1..2 - 1 : i = 1
      BY ONLY <2>2
    <3>2. QED
      BY ONLY <1>2, <2>a, <2>2, <3>1
  <2>4. At(w, b) = 2
    BY <2>2, <2>3, FirstAt
  <2>5. SplitPosition(w) = <<"", "", w>>
    <3>1. At(w, b) # 4
      BY ONLY <2>4
    <3>2. QED
      BY ONLY <2>a, <3>1 DEF SplitPosition
  <2>6. QED
    BY <2>a, <2>0, <2>1, <2>5
<1>3. /\ <<"too many conditional symbols">> \in Seq(Words \cup Phrases)
      /\ <<"too many objects on the command line">> \in Seq(Words \cup Phrases)
      /\ SplitPosition(<<"too many objects on the command line">>)
           = <<"", "", <<"too many objects on the command line">>>>
  BY <1>p, <1>1
<1>4. /\ <<"unknown option", ": ", "s">> \in Seq(Words \cup Phrases)
      /\ SplitPosition(<<"unknown option", ": ", "s">>) = <<"", "", <<"unknown option", ": ", "s">>>>
  BY <1>p, <1>2
<1>5. \A words \in Seq(Words \cup Phrases) :
        /\ NoPlace(words) \in ReportType /\ NoPlace(words).line = "" /\ NoPlace(words).col = ""
        /\ NoPlace(words).message = words
        /\ [NoPlace(words) EXCEPT !.line = "0", !.col = "0"] \in ReportType
        /\ [NoPlace(words) EXCEPT !.line = "0", !.col = "0"].line = "0"
        /\ [NoPlace(words) EXCEPT !.line = "0", !.col = "0"].col = "0"
  BY DEF NoPlace, ReportType, Numerals
<1>6. QED
  BY <1>3, <1>4, <1>5 DEF Worded

(* The line made of a report has a tag, and reads back as the report.       *)
Tokens == Words \cup Phrases \cup Numerals \cup {"", ":", ": ", "Error", "Warning", "Info"}
LEMMA PositionReads ==
  ASSUME NEW l \in Numerals, NEW c \in Numerals, NEW t \in Seq(Tokens)
  PROVE  /\ <<l, ":", c, ": ">> \o t \in Seq(Tokens)
         /\ SplitPosition(<<l, ":", c, ": ">> \o t) = <<l, c, t>>
<1>1. PICK d, b : d = ":" /\ b = ": "
  OBVIOUS
<1>2. l \in Tokens /\ c \in Tokens /\ d \in Tokens /\ b \in Tokens /\ l # b /\ c # b /\ d # b
  BY <1>1 DEF Tokens, Numerals
<1>3. PICK p \in Seq(Tokens) : p = <<l, d, c, b>>
  <2>1. <<l, d, c, b>> \in Seq(Tokens)
    BY ONLY <1>2
  <2>2. QED
    BY ONLY <2>1
<1>4. Len(p) = 4 /\ p[1] = l /\ p[2] = d /\ p[3] = c /\ p[4] = b
  BY ONLY <1>3
<1>5. PICK k \in Nat : k = Len(t)
  OBVIOUS
<1>6. /\ p \o t \in Seq(Tokens) /\ Len(p \o t) = 4 + k
      /\ \A i \in 1..4 + k : (p \o t)[i] = IF i <= 4 THEN p[i] ELSE t[i - 4]
  <2>1. /\ p \o t \in Seq(Tokens) /\ Len(p \o t) = Len(p) + Len(t)
        /\ \A i \in 1..Len(p) + Len(t) : (p \o t)[i] = IF i <= Len(p) THEN p[i] ELSE t[i - Len(p)]
    BY ONLY p \in Seq(Tokens), t \in Seq(Tokens), ConcatProperties
  <2>2. QED
    BY ONLY <1>4, <1>5, <2>1
<1>7. PICK m \in Seq(Tokens) : m = p \o t
  BY <1>6
<1>8. /\ Len(m) = 4 + k /\ m[1] = l /\ m[2] = d /\ m[3] = c /\ m[4] = b
  <2>1. 1 \in 1..4 + k /\ 2 \in 1..4 + k /\ 3 \in 1..4 + k /\ 4 \in 1..4 + k
    OBVIOUS
  <2>2. QED
    BY ONLY <1>4, <1>6, <1>7, <2>1
<1>9. ASSUME NEW i \in 1..k PROVE m[i + 4] = t[i]
  <2>1. i + 4 \in 1..4 + k /\ ~(i + 4 <= 4) /\ (i + 4) - 4 = i
    OBVIOUS
  <2>2. QED
    BY ONLY <1>6, <1>7, <2>1
<1>10. At(m, b) = 4
  <2>1. 4 \in 1..Len(m) /\ \A i \in 1..4 - 1 : i = 1 \/ i = 2 \/ i = 3
    BY ONLY <1>8, k \in Nat
  <2>2. \A i \in 1..4 - 1 : m[i] # b
    BY ONLY <1>2, <1>8, <2>1
  <2>3. QED
    <3>1. PICK n \in Nat : n = 4
      OBVIOUS
    <3>2. n \in 1..Len(m) /\ m[n] = b /\ \A i \in 1..n - 1 : m[i] # b
      BY ONLY <1>8, <2>1, <2>2, <3>1
    <3>3. At(m, b) = n
      BY ONLY <3>2, m \in Seq(Tokens), FirstAt
    <3>4. QED
      BY ONLY <3>1, <3>3
<1>11. PICK h : h = SubSeq(m, 1, 4 - 1)
  OBVIOUS
<1>12. h[1] = l /\ h[2] = d /\ h[3] = c
  <2>1. h = [i \in 1..3 |-> m[i]]
    BY ONLY <1>8, <1>11, m \in Seq(Tokens), k \in Nat
  <2>2. QED
    BY ONLY <1>8, <2>1
<1>13. SubSeq(m, 5, Len(m)) = t
  <2>1. SubSeq(m, 5, 4 + k) = [i \in 1..k |-> m[i + 4]]
    <3>1. SubSeq(m, 5, 4 + k) \in Seq(Tokens) /\ Len(SubSeq(m, 5, 4 + k)) = k
          /\ \A i \in 1..k : SubSeq(m, 5, 4 + k)[i] = m[5 + i - 1]
      BY ONLY <1>8, m \in Seq(Tokens), k \in Nat
    <3>2. \A i \in 1..k : 5 + i - 1 = i + 4
      OBVIOUS
    <3>3. QED
      BY ONLY <3>1, <3>2, k \in Nat
  <2>2. t = [i \in 1..k |-> t[i]]
    BY ONLY <1>5, t \in Seq(Tokens)
  <2>3. QED
    BY ONLY <1>8, <1>9, <2>1, <2>2
<1>14. SplitPosition(m) = <<l, c, t>>
  <2>1. At(m, ": ") = 4 /\ SubSeq(m, 1, 4 - 1)[1] = l /\ SubSeq(m, 1, 4 - 1)[2] = ":" /\ SubSeq(m, 1, 4 - 1)[3] = c
    BY ONLY <1>1, <1>10, <1>11, <1>12
  <2>2. QED
    BY ONLY <1>13, <2>1, l \in Numerals, c \in Numerals DEF SplitPosition
<1>15. QED
  BY ONLY <1>1, <1>3, <1>6, <1>7, <1>14

(* What parse_line makes of a line is the report that the line was made of. *)
LEMMA ReadsBack ==
  ASSUME NEW r, Worded(r)
  PROVE  Tagged(Format(r)) /\ ParseLine(Format(r)) = r
<1>1. /\ r \in ReportType /\ r.severity \in {"Error", "Warning", "Info"} /\ r.message \in Seq(Words \cup Phrases)
      /\ r.line \in Numerals \cup {""} /\ r.col \in Numerals \cup {""}
      /\ r = [severity |-> r.severity, line |-> r.line, col |-> r.col, message |-> r.message]
  BY DEF Worded, ReportType
<1>2. r.message \in Seq(Tokens)
  <2>1. Words \cup Phrases \subseteq Tokens
    BY DEF Tokens
  <2>2. PICK t \in Seq(Words \cup Phrases) : t = r.message
    BY ONLY <1>1
  <2>3. t \in Seq(Tokens)
    BY ONLY <2>1, t \in Seq(Words \cup Phrases)
  <2>4. QED
    BY ONLY <2>2, <2>3
<1>3. PICK m \in Seq(Tokens) : m = Position(r) \o r.message /\ SplitPosition(m) = <<r.line, r.col, r.message>>
  <2>1. CASE r.line = ""
    <3>1. Position(r) \o r.message = r.message
      <4>1. Position(r) = << >>
        BY <2>1 DEF Position
      <4>2. QED
        BY <1>2, <4>1
    <3>2. SplitPosition(r.message) = <<r.line, r.col, r.message>>
      BY <2>1 DEF Worded
    <3>3. QED
      BY <1>2, <3>1, <3>2
  <2>2. CASE r.line # ""
    <3>1. r.line \in Numerals /\ r.col \in Numerals
      BY <1>1, <2>2 DEF Worded
    <3>2. Position(r) = <<r.line, ":", r.col, ": ">>
      BY <2>2 DEF Position
    <3>3. QED
      BY <1>2, <3>1, <3>2, PositionReads
  <2>3. QED
    BY <2>1, <2>2
<1>4. PICK s, b : s = r.severity /\ b = ": "
  OBVIOUS
<1>5. s \in Tokens /\ b \in Tokens
  BY <1>1, <1>4 DEF Tokens
<1>6. PICK p \in Seq(Tokens) : p = <<s, b>>
  <2>1. <<s, b>> \in Seq(Tokens)
    BY ONLY <1>5
  <2>2. QED
    BY ONLY <2>1
<1>7. Len(p) = 2 /\ p[1] = s /\ p[2] = b
  BY ONLY <1>6
<1>8. Format(r) = p \o m
  <2>1. Format(r) = <<r.severity, ": ">> \o Position(r) \o r.message
    BY DEF Format
  <2>2. Position(r) \in Seq(Tokens)
    <3>1. CASE r.line = ""
      <4>1. Position(r) = << >>
        BY <3>1 DEF Position
      <4>2. QED
        BY ONLY <4>1
    <3>2. CASE r.line # ""
      <4>1. PICK d : d = ":" /\ d \in Tokens
        BY DEF Tokens
      <4>2. r.line \in Tokens /\ r.col \in Tokens
        BY <1>1 DEF Tokens
      <4>3. <<r.line, d, r.col, b>> \in Seq(Tokens)
        BY ONLY <1>5, <4>1, <4>2
      <4>4. QED
        BY <1>4, <3>2, <4>1, <4>3 DEF Position
    <3>3. QED
      BY <3>1, <3>2
  <2>3. (p \o Position(r)) \o r.message = p \o (Position(r) \o r.message)
    <3>1. PICK q \in Seq(Tokens), t \in Seq(Tokens) : q = Position(r) /\ t = r.message
      BY ONLY <1>2, <2>2
    <3>2. (p \o q) \o t = p \o (q \o t)
      BY ONLY p \in Seq(Tokens), q \in Seq(Tokens), t \in Seq(Tokens), ConcatAssociative
    <3>3. QED
      BY ONLY <3>1, <3>2
  <2>4. QED
    BY ONLY <1>3, <1>4, <1>6, <2>1, <2>3
<1>9. PICK n \in Nat : n = Len(m)
  OBVIOUS
<1>10. /\ p \o m \in Seq(Tokens) /\ Len(p \o m) = 2 + n
       /\ \A i \in 1..2 + n : (p \o m)[i] = IF i <= 2 THEN p[i] ELSE m[i - 2]
  <2>1. /\ p \o m \in Seq(Tokens) /\ Len(p \o m) = Len(p) + Len(m)
        /\ \A i \in 1..Len(p) + Len(m) : (p \o m)[i] = IF i <= Len(p) THEN p[i] ELSE m[i - Len(p)]
    BY ONLY p \in Seq(Tokens), m \in Seq(Tokens), ConcatProperties
  <2>2. QED
    BY ONLY <1>7, <1>9, <2>1
<1>11. PICK l \in Seq(Tokens) : l = Format(r)
  BY <1>8, <1>10
<1>12. Len(l) = 2 + n /\ l[1] = s /\ l[2] = b
  <2>1. 1 \in 1..2 + n /\ 2 \in 1..2 + n
    OBVIOUS
  <2>2. Len(l) = 2 + n
    BY ONLY <1>8, <1>10, <1>11
  <2>3. l[1] = p[1] /\ l[2] = p[2]
    <3>1. (p \o m)[1] = (IF 1 <= 2 THEN p[1] ELSE m[1 - 2]) /\ (p \o m)[2] = (IF 2 <= 2 THEN p[2] ELSE m[2 - 2])
      BY ONLY <1>10, <2>1
    <3>2. (1 <= 2) /\ (2 <= 2)
      OBVIOUS
    <3>3. QED
      BY ONLY <1>8, <1>11, <3>1, <3>2
  <2>4. QED
    BY ONLY <1>7, <2>2, <2>3
<1>13. ASSUME NEW i \in 1..n PROVE l[i + 2] = m[i]
  <2>1. i + 2 \in 1..2 + n /\ ~(i + 2 <= 2) /\ (i + 2) - 2 = i
    OBVIOUS
  <2>2. QED
    BY ONLY <1>8, <1>10, <1>11, <2>1
<1>14. SubSeq(l, 3, Len(l)) = m
  <2>1. SubSeq(l, 3, 2 + n) \in Seq(Tokens) /\ Len(SubSeq(l, 3, 2 + n)) = n
        /\ \A i \in 1..n : SubSeq(l, 3, 2 + n)[i] = l[3 + i - 1]
    BY ONLY <1>12, l \in Seq(Tokens), n \in Nat
  <2>2. \A i \in 1..n : 3 + i - 1 = i + 2
    OBVIOUS
  <2>3. SubSeq(l, 3, 2 + n) = [i \in 1..n |-> m[i]]
    BY ONLY <1>13, <2>1, <2>2, n \in Nat
  <2>4. m = [i \in 1..n |-> m[i]]
    BY ONLY <1>9, m \in Seq(Tokens)
  <2>5. QED
    BY ONLY <1>12, <2>3, <2>4
<1>15. Tagged(l)
  <2>1. Len(l) > 1
    BY ONLY <1>12, n \in Nat
  <2>2. QED
    BY ONLY <1>1, <1>4, <1>12, <2>1 DEF Tagged, Tags
<1>16. ParseLine(l) = [severity |-> s, line |-> r.line, col |-> r.col, message |-> r.message]
  <2>1. PICK t : t = SplitPosition(m)
    OBVIOUS
  <2>2. t[1] = r.line /\ t[2] = r.col /\ t[3] = r.message
    BY ONLY <1>3, <2>1
  <2>3. QED
    BY ONLY <1>12, <1>14, <2>1, <2>2 DEF ParseLine
<1>17. QED
  BY ONLY <1>1, <1>4, <1>11, <1>15, <1>16

(* The kinds of arguments the loop tells apart exclude each other.          *)
LEMMA Kinds ==
  ASSUME NEW s \in Seq(Nat)
  PROVE  /\ \A on \in BOOLEAN : s = Switch(LetterR, on) => s # <<>> /\ s[1] = Dash /\ s[2] = LetterR
         /\ \A on \in BOOLEAN : s = Switch(LetterS, on) => s # <<>> /\ s[1] = Dash /\ s[2] = LetterS
         /\ s = <<Dash, LetterV>> => s # <<>> /\ s[1] = Dash /\ s[2] = LetterV
         /\ s = <<Dash, LetterI>> => s # <<>> /\ s[1] = Dash /\ s[2] = LetterI
         /\ Len(s) > 2 /\ SubSeq(s, 1, 2) = <<Dash, LetterD>> => s # <<>> /\ s[1] = Dash /\ s[2] = LetterD
<1>1. ASSUME NEW on \in BOOLEAN, NEW letter, s = Switch(letter, on)
      PROVE  s # <<>> /\ s[1] = Dash /\ s[2] = letter
  BY <1>1 DEF Switch
<1>2. ASSUME NEW letter, s = <<Dash, letter>> PROVE s # <<>> /\ s[1] = Dash /\ s[2] = letter
  BY <1>2
<1>3. ASSUME Len(s) > 2, SubSeq(s, 1, 2) = <<Dash, LetterD>>
      PROVE  s # <<>> /\ s[1] = Dash /\ s[2] = LetterD
  <2>1. SubSeq(s, 1, 2)[1] = s[1] /\ SubSeq(s, 1, 2)[2] = s[2] /\ s # <<>>
    BY <1>3
  <2>2. <<Dash, LetterD>>[1] = Dash /\ <<Dash, LetterD>>[2] = LetterD
    OBVIOUS
  <2>3. QED
    BY ONLY <1>3, <2>1, <2>2
<1>4. QED
  BY <1>1, <1>2, <1>3

(* Whatever an argument is: it is taken, or it ends the run with a message. *)
LEMMA ParseTurns ==
  ASSUME ParseArg
  PROVE  stage = "parse" /\ ((\E g : Take(g)) \/ \E r : r.severity = "Error" /\ Worded(r) /\ Fatal(r))
<1>s. PICK s : s = ParamStr(step)
  OBVIOUS
<1> DEFINE name == SubSeq(s, 3, Len(s))
           many == [NoPlace(<<"too many conditional symbols">>) EXCEPT !.line = "0", !.col = "0"]
           isR == \E on \in BOOLEAN : s = Switch(LetterR, on)
           isS == \E on \in BOOLEAN : s = Switch(LetterS, on)
           isV == s = <<Dash, LetterV>>
           isI == s = <<Dash, LetterI>>
           isD == Len(s) > 2 /\ SubSeq(s, 1, 2) = <<Dash, LetterD>>
           isO == s # <<>> /\ ~StartsDash(s)
           R == Take([guest EXCEPT !.range = (s = Switch(LetterR, TRUE))])
           S == Take([guest EXCEPT !.stack = (s = Switch(LetterS, TRUE))])
           V == Take([guest EXCEPT !.verbose = TRUE])
           I == Take([guest EXCEPT !.includes = TRUE])
           D == IF name \notin guest.defines /\ Cardinality(guest.defines) >= MaxDefines
                THEN Fatal(many) ELSE Take([guest EXCEPT !.defines = @ \cup {name}])
           O == IF Len(guest.objects) >= MaxObjArgs THEN Fatal(NoPlace(<<"too many objects on the command line">>))
                ELSE Take([guest EXCEPT !.objects = Append(@, s)])
           U == Fatal(NoPlace(<<"unknown option", ": ", "s">>))
<1>1. /\ stage = "parse"
      /\ CASE isR -> R [] isS -> S [] isV -> V [] isI -> I [] isD -> D [] isO -> O [] OTHER -> U
  BY <1>s DEF ParseArg
<1> HIDE DEF isR, isS, isV, isI, isD, isO, R, S, V, I, D, O, U
<1>2. R \/ S \/ V \/ I \/ D \/ O \/ U
  BY ONLY <1>1
<1>3. R \/ S \/ V \/ I => \E g : Take(g)
  BY ONLY DEF R, S, V, I
<1>4. D => Fatal(many) \/ \E g : Take(g)
  BY ONLY DEF D
<1>5. O => Fatal(NoPlace(<<"too many objects on the command line">>)) \/ \E g : Take(g)
  BY ONLY DEF O
<1>6. many.severity = "Error" /\ \A words : NoPlace(words).severity = "Error"
  BY DEF NoPlace
<1>7. U => Fatal(NoPlace(<<"unknown option", ": ", "s">>))
  BY ONLY DEF U
<1> HIDE DEF many
<1>8. Worded(many) /\ Worded(NoPlace(<<"too many objects on the command line">>))
      /\ Worded(NoPlace(<<"unknown option", ": ", "s">>))
  BY CommandLineWorded DEF many
<1>9. QED
  BY ONLY <1>1, <1>2, <1>3, <1>4, <1>5, <1>6, <1>7, <1>8

(* What one turn of the loop does with each.                                *)
LEMMA Turn ==
  ASSUME ParseArg, NEW s \in Seq(Nat), ParamStr(step) = s
  PROVE  /\ stage = "parse" /\ step <= ParamCount
         /\ \A on \in BOOLEAN : s = Switch(LetterR, on) =>
              Take([guest EXCEPT !.range = (s = Switch(LetterR, TRUE))])
         /\ \A on \in BOOLEAN : s = Switch(LetterS, on) =>
              Take([guest EXCEPT !.stack = (s = Switch(LetterS, TRUE))])
         /\ s = <<Dash, LetterV>> => Take([guest EXCEPT !.verbose = TRUE])
         /\ s = <<Dash, LetterI>> => Take([guest EXCEPT !.includes = TRUE])
         /\ Len(s) > 2 /\ SubSeq(s, 1, 2) = <<Dash, LetterD>> =>
              \/ /\ SubSeq(s, 3, Len(s)) \notin guest.defines /\ Cardinality(guest.defines) >= MaxDefines
                 /\ Fatal([NoPlace(<<"too many conditional symbols">>) EXCEPT !.line = "0", !.col = "0"])
              \/ Take([guest EXCEPT !.defines = @ \cup {SubSeq(s, 3, Len(s))}])
         /\ s # <<>> /\ ~StartsDash(s) =>
              \/ Len(guest.objects) >= MaxObjArgs /\ Fatal(NoPlace(<<"too many objects on the command line">>))
              \/ Take([guest EXCEPT !.objects = Append(@, s)])
<1> DEFINE name == SubSeq(s, 3, Len(s))
           many == [NoPlace(<<"too many conditional symbols">>) EXCEPT !.line = "0", !.col = "0"]
           isR == \E on \in BOOLEAN : s = Switch(LetterR, on)
           isS == \E on \in BOOLEAN : s = Switch(LetterS, on)
           isV == s = <<Dash, LetterV>>
           isI == s = <<Dash, LetterI>>
           isD == Len(s) > 2 /\ SubSeq(s, 1, 2) = <<Dash, LetterD>>
           isO == s # <<>> /\ ~StartsDash(s)
           R == Take([guest EXCEPT !.range = (s = Switch(LetterR, TRUE))])
           S == Take([guest EXCEPT !.stack = (s = Switch(LetterS, TRUE))])
           V == Take([guest EXCEPT !.verbose = TRUE])
           I == Take([guest EXCEPT !.includes = TRUE])
           D == IF name \notin guest.defines /\ Cardinality(guest.defines) >= MaxDefines
                THEN Fatal(many) ELSE Take([guest EXCEPT !.defines = @ \cup {name}])
           O == IF Len(guest.objects) >= MaxObjArgs THEN Fatal(NoPlace(<<"too many objects on the command line">>))
                ELSE Take([guest EXCEPT !.objects = Append(@, s)])
           U == Fatal(NoPlace(<<"unknown option", ": ", "s">>))
<1>1. /\ stage = "parse" /\ step <= ParamCount
      /\ CASE isR -> R [] isS -> S [] isV -> V [] isI -> I [] isD -> D [] isO -> O [] OTHER -> U
  BY DEF ParseArg
<1>2. /\ isR => s # <<>> /\ s[1] = Dash /\ s[2] = LetterR
      /\ isS => s # <<>> /\ s[1] = Dash /\ s[2] = LetterS
      /\ isV => s # <<>> /\ s[1] = Dash /\ s[2] = LetterV
      /\ isI => s # <<>> /\ s[1] = Dash /\ s[2] = LetterI
      /\ isD => s # <<>> /\ s[1] = Dash /\ s[2] = LetterD
  BY Kinds
<1>3. isO => s[1] # Dash
  BY DEF StartsDash
<1> HIDE DEF isR, isS, isV, isI, isD, isO, R, S, V, I, D, O, U
<1>4. /\ isR => R
      /\ isS => S
      /\ isV => V
      /\ isI => I
      /\ isD => D
      /\ isO => O
  BY ONLY <1>1, <1>2, <1>3 DEF LetterR, LetterS, LetterV, LetterI, LetterD
<1>5. isD => \/ /\ name \notin guest.defines /\ Cardinality(guest.defines) >= MaxDefines
                /\ Fatal(many)
             \/ Take([guest EXCEPT !.defines = @ \cup {name}])
  BY ONLY <1>4 DEF D
<1>6. isO => \/ Len(guest.objects) >= MaxObjArgs /\ Fatal(NoPlace(<<"too many objects on the command line">>))
             \/ Take([guest EXCEPT !.objects = Append(@, s)])
  BY ONLY <1>4 DEF O
<1> HIDE DEF name, many
<1>7. /\ isR => Take([guest EXCEPT !.range = (s = Switch(LetterR, TRUE))])
      /\ isS => Take([guest EXCEPT !.stack = (s = Switch(LetterS, TRUE))])
      /\ isV => Take([guest EXCEPT !.verbose = TRUE])
      /\ isI => Take([guest EXCEPT !.includes = TRUE])
  BY ONLY <1>4 DEF R, S, V, I
<1>8. stage = "parse" /\ step <= ParamCount
  BY ONLY <1>1
<1>9. QED
  BY <1>5, <1>6, <1>7, <1>8 DEF isR, isS, isV, isI, isD, isO, name, many

-----------------------------------------------------------------------------
(* What the guest knows after each argument.                                *)

(* How many arguments come before each kind.                                *)
LEMMA Counts ==
  ASSUME NEW o \in OptionSets
  PROVE  /\ BeforeInclude(o) \in Nat /\ BeforeDefines(o) \in Nat /\ BeforeObjects(o) \in Nat
         /\ Len(o.defines) \in Nat /\ Len(o.objects) \in Nat
         /\ IF o.verbose THEN BeforeInclude(o) = 4 ELSE BeforeInclude(o) = 3
         /\ IF o.include # NoDir THEN BeforeDefines(o) = BeforeInclude(o) + 1 ELSE BeforeDefines(o) = BeforeInclude(o)
         /\ BeforeObjects(o) = BeforeDefines(o) + Len(o.defines)
         /\ Len(ToArgs(o)) = BeforeObjects(o) + Len(o.objects)
<1>1. /\ BeforeInclude(o) \in Nat /\ BeforeDefines(o) \in Nat /\ BeforeObjects(o) \in Nat
      /\ Len(o.defines) \in Nat /\ Len(o.objects) \in Nat
      /\ Len(ToArgs(o)) = BeforeObjects(o) + Len(o.objects)
  BY ArgsMade
<1>2. IF o.verbose THEN BeforeInclude(o) = 4 ELSE BeforeInclude(o) = 3
  BY DEF BeforeInclude, BeforeVerbose, Ones
<1>3. IF o.include # NoDir THEN BeforeDefines(o) = BeforeInclude(o) + 1 ELSE BeforeDefines(o) = BeforeInclude(o)
  BY <1>1 DEF BeforeDefines, Ones
<1>4. BeforeObjects(o) = BeforeDefines(o) + Len(o.defines)
  BY DEF BeforeObjects
<1>5. QED
  BY <1>1, <1>2, <1>3, <1>4

(* The symbols and the objects told of grow by one, each in its turn.       *)
LEMMA ToldGrows ==
  ASSUME NEW o \in OptionSets, NEW p \in Nat
  PROVE  /\ p < BeforeDefines(o) \/ BeforeObjects(o) <= p => Told(o, p + 1) = Told(o, p)
         /\ \A i \in 1..Len(o.defines) :
              p + 1 = BeforeDefines(o) + i => Told(o, p + 1) = Told(o, p) \cup {o.defines[i]}
         /\ p < BeforeObjects(o) => SubSeq(o.objects, 1, p + 1 - BeforeObjects(o)) = << >>
                                    /\ SubSeq(o.objects, 1, p - BeforeObjects(o)) = << >>
         /\ \A i \in 1..Len(o.objects) :
              p + 1 = BeforeObjects(o) + i =>
                /\ SubSeq(o.objects, 1, p + 1 - BeforeObjects(o))
                     = Append(SubSeq(o.objects, 1, p - BeforeObjects(o)), o.objects[i])
                /\ Len(SubSeq(o.objects, 1, p - BeforeObjects(o))) = i - 1
<1>1. PICK d \in Nat, k \in Nat, x \in Nat, y \in Nat :
        d = BeforeDefines(o) /\ k = Len(o.defines) /\ x = BeforeObjects(o) /\ y = Len(o.objects)
  BY Counts
<1>2. x = d + k
  BY <1>1, Counts
<1>3. o.defines \in Vectors /\ o.objects \in Vectors
  BY CompileConstants DEF Vectors
<1>4. DOMAIN o.defines = 1..k
  BY <1>1, <1>3 DEF Vectors
<1>5. \A q : Told(o, q) = {o.defines[i] : i \in {j \in 1..k : d + j <= q}}
  BY <1>1, <1>4 DEF Told
<1>6. p < d \/ x <= p => Told(o, p + 1) = Told(o, p)
  <2> SUFFICES ASSUME p < d \/ x <= p PROVE Told(o, p + 1) = Told(o, p)
    OBVIOUS
  <2>1. {j \in 1..k : d + j <= p + 1} = {j \in 1..k : d + j <= p}
    BY <1>2
  <2>2. QED
    BY ONLY <1>5, <2>1
<1>7. ASSUME NEW i \in 1..k, p + 1 = d + i PROVE Told(o, p + 1) = Told(o, p) \cup {o.defines[i]}
  <2>1. PICK A, B : A = {j \in 1..k : d + j <= p} /\ B = {j \in 1..k : d + j <= p + 1}
    OBVIOUS
  <2>2. B = A \cup {i}
    BY <1>7, <2>1
  <2>3. Told(o, p) = {o.defines[z] : z \in A} /\ Told(o, p + 1) = {o.defines[z] : z \in B}
    BY ONLY <1>5, <2>1
  <2>4. QED
    BY ONLY <2>2, <2>3
<1>9. ASSUME p < x
      PROVE  SubSeq(o.objects, 1, p + 1 - x) = << >> /\ SubSeq(o.objects, 1, p - x) = << >>
  <2>1. p + 1 - x <= 0 /\ p - x <= 0 /\ p + 1 - x \in Int /\ p - x \in Int
    BY <1>9
  <2>2. QED
    BY <1>3, <2>1 DEF Vectors
<1>10. ASSUME NEW i \in 1..y, p + 1 = x + i
       PROVE  /\ SubSeq(o.objects, 1, p + 1 - x) = Append(SubSeq(o.objects, 1, p - x), o.objects[i])
              /\ Len(SubSeq(o.objects, 1, p - x)) = i - 1
  <2>1. p + 1 - x = i /\ p - x = i - 1
    BY <1>10
  <2>2. PICK obs \in Seq(Seq(Nat)) : obs = o.objects /\ Len(obs) = y
    BY <1>1, <1>3 DEF Vectors
  <2>3. SubSeq(obs, 1, i) = Append(SubSeq(obs, 1, i - 1), obs[i]) /\ Len(SubSeq(obs, 1, i - 1)) = i - 1
    BY ONLY <2>2, i \in 1..y, y \in Nat
  <2>4. QED
    BY ONLY <2>1, <2>2, <2>3
<1>11. QED
  BY ONLY <1>1, <1>6, <1>7, <1>9, <1>10

(* One more argument tells one more thing: s is the argument, g and n what   *)
(* the guest knows before and after it.                                     *)
Teaches(s, g, n, o, p) ==
  \/ s = Switch(LetterR, o.range) /\ n = [g EXCEPT !.range = o.range]
  \/ s = Switch(LetterS, o.stack) /\ n = [g EXCEPT !.stack = o.stack]
  \/ s = <<Dash, LetterV>> /\ n = [g EXCEPT !.verbose = TRUE]
  \/ s = <<Dash, LetterI>> /\ n = [g EXCEPT !.includes = TRUE]
  \/ \E i \in 1..Len(o.defines) :
       /\ s = DefineArg(o.defines[i]) /\ n = [g EXCEPT !.defines = @ \cup {o.defines[i]}]
       /\ g.defines = {CPAS} \cup Told(o, p)
  \/ \E i \in 1..Len(o.objects) :
       /\ s = o.objects[i] /\ n = [g EXCEPT !.objects = Append(@, o.objects[i])]
       /\ Len(g.objects) = i - 1

(* What the next argument of to_args teaches.                               *)
LEMMA GuestStep ==
  ASSUME NEW o \in OptionSets, NEW p \in 1..(Len(ToArgs(o)) - 1), NEW s, s = ToArgs(o)[p + 1]
  PROVE  Teaches(s, GuestAfter(o, p), GuestAfter(o, p + 1), o, p)
<1>1. PICK v \in Nat, d \in Nat, k \in Nat, x \in Nat, y \in Nat :
        /\ v = BeforeInclude(o) /\ d = BeforeDefines(o) /\ k = Len(o.defines)
        /\ x = BeforeObjects(o) /\ y = Len(o.objects)
  BY Counts
<1>n. v \in Nat /\ d \in Nat /\ k \in Nat /\ x \in Nat /\ y \in Nat
  OBVIOUS
<1>2. /\ IF o.verbose THEN v = 4 ELSE v = 3
      /\ IF o.include # NoDir THEN d = v + 1 ELSE d = v
      /\ x = d + k /\ Len(ToArgs(o)) = x + y
  BY <1>1, Counts
<1>3. p \in Nat /\ 1 <= p /\ p + 1 <= x + y
  BY <1>2
<1>4. o.range \in BOOLEAN /\ o.stack \in BOOLEAN /\ o.verbose \in BOOLEAN
  BY CompileConstants
<1> DEFINE R(q) == q >= 2 /\ o.range
           S(q) == q < 3 \/ o.stack
           V(q) == q > 3 /\ o.verbose
           I(q) == q > v /\ o.include # NoDir
           D(q) == {CPAS} \cup Told(o, q)
           O(q) == SubSeq(o.objects, 1, q - x)
<1>5. \A q : GuestAfter(o, q) = [range |-> R(q), stack |-> S(q), verbose |-> V(q), includes |-> I(q),
                                 defines |-> D(q), objects |-> O(q)]
  BY <1>1 DEF GuestAfter, BeforeVerbose
<1>6. /\ p = 1 => R(p + 1) = o.range
      /\ p # 1 => R(p + 1) = R(p)
      /\ p = 2 => S(p + 1) = o.stack
      /\ p # 2 => S(p + 1) = S(p)
      /\ p = 3 /\ o.verbose => V(p + 1) = TRUE
      /\ p # 3 \/ ~o.verbose => V(p + 1) = V(p)
      /\ p = v /\ o.include # NoDir => I(p + 1) = TRUE
      /\ p # v \/ o.include = NoDir => I(p + 1) = I(p)
  BY <1>3, <1>4
<1>7. /\ p < d \/ x <= p => D(p + 1) = D(p)
      /\ \A i \in 1..k : p + 1 = d + i => D(p + 1) = D(p) \cup {o.defines[i]}
      /\ p < x => O(p + 1) = O(p)
      /\ \A i \in 1..y : p + 1 = x + i => O(p + 1) = Append(O(p), o.objects[i]) /\ Len(O(p)) = i - 1
  <2>1. /\ p < d \/ x <= p => Told(o, p + 1) = Told(o, p)
        /\ \A i \in 1..k : p + 1 = d + i => Told(o, p + 1) = Told(o, p) \cup {o.defines[i]}
        /\ p < x => SubSeq(o.objects, 1, p + 1 - x) = << >> /\ SubSeq(o.objects, 1, p - x) = << >>
        /\ \A i \in 1..y : p + 1 = x + i =>
             /\ SubSeq(o.objects, 1, p + 1 - x) = Append(SubSeq(o.objects, 1, p - x), o.objects[i])
             /\ Len(SubSeq(o.objects, 1, p - x)) = i - 1
    BY ONLY <1>1, <1>3, o \in OptionSets, ToldGrows
  <2>2. D(p + 1) = {CPAS} \cup Told(o, p + 1) /\ D(p) = {CPAS} \cup Told(o, p)
    OBVIOUS
  <2>3. O(p + 1) = SubSeq(o.objects, 1, p + 1 - x) /\ O(p) = SubSeq(o.objects, 1, p - x)
    OBVIOUS
  <2> HIDE DEF D, O
  <2>4. \A i \in 1..k : p + 1 = d + i => D(p + 1) = D(p) \cup {o.defines[i]}
    <3> SUFFICES ASSUME NEW i \in 1..k, p + 1 = d + i PROVE D(p + 1) = D(p) \cup {o.defines[i]}
      OBVIOUS
    <3>1. Told(o, p + 1) = Told(o, p) \cup {o.defines[i]}
      BY <2>1
    <3>2. QED
      BY ONLY <2>2, <3>1
  <2>5. QED
    BY ONLY <2>1, <2>2, <2>3, <2>4
<1>8. /\ p = 1 => s = Switch(LetterR, o.range)
      /\ p = 2 => s = Switch(LetterS, o.stack)
      /\ p = 3 /\ o.verbose => s = <<Dash, LetterV>>
      /\ p = v /\ o.include # NoDir => s = <<Dash, LetterI>>
      /\ \A i \in 1..k : p + 1 = d + i => s = DefineArg(o.defines[i])
      /\ \A i \in 1..y : p + 1 = x + i => s = o.objects[i]
  <2>1. PICK a : a = ToArgs(o)
    OBVIOUS
  <2>2. /\ a[2] = Switch(LetterR, o.range) /\ a[3] = Switch(LetterS, o.stack)
        /\ o.verbose => a[4] = <<Dash, LetterV>>
        /\ o.include # NoDir => a[BeforeInclude(o) + 1] = <<Dash, LetterI>>
        /\ \A i \in 1..Len(o.defines) : a[BeforeDefines(o) + i] = DefineArg(o.defines[i])
        /\ \A i \in 1..Len(o.objects) : a[BeforeObjects(o) + i] = o.objects[i]
    BY ONLY <2>1, o \in OptionSets, ArgsMade
  <2>3. s = a[p + 1]
    BY <2>1
  <2>4. QED
    BY ONLY <1>1, <2>2, <2>3, p \in Nat
<1> HIDE DEF R, S, V, I, D, O
<1>9. PICK g, n : g = GuestAfter(o, p) /\ n = GuestAfter(o, p + 1)
  OBVIOUS
<1>10. /\ g = [range |-> R(p), stack |-> S(p), verbose |-> V(p), includes |-> I(p), defines |-> D(p), objects |-> O(p)]
       /\ n = [range |-> R(p + 1), stack |-> S(p + 1), verbose |-> V(p + 1), includes |-> I(p + 1),
               defines |-> D(p + 1), objects |-> O(p + 1)]
  BY <1>5, <1>9
<1>a. CASE p = 1
  <2>1. p # 2 /\ p # 3 /\ p # v /\ p < d /\ p < x
    BY ONLY <1>a, <1>n, <1>2
  <2>2. n = [g EXCEPT !.range = o.range]
    BY ONLY <1>10, <1>6, <1>7, <1>a, <2>1
  <2>3. QED
    BY <1>8, <1>9, <1>a, <2>2 DEF Teaches
<1>b. CASE p = 2
  <2>1. p # 1 /\ p # 3 /\ p # v /\ p < d /\ p < x
    BY ONLY <1>b, <1>n, <1>2
  <2>2. n = [g EXCEPT !.stack = o.stack]
    BY ONLY <1>10, <1>6, <1>7, <1>b, <2>1
  <2>3. QED
    BY <1>8, <1>9, <1>b, <2>2 DEF Teaches
<1>c. CASE p = 3 /\ o.verbose
  <2>1. p # 1 /\ p # 2 /\ p # v /\ p < d /\ p < x
    BY ONLY <1>c, <1>n, <1>2
  <2>2. n = [g EXCEPT !.verbose = TRUE]
    <3>1. n = [g EXCEPT !.verbose = V(p + 1)]
      BY ONLY <1>10, <1>6, <1>7, <1>c, <2>1
    <3>2. V(p + 1) = TRUE
      BY ONLY <1>6, <1>c
    <3>3. QED
      BY ONLY <3>1, <3>2
  <2>3. QED
    BY <1>8, <1>9, <1>c, <2>2 DEF Teaches
<1>d. CASE p = v /\ o.include # NoDir
  <2>1. p # 1 /\ p # 2 /\ (p # 3 \/ ~o.verbose) /\ p < d /\ p < x
    BY ONLY <1>d, <1>n, <1>2
  <2>2. n = [g EXCEPT !.includes = TRUE]
    <3>1. n = [g EXCEPT !.includes = I(p + 1)]
      BY ONLY <1>10, <1>6, <1>7, <1>d, <2>1
    <3>2. I(p + 1) = TRUE
      BY ONLY <1>6, <1>d
    <3>3. QED
      BY ONLY <3>1, <3>2
  <2>3. QED
    BY <1>8, <1>9, <1>d, <2>2 DEF Teaches
<1>e. CASE \E i \in 1..k : p + 1 = d + i
  <2>1. PICK i \in 1..k : p + 1 = d + i
    BY <1>e
  <2>2. p # 1 /\ p # 2 /\ (p # 3 \/ ~o.verbose) /\ (p # v \/ o.include = NoDir) /\ p < x
    BY ONLY <2>1, <1>n, <1>2, <1>3, i \in 1..k
  <2>3. n = [g EXCEPT !.defines = @ \cup {o.defines[i]}] /\ g.defines = D(p)
    <3>1. D(p + 1) = D(p) \cup {o.defines[i]} /\ O(p + 1) = O(p)
      BY ONLY <1>7, <2>1, <2>2, i \in 1..k
    <3>2. R(p + 1) = R(p) /\ S(p + 1) = S(p) /\ V(p + 1) = V(p) /\ I(p + 1) = I(p)
      BY ONLY <1>6, <2>2
    <3>3. g.defines = D(p)
      BY ONLY <1>10
    <3>4. n = [g EXCEPT !.defines = D(p + 1)]
      BY ONLY <1>10, <3>1, <3>2
    <3>5. QED
      BY ONLY <3>1, <3>3, <3>4
  <2>4. QED
    BY <1>1, <1>8, <1>9, <2>1, <2>3 DEF D, Teaches
<1>f. CASE \E i \in 1..y : p + 1 = x + i
  <2>1. PICK i \in 1..y : p + 1 = x + i
    BY <1>f
  <2>2. p # 1 /\ p # 2 /\ (p # 3 \/ ~o.verbose) /\ (p # v \/ o.include = NoDir) /\ x <= p
    BY ONLY <2>1, <1>n, <1>2, <1>3, i \in 1..y
  <2>3. n = [g EXCEPT !.objects = Append(@, o.objects[i])] /\ Len(g.objects) = i - 1
    <3>1. O(p + 1) = Append(O(p), o.objects[i]) /\ Len(O(p)) = i - 1 /\ D(p + 1) = D(p)
      BY ONLY <1>7, <2>1, <2>2, i \in 1..y
    <3>2. R(p + 1) = R(p) /\ S(p + 1) = S(p) /\ V(p + 1) = V(p) /\ I(p + 1) = I(p)
      BY ONLY <1>6, <2>2
    <3>3. g.objects = O(p)
      BY ONLY <1>10
    <3>4. n = [g EXCEPT !.objects = O(p + 1)]
      BY ONLY <1>10, <3>1, <3>2
    <3>5. QED
      BY ONLY <3>1, <3>3, <3>4
  <2>4. QED
    BY <1>1, <1>8, <1>9, <2>1, <2>3 DEF Teaches
<1>g. \/ p = 1 \/ p = 2 \/ (p = 3 /\ o.verbose) \/ (p = v /\ o.include # NoDir)
      \/ (\E i \in 1..k : p + 1 = d + i) \/ \E i \in 1..y : p + 1 = x + i
  <2>1. CASE p < d
    BY ONLY <1>n, <1>2, <1>3, <2>1
  <2>2. CASE d <= p /\ p < x
    <3>1. p + 1 - d \in 1..k /\ p + 1 = d + (p + 1 - d)
      BY ONLY <1>n, <1>2, <1>3, <2>2
    <3>2. QED
      BY ONLY <3>1
  <2>3. CASE x <= p
    <3>1. p + 1 - x \in 1..y /\ p + 1 = x + (p + 1 - x)
      BY ONLY <1>n, <1>2, <1>3, <2>3
    <3>2. QED
      BY ONLY <3>1
  <2>4. QED
    BY ONLY <1>n, <1>3, <2>1, <2>2, <2>3
<1>11. QED
  BY ONLY <1>a, <1>b, <1>c, <1>d, <1>e, <1>f, <1>g

(* Before the first argument the guest has its defaults, after the last all *)
(* that the host asked for.                                                 *)
LEMMA GuestEnds ==
  ASSUME NEW o \in OptionSets
  PROVE  /\ GuestAfter(o, 1) = Defaults
         /\ GuestAfter(o, Len(ToArgs(o)))
              = [range |-> o.range, stack |-> o.stack, verbose |-> o.verbose, includes |-> o.include # NoDir,
                 defines |-> {CPAS} \cup ToSet(o.defines), objects |-> o.objects]
<1>1. PICK v \in Nat, d \in Nat, k \in Nat, x \in Nat, y \in Nat :
        /\ v = BeforeInclude(o) /\ d = BeforeDefines(o) /\ k = Len(o.defines)
        /\ x = BeforeObjects(o) /\ y = Len(o.objects)
  BY Counts
<1>n. v \in Nat /\ d \in Nat /\ k \in Nat /\ x \in Nat /\ y \in Nat
  OBVIOUS
<1>2. /\ IF o.verbose THEN v = 4 ELSE v = 3
      /\ IF o.include # NoDir THEN d = v + 1 ELSE d = v
      /\ x = d + k /\ Len(ToArgs(o)) = x + y
  BY <1>1, Counts
<1>3. /\ o.range \in BOOLEAN /\ o.stack \in BOOLEAN /\ o.verbose \in BOOLEAN
      /\ o.defines \in Vectors /\ o.objects \in Vectors
  BY CompileConstants DEF Vectors
<1>4. DOMAIN o.defines = 1..k
  BY <1>1, <1>3 DEF Vectors
<1> DEFINE R(q) == q >= 2 /\ o.range
           S(q) == q < 3 \/ o.stack
           V(q) == q > 3 /\ o.verbose
           I(q) == q > v /\ o.include # NoDir
           D(q) == {CPAS} \cup Told(o, q)
           O(q) == SubSeq(o.objects, 1, q - x)
<1>5. \A q : GuestAfter(o, q) = [range |-> R(q), stack |-> S(q), verbose |-> V(q), includes |-> I(q),
                                 defines |-> D(q), objects |-> O(q)]
  BY <1>1 DEF GuestAfter, BeforeVerbose
<1>6. R(1) = FALSE /\ S(1) = TRUE /\ V(1) = FALSE /\ I(1) = FALSE
  BY ONLY <1>n, <1>2
<1>7. D(1) = {CPAS} /\ O(1) = << >>
  <2>1. \A j \in 1..k : ~(d + j <= 1)
    BY ONLY <1>n, <1>2
  <2>2. Told(o, 1) = {}
    BY <1>1, <1>4, <2>1 DEF Told
  <2>3. 1 < x
    BY ONLY <1>n, <1>2
  <2>4. SubSeq(o.objects, 1, 1 - BeforeObjects(o)) = << >>
    BY ONLY <1>1, <2>3, o \in OptionSets, ToldGrows
  <2>5. QED
    BY <1>1, <2>2, <2>4
<1>8. PICK e \in Nat : e = Len(ToArgs(o))
  BY <1>2
<1>9. R(e) = o.range /\ S(e) = o.stack /\ V(e) = o.verbose /\ I(e) = (o.include # NoDir)
  BY ONLY <1>n, <1>2, <1>3, <1>8, e \in Nat
<1>10. D(e) = {CPAS} \cup ToSet(o.defines) /\ O(e) = o.objects
  <2>1. {j \in 1..k : d + j <= e} = 1..k
    BY ONLY <1>n, <1>2, <1>8, e \in Nat
  <2>2. Told(o, e) = {o.defines[i] : i \in 1..k}
    BY <1>1, <1>4, <2>1 DEF Told
  <2>3. ToSet(o.defines) = {o.defines[i] : i \in 1..k}
    BY <1>4 DEF ToSet
  <2>4. e - x = y
    BY ONLY <1>n, <1>2, <1>8, e \in Nat
  <2>5. PICK obs \in Seq(Seq(Nat)) : obs = o.objects
    BY <1>3 DEF Vectors
  <2>6. SubSeq(obs, 1, Len(obs)) = obs
    BY ONLY obs \in Seq(Seq(Nat))
  <2>7. QED
    BY <1>1, <2>2, <2>3, <2>4, <2>5, <2>6
<1> HIDE DEF R, S, V, I, D, O
<1>11. GuestAfter(o, 1) = Defaults
  BY ONLY <1>5, <1>6, <1>7 DEF Defaults
<1>12. GuestAfter(o, e) = [range |-> o.range, stack |-> o.stack, verbose |-> o.verbose,
                          includes |-> o.include # NoDir, defines |-> {CPAS} \cup ToSet(o.defines),
                          objects |-> o.objects]
  BY ONLY <1>5, <1>9, <1>10
<1>13. QED
  BY ONLY <1>8, <1>11, <1>12

(* No argument has a NUL in it if no name has one.                          *)
LEMMA PlainHasNoNul ==
  ASSUME options \in OptionSets, Plain(options), args = ToArgs(options)
  PROVE  NoNul
<1> SUFFICES ASSUME NEW i \in DOMAIN args PROVE Nul \notin ToSet(args[i])
  BY DEF NoNul
<1>1. args \in Vectors /\ DOMAIN args = 1..Len(args) /\ Len(args) \in Nat /\ args[1] = ProgramName
  BY ArgsMade DEF Vectors
<1>2. PICK s : s = args[i]
  OBVIOUS
<1>3. \A letter \in Nat \ {0} : \A on \in BOOLEAN : Nul \notin ToSet(Switch(letter, on))
  BY DEF Switch, ToSet, Nul, Dash, Plus
<1>4. \A letter \in Nat \ {0} : Nul \notin ToSet(<<Dash, letter>>)
  BY DEF ToSet, Nul, Dash
<1>5. \A name \in Seq(Nat) : Nul \notin ToSet(name) => Nul \notin ToSet(DefineArg(name))
  <2> SUFFICES ASSUME NEW name \in Seq(Nat), Nul \notin ToSet(name), Nul \in ToSet(DefineArg(name))
               PROVE  FALSE
    OBVIOUS
  <2>1. PICK n \in Nat : n = Len(name)
    OBVIOUS
  <2>2. PICK p \in Seq(Nat) : p = <<Dash, LetterD>> /\ Len(p) = 2 /\ p[1] # Nul /\ p[2] # Nul
    <3>1. Dash \in Nat /\ LetterD \in Nat /\ Dash # Nul /\ LetterD # Nul
      BY DEF Dash, LetterD, Nul
    <3>2. <<Dash, LetterD>> \in Seq(Nat)
      BY ONLY <3>1
    <3>3. QED
      BY ONLY <3>1, <3>2
  <2>3. /\ p \o name \in Seq(Nat) /\ Len(p \o name) = 2 + n
        /\ \A j \in 1..2 + n : (p \o name)[j] = IF j <= 2 THEN p[j] ELSE name[j - 2]
    <3>1. /\ p \o name \in Seq(Nat) /\ Len(p \o name) = Len(p) + Len(name)
          /\ \A j \in 1..Len(p) + Len(name) : (p \o name)[j] = IF j <= Len(p) THEN p[j] ELSE name[j - Len(p)]
      BY ONLY p \in Seq(Nat), name \in Seq(Nat), ConcatProperties
    <3>2. QED
      BY ONLY <2>1, <2>2, <3>1
  <2>4. PICK j \in 1..2 + n : (p \o name)[j] = Nul
    <3>1. DefineArg(name) = p \o name /\ DOMAIN (p \o name) = 1..2 + n
      BY <2>2, <2>3 DEF DefineArg
    <3>2. QED
      BY <3>1 DEF ToSet
  <2>5. CASE j <= 2
    <3>1. j = 1 \/ j = 2
      BY <2>5
    <3>2. QED
      BY ONLY <2>2, <2>3, <2>4, <2>5, <3>1, j \in 1..2 + n
  <2>6. CASE ~(j <= 2)
    <3>1. j - 2 \in 1..n
      BY <2>6
    <3>2. name[j - 2] = Nul /\ DOMAIN name = 1..n
      BY <2>1, <2>3, <2>4, <2>6
    <3>3. QED
      BY ONLY <3>1, <3>2, Nul \notin ToSet(name) DEF ToSet
  <2>7. QED
    BY <2>5, <2>6
<1>6. CASE i = 1
  BY <1>1, <1>6 DEF ProgramName, ToSet, Nul
<1>7. CASE i # 1
  <2>1. PICK p \in 1..Len(args) - 1 : i = p + 1
    <3>1. i - 1 \in 1..Len(args) - 1 /\ i = (i - 1) + 1
      BY <1>1, <1>7
    <3>2. QED
      BY <3>1
  <2>2. s = ToArgs(options)[p + 1] /\ p \in 1..(Len(ToArgs(options)) - 1)
    BY <1>2, <2>1
  <2>3. \/ s = Switch(LetterR, options.range) \/ s = Switch(LetterS, options.stack)
        \/ s = <<Dash, LetterV>> \/ s = <<Dash, LetterI>>
        \/ \E j \in 1..Len(options.defines) : s = DefineArg(options.defines[j])
        \/ \E j \in 1..Len(options.objects) : s = options.objects[j]
    <3>1. Teaches(s, GuestAfter(options, p), GuestAfter(options, p + 1), options, p)
      BY <2>2, GuestStep
    <3>2. QED
      BY ONLY <3>1 DEF Teaches
  <2>4. /\ options.range \in BOOLEAN /\ options.stack \in BOOLEAN
        /\ options.defines \in Seq(Seq(Nat)) /\ options.objects \in Seq(Seq(Nat))
    BY CompileConstants
  <2>5. Nul \notin ToSet(Switch(LetterR, options.range)) /\ Nul \notin ToSet(Switch(LetterS, options.stack))
        /\ Nul \notin ToSet(<<Dash, LetterV>>) /\ Nul \notin ToSet(<<Dash, LetterI>>)
    BY <1>3, <1>4, <2>4 DEF LetterR, LetterS, LetterV, LetterI
  <2>6. \A j \in 1..Len(options.defines) : Nul \notin ToSet(DefineArg(options.defines[j]))
    BY <1>5, <2>4 DEF Plain
  <2>7. \A j \in 1..Len(options.objects) : Nul \notin ToSet(options.objects[j])
    BY <2>4 DEF Plain
  <2>8. QED
    BY ONLY <1>2, <2>3, <2>5, <2>6, <2>7
<1>8. QED
  BY <1>6, <1>7

(* While a symbol is missing there is room for it.                          *)
LEMMA RoomForSymbol ==
  ASSUME NEW o \in OptionSets, Plain(o), NEW p, NEW i \in 1..Len(o.defines),
         o.defines[i] \notin {CPAS} \cup Told(o, p)
  PROVE  ~(Cardinality({CPAS} \cup Told(o, p)) >= MaxDefines)
<1> DEFINE All == {CPAS} \cup ToSet(o.defines)
           G == {CPAS} \cup Told(o, p)
           n == Len(o.defines)
<1>1. o.defines \in Seq(Seq(Nat)) /\ n \in Nat /\ DOMAIN o.defines = 1..n
  <2>1. o.defines \in Seq(Seq(Nat))
    BY CompileConstants
  <2>2. PICK t \in Seq(Seq(Nat)) : t = o.defines
    BY ONLY <2>1
  <2>3. QED
    BY ONLY <2>2, t \in Seq(Seq(Nat))
<1>2. ToSet(o.defines) = {o.defines[j] : j \in 1..n}
  BY <1>1 DEF ToSet
<1>3. IsFiniteSet(ToSet(o.defines))
  <2>1. PICK f : f = [j \in 1..n |-> o.defines[j]]
    OBVIOUS
  <2>2. f \in Surjection(1..n, ToSet(o.defines))
    BY <1>2, <2>1 DEF Surjection
  <2>3. IsFiniteSet(1..n)
    BY <1>1, FS_Interval
  <2>4. QED
    BY <2>2, <2>3, FS_Surjection
<1>4. IsFiniteSet(All)
  <2>1. IsFiniteSet(ToSet(o.defines) \cup {CPAS})
    BY <1>3, FS_AddElement
  <2>2. All = ToSet(o.defines) \cup {CPAS}
    OBVIOUS
  <2>3. QED
    BY <2>1, <2>2
<1>5. G \in SUBSET All /\ o.defines[i] \in All /\ o.defines[i] \notin G
  BY <1>1, <1>2 DEF Told
<1>6. Cardinality(All) <= MaxDefines /\ MaxDefines \in Nat
  BY CompileConstants DEF Plain
<1> HIDE DEF All, G
<1>7. /\ IsFiniteSet(G) /\ Cardinality(G) <= Cardinality(All)
      /\ Cardinality(All) = Cardinality(G) => All = G
  BY <1>4, <1>5, FS_Subset
<1>8. Cardinality(G) \in Nat /\ Cardinality(All) \in Nat
  BY <1>4, <1>7, FS_CardinalityType
<1>9. Cardinality(All) # Cardinality(G)
  BY <1>5, <1>7
<1>10. ~(Cardinality(G) >= MaxDefines)
  BY ONLY <1>6, <1>7, <1>8, <1>9
<1>11. QED
  BY <1>10 DEF G

(* The argument of a symbol, taken apart as the snapshot does it.           *)
LEMMA DefineArgParts ==
  ASSUME NEW name \in Seq(Nat), name # <<>>
  PROVE  LET s == DefineArg(name)
         IN  Len(s) > 2 /\ SubSeq(s, 1, 2) = <<Dash, LetterD>> /\ SubSeq(s, 3, Len(s)) = name
<1>1. PICK n \in Nat : n = Len(name) /\ n > 0
  <2>1. Len(name) \in Nat /\ Len(name) > 0
    OBVIOUS
  <2>2. QED
    BY ONLY <2>1
<1>2. PICK p \in Seq(Nat) : p = <<Dash, LetterD>>
  <2>1. <<Dash, LetterD>> \in Seq(Nat)
    BY DEF Dash, LetterD
  <2>2. QED
    BY ONLY <2>1
<1>3. Len(p) = 2 /\ p[1] = Dash /\ p[2] = LetterD
  BY ONLY <1>2
<1>4. /\ p \o name \in Seq(Nat) /\ Len(p \o name) = 2 + n
      /\ \A j \in 1..2 + n : (p \o name)[j] = IF j <= 2 THEN p[j] ELSE name[j - 2]
  <2>1. /\ p \o name \in Seq(Nat) /\ Len(p \o name) = Len(p) + Len(name)
        /\ \A j \in 1..Len(p) + Len(name) : (p \o name)[j] = IF j <= Len(p) THEN p[j] ELSE name[j - Len(p)]
    BY ONLY p \in Seq(Nat), name \in Seq(Nat), ConcatProperties
  <2>2. QED
    BY ONLY <1>1, <1>3, <2>1
<1>5. PICK s \in Seq(Nat) : s = p \o name
  BY ONLY <1>4
<1>6. Len(s) = 2 + n /\ s[1] = Dash /\ s[2] = LetterD
  <2>1. 1 \in 1..2 + n /\ 2 \in 1..2 + n
    OBVIOUS
  <2>2. QED
    BY ONLY <1>3, <1>4, <1>5, <2>1
<1>7. ASSUME NEW i \in 1..n PROVE s[i + 2] = name[i]
  <2>1. i + 2 \in 1..2 + n /\ ~(i + 2 <= 2) /\ (i + 2) - 2 = i
    OBVIOUS
  <2>2. QED
    BY ONLY <1>4, <1>5, <2>1
<1>8. SubSeq(s, 1, 2) = <<Dash, LetterD>>
  <2>1. SubSeq(s, 1, 2) \in Seq(Nat) /\ Len(SubSeq(s, 1, 2)) = 2 /\ SubSeq(s, 1, 2)[1] = s[1] /\ SubSeq(s, 1, 2)[2] = s[2]
    BY ONLY <1>6, n \in Nat, s \in Seq(Nat)
  <2>2. PICK t \in Seq(Nat) : t = SubSeq(s, 1, 2) /\ Len(t) = 2 /\ t[1] = Dash /\ t[2] = LetterD
    BY ONLY <1>6, <2>1
  <2>3. t = [i \in 1..2 |-> t[i]]
    BY ONLY <2>2, t \in Seq(Nat)
  <2>4. \A i \in 1..2 : i = 1 \/ i = 2
    OBVIOUS
  <2>5. t = <<t[1], t[2]>>
    BY ONLY <2>3, <2>4
  <2>6. QED
    BY ONLY <2>2, <2>5
<1>9. SubSeq(s, 3, Len(s)) = name
  <2>1. SubSeq(s, 3, 2 + n) \in Seq(Nat) /\ Len(SubSeq(s, 3, 2 + n)) = n
        /\ \A i \in 1..n : SubSeq(s, 3, 2 + n)[i] = s[3 + i - 1]
    BY ONLY <1>6, s \in Seq(Nat), n \in Nat
  <2>2. \A i \in 1..n : 3 + i - 1 = i + 2
    OBVIOUS
  <2>3. SubSeq(s, 3, 2 + n) = [i \in 1..n |-> name[i]]
    BY ONLY <1>7, <2>1, <2>2, n \in Nat
  <2>4. name = [i \in 1..n |-> name[i]]
    BY ONLY <1>1, name \in Seq(Nat)
  <2>5. QED
    BY ONLY <1>6, <2>3, <2>4
<1>10. DefineArg(name) = s /\ Len(s) > 2
  <2>1. Len(s) > 2
    BY ONLY <1>1, <1>6, n \in Nat
  <2>2. QED
    BY ONLY <1>2, <1>5, <2>1 DEF DefineArg
<1>11. QED
  BY ONLY <1>8, <1>9, <1>10

(* The two positions of a switch differ.                                    *)
LEMMA SwitchTells ==
  ASSUME NEW letter, NEW on \in BOOLEAN
  PROVE  (Switch(letter, on) = Switch(letter, TRUE)) = on
<1>1. Switch(letter, FALSE) # Switch(letter, TRUE)
  BY DEF Switch, Plus, Dash
<1>2. on = TRUE \/ on = FALSE
  OBVIOUS
<1>3. QED
  BY ONLY <1>1, <1>2

(* A turn of the loop on a vector that fits: what the guest knows is what   *)
(* one more argument tells.                                                 *)
LEMMA TurnTells ==
  ASSUME ParseArg, AreaTypes, options \in OptionSets, args = ToArgs(options), Plain(options), FitsAreas(args),
         \A i \in DOMAIN options.objects : options.objects[i] # <<>>,
         InSlots(Len(args)), step \in 1..Len(args), guest = GuestAfter(options, step)
  PROVE  step' \in 1..Len(args) /\ Take(GuestAfter(options, step'))
<1>1. Len(args) \in Nat /\ step \in 1..(Len(args) - 1)
  <2>1. Len(args) \in Nat
    BY DEF AreaTypes, Vectors
  <2>2. step <= Len(args) - 1
    BY DEF ParseArg, ParamCount
  <2>3. QED
    BY ONLY <2>1, <2>2, step \in 1..Len(args)
<1>2. PICK s \in Seq(Nat) : s = args[step + 1] /\ ParamStr(step) = s
  <2>1. step \in 0..(Len(args) - 1)
    BY <1>1
  <2>2. QED
    BY <2>1, ParamRead
<1>3. PICK n : n = GuestAfter(options, step + 1) /\ Teaches(s, guest, n, options, step)
  <2>1. s = ToArgs(options)[step + 1] /\ step \in 1..(Len(ToArgs(options)) - 1)
    BY <1>1, <1>2
  <2>2. QED
    BY <2>1, GuestStep
<1>4. /\ options.range \in BOOLEAN /\ options.stack \in BOOLEAN
      /\ options.defines \in Seq(Seq(Nat)) /\ options.objects \in Seq(Seq(Nat))
  BY CompileConstants
<1>5. /\ \A on \in BOOLEAN : s = Switch(LetterR, on) => Take([guest EXCEPT !.range = (s = Switch(LetterR, TRUE))])
      /\ \A on \in BOOLEAN : s = Switch(LetterS, on) => Take([guest EXCEPT !.stack = (s = Switch(LetterS, TRUE))])
      /\ s = <<Dash, LetterV>> => Take([guest EXCEPT !.verbose = TRUE])
      /\ s = <<Dash, LetterI>> => Take([guest EXCEPT !.includes = TRUE])
      /\ Len(s) > 2 /\ SubSeq(s, 1, 2) = <<Dash, LetterD>> =>
           \/ SubSeq(s, 3, Len(s)) \notin guest.defines /\ Cardinality(guest.defines) >= MaxDefines
           \/ Take([guest EXCEPT !.defines = @ \cup {SubSeq(s, 3, Len(s))}])
      /\ s # <<>> /\ ~StartsDash(s) =>
           Len(guest.objects) >= MaxObjArgs \/ Take([guest EXCEPT !.objects = Append(@, s)])
  BY <1>2, Turn
<1>6. Take(n)
  <2>1. CASE s = Switch(LetterR, options.range) /\ n = [guest EXCEPT !.range = options.range]
    <3>1. (s = Switch(LetterR, TRUE)) = options.range
      BY ONLY <1>4, <2>1, SwitchTells
    <3>2. Take([guest EXCEPT !.range = (s = Switch(LetterR, TRUE))])
      BY ONLY <1>4, <1>5, <2>1
    <3>3. QED
      BY ONLY <2>1, <3>1, <3>2
  <2>2. CASE s = Switch(LetterS, options.stack) /\ n = [guest EXCEPT !.stack = options.stack]
    <3>1. (s = Switch(LetterS, TRUE)) = options.stack
      BY ONLY <1>4, <2>2, SwitchTells
    <3>2. Take([guest EXCEPT !.stack = (s = Switch(LetterS, TRUE))])
      BY ONLY <1>4, <1>5, <2>2
    <3>3. QED
      BY ONLY <2>2, <3>1, <3>2
  <2>3. CASE s = <<Dash, LetterV>> /\ n = [guest EXCEPT !.verbose = TRUE]
    BY ONLY <1>5, <2>3
  <2>4. CASE s = <<Dash, LetterI>> /\ n = [guest EXCEPT !.includes = TRUE]
    BY ONLY <1>5, <2>4
  <2>5. CASE \E i \in 1..Len(options.defines) :
               /\ s = DefineArg(options.defines[i]) /\ n = [guest EXCEPT !.defines = @ \cup {options.defines[i]}]
               /\ guest.defines = {CPAS} \cup Told(options, step)
    <3>1. PICK i \in 1..Len(options.defines) :
               /\ s = DefineArg(options.defines[i]) /\ n = [guest EXCEPT !.defines = @ \cup {options.defines[i]}]
               /\ guest.defines = {CPAS} \cup Told(options, step)
      BY ONLY <2>5
    <3>2. PICK name \in Seq(Nat) : name = options.defines[i] /\ name # <<>>
      <4>1. i \in DOMAIN options.defines /\ options.defines[i] \in Seq(Nat)
        BY <1>4
      <4>2. QED
        BY ONLY <4>1, Plain(options) DEF Plain
    <3>3. Len(s) > 2 /\ SubSeq(s, 1, 2) = <<Dash, LetterD>> /\ SubSeq(s, 3, Len(s)) = name
      BY ONLY <3>1, <3>2, name \in Seq(Nat), DefineArgParts
    <3>4. ~(name \notin guest.defines /\ Cardinality(guest.defines) >= MaxDefines)
      BY <3>1, <3>2, RoomForSymbol
    <3>5. Take([guest EXCEPT !.defines = @ \cup {SubSeq(s, 3, Len(s))}])
      BY ONLY <1>5, <3>3, <3>4
    <3>6. QED
      BY ONLY <3>1, <3>2, <3>3, <3>5
  <2>6. CASE \E i \in 1..Len(options.objects) :
               /\ s = options.objects[i] /\ n = [guest EXCEPT !.objects = Append(@, options.objects[i])]
               /\ Len(guest.objects) = i - 1
    <3>1. PICK i \in 1..Len(options.objects) :
               /\ s = options.objects[i] /\ n = [guest EXCEPT !.objects = Append(@, options.objects[i])]
               /\ Len(guest.objects) = i - 1
      BY ONLY <2>6
    <3>2. i \in DOMAIN options.objects /\ Len(options.objects) \in Nat
      BY <1>4
    <3>3. s # <<>> /\ ~StartsDash(s) /\ Len(options.objects) <= MaxObjArgs
      BY <3>1, <3>2 DEF Plain
    <3>4. ~(Len(guest.objects) >= MaxObjArgs)
      <4>1. MaxObjArgs \in Nat
        BY CompileConstants
      <4>2. QED
        BY ONLY <3>1, <3>2, <3>3, <4>1, i \in 1..Len(options.objects)
    <3>5. QED
      BY ONLY <1>5, <3>1, <3>3, <3>4
  <2>7. QED
    BY ONLY <1>3, <2>1, <2>2, <2>3, <2>4, <2>5, <2>6 DEF Teaches
<1>7. step' = step + 1
  BY <1>6 DEF Take
<1>8. step' \in 1..Len(args)
  BY ONLY <1>1, <1>7
<1>9. QED
  BY ONLY <1>3, <1>6, <1>7, <1>8

(* What a host reads back out of the lines is what was reported.            *)
Lines == said \in Seq(ReportType) /\ (\A i \in DOMAIN said : Worded(said[i])) /\ stderr = [i \in DOMAIN said |-> Format(said[i])]

LEMMA DiagnosticsRead ==
  ASSUME Lines
  PROVE  Diagnostics = said
<1>n. PICK n \in Nat, t \in Seq(ReportType) : t = said /\ n = Len(t) /\ DOMAIN said = 1..n
  BY DEF Lines
<1>1. Len(stderr) = n /\ \A i \in 1..n : Tagged(stderr[i]) /\ ParseLine(stderr[i]) = t[i]
  <2>1. stderr = [i \in 1..n |-> Format(said[i])]
    BY <1>n DEF Lines
  <2>2. Len(stderr) = n
    BY ONLY <2>1, n \in Nat
  <2>3. ASSUME NEW i \in 1..n PROVE Tagged(stderr[i]) /\ ParseLine(stderr[i]) = t[i]
    <3>1. Worded(said[i]) /\ stderr[i] = Format(said[i])
      BY <1>n, <2>1 DEF Lines
    <3>2. QED
      BY ONLY <1>n, <3>1, ReadsBack
  <2>4. QED
    BY ONLY <2>2, <2>3
<1> DEFINE Step(f, i) == IF i = 0 THEN <<>>
                         ELSE IF Tagged(stderr[i]) THEN Append(f[i - 1], ParseLine(stderr[i])) ELSE f[i - 1]
           Is(f) == f = [i \in 0..n |-> Step(f, i)]
           s == CHOOSE f : Is(f)
<1>2. Diagnostics = s[n]
  BY <1>1 DEF Diagnostics
<1>3. PICK g : g = [i \in 0..n |-> SubSeq(t, 1, i)]
  OBVIOUS
<1>4. Is(g)
  <2>1. ASSUME NEW i \in 0..n PROVE g[i] = Step(g, i)
    <3>1. CASE i = 0
      BY <1>3, <3>1, n \in Nat
    <3>2. CASE i # 0
      <4>1. i \in 1..n /\ i - 1 \in 0..n
        BY <3>2
      <4>2. SubSeq(t, 1, i) = Append(SubSeq(t, 1, i - 1), t[i])
        BY ONLY <1>n, <4>1, n \in Nat, t \in Seq(ReportType)
      <4>3. Step(g, i) = Append(g[i - 1], t[i])
        BY ONLY <1>1, <3>2, <4>1
      <4>4. QED
        BY ONLY <1>3, <4>1, <4>2, <4>3
    <3>3. QED
      BY <3>1, <3>2
  <2> HIDE DEF Step
  <2>2. DOMAIN g = 0..n /\ g = [i \in 0..n |-> g[i]]
    BY ONLY <1>3
  <2>3. QED
    BY ONLY <2>1, <2>2
<1>5. Is(s)
  <2> HIDE DEF Is
  <2>1. QED
    BY <1>4
<1>6. \A i \in 0..n : s[i] = Step(s, i)
  <2> HIDE DEF Step
  <2>1. \A f : Is(f) => \A i \in 0..n : f[i] = Step(f, i)
    OBVIOUS
  <2> HIDE DEF Is, s
  <2>2. QED
    BY <1>5, <2>1
<1> HIDE DEF s, Is
<1> HIDE DEF Step
<1>7. ASSUME NEW i \in 1..n PROVE s[i] = Append(s[i - 1], t[i])
  <2>1. i \in 0..n /\ i # 0
    BY ONLY n \in Nat, i \in 1..n
  <2>2. s[i] = Step(s, i)
    BY ONLY <1>6, <2>1
  <2>3. QED
    BY ONLY <1>1, <2>1, <2>2, i \in 1..n DEF Step
<1>8. s[0] = <<>>
  <2>1. 0 \in 0..n
    BY ONLY n \in Nat
  <2>2. QED
    BY ONLY <1>6, <2>1 DEF Step
<1> DEFINE T == {i \in 0..n : s[i] = SubSeq(t, 1, i)}
<1>9. 0 \in T
  <2>1. SubSeq(t, 1, 0) = <<>>
    BY ONLY t \in Seq(ReportType)
  <2>2. s[0] = SubSeq(t, 1, 0)
    BY ONLY <1>8, <2>1
  <2>3. QED
    BY <2>2
<1>10. ASSUME NEW i \in 0..n - 1, i \in T PROVE i + 1 \in T
  <2>1. i + 1 \in 1..n /\ (i + 1) - 1 = i
    OBVIOUS
  <2>2. s[i + 1] = Append(SubSeq(t, 1, i), t[i + 1])
    BY <1>7, <1>10, <2>1
  <2>3. SubSeq(t, 1, i + 1) = Append(SubSeq(t, 1, i), t[i + 1])
    BY ONLY <1>n, <2>1, n \in Nat, t \in Seq(ReportType)
  <2>4. QED
    BY <2>1, <2>2, <2>3
<1>11. n \in T
  <2> HIDE DEF T
  <2>1. 0..n \subseteq T
    BY <1>9, <1>10, CountUp
  <2>2. QED
    BY <2>1
<1>12. s[n] = SubSeq(t, 1, n)
  BY <1>11
<1>13. SubSeq(t, 1, n) = t
  BY ONLY <1>n, n \in Nat, t \in Seq(ReportType)
<1>14. QED
  BY ONLY <1>n, <1>2, <1>12, <1>13

(* One more line keeps that.                                                *)
LEMMA SayKeeps ==
  ASSUME Lines, NEW r, Worded(r), Say(r)
  PROVE  /\ Lines' /\ said' # <<>> /\ Len(said') = Len(said) + 1 /\ said'[Len(said')] = r
         /\ \A i \in DOMAIN said : said'[i] = said[i]
         /\ \A i \in DOMAIN said' : i \in DOMAIN said \/ i = Len(said')
<1>n. PICK n \in Nat, t \in Seq(ReportType) : t = said /\ n = Len(t) /\ DOMAIN said = 1..n
  BY DEF Lines
<1>1. r \in ReportType
  BY DEF Worded
<1>2. PICK u \in Seq(ReportType) : u = Append(t, r)
  <2>1. Append(t, r) \in Seq(ReportType)
    BY ONLY <1>1, t \in Seq(ReportType)
  <2>2. QED
    BY ONLY <2>1
<1>3. said' = u /\ Len(u) = n + 1 /\ DOMAIN u = 1..(n + 1) /\ u[n + 1] = r /\ \A i \in 1..n : u[i] = t[i]
  <2>1. said' = u
    BY <1>n, <1>2 DEF Say
  <2>2. QED
    BY ONLY <1>1, <1>2, <1>n, <2>1, n \in Nat, t \in Seq(ReportType)
<1>4. \A i \in 1..(n + 1) : i \in 1..n \/ i = n + 1
  OBVIOUS
<1>5. \A i \in DOMAIN said' : Worded(said'[i])
  <2>1. \A i \in 1..n : Worded(t[i])
    BY ONLY <1>n, Lines DEF Lines
  <2>2. QED
    BY ONLY <1>3, <1>4, <2>1, Worded(r)
<1>6. stderr' = [i \in DOMAIN said' |-> Format(said'[i])]
  <2>1. stderr = [i \in 1..n |-> Format(t[i])]
    BY ONLY <1>n, Lines DEF Lines
  <2>2. stderr' = Append(stderr, Format(r))
    BY DEF Say
  <2>3. PICK y : y = Format(r)
    OBVIOUS
  <2>4. Len(stderr) = n
    BY ONLY <2>1, n \in Nat
  <2>5. Append(stderr, y) = [i \in 1..(n + 1) |-> IF i = n + 1 THEN y ELSE stderr[i]]
    <3>1. PICK x : x = stderr
      OBVIOUS
    <3>2. PICK Q : Q = {x[i] : i \in 1..n} \cup {y}
      OBVIOUS
    <3>3. x \in Seq(Q) /\ y \in Q /\ Len(x) = n
      <4>1. x = [i \in 1..n |-> x[i]]
        BY ONLY <2>1, <3>1
      <4>2. \A i \in 1..n : x[i] \in Q
        BY ONLY <3>2
      <4>3. x \in [1..n -> Q]
        BY ONLY <4>1, <4>2
      <4>4. y \in Q
        BY ONLY <3>2
      <4>5. QED
        BY ONLY <4>3, <4>4, n \in Nat
    <3>4. Append(x, y) = [i \in 1..(n + 1) |-> IF i = n + 1 THEN y ELSE x[i]]
      <4>1. PICK z : z = Append(x, y)
        OBVIOUS
      <4>2. DOMAIN z = 1..(n + 1) /\ z[n + 1] = y /\ \A i \in 1..n : z[i] = x[i]
        BY ONLY <3>3, <4>1, n \in Nat
      <4>3. z \in Seq(Q)
        BY ONLY <3>3, <4>1
      <4>4. z = [i \in DOMAIN z |-> z[i]]
        BY ONLY <4>3
      <4>5. \A i \in 1..(n + 1) : z[i] = IF i = n + 1 THEN y ELSE x[i]
        BY ONLY <1>4, <4>2
      <4>6. QED
        BY ONLY <4>1, <4>2, <4>4, <4>5
    <3>5. QED
      BY ONLY <3>1, <3>4
  <2>6. \A i \in 1..(n + 1) : (IF i = n + 1 THEN y ELSE stderr[i]) = Format(u[i])
    BY ONLY <1>3, <1>4, <2>1, <2>3
  <2>7. QED
    BY ONLY <1>3, <2>2, <2>3, <2>5, <2>6
<1>7. Lines'
  BY ONLY <1>3, <1>5, <1>6, u \in Seq(ReportType) DEF Lines
<1>8. QED
  <2>1. said' # <<>>
    BY ONLY <1>3, n \in Nat
  <2>2. QED
    BY ONLY <1>n, <1>3, <1>4, <1>7, <2>1

(* The outcome a host is given hangs on the lines and on how the run ended. *)
LEMMA ResultStays ==
  ASSUME UNCHANGED <<stderr, stopped>>
  PROVE  ResultOf' = ResultOf
BY DEF ResultOf, HasError, Diagnostics, Tagged, ParseLine, SplitPosition

(* The areas before anything is written to them.                            *)
LEMMA Begins ==
  ASSUME CompileInit
  PROVE  CompileInv
<1>1. AreaTypes
  <2>1. area = [a \in 0..(AreaEnd - 1) |-> 0]
    BY DEF CompileInit, ArgsInit
  <2>2. area \in Areas
    <3>1. 0 \in Nat
      OBVIOUS
    <3>2. QED
      BY ONLY <2>1, <3>1 DEF Areas
  <2>3. args \in Vectors
    BY DEF CompileInit, ArgsInit, Vectors
  <2>4. bufAt = addrArgBuf /\ step = 0 /\ addrArgBuf \in Nat
    BY Sizes DEF CompileInit, ArgsInit
  <2>5. QED
    BY ONLY <2>2, <2>3, <2>4 DEF AreaTypes
<1>2. StageInv
  BY <1>1 DEF CompileInit, StageInv, Started
<1>3. AreaInv
  BY DEF CompileInit, ArgsInit, AreaInv
<1>4. ArrivalInv
  BY DEF CompileInit, ArrivalInv, Arrived
<1>5. ReportInv
  <2>1. stderr = [i \in DOMAIN said |-> Format(said[i])]
    BY DEF CompileInit
  <2>2. said = <<>> /\ said \in Seq(ReportType) /\ DOMAIN said = {}
    BY DEF CompileInit
  <2>3. stage = "host" /\ stopped = "running" /\ outcome = "none"
    BY DEF CompileInit
  <2>4. QED
    BY <2>1, <2>2, <2>3 DEF ReportInv
<1>6. QED
  BY <1>2, <1>3, <1>4, <1>5 DEF CompileInv

(* A step that leaves the arguments and their areas alone.                  *)
LEMMA AreaStays ==
  ASSUME UNCHANGED <<args, area, bufAt>>
  PROVE  /\ AreaTypes /\ step' \in Nat => AreaTypes'
         /\ Copied' = Copied
         /\ \A n \in Nat : /\ Pointers(n) => Pointers(n)'
                           /\ Measured(n) => Measured(n)'
                           /\ Laid(n) => Laid(n)'
                           /\ InSlots(n) => InSlots(n)'
BY DEF AreaTypes, Copied, Pointers, Measured, Laid, LaidArg, StringAt, InSlots, InSlot

(* The copy loop runs over the arguments there are, up to MaxArgs.          *)
LEMMA CopiedFew ==
  ASSUME AreaTypes
  PROVE  Copied \in 0..MaxArgs /\ Copied \in 0..Len(args) /\ (Len(args) <= MaxArgs => Copied = Len(args))
BY Sizes DEF AreaTypes, Vectors, Copied

(***************************************************************************)
(* Whatever the vector is: what each step keeps of StageInv and AreaInv.   *)
(***************************************************************************)
LEMMA StartGrounds ==
  ASSUME StageInv, AreaInv, Start
  PROVE  StageInv' /\ AreaInv'
<1>1. stage = "host" /\ options \in OptionSets /\ AreaTypes /\ guest = Defaults /\ said = <<>>
      /\ step = 0 /\ bufAt = addrArgBuf /\ step \in Nat
  BY DEF StageInv, AreaInv, Start, AreaTypes
<1>2. CASE Refuse
  <2>1. UNCHANGED <<args, area, bufAt>> /\ UNCHANGED <<options, step>> /\ stage' = "over"
    BY <1>2 DEF Refuse, argVars
  <2>2. AreaTypes'
    BY ONLY <1>1, <2>1, AreaStays
  <2>3. QED
    BY ONLY <1>1, <2>1, <2>2 DEF StageInv, AreaInv, Started
<1>3. CASE ~Refuse
  <2>1. /\ ~\E i \in DOMAIN options.objects : BadObject(options.objects[i])
        /\ args' = ToArgs(options) /\ stage' = "args"
        /\ UNCHANGED <<area, bufAt, step, options, guest, said>>
    BY <1>3 DEF Start
  <2>2. \A i \in DOMAIN options.objects : options.objects[i] # <<>>
    BY ONLY <2>1 DEF BadObject
  <2>3. ToArgs(options) \in Vectors
    BY ONLY <1>1, ArgsMade
  <2>4. AreaTypes'
    BY ONLY <1>1, <2>1, <2>3 DEF AreaTypes
  <2>5. StageInv'
    BY ONLY <1>1, <2>1, <2>2, <2>4 DEF StageInv, Started
  <2>6. step' <= Len(args') /\ Pointers(step)'
    BY ONLY <1>1, <2>1, <2>3 DEF Pointers, Vectors
  <2>7. AreaInv'
    BY ONLY <1>1, <2>1, <2>6 DEF AreaInv
  <2>8. QED
    BY ONLY <2>5, <2>7
<1>4. QED
  BY ONLY <1>2, <1>3

(* args_get.                                                                *)
LEMMA GetGrounds ==
  ASSUME StageInv, AreaInv, GetArgs
  PROVE  StageInv' /\ AreaInv'
<1>1. /\ stage = "args" /\ options \in OptionSets /\ AreaTypes /\ guest = Defaults /\ said = <<>>
      /\ args = ToArgs(options) /\ \A i \in DOMAIN options.objects : options.objects[i] # <<>>
  BY DEF StageInv, GetArgs, Started
<1>2. step \in Nat /\ step <= Len(args) /\ Pointers(step) /\ args \in Vectors
  BY <1>1 DEF AreaInv, AreaTypes
<1>3. UNCHANGED <<options, guest, said>>
  BY DEF GetArgs, hostVars
<1>4. CASE step < Len(args)
  <2>1. PutArg /\ stage' = stage
    BY <1>4 DEF GetArgs
  <2>2. AreaTypes' /\ step' = step + 1 /\ args' = args /\ Pointers(step)'
    BY ONLY <1>1, <1>2, <2>1, PutDoes, PutPoints
  <2>3. StageInv'
    BY ONLY <1>1, <1>3, <2>1, <2>2 DEF StageInv, Started
  <2>4. step' <= Len(args')
    BY ONLY <1>2, <1>4, <2>2 DEF Vectors
  <2>5. AreaInv'
    BY ONLY <1>1, <2>1, <2>2, <2>4 DEF AreaInv
  <2>6. QED
    BY ONLY <2>3, <2>5
<1>5. CASE ~(step < Len(args))
  <2>1. stage' = "copy" /\ step' = 0 /\ UNCHANGED <<args, area, bufAt>>
    BY <1>5 DEF GetArgs
  <2>2. AreaTypes'
    BY ONLY <1>1, <2>1, AreaStays
  <2>3. StageInv'
    BY ONLY <1>1, <1>3, <2>1, <2>2 DEF StageInv, Started
  <2>4. Copied \in Nat /\ Copied' = Copied /\ Copied <= step
    <3>1. Copied \in 0..Len(args) /\ Len(args) \in Nat
      BY ONLY <1>1, <1>2, CopiedFew DEF Vectors
    <3>2. Copied' = Copied
      BY ONLY <2>1, AreaStays
    <3>3. QED
      BY ONLY <1>2, <1>5, <3>1, <3>2
  <2>5. Pointers(Copied)
    BY ONLY <1>2, <2>4 DEF Pointers
  <2>6. Pointers(Copied)'
    BY ONLY <2>1, <2>4, <2>5 DEF Pointers
  <2>7. Measured(step)' /\ step' <= Copied'
    BY ONLY <2>1, <2>4 DEF Measured
  <2>8. AreaInv'
    BY ONLY <2>1, <2>6, <2>7 DEF AreaInv
  <2>9. QED
    BY ONLY <2>3, <2>8
<1>6. QED
  BY ONLY <1>4, <1>5

(* The copy loop.                                                           *)
LEMMA CopyGrounds ==
  ASSUME StageInv, AreaInv, CopyArgs
  PROVE  StageInv' /\ AreaInv'
<1>1. /\ stage = "copy" /\ options \in OptionSets /\ AreaTypes /\ guest = Defaults /\ said = <<>>
      /\ args = ToArgs(options) /\ \A i \in DOMAIN options.objects : options.objects[i] # <<>>
  BY DEF StageInv, CopyArgs, Started
<1>2. step \in Nat /\ step <= Copied /\ Pointers(Copied) /\ Measured(step)
  BY <1>1 DEF AreaInv, AreaTypes
<1>3. UNCHANGED <<options, guest, said>>
  BY DEF CopyArgs, hostVars
<1>c. Copied \in 0..MaxArgs /\ MaxArgs \in Nat
  BY ONLY <1>1, CopiedFew, Sizes
<1>4. CASE step < Copied
  <2>1. CopyArg(step) /\ step' = step + 1 /\ stage' = stage
    BY <1>4 DEF CopyArgs
  <2>2. step \in 0..(MaxArgs - 1) /\ area[step] >= 100
    BY ONLY <1>2, <1>c, <1>4 DEF Pointers
  <2>3. AreaTypes' /\ Measured(step)' /\ \A j \in 0..(MaxArgs - 1) : area'[j] = area[j]
    BY ONLY <1>1, <1>2, <2>1, <2>2, CopyMeasures
  <2>4. args' = args /\ Copied' = Copied
    BY ONLY <2>1 DEF CopyArg, Copied
  <2>5. StageInv'
    BY ONLY <1>1, <1>3, <2>1, <2>3, <2>4 DEF StageInv, Started
  <2>6. Pointers(Copied)'
    BY ONLY <1>2, <2>3, <2>4 DEF Pointers
  <2>7. step' <= Copied'
    BY ONLY <1>2, <1>c, <1>4, <2>1, <2>4
  <2>8. AreaInv'
    BY ONLY <1>1, <2>1, <2>3, <2>6, <2>7 DEF AreaInv
  <2>9. QED
    BY ONLY <2>5, <2>8
<1>5. CASE ~(step < Copied)
  <2>1. stage' = "parse" /\ step' = 1 /\ UNCHANGED <<args, area, bufAt>>
    BY <1>5 DEF CopyArgs
  <2>2. AreaTypes'
    BY ONLY <1>1, <2>1, AreaStays
  <2>3. StageInv'
    BY ONLY <1>1, <1>3, <2>1, <2>2 DEF StageInv, Started
  <2>4. step = Copied
    BY ONLY <1>2, <1>c, <1>5
  <2>5. Copied' = Copied /\ Measured(Copied)'
    BY ONLY <1>2, <2>1, <2>4 DEF Measured, Copied, Slot, addrArgSlots
  <2>6. AreaInv'
    BY ONLY <2>1, <2>5 DEF AreaInv
  <2>7. QED
    BY ONLY <2>3, <2>6
<1>6. QED
  BY ONLY <1>4, <1>5

(* From there on the areas are only read.                                   *)
Reads ==
  /\ UNCHANGED <<args, area, bufAt, options>> /\ step' \in Nat
  /\ \/ stage = "parse" /\ stage' \in {"parse", "work", "ended"}
     \/ stage = "work" /\ stage' \in {"work", "ended"}
     \/ stage = "ended" /\ stage' = "over"
  /\ stage' = "parse" => said' = said

(* What only reads the areas keeps them.                                    *)
LEMMA ReadsGrounds ==
  ASSUME StageInv, AreaInv, Reads
  PROVE  StageInv' /\ AreaInv'
<1>1. /\ options \in OptionSets /\ AreaTypes
      /\ args = ToArgs(options) /\ \A i \in DOMAIN options.objects : options.objects[i] # <<>>
      /\ stage = "parse" => said = <<>>
  BY DEF StageInv, Reads, Started
<1>2. AreaTypes' /\ Copied' = Copied
  BY ONLY <1>1, Reads, AreaStays DEF Reads
<1>3. StageInv'
  BY ONLY <1>1, <1>2, Reads DEF StageInv, Reads, Started
<1>4. stage \in {"parse", "work"} => Measured(Copied)'
  <2>1. Copied \in Nat
    BY ONLY <1>1, CopiedFew
  <2>2. Measured(Copied) => Measured(Copied)'
    BY ONLY <1>2, <2>1, Reads DEF Reads, Measured, Slot, addrArgSlots
  <2>3. QED
    BY ONLY <2>2, AreaInv DEF AreaInv
<1>5. AreaInv'
  BY ONLY <1>4, Reads DEF Reads, AreaInv
<1>6. QED
  BY ONLY <1>3, <1>5

(* The argument loop, the compilation and its end only read them.           *)
LEMMA ReadsOnly ==
  ASSUME StageInv, ParseArg \/ ArgsRead \/ Report \/ Reject \/ Stop \/ Conclude
  PROVE  Reads
<1>1. step \in Nat
  BY DEF StageInv, AreaTypes
<1>2. ASSUME NEW r, Fatal(r)
      PROVE  UNCHANGED <<args, area, bufAt, options>> /\ step' = step /\ stage' = "ended"
  BY <1>2 DEF Fatal, Exits, argVars
<1>3. CASE ParseArg
  <2>1. stage = "parse" /\ ((\E g : Take(g)) \/ \E r : Fatal(r))
    BY ONLY <1>3, ParseTurns
  <2>2. ASSUME NEW g, Take(g)
        PROVE  UNCHANGED <<args, area, bufAt, options, stage, said>> /\ step' = step + 1
    BY <2>2 DEF Take
  <2>3. QED
    BY ONLY <1>1, <1>2, <2>1, <2>2 DEF Reads
<1>4. CASE ArgsRead
  BY <1>1, <1>4 DEF ArgsRead, argVars, hostVars, Reads
<1>5. CASE Report
  BY <1>1, <1>5 DEF Report, argVars, Reads
<1>6. CASE Reject
  <2>1. stage = "work" /\ \E r : Fatal(r)
    BY <1>6 DEF Reject
  <2>2. QED
    BY ONLY <1>1, <1>2, <2>1 DEF Reads
<1>7. CASE Stop
  <2>1. stage = "work" /\ stage' = "ended"
    BY <1>7 DEF Stop, Exits
  <2>2. UNCHANGED <<args, area, bufAt, options>> /\ step' = step
    BY <1>7 DEF Stop, argVars
  <2>3. QED
    BY ONLY <1>1, <2>1, <2>2 DEF Reads
<1>8. CASE Conclude
  BY <1>1, <1>8 DEF Conclude, argVars, Reads
<1>9. QED
  BY <1>3, <1>4, <1>5, <1>6, <1>7, <1>8

(***************************************************************************)
(* Lines and ends.                                                         *)
(***************************************************************************)
LEMMA ReportWorded ==
  ASSUME NEW r \in Reports
  PROVE  Worded(r) /\ (r.severity = "Error" => r.line # "")
<1>1. /\ r \in [severity : {"Error", "Warning", "Info"}, line : Numerals \cup {""}, col : Numerals \cup {""}, message : Seq(Words)]
      /\ IF r.severity = "Info" THEN r.line = "" /\ r.col = "" /\ SplitPosition(r.message) = <<"", "", r.message>>
         ELSE r.line # "" /\ r.col # ""
  BY CompileConstants
<1>2. r \in ReportType
  <2>1. Seq(Words) \subseteq Seq(Words \cup Phrases)
    <3>1. ASSUME NEW w \in Seq(Words) PROVE w \in Seq(Words \cup Phrases)
      BY ONLY w \in Seq(Words)
    <3>2. QED
      BY ONLY <3>1
  <2>2. QED
    BY ONLY <1>1, <2>1 DEF ReportType
<1>3. Worded(r)
  BY ONLY <1>1, <1>2 DEF Worded
<1>4. QED
  BY ONLY <1>1, <1>3

Clean == \A i \in DOMAIN said : said[i].severity # "Error"

(* While the compilation runs, no error was said.                           *)
LEMMA RunningClean ==
  ASSUME ReportInv
  PROVE  /\ Lines
         /\ stage \notin {"ended", "over"} => /\ stopped = "running" /\ Clean
                                              /\ outcome \in {"none", "Instantiation"}
BY DEF ReportInv, Lines, Clean

(* A step without a line.                                                   *)
LEMMA SilentReports ==
  ASSUME ReportInv, UNCHANGED <<stderr, said, stopped, outcome>>,
         stage \notin {"ended", "over"}, stage' \notin {"ended", "over"}
  PROVE  ReportInv'
BY DEF ReportInv, Worded, ReportType, Format

(* An error ends the run: it is the last line and the only one.             *)
LEMMA FatalReports ==
  ASSUME ReportInv, stage \notin {"ended", "over"}, NEW r, r.severity = "Error", Worded(r), Fatal(r)
  PROVE  /\ ReportInv' /\ stage' = "ended" /\ options' = options
         /\ \A i \in DOMAIN said' : said'[i].severity = "Error" => said'[i] = r
<1>1. Lines /\ Clean
  BY RunningClean
<1>2. Say(r) /\ stopped' = "exit 1" /\ stage' = "ended" /\ options' = options
  BY DEF Fatal, Exits
<1>3. /\ Lines' /\ said' # <<>> /\ said'[Len(said')] = r
      /\ \A i \in DOMAIN said : said'[i] = said[i]
      /\ \A i \in DOMAIN said' : i \in DOMAIN said \/ i = Len(said')
  BY ONLY <1>1, <1>2, Worded(r), SayKeeps
<1>4. \A i \in DOMAIN said' : said'[i].severity = "Error" => i = Len(said')
  BY ONLY <1>1, <1>3 DEF Clean
<1>5. ReportInv'
  BY ONLY <1>2, <1>3, <1>4, r.severity = "Error" DEF ReportInv, Lines
<1>6. QED
  BY ONLY <1>2, <1>3, <1>4, <1>5

(* A warning or a line of progress is one more line.                        *)
LEMMA SaysReports ==
  ASSUME ReportInv, Report
  PROVE  ReportInv'
<1>1. PICK r \in Reports : r.severity # "Error" /\ Say(r) /\ UNCHANGED <<stopped, outcome, stage>>
  BY DEF Report
<1>2. stage = "work"
  BY DEF Report
<1>3. Lines /\ Clean /\ stopped = "running" /\ outcome \in {"none", "Instantiation"}
  BY <1>2, RunningClean
<1>4. Worded(r)
  BY ReportWorded
<1>5. /\ Lines' /\ said' # <<>> /\ said'[Len(said')] = r
      /\ \A i \in DOMAIN said : said'[i] = said[i]
      /\ \A i \in DOMAIN said' : i \in DOMAIN said \/ i = Len(said')
  BY ONLY <1>1, <1>3, <1>4, SayKeeps
<1>6. \A i \in DOMAIN said' : said'[i].severity # "Error"
  BY ONLY <1>1, <1>3, <1>5 DEF Clean
<1>7. QED
  BY ONLY <1>1, <1>2, <1>3, <1>5, <1>6 DEF ReportInv, Lines

(* The end of the run, and what the host makes of it.                       *)
LEMMA EndReports ==
  ASSUME ReportInv, Stop \/ Conclude
  PROVE  ReportInv'
<1>1. CASE Stop
  <2>1. /\ UNCHANGED <<stderr, said, outcome>> /\ stage = "work" /\ stage' = "ended"
        /\ stopped' \in {"returned", "exit 0", "trap"}
    BY <1>1 DEF Stop, Exits
  <2>2. Lines /\ Clean
    BY ONLY <2>1, ReportInv, RunningClean
  <2>3. Lines' /\ Clean'
    BY ONLY <2>1, <2>2 DEF Lines, Clean, Worded, ReportType, Format
  <2>4. QED
    BY ONLY <2>1, <2>3 DEF ReportInv, Lines, Clean
<1>2. CASE Conclude
  <2>1. /\ UNCHANGED <<stderr, said, stopped>> /\ stage = "ended" /\ stage' = "over"
        /\ outcome' = ResultOf
    BY <1>2 DEF Conclude
  <2>2. ResultOf' = ResultOf
    BY ONLY <2>1, ResultStays
  <2>3. Lines
    BY ONLY RunningClean, ReportInv
  <2>4. Lines'
    BY ONLY <2>1, <2>3 DEF Lines, Worded, ReportType, Format
  <2>5. stopped # "running"
    BY ONLY <2>1, ReportInv DEF ReportInv
  <2>6. QED
    BY ONLY <2>1, <2>2, <2>4, <2>5, ReportInv DEF ReportInv, Lines
<1>3. QED
  BY <1>1, <1>2

(***************************************************************************)
(* Of a vector that fits: what each step keeps of ArrivalInv.              *)
(***************************************************************************)
LEMMA StartArrives ==
  ASSUME StageInv, AreaInv, Start
  PROVE  ArrivalInv'
<1>1. stage = "host" /\ options \in OptionSets /\ AreaTypes /\ said = <<>>
  BY DEF StageInv, Start
<1>2. CASE Refuse
  <2>1. stage' = "over" /\ said' = <<>>
    BY <1>1, <1>2 DEF Refuse
  <2>2. QED
    BY ONLY <2>1 DEF ArrivalInv, Arrived
<1>3. CASE ~Refuse
  <2>1. args' = ToArgs(options) /\ stage' = "args" /\ UNCHANGED <<bufAt, step>>
    BY <1>3 DEF Start
  <2>2. step = 0 /\ bufAt = addrArgBuf
    BY ONLY <1>1, AreaInv DEF AreaInv
  <2>3. StringAt(step)' = bufAt'
    <3>1. PICK v \in Vectors : v = args'
      BY ONLY <1>1, <2>1, ArgsMade
    <3>2. CellsOf(v)[0] = 0 /\ addrArgBuf \in Nat
      BY ONLY <3>1, CellsSum, Sizes
    <3>3. StringAt(step)' = addrArgBuf + CellsOf(v)[0]
      BY ONLY <2>1, <2>2, <3>1 DEF StringAt, addrArgBuf
    <3>4. QED
      BY ONLY <2>1, <2>2, <3>2, <3>3
  <2>4. Laid(step)'
    BY ONLY <2>1, <2>2 DEF Laid
  <2>5. QED
    BY ONLY <2>1, <2>3, <2>4 DEF ArrivalInv, Arrived
<1>4. QED
  BY ONLY <1>2, <1>3

(* args_get lays each argument behind the others.                           *)
LEMMA GetArrives ==
  ASSUME StageInv, AreaInv, ArrivalInv, GetArgs, Plain(options'), FitsAreas(args')
  PROVE  ArrivalInv'
<1>1. stage = "args" /\ AreaTypes /\ options' = options /\ step \in Nat /\ step <= Len(args) /\ Len(args) \in Nat
  BY DEF StageInv, AreaInv, GetArgs, hostVars, AreaTypes, Vectors
<1>2. args' = args
  BY DEF GetArgs, PutArg
<1>3. Plain(options) /\ FitsAreas(args)
  BY ONLY <1>1, <1>2, Plain(options'), FitsAreas(args')
<1>4. Laid(step) /\ bufAt = StringAt(step)
  BY ONLY <1>1, <1>3, ArrivalInv DEF ArrivalInv
<1>5. CASE step < Len(args)
  <2>1. PutArg /\ stage' = "args"
    BY <1>1, <1>5 DEF GetArgs
  <2>2. Laid(step)' /\ bufAt' = StringAt(step)'
    BY ONLY <1>1, <1>3, <1>4, <2>1, PutLays
  <2>3. QED
    BY ONLY <2>1, <2>2 DEF ArrivalInv, Arrived
<1>6. CASE ~(step < Len(args))
  <2>1. stage' = "copy" /\ step' = 0 /\ UNCHANGED <<args, area, bufAt>> /\ step = Len(args)
    BY <1>1, <1>6 DEF GetArgs
  <2>2. Laid(Len(args))'
    BY ONLY <1>1, <1>4, <2>1, AreaStays
  <2>3. InSlots(step)'
    BY ONLY <2>1 DEF InSlots
  <2>4. QED
    BY ONLY <2>1, <2>2, <2>3 DEF ArrivalInv, Arrived
<1>7. QED
  BY ONLY <1>5, <1>6

(* The copy loop brings each to its slot.                                   *)
LEMMA CopyArrives ==
  ASSUME StageInv, AreaInv, ArrivalInv, CopyArgs, Plain(options'), FitsAreas(args')
  PROVE  ArrivalInv'
<1>1. /\ stage = "copy" /\ AreaTypes /\ options' = options /\ guest' = guest /\ guest = Defaults
      /\ options \in OptionSets /\ args = ToArgs(options) /\ step \in Nat /\ step <= Copied
  BY DEF StageInv, AreaInv, CopyArgs, hostVars, AreaTypes, Started
<1>2. args' = args
  BY DEF CopyArgs, CopyArg
<1>3. Plain(options) /\ FitsAreas(args)
  BY ONLY <1>1, <1>2, Plain(options'), FitsAreas(args')
<1>4. Laid(Len(args)) /\ InSlots(step)
  BY ONLY <1>1, <1>3, ArrivalInv DEF ArrivalInv
<1>5. Copied = Len(args) /\ Len(args) \in Nat
  <2>1. Len(args) <= MaxArgs /\ Len(args) \in Nat
    BY ONLY <1>1, <1>3 DEF FitsAreas, AreaTypes, Vectors
  <2>2. QED
    BY ONLY <1>1, <2>1, CopiedFew
<1>6. CASE step < Copied
  <2>1. CopyArg(step) /\ step' = step + 1 /\ stage' = "copy"
    BY <1>1, <1>6 DEF CopyArgs
  <2>2. NoNul
    BY ONLY <1>1, <1>3, PlainHasNoNul
  <2>3. step \in 0..(Len(args) - 1)
    BY ONLY <1>1, <1>5, <1>6
  <2>4. Laid(Len(args))' /\ InSlots(step)'
    BY ONLY <1>1, <1>3, <1>4, <2>1, <2>2, <2>3, CopyFills
  <2>5. QED
    BY ONLY <2>1, <2>4 DEF ArrivalInv, Arrived
<1>7. CASE ~(step < Copied)
  <2>1. stage' = "parse" /\ step' = 1 /\ UNCHANGED <<args, area, bufAt>>
    BY <1>7 DEF CopyArgs
  <2>2. step = Len(args)
    BY ONLY <1>1, <1>5, <1>7
  <2>3. InSlots(Len(args))'
    BY ONLY <1>4, <1>5, <2>1, <2>2, AreaStays
  <2>4. step' \in 1..Len(args')
    <3>1. Len(args) >= 3
      <4>1. Len(args) = BeforeObjects(options) + Len(options.objects) /\ Len(options.objects) \in Nat
            /\ BeforeObjects(options) \in Nat /\ BeforeInclude(options) \in Nat /\ BeforeDefines(options) \in Nat
            /\ BeforeVerbose <= BeforeInclude(options) /\ BeforeInclude(options) <= BeforeDefines(options)
            /\ BeforeDefines(options) <= BeforeObjects(options)
        BY ONLY <1>1, ArgsMade
      <4>2. QED
        BY ONLY <4>1 DEF BeforeVerbose
    <3>2. QED
      BY ONLY <1>5, <2>1, <3>1
  <2>5. guest' = GuestAfter(options', step')
    <3>1. GuestAfter(options, 1) = Defaults
      BY ONLY <1>1, GuestEnds
    <3>2. QED
      BY ONLY <1>1, <2>1, <3>1
  <2>6. QED
    BY ONLY <2>1, <2>3, <2>4, <2>5 DEF ArrivalInv, Arrived
<1>8. QED
  BY ONLY <1>6, <1>7

(* The argument loop learns from each what to_args put into it.             *)
LEMMA ParseArrives ==
  ASSUME StageInv, ArrivalInv, ParseArg, Plain(options), FitsAreas(args)
  PROVE  ArrivalInv'
<1>1. stage = "parse" /\ AreaTypes /\ options \in OptionSets /\ args = ToArgs(options)
      /\ \A i \in DOMAIN options.objects : options.objects[i] # <<>>
  BY DEF ParseArg, StageInv, Started
<1>2. InSlots(Len(args)) /\ step \in 1..Len(args) /\ guest = GuestAfter(options, step) /\ Len(args) \in Nat
  BY <1>1 DEF ArrivalInv, AreaTypes, Vectors
<1>3. step' \in 1..Len(args) /\ Take(GuestAfter(options, step'))
  BY ONLY <1>1, <1>2, ParseArg, Plain(options), FitsAreas(args), TurnTells
<1>4. UNCHANGED <<args, area, bufAt, options, stage>> /\ guest' = GuestAfter(options, step')
  BY ONLY <1>3 DEF Take
<1>5. InSlots(Len(args))'
  BY ONLY <1>2, <1>4, AreaStays
<1>6. QED
  BY ONLY <1>1, <1>3, <1>4, <1>5 DEF ArrivalInv, Arrived

(* Nothing is learned later, and an error then has a position.              *)
LEMMA WorkArrives ==
  ASSUME StageInv, ArrivalInv, ReportInv, Plain(options), FitsAreas(args),
         ArgsRead \/ Report \/ Reject \/ Stop \/ Conclude
  PROVE  ArrivalInv'
<1>1. Arrived
  BY DEF ArrivalInv
<1>2. options \in OptionSets /\ AreaTypes
  BY DEF StageInv
<1>3. CASE ArgsRead
  <2>1. stage = "parse" /\ stage' = "work" /\ step > ParamCount /\ UNCHANGED <<options, guest>>
    BY <1>3 DEF ArgsRead, hostVars
  <2>2. args = ToArgs(options) /\ step \in 1..Len(args) /\ guest = GuestAfter(options, step) /\ Len(args) \in Nat
    BY <1>2, <2>1 DEF StageInv, Started, ArrivalInv, AreaTypes, Vectors
  <2>3. step = Len(ToArgs(options))
    BY ONLY <2>1, <2>2 DEF ParamCount
  <2>4. guest = [range |-> options.range, stack |-> options.stack, verbose |-> options.verbose,
                 includes |-> options.include # NoDir, defines |-> {CPAS} \cup ToSet(options.defines),
                 objects |-> options.objects]
    BY ONLY <1>2, <2>2, <2>3, GuestEnds
  <2>5. QED
    BY ONLY <2>1, <2>4 DEF ArrivalInv, Arrived
<1>4. CASE Report
  <2>1. stage = "work" /\ stage' = "work" /\ UNCHANGED <<options, guest>>
    BY <1>4 DEF Report
  <2>2. QED
    BY ONLY <1>1, <2>1 DEF ArrivalInv, Arrived
<1>5. CASE Reject
  <2>1. PICK r \in Reports : stage = "work" /\ r.severity = "Error" /\ Fatal(r)
    BY <1>5 DEF Reject
  <2>2. Worded(r) /\ r.line # ""
    BY ONLY <2>1, ReportWorded
  <2>3. stage' = "ended" /\ \A i \in DOMAIN said' : said'[i].severity = "Error" => said'[i] = r
    BY ONLY <2>1, <2>2, ReportInv, FatalReports
  <2>4. QED
    BY ONLY <2>2, <2>3 DEF ArrivalInv, Arrived
<1>6. CASE Stop
  <2>1. stage = "work" /\ stage' = "ended" /\ said' = said
    BY <1>6 DEF Stop, Exits
  <2>2. Clean
    BY ONLY <2>1, ReportInv, RunningClean
  <2>3. QED
    BY ONLY <2>1, <2>2 DEF ArrivalInv, Arrived, Clean
<1>7. CASE Conclude
  <2>1. stage = "ended" /\ stage' = "over" /\ said' = said
    BY <1>7 DEF Conclude
  <2>2. QED
    BY ONLY <1>1, <2>1 DEF ArrivalInv, Arrived
<1>8. QED
  BY <1>3, <1>4, <1>5, <1>6, <1>7

(***************************************************************************)
(* The invariant: it holds at the start, and every step keeps it.          *)
(***************************************************************************)
LEMMA StepKeeps ==
  ASSUME CompileInv, CompileNext
  PROVE  CompileInv'
<1>1. StageInv /\ AreaInv /\ ArrivalInv /\ ReportInv
  BY DEF CompileInv
<1>2. Start \/ GetArgs \/ CopyArgs \/ ParseArg \/ ArgsRead \/ Report \/ Reject \/ Stop \/ Conclude
  BY DEF CompileNext
<1>3. StageInv' /\ AreaInv'
  BY ONLY <1>1, <1>2, StartGrounds, GetGrounds, CopyGrounds, ReadsOnly, ReadsGrounds
<1>4. ReportInv'
  <2>1. CASE Start
    <3>1. stage = "host" /\ UNCHANGED <<stderr, said, stopped>>
      BY <2>1 DEF Start, Refuse
    <3>2. \/ stage' = "args" /\ outcome' = outcome
          \/ stage' = "over" /\ outcome' = "Instantiation"
      BY <2>1 DEF Start, Refuse
    <3>3. stage' = "args" /\ outcome' = outcome => ReportInv'
      BY ONLY <1>1, <3>1, SilentReports
    <3>4. stage' = "over" /\ outcome' = "Instantiation" => ReportInv'
      <4>1. Lines /\ stopped = "running"
        BY ONLY <1>1, <3>1, RunningClean
      <4>2. Lines'
        BY ONLY <3>1, <4>1 DEF Lines, Worded, ReportType, Format
      <4>3. QED
        BY ONLY <1>1, <3>1, <4>1, <4>2 DEF ReportInv, Lines
    <3>5. QED
      BY ONLY <3>2, <3>3, <3>4
  <2>2. CASE GetArgs \/ CopyArgs \/ ArgsRead
    <3>1. UNCHANGED <<stderr, said, stopped, outcome>>
          /\ stage \in {"args", "copy", "parse"} /\ stage' \in {"args", "copy", "parse", "work"}
      BY <2>2 DEF GetArgs, CopyArgs, ArgsRead, hostVars
    <3>2. QED
      BY ONLY <1>1, <3>1, SilentReports
  <2>3. CASE ParseArg
    <3>1. stage = "parse" /\ ((\E g : Take(g)) \/ \E r : r.severity = "Error" /\ Worded(r) /\ Fatal(r))
      BY ONLY <2>3, ParseTurns
    <3>2. ASSUME NEW g, Take(g) PROVE ReportInv'
      <4>1. UNCHANGED <<stderr, said, stopped, outcome>> /\ stage' = stage
        BY <3>2 DEF Take
      <4>2. QED
        BY ONLY <1>1, <3>1, <4>1, SilentReports
    <3>3. ASSUME NEW r, r.severity = "Error", Worded(r), Fatal(r) PROVE ReportInv'
      BY ONLY <1>1, <3>1, <3>3, FatalReports
    <3>4. QED
      BY ONLY <3>1, <3>2, <3>3
  <2>4. CASE Report
    BY ONLY <1>1, <2>4, SaysReports
  <2>5. CASE Reject
    <3>1. PICK r \in Reports : stage = "work" /\ r.severity = "Error" /\ Fatal(r)
      BY <2>5 DEF Reject
    <3>2. Worded(r)
      BY ONLY <3>1, ReportWorded
    <3>3. QED
      BY ONLY <1>1, <3>1, <3>2, FatalReports
  <2>6. CASE Stop \/ Conclude
    BY ONLY <1>1, <2>6, EndReports
  <2>7. QED
    BY ONLY <1>2, <2>1, <2>2, <2>3, <2>4, <2>5, <2>6
<1>5. ArrivalInv'
  <2>1. CASE ~(Plain(options') /\ FitsAreas(args'))
    BY ONLY <2>1 DEF ArrivalInv, Plain, FitsAreas, StartsDash, CellsOf
  <2>2. CASE Plain(options') /\ FitsAreas(args')
    <3>1. ParseArg \/ ArgsRead \/ Report \/ Reject \/ Stop \/ Conclude => Plain(options) /\ FitsAreas(args)
      <4>1. ParseArg \/ ArgsRead \/ Report \/ Reject \/ Stop \/ Conclude => UNCHANGED <<options, args>>
        BY ONLY <1>1, ReadsOnly DEF Reads
      <4>2. QED
        BY ONLY <2>2, <4>1
    <3>2. QED
      BY ONLY <1>1, <1>2, <2>2, <3>1, StartArrives, GetArrives, CopyArrives, ParseArrives, WorkArrives
  <2>3. QED
    BY ONLY <2>1, <2>2
<1>6. QED
  BY ONLY <1>3, <1>4, <1>5 DEF CompileInv

(* A step that changes nothing.                                             *)
LEMMA StutterKeeps ==
  ASSUME CompileInv, UNCHANGED compileVars
  PROVE  CompileInv'
<1>1. StageInv /\ AreaInv /\ ArrivalInv /\ ReportInv
  BY DEF CompileInv
<1>2. /\ UNCHANGED <<args, area, bufAt>> /\ step' = step
      /\ UNCHANGED <<options, guest, stderr, said, stopped, outcome, stage>>
  BY DEF compileVars, argVars, hostVars
<1>3. AreaTypes /\ step \in Nat
  BY ONLY <1>1 DEF StageInv, AreaTypes
<1>4. AreaTypes'
  BY ONLY <1>2, <1>3, AreaStays
<1>5. StageInv'
  BY ONLY <1>1, <1>2, <1>4 DEF StageInv, Started
<1>6. AreaInv'
  BY ONLY <1>1, <1>2 DEF AreaInv, Copied, Pointers, Measured, Slot, addrArgSlots
<1>7. ArrivalInv'
  BY ONLY <1>1, <1>2 DEF ArrivalInv, Arrived, Laid, LaidArg, StringAt, InSlots, InSlot, Slot, addrArgSlots
<1>8. ReportInv'
  <2>1. ResultOf' = ResultOf
    BY ONLY <1>2, ResultStays
  <2>2. QED
    BY ONLY <1>1, <1>2, <2>1 DEF ReportInv, Worded, ReportType, Format
<1>9. QED
  BY ONLY <1>5, <1>6, <1>7, <1>8 DEF CompileInv

(* The inductive invariant holds of every compilation.                      *)
THEOREM CompileInvariant == CompileSpec => []CompileInv
<1>1. CompileInit => CompileInv
  BY Begins
<1>2. CompileInv /\ [CompileNext]_compileVars => CompileInv'
  BY StepKeeps, StutterKeeps
<1>3. QED
  BY <1>1, <1>2, PTL DEF CompileSpec

(* What the host asked for is what the snapshot works under, for all sizes  *)
(* of the areas and all options that fit them; and whatever the vector is,  *)
(* no slot is given more than it has room for.                              *)
THEOREM OptionsAlwaysArrive == CompileSpec => []OptionsArrive
<1>1. CompileInv => OptionsArrive
  <2> SUFFICES ASSUME CompileInv PROVE OptionsArrive
    OBVIOUS
  <2>1. AreaInv /\ ArrivalInv
    BY DEF CompileInv
  <2>2. SlotsHold
    BY ONLY <2>1 DEF AreaInv, SlotsHold, Measured
  <2>3. QED
    BY ONLY <2>1, <2>2 DEF ArrivalInv, OptionsArrive
<1>2. QED
  BY <1>1, CompileInvariant, PTL

(* What the host is told of a compilation is how it ended and what it       *)
(* reported, each line read back as it was meant.                           *)
THEOREM ReportsAlwaysTrue == CompileSpec => []ReportsTrue
<1>1. CompileInv => ReportsTrue
  <2> SUFFICES ASSUME CompileInv, stage = "over", stopped # "running"
               PROVE  /\ Diagnostics = said
                      /\ outcome = "Ok" <=> stopped \in {"returned", "exit 0"}
                      /\ outcome = "Rejected" <=> \E i \in DOMAIN said : said[i].severity = "Error"
                      /\ \A i \in DOMAIN said : said[i].severity = "Error" => i = Len(said) /\ stopped = "exit 1"
    BY DEF ReportsTrue
  <2>1. ReportInv
    BY DEF CompileInv
  <2>2. Diagnostics = said
    <3>1. Lines
      BY ONLY <2>1, RunningClean
    <3>2. QED
      BY ONLY <3>1, DiagnosticsRead
  <2>3. outcome = ResultOf /\ stopped \in {"returned", "exit 0", "exit 1", "trap"}
    BY ONLY <2>1, stage = "over", stopped # "running" DEF ReportInv
  <2>4. HasError <=> \E i \in DOMAIN said : said[i].severity = "Error"
    BY ONLY <2>2 DEF HasError
  <2>5. \A i \in DOMAIN said : said[i].severity = "Error" => i = Len(said) /\ stopped = "exit 1"
    BY ONLY <2>1 DEF ReportInv
  <2>6. stopped = "exit 1" => HasError
    <3>1. said \in Seq(ReportType)
      BY ONLY <2>1 DEF ReportInv
    <3>2. said # <<>> => Len(said) \in DOMAIN said
      BY ONLY <3>1
    <3>3. QED
      BY ONLY <2>1, <2>4, <3>2 DEF ReportInv
  <2>7. outcome = "Ok" <=> stopped \in {"returned", "exit 0"}
    BY ONLY <2>3, <2>6 DEF ResultOf
  <2>8. outcome = "Rejected" <=> HasError
    BY ONLY <2>3, <2>4, <2>5, <2>6 DEF ResultOf
  <2>9. QED
    BY ONLY <2>2, <2>4, <2>5, <2>7, <2>8
<1>2. QED
  BY <1>1, CompileInvariant, PTL
=============================================================================
