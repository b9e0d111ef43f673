------------------------- MODULE StatementProofs -----------------------------
(***************************************************************************)
(* Proofs about what a statement is compiled to: StringExpr, its strings,  *)
(* and ControlFlow, its jumps.                                             *)
(*                                                                         *)
(* StringExpr: IInv of StringSafe is inductive, for any number of string   *)
(* variables, of pieces and of scratch slots, any depth of calls and any   *)
(* number of steps in a statement.  The actions that work on the operand   *)
(* on top have a lemma each; those that end a statement share              *)
(* StatementEnds, those that read an operand Pushes, and the two ways an   *)
(* argument ends ArgEnds.  IInv speaks of every pending call.  A step that *)
(* begins or ends one lengthens or shortens the sequences slot and start   *)
(* by an element; every other leaves them as they are.  What a step writes *)
(* is Above nothing that is pending, so that operands, saved pieces and    *)
(* variables stay.                                                         *)
(*                                                                         *)
(* ControlFlow: BodyInv of ControlSafe is inductive, for any number of     *)
(* tokens and of nested for loops.  A construct that opens is appended     *)
(* (PushKeeps), one that closes is the last (PopKeeps), one that goes on   *)
(* is replaced (ReplaceKeeps); what is emitted, rewritten or not, opens as *)
(* many blocks as its instructions say (EmitAllDoes); ParsingKeeps is what *)
(* all of the statements have in common.  Branches: what a statement emits *)
(* is Tidy, put together from instructions that are Calm, sequences that   *)
(* are Bare and heads of loops (Known, Heads); emitted after tidy code it  *)
(* leaves tidy code (EmitAllTidy), through every rewriting; so a branch    *)
(* that leads back comes after a release (TargetIs), and the code that     *)
(* runs never comes to a place twice with its bytes taken (ExecKeeps).     *)
(***************************************************************************)
EXTENDS StringSafe, ControlSafe, Counting, FiniteSetTheorems, SequenceTheorems, TLAPS

(* What the assumption says of the constants.                               *)
LEMMA ConstantFacts ==
  /\ Cardinality(Vars) \in Nat /\ Vars = 0 .. Cardinality(Vars) - 1
  /\ MaxPieces \in Nat \ {0} /\ ScratchSlots \in Nat /\ LevelSlots = MaxPieces + 1
  /\ LevelSlots <= ScratchSlots /\ Base \in Nat \ {0} /\ MaxSteps \in Nat
  /\ Top \in Nat /\ Top = Base + 2 * Cardinality(Vars) /\ CopyTemp = Top
<1>1. Cardinality(Vars) \in Nat
  BY FS_CardinalityType, StringConstants
<1>2. QED
  BY <1>1, StringConstants DEF LevelSlots, Top, CopyTemp, StrSize

(* One step spent. *)
LEMMA SpendOne ==
  ASSUME NEW t \in Nat, t > 0, NEW r \in Int
  PROVE  t * r = (t - 1) * r + r
OBVIOUS

(* Memory.                                                                  *)

Memory(m) == DOMAIN m = 0 .. Top + 1

(* What is at s and above, up to the temp, is as it was.                    *)
Above(m, n, s) ==
  \A a \in s .. Top - 1 : /\ a <= Top - 2 => Get(n, a) = Get(m, a)
                          /\ Word(n, a) = Word(m, a)

(* A string that is put is got back, and nothing else changes.              *)
LEMMA PutGet ==
  ASSUME NEW m, Memory(m), NEW a \in 0 .. Top, NEW s
  PROVE  /\ Memory(Put(m, a, s)) /\ Get(Put(m, a, s), a) = s
         /\ \A b \in 0 .. Top + 1 : b # a /\ b # a + 1 => Put(m, a, s)[b] = m[b]
         /\ \A b \in Nat : b + 1 < a \/ b > a + 1 => Get(Put(m, a, s), b) = Get(m, b)
         /\ \A b \in Nat : b # a /\ b # a + 1 => Word(Put(m, a, s), b) = Word(m, b)
<1>1. Top \in Nat
  BY ConstantFacts
<1> DEFINE p == Put(m, a, s)
<1>2. /\ DOMAIN p = 0 .. Top + 1
      /\ p[a] = <<"str", s, 0>> /\ p[a + 1] = <<"rest", << >>, a>>
      /\ \A b \in 0 .. Top + 1 : b # a /\ b # a + 1 => p[b] = m[b]
  <2> DEFINE q == [m EXCEPT ![a] = <<"str", s, 0>>]
  <2>1. DOMAIN q = 0 .. Top + 1 /\ q[a] = <<"str", s, 0>>
        /\ \A b : b # a /\ b \in DOMAIN m => q[b] = m[b]
    BY <1>1 DEF Memory
  <2>2. p = [q EXCEPT ![a + 1] = <<"rest", << >>, a>>]
    BY DEF Put
  <2>3. \A b \in 0 .. Top + 1 : b # a /\ b # a + 1 => p[b] = m[b]
    BY <1>1, <2>1, <2>2 DEF Memory
  <2> HIDE DEF q
  <2>4. QED
    BY <1>1, <2>1, <2>2, <2>3
<1> HIDE DEF p
<1>3. Get(p, a) = s
  BY <1>1, <1>2 DEF Get
<1>4. ASSUME NEW b \in Nat, b + 1 < a \/ b > a + 1 PROVE Get(p, b) = Get(m, b)
  <2>1. b # a /\ b # a + 1 /\ b + 1 # a /\ b + 1 # a + 1 /\ b + 1 \in Nat
    BY <1>4
  <2>2. b + 1 \in 0 .. Top + 1 => b \in 0 .. Top + 1 /\ p[b] = m[b] /\ p[b + 1] = m[b + 1]
    BY <1>1, <1>2, <2>1
  <2>3. QED
    BY <1>2, <2>2 DEF Get, Memory
<1>5. ASSUME NEW b \in Nat, b # a /\ b # a + 1 PROVE Word(p, b) = Word(m, b)
  BY <1>2, <1>5 DEF Word, Memory
<1>6. QED
  BY <1>2, <1>3, <1>4, <1>5 DEF p, Memory

(* A callee leaves what is at $sp and above.                                *)
LEMMA TrashedAbove ==
  ASSUME NEW m, Memory(m), NEW s \in Nat
  PROVE  Memory(Trashed(m, s)) /\ Above(m, Trashed(m, s), s)
<1>1. Top \in Nat /\ CopyTemp = Top
  BY ConstantFacts
<1> DEFINE p == Trashed(m, s)
<1>2. DOMAIN p = 0 .. Top + 1 /\ \A a \in s .. Top - 1 : p[a] = m[a]
  BY <1>1 DEF Trashed, Memory
<1> HIDE DEF p
<1>3. ASSUME NEW a \in s .. Top - 1
      PROVE  (a <= Top - 2 => Get(p, a) = Get(m, a)) /\ Word(p, a) = Word(m, a)
  <2>1. Word(p, a) = Word(m, a)
    BY <1>2 DEF Word, Memory
  <2>2. ASSUME a <= Top - 2 PROVE Get(p, a) = Get(m, a)
    <3>1. a + 1 \in s .. Top - 1
      BY <1>1, <2>2
    <3>2. QED
      BY <1>2, <3>1 DEF Get, Memory
  <2>3. QED
    BY <2>1, <2>2
<1>4. QED
  BY <1>2, <1>3 DEF p, Above, Memory

(* What is above a string stays when the string is put.                     *)
LEMMA PutAbove ==
  ASSUME NEW m, Memory(m), NEW a \in 0 .. Top, NEW s, NEW t \in Nat, a + 1 < t
  PROVE  Above(m, Put(m, a, s), t)
<1>1. Top \in Nat
  BY ConstantFacts
<1>2. QED
  BY <1>1, PutGet DEF Above

(* Two writes, one after the other.                                         *)
LEMMA AboveBoth ==
  ASSUME NEW m, NEW n, NEW o, NEW s \in Nat, NEW t \in s .. Top,
         Above(m, n, s), Above(n, o, t)
  PROVE  Above(m, o, t)
<1>1. Top \in Nat
  BY ConstantFacts
<1>2. QED
  BY <1>1 DEF Above

(* What is above a lower address is above a higher one.                     *)
LEMMA AboveFrom ==
  ASSUME NEW m, NEW n, NEW s \in Int, NEW t \in Int, s <= t, Above(m, n, s)
  PROVE  Above(m, n, t)
<1>1. Top \in Nat
  BY ConstantFacts
<1>2. QED
  BY <1>1 DEF Above

(* The variables are in the frame, above all that is written.               *)
LEMMA VarsStay ==
  ASSUME VarsKept, Above(mem, mem', Base)
  PROVE  VarsKept'
<1>1. ASSUME NEW x \in Vars PROVE Get(mem', VarAddr(Base, x)) = <<x>>
  <2>1. VarAddr(Base, x) \in Base .. Top - 2
    BY ConstantFacts DEF VarAddr, StrSize
  <2>2. VarAddr(Base, x) \in Base .. Top - 1 /\ VarAddr(Base, x) <= Top - 2
    BY <2>1, ConstantFacts
  <2>3. QED
    BY <2>2 DEF Above, VarsKept
<1>2. QED
  BY <1>1 DEF VarsKept

(* An operand stays while the step writes below $sp or beside the temp.     *)
LEMMA AliveStays ==
  ASSUME NEW a, NEW w, Alive(a, w), sp \in Nat, sp' \in Nat, sp' <= sp, Above(mem, mem', sp),
         temp => temp' /\ Get(mem', CopyTemp) = Get(mem, CopyTemp)
  PROVE  Alive(a, w)'
<1>1. Top \in Nat
  BY ConstantFacts
<1>2. CASE a \in sp .. Top - 2
  <2>1. a \in sp .. Top - 1 /\ a <= Top - 2 /\ a \in sp' .. Top - 2
    BY <1>1, <1>2
  <2>2. Get(mem', a) = Get(mem, a)
    BY <2>1 DEF Above
  <2>3. QED
    BY <2>1, <2>2 DEF Alive
<1>3. CASE temp /\ a = CopyTemp
  BY <1>3 DEF Alive
<1>4. QED
  BY <1>2, <1>3 DEF Alive

(* What a call holds stays while the step writes below it.                  *)
LEMMA HoldsStays ==
  ASSUME NEW c \in Calls, NEW d \in Calls, d.saved = c.saved, d.wants = c.wants,
         NEW s \in Nat, NEW n \in Nat, s + StrSize + c.saved <= Base, Holds(c, s, n),
         Above(mem, mem', s + StrSize), \A i \in 1 .. n : ops'[i] = ops[i]
  PROVE  Holds(d, s, n)'
<1>1. Top \in Nat /\ Base \in Nat /\ Base <= Top
  BY ConstantFacts
<1>2. c.saved \in Nat
  BY ConstantFacts DEF Calls
<1>3. PICK lo \in Nat : lo = s + StrSize
  BY DEF StrSize
<1>4. ASSUME NEW j \in 1 .. c.saved
      PROVE  LET a == Word(mem', s + StrSize + j - 1)
             IN a \in s + StrSize + c.saved .. Top - 2 /\ Get(mem', a) = c.wants[j]
  <2> DEFINE a == Word(mem, s + StrSize + j - 1)
  <2>1. a \in s + StrSize + c.saved .. Top - 2 /\ Get(mem, a) = c.wants[j]
    BY DEF Holds
  <2> HIDE DEF a
  <2>2. lo + j - 1 \in lo .. Top - 1
    BY <1>1, <1>2, <1>3
  <2>3. Word(mem', lo + j - 1) = Word(mem, lo + j - 1)
    BY <1>3, <2>2 DEF Above
  <2>4. Word(mem', s + StrSize + j - 1) = a
    BY <1>3, <2>3 DEF a
  <2>5. a \in lo .. Top - 1 /\ a <= Top - 2
    BY <1>1, <1>2, <1>3, <2>1
  <2>6. Get(mem', a) = Get(mem, a)
    BY <1>3, <2>5 DEF Above
  <2>7. QED
    BY <2>1, <2>4, <2>6
<1>5. QED
  BY <1>4 DEF Holds

(* Between statements little has to be said.                                *)
LEMMA NothingPending ==
  ASSUME calls' = << >>, ops' = << >>, pieces' = 0, cbase' = 0, todo' = 0,
         expect' = "statement", form' = "none", sp' \in 1 .. Base
  PROVE  /\ Levels' /\ Room' /\ Pieces'
         /\ \E slot, start : Placed(slot, start)'
<1>1. Depth' = 0 /\ Len(ops') = 0
  BY DEF Depth
<1>2. Levels'
  BY <1>1 DEF Levels, Nested, Outermost
<1>3. Room'
  <2>1. 0 * (StrSize + MaxPieces) = 0
    BY ConstantFacts DEF StrSize
  <2>2. QED
    BY <2>1, ConstantFacts DEF Room, StrSize
<1>4. Pieces'
  BY DEF Pieces
<1>5. Placed(<< >>, << >>)'
  BY <1>1 DEF Placed, Stands, StandsAt, Operands, Saved, OpenOperands
<1>6. QED
  BY <1>2, <1>3, <1>4, <1>5

(* What pieces and operand join to is what the source means.                *)
LEMMA JoinedRight ==
  ASSUME Types, Pieces, NEW start, Operands(start), Len(ops) >= 1
  PROVE  /\ Joined = JoinedWant /\ JoinedWant \in Strings
         /\ top \in Ops /\ Alive(top.addr, top.want)
         /\ pieces = 0 => JoinedWant = top.want
<1>0. Len(ops) \in 1 .. Len(ops) /\ ops \in Seq(Ops)
  BY DEF Types, Kinds, Numbers, Data
<1>1. top \in Ops /\ Alive(top.addr, top.want)
  <2>1. ops[Len(ops)] \in Ops
    BY <1>0
  <2>2. Alive(ops[Len(ops)].addr, ops[Len(ops)].want)
    BY <1>0 DEF Operands
  <2>3. QED
    BY <2>1, <2>2 DEF top
<1>2. wants \in Seq(Strings) /\ Len(wants) = pieces
  BY DEF Types, Kinds, Numbers, Data
<1>3. [i \in 1 .. pieces |-> Get(mem, scratch[cbase + i - 1])] = wants
  <2>1. \A i \in 1 .. pieces : Get(mem, scratch[cbase + i - 1]) = wants[i]
    BY DEF Pieces, Alive
  <2>2. wants = [i \in 1 .. pieces |-> wants[i]]
    BY <1>2
  <2>3. QED
    BY <2>1, <2>2
<1>4. Joined = JoinedWant
  BY <1>1, <1>3 DEF Joined, JoinedWant, Alive
<1>5. FlattenSeq(wants) \in Strings
  BY <1>2, FlattenSeqType DEF Strings
<1>6. top.want \in Strings
  BY <1>1 DEF Ops
<1>7. JoinedWant \in Strings
  BY <1>5, <1>6 DEF JoinedWant, Strings
<1>8. pieces = 0 => JoinedWant = top.want
  <2>1. pieces = 0 => FlattenSeq(wants) = << >>
    BY <1>2 DEF FlattenSeq
  <2>2. << >> \o top.want = top.want
    BY <1>6 DEF Strings
  <2>3. QED
    BY <2>1, <2>2 DEF JoinedWant
<1>9. QED
  BY <1>1, <1>4, <1>7, <1>8

(* Before the first statement.                                              *)
LEMMA InitInv == Init => IInv
<1> SUFFICES ASSUME Init PROVE IInv
  OBVIOUS
<1>1. Types
  <2>1. DOMAIN mem = 0 .. Top + 1
    BY DEF Init
  <2>2. scratch \in [0 .. ScratchSlots - 1 -> 0 .. Top]
    BY ConstantFacts DEF Init, NoSlots, NoAddr
  <2>3. /\ used \in BOOLEAN /\ held \in BOOLEAN /\ temp \in BOOLEAN
        /\ expect = "statement" /\ form = "none"
    BY DEF Init
  <2>4. /\ arena = 0 /\ sp = Base /\ pieces = 0 /\ cbase = 0 /\ todo = 0
        /\ calls = << >> /\ ops = << >> /\ wants = << >>
    BY DEF Init
  <2>5. /\ calls \in Seq(Calls) /\ ops \in Seq(Ops)
        /\ wants \in Seq(Strings) /\ Len(wants) = 0
    BY <2>4
  <2>6. /\ arena \in Nat /\ sp \in 1 .. Base /\ pieces \in 0 .. MaxPieces
        /\ cbase \in 0 .. ScratchSlots - LevelSlots /\ todo \in 0 .. MaxSteps
    BY <2>4, ConstantFacts
  <2>7. QED
    BY <2>1, <2>2, <2>3, <2>4, <2>5, <2>6 DEF Types, Kinds, Numbers, Data
<1>2. Clean
  BY DEF Init, Clean, Unused
<1>3. VarsKept
  <2>1. ASSUME NEW x \in Vars PROVE Get(mem, VarAddr(Base, x)) = <<x>>
    <3>0. PICK c \in Nat : c = Cardinality(Vars)
      BY ConstantFacts
    <3>1. x \in 0 .. c - 1 /\ Top = Base + 2 * c /\ Base \in Nat
      BY <3>0, ConstantFacts
    <3>2. PICK a \in Base .. Top - 2 : a = Base + 2 * x
      BY <3>1
    <3>3. PICK b \in Base .. Top - 1 : b = a + 1
      BY <3>1, <3>2
    <3>4. mem[a] = <<"str", <<x>>, 0>> /\ mem[b] = <<"rest", << >>, a>>
      <4>1. \A i \in 0 .. Top + 1 : i \in Base .. Top - 1 =>
              mem[i] = IF (i - Base) % 2 = 0
                         THEN <<"str", <<(i - Base) \div 2>>, 0>>
                         ELSE <<"rest", << >>, i - 1>>
        BY DEF Init, StrSize
      <4>2. x \in Int /\ a - Base = 2 * x /\ b - Base = 2 * x + 1 /\ b - 1 = a
            /\ a \in 0 .. Top + 1 /\ b \in 0 .. Top + 1 /\ a \in Base .. Top - 1
        BY <3>1, <3>2, <3>3
      <4>3. (2 * x) % 2 = 0 /\ (2 * x + 1) % 2 = 1 /\ (2 * x) \div 2 = x
        BY <4>2
      <4>4. (a - Base) % 2 = 0 /\ (a - Base) \div 2 = x /\ (b - Base) % 2 # 0
        BY <4>2, <4>3
      <4>5. mem[a] = <<"str", <<(a - Base) \div 2>>, 0>>
        BY <4>1, <4>2, <4>4
      <4>6. mem[b] = <<"rest", << >>, b - 1>>
        BY <4>1, <4>2, <4>4
      <4>7. QED
        BY <4>2, <4>4, <4>5, <4>6
    <3>5. DOMAIN mem = 0 .. Top + 1
      BY DEF Init
    <3>6. VarAddr(Base, x) = a
      BY <3>2 DEF VarAddr, StrSize
    <3>7. QED
      BY <3>1, <3>2, <3>3, <3>4, <3>5, <3>6 DEF Get
  <2>2. QED
    BY <2>1 DEF VarsKept
<1>4. /\ Levels /\ Room /\ Pieces
      /\ \E slot, start : Placed(slot, start)
  <2>1. Depth = 0 /\ Len(ops) = 0
    BY DEF Init, Depth
  <2>2. Levels
    BY <2>1 DEF Init, Levels, Nested, Outermost
  <2>3. Room
    <3>1. 0 * (StrSize + MaxPieces) = 0
      BY ConstantFacts DEF StrSize
    <3>2. QED
      BY <3>1, ConstantFacts DEF Init, Room, StrSize
  <2>4. Pieces
    BY DEF Init, Pieces
  <2>5. Placed(<< >>, << >>)
    BY <2>1 DEF Init, Placed, Stands, StandsAt, Operands, Saved, OpenOperands
  <2>6. QED
    BY <2>2, <2>3, <2>4, <2>5
<1>5. ValuesRight
  BY DEF Init, ValuesRight, NoOutcome
<1>6. QED
  BY <1>1, <1>2, <1>3, <1>4, <1>5 DEF IInv

(* What every statement's end has in common.                                *)
LEMMA ForgetKeeps ==
  ASSUME IInv, Forget
  PROVE  VarsKept' /\ DOMAIN mem' = 0 .. Top + 1
         /\ scratch' \in [0 .. ScratchSlots - 1 -> 0 .. Top]
<1>1. Memory(mem) /\ Base \in Nat /\ Top \in Nat
  BY ConstantFacts DEF IInv, Types, Kinds, Numbers, Data, Memory
<1>2. Memory(mem') /\ Above(mem, mem', Base)
  BY <1>1, TrashedAbove DEF Forget
<1>3. VarsKept'
  BY <1>2, VarsStay DEF IInv
<1>4. scratch' \in [0 .. ScratchSlots - 1 -> 0 .. Top]
  BY <1>1 DEF Forget, NoSlots, NoAddr
<1>5. QED
  BY <1>2, <1>3, <1>4 DEF Memory

(* A statement ends, or something happens between two.                      *)
LEMMA StatementEnds ==
  ASSUME IInv, Forget \/ UNCHANGED <<mem, scratch>>, ValuesRight',
         used' \in BOOLEAN, held' \in BOOLEAN, arena' \in Nat, sp' \in 1 .. Base,
         held' => used', ~held' => ~used', ~used' => sp' = Base /\ arena' = 0,
         calls' = << >>, ops' = << >>, pieces' = 0, cbase' = 0, todo' = 0, wants' = << >>,
         expect' = "statement", form' = "none", temp' \in BOOLEAN
  PROVE  IInv'
<1>1. VarsKept' /\ DOMAIN mem' = 0 .. Top + 1
      /\ scratch' \in [0 .. ScratchSlots - 1 -> 0 .. Top]
  <2>1. CASE Forget
    BY <2>1, ForgetKeeps
  <2>2. CASE UNCHANGED <<mem, scratch>>
    BY <2>2 DEF IInv, VarsKept, Types, Kinds, Numbers, Data
  <2>3. QED
    BY <2>1, <2>2
<1>2. Types'
  BY SMTT(30), <1>1, ConstantFacts DEF Types, Kinds, Numbers, Data, Strings
<1>3. Clean'
  BY DEF Clean, Unused
<1>4. QED
  BY <1>1, <1>2, <1>3, NothingPending DEF IInv

(* s := e ends.                                                             *)
LEMMA EndAssignInv ==
  ASSUME IInv, EndAssign
  PROVE  IInv'
<1>1. PICK slot, start : Placed(slot, start)
  BY DEF IInv
<1>2. Len(ops) \in Nat /\ Len(ops) >= 1
  BY <1>1 DEF IInv, Types, Kinds, Numbers, Data, EndAssign, Placed, Stands, StandsAt, OpenOperands
<1>3. Joined = JoinedWant
  BY <1>1, <1>2, JoinedRight DEF IInv, Placed
<1>4. ValuesRight'
  BY <1>3 DEF EndAssign, ValuesRight
<1>5. cbase = 0 /\ calls = << >>
  BY DEF IInv, Levels, Nested, Outermost, EndAssign
<1>6. /\ used' \in BOOLEAN /\ held' \in BOOLEAN /\ arena' \in Nat /\ sp' \in 1 .. Base
      /\ (held' => used') /\ (~held' => ~used') /\ (~used' => sp' = Base /\ arena' = 0)
  <2>0. used \in BOOLEAN /\ held \in BOOLEAN /\ arena \in Nat /\ sp \in 1 .. Base
        /\ (held => used) /\ (~used => arena = 0 /\ sp = Base)
    BY <1>5 DEF IInv, Types, Kinds, Numbers, Data, Clean, Unused
  <2>1. CASE used /\ ~held
    <3>1. used' = FALSE /\ arena' = 0 /\ sp' = Base /\ held' = held
      BY <2>1 DEF EndAssign, EndStatement
    <3>2. Base \in 1 .. Base
      BY ConstantFacts
    <3>3. QED
      BY <2>0, <2>1, <3>1, <3>2
  <2>2. CASE ~(used /\ ~held)
    BY <2>0, <2>2 DEF EndAssign, EndStatement
  <2>3. QED
    BY <2>1, <2>2
<1>7. /\ calls' = << >> /\ ops' = << >> /\ pieces' = 0 /\ cbase' = 0 /\ todo' = 0
      /\ wants' = << >> /\ expect' = "statement" /\ form' = "none" /\ temp' \in BOOLEAN
      /\ Forget
  BY <1>5 DEF EndAssign, EndStatement
<1>8. QED
  BY <1>4, <1>6, <1>7, StatementEnds

(* The test of an if or a loop ends.                                        *)
LEMMA EndTestInv ==
  ASSUME IInv, EndTest
  PROVE  IInv'
<1>1. PICK slot, start : Placed(slot, start)
  BY DEF IInv
<1>2. Len(ops) = 2 /\ pieces = 0 /\ cbase = 0 /\ calls = << >>
  BY DEF IInv, Levels, Nested, Outermost, EndTest
<1>3. JoinedWant = top.want /\ Alive(top.addr, top.want)
  BY <1>1, <1>2, JoinedRight DEF IInv, Placed
<1>4. Alive(ops[1].addr, ops[1].want)
  BY <1>1, <1>2 DEF Placed, Operands
<1>5. ValuesRight'
  BY <1>3, <1>4 DEF EndTest, ValuesRight, Alive
<1>6. /\ used' \in BOOLEAN /\ held' \in BOOLEAN /\ arena' \in Nat /\ sp' \in 1 .. Base
      /\ (held' => used') /\ (~held' => ~used') /\ (~used' => sp' = Base /\ arena' = 0)
  BY <1>2, ConstantFacts DEF IInv, Types, Kinds, Numbers, Data, Clean, Unused, EndTest
<1>7. /\ calls' = << >> /\ ops' = << >> /\ pieces' = 0 /\ cbase' = 0 /\ todo' = 0
      /\ wants' = << >> /\ expect' = "statement" /\ form' = "none" /\ temp' \in BOOLEAN
      /\ Forget
  BY <1>2 DEF EndTest
<1>8. QED
  BY <1>5, <1>6, <1>7, StatementEnds

(* A branch out of a body is compiled, or a body ends.                      *)
LEMMA BetweenInv ==
  ASSUME IInv, BranchNotTaken \/ EndBody
  PROVE  IInv'
<1>1. /\ expect = "statement" /\ held /\ cbase = 0 /\ calls = << >> /\ wants = << >>
      /\ ops = << >> /\ pieces = 0 /\ todo = 0 /\ form = "none" /\ used
  BY DEF IInv, Types, Kinds, Numbers, Data, Clean, Unused, Levels, Nested, Outermost, BranchNotTaken, EndBody, Strings
<1>2. UNCHANGED <<pieces, cbase, calls, expect, form, todo, temp, mem, scratch, ops, wants, outcome>>
  BY DEF BranchNotTaken, EndBody, source
<1>3. ValuesRight'
  BY <1>2 DEF IInv, ValuesRight
<1>4. /\ used' \in BOOLEAN /\ held' \in BOOLEAN /\ arena' \in Nat /\ sp' \in 1 .. Base
      /\ (held' => used') /\ (~held' => ~used') /\ (~used' => sp' = Base /\ arena' = 0)
  BY SMTT(30), <1>1, ConstantFacts DEF IInv, Types, Kinds, Numbers, Data, BranchNotTaken, EndBody
<1>5. temp' \in BOOLEAN
  BY <1>2 DEF IInv, Types, Kinds, Numbers, Data
<1>6. /\ calls' = << >> /\ ops' = << >> /\ pieces' = 0 /\ cbase' = 0 /\ todo' = 0
      /\ wants' = << >> /\ expect' = "statement" /\ form' = "none"
      /\ UNCHANGED <<mem, scratch>>
  BY <1>1, <1>2
<1>7. QED
  BY <1>3, <1>4, <1>5, <1>6, StatementEnds

(* How many operands there were when the k-th call began.                   *)
LEMMA StartsBelow ==
  ASSUME Types, NEW slot, NEW start, Stands(slot, start), NEW k \in 1 .. Depth
  PROVE  /\ Depth \in Nat /\ Depth \in 1 .. Depth /\ calls # << >>
         /\ calls[k] \in Calls /\ start[k] \in Nat /\ slot[k] \in Int
         /\ start[k] <= start[Depth] /\ start[Depth] + calls[Depth].args = Len(ops) - OpenOperands
         /\ start[k] + OpenOperands <= Len(ops) /\ Len(ops) \in Nat /\ OpenOperands \in {0, 1}
         /\ calls[Depth] \in Calls /\ start[Depth] \in Nat
<1>1. Depth \in Nat /\ Depth \in 1 .. Depth /\ calls # << >> /\ Len(ops) \in Nat
  BY DEF Types, Kinds, Numbers, Data, Depth
<1>2. calls[k] \in Calls /\ calls[Depth] \in Calls
  BY <1>1 DEF Types, Kinds, Numbers, Data, Depth
<1>3. calls[Depth].args \in Nat
  BY <1>2 DEF Calls
<1>4. start[k] \in Nat /\ slot[k] \in Int /\ start[Depth] \in Nat
  BY <1>1 DEF Stands, StandsAt
<1>5. start[k] <= start[Depth]
  <2>1. CASE k = Depth
    BY <1>4, <2>1
  <2>2. CASE k # Depth
    BY <1>1, <2>2 DEF Stands, StandsAt
  <2>3. QED
    BY <2>1, <2>2
<1>6. start[Depth] + calls[Depth].args = Len(ops) - OpenOperands
  BY <1>1 DEF Stands, StandsAt
<1>7. OpenOperands \in {0, 1}
  BY DEF OpenOperands
<1>8. QED
  BY <1>1, <1>2, <1>3, <1>4, <1>5, <1>6, <1>7

(* What the calls hold stays while the step writes below $sp.               *)
Alike(c, d) == d.ret = c.ret /\ d.saved = c.saved /\ d.wants = c.wants

(* A step that changes calls only in what they count keeps what they hold.  *)
LEMMA SavedAlike ==
  ASSUME IInv, NEW slot, NEW start, Placed(slot, start),
         Depth' = Depth, \A k \in 1 .. Depth : calls'[k] \in Calls /\ Alike(calls[k], calls'[k]),
         Above(mem, mem', sp), \A i \in 1 .. Len(ops) - OpenOperands : ops'[i] = ops[i]
  PROVE  Saved(slot, start)'
<1>1. Stands(slot, start) /\ Types
  BY DEF Placed, IInv
<1>2. ASSUME NEW k \in 1 .. Depth, calls'[k].ret
      PROVE  Holds(calls[k], slot[k], start[k])'
  <2>1. calls[k] \in Calls /\ start[k] \in Nat /\ start[k] + OpenOperands <= Len(ops)
        /\ Len(ops) \in Nat /\ slot[k] \in Int /\ OpenOperands \in {0, 1}
    BY <1>1, StartsBelow
  <2>2. calls[k].ret
    BY <1>2 DEF Alike
  <2>3. slot[k] >= sp /\ slot[k] + StrSize + calls[k].saved <= Base
    BY <1>1, <2>2 DEF Stands, StandsAt
  <2>4. sp \in Nat
    BY <1>1, ConstantFacts DEF Types, Numbers
  <2>5. slot[k] \in Nat /\ sp <= slot[k] + StrSize /\ slot[k] + StrSize \in Int
    BY <2>1, <2>3, <2>4 DEF StrSize
  <2>6. Above(mem, mem', slot[k] + StrSize)
    BY <2>4, <2>5, AboveFrom
  <2>7. \A i \in 1 .. start[k] : ops'[i] = ops[i]
    BY <2>1
  <2>8. Holds(calls[k], slot[k], start[k])
    BY <2>2 DEF Placed, Saved
  <2>9. PICK c \in Calls, d \in Calls, s \in Nat, n \in Nat :
          c = calls[k] /\ d = calls'[k] /\ s = slot[k] /\ n = start[k]
    BY <2>1, <2>5
  <2>10. d.saved = c.saved /\ d.wants = c.wants
    BY <2>9 DEF Alike
  <2>11. Holds(d, s, n)'
    BY <2>3, <2>6, <2>7, <2>8, <2>9, <2>10, HoldsStays
  <2>12. QED
    BY <2>9, <2>11
<1>3. QED
  BY <1>2 DEF Saved

(* A step that leaves the calls alone keeps what they hold.                 *)
LEMMA SavedStays ==
  ASSUME IInv, NEW slot, NEW start, Placed(slot, start), calls' = calls,
         Above(mem, mem', sp), \A i \in 1 .. Len(ops) - OpenOperands : ops'[i] = ops[i]
  PROVE  Saved(slot, start)'
<1>1. Depth' = Depth
  BY DEF Depth
<1>2. \A k \in 1 .. Depth : calls'[k] \in Calls /\ Alike(calls[k], calls'[k])
  BY DEF IInv, Types, Data, Depth, Alike
<1>3. QED
  BY <1>1, <1>2, SavedAlike

(* An operand is read: one more on the stack, nothing else.                 *)
LEMMA Pushes ==
  ASSUME IInv, expect = "operand", expect' = "operator",
         NEW a \in Nat, NEW w \in Strings, ops' = Push(a, w), Alive(a, w)',
         UNCHANGED <<used, held, arena, pieces, cbase, calls, form, todo, sp, wants, outcome>>,
         temp' \in BOOLEAN, DOMAIN mem' = 0 .. Top + 1, Above(mem, mem', sp),
         scratch' \in [0 .. ScratchSlots - 1 -> 0 .. Top], pieces > 0 => scratch' = scratch,
         temp => temp' /\ Get(mem', CopyTemp) = Get(mem, CopyTemp)
  PROVE  IInv'
<1>1. PICK slot, start : Placed(slot, start)
  BY DEF IInv
<1>2. Types /\ Stands(slot, start) /\ Operands(start) /\ sp \in Nat /\ sp' \in Nat /\ sp' <= sp
  <2>1. Types /\ Stands(slot, start) /\ Operands(start)
    BY <1>1 DEF IInv, Placed
  <2>2. sp \in 1 .. Base
    BY <2>1 DEF Types, Kinds, Numbers, Data
  <2>3. QED
    BY <2>1, <2>2, ConstantFacts
<1>3. PICK n \in Nat : n = Len(ops) /\ ops \in Seq(Ops)
  BY <1>2 DEF Types, Kinds, Numbers, Data
<1>4. /\ ops' \in Seq(Ops) /\ Len(ops') = n + 1
      /\ ops'[n + 1] = [addr |-> a, want |-> w] /\ \A i \in 1 .. n : ops'[i] = ops[i]
  <2>1. [addr |-> a, want |-> w] \in Ops
    BY DEF Ops
  <2>2. QED
    BY <1>3, <2>1 DEF Push
<1>5. Depth' = Depth /\ OpenOperands = 0 /\ OpenOperands' = 1
  BY DEF Depth, OpenOperands
<1>6. Types'
  BY <1>2, <1>4 DEF Types, Kinds, Numbers, Data
<1>7. Clean'
  BY <1>5 DEF IInv, Clean, Unused
<1>8. Room' /\ Levels'
  BY <1>5 DEF IInv, Room, Levels, Nested, Outermost
<1>9. Pieces'
  <2>1. ASSUME NEW j \in 1 .. pieces PROVE Alive(scratch[cbase + j - 1], wants[j])'
    <3>1. Alive(scratch[cbase + j - 1], wants[j])
      BY DEF IInv, Pieces
    <3>2. scratch' = scratch
      BY <1>2 DEF Types, Kinds, Numbers, Data
    <3>3. PICK b, v : b = scratch[cbase + j - 1] /\ v = wants[j]
      OBVIOUS
    <3>4. Alive(b, v)'
      BY <1>2, <3>1, <3>3, AliveStays
    <3>5. QED
      BY <3>2, <3>3, <3>4
  <2>2. QED
    BY <2>1 DEF Pieces
<1>10. VarsKept'
  BY <1>2, AboveFrom, VarsStay, ConstantFacts DEF IInv, Types, Kinds, Numbers, Data
<1>11. Stands(slot, start)'
  <2>1. Len(ops') - OpenOperands' = Len(ops) - OpenOperands
    BY <1>3, <1>4, <1>5
  <2>2. Len(ops') >= OpenOperands'
    BY <1>4, <1>5
  <2>3. QED
    BY <1>2, <1>5, <2>1, <2>2 DEF Stands, StandsAt
<1>12. Operands(start)'
  <2>1. ASSUME NEW i \in 1 .. n
        PROVE  Alive(ops[i].addr, ops[i].want)'
               /\ (ops'[i].addr = CopyTemp /\ calls # << >> => i > start[Depth])
    <3>1. PICK b, v : b = ops[i].addr /\ v = ops[i].want /\ Alive(b, v)
          /\ (b = CopyTemp /\ calls # << >> => i > start[Depth])
      BY <1>2, <1>3 DEF Operands
    <3>2. Alive(b, v)'
      BY <1>2, <3>1, AliveStays
    <3>3. ops'[i].addr = b /\ ops'[i].want = v
      BY <1>4, <3>1
    <3>4. QED
      BY <3>1, <3>2, <3>3
  <2>2. Alive(ops[n + 1].addr, ops[n + 1].want)'
    BY <1>4
  <2>3. calls # << >> => n + 1 > start[Depth]
    <3>1. SUFFICES ASSUME calls # << >> PROVE n + 1 > start[Depth]
      OBVIOUS
    <3>2. Depth \in 1 .. Depth
      BY <1>2, <3>1 DEF Depth, Types, Kinds, Numbers, Data
    <3>3. QED
      BY <1>2, <1>3, <1>5, <3>2, StartsBelow
  <2>4. QED
    BY <1>4, <1>5, <2>1, <2>2, <2>3 DEF Operands
<1>13. Saved(slot, start)'
  BY <1>1, <1>3, <1>4, <1>5, SavedStays
<1>14. ValuesRight'
  BY DEF IInv, ValuesRight
<1>15. QED
  BY <1>6, <1>7, <1>8, <1>9, <1>10, <1>11, <1>12, <1>13, <1>14 DEF IInv, Placed

(* The address a variable is read from is that of the frame.                *)
LEMMA FrameIsBase ==
  ASSUME IInv, expect \in {"statement", "operand"}
  PROVE  FramePtr = Base /\ (expect = "statement" => cbase = 0 /\ pieces = 0)
<1>1. CASE used
  BY <1>1 DEF FramePtr, IInv, Levels, Nested, Outermost, Clean, Unused
<1>2. CASE ~used
  <2>1. sp = Base
    <3>1. CASE calls = << >>
      BY <1>2, <3>1 DEF IInv, Clean, Unused
    <3>2. CASE calls # << >>
      <4>1. sp + StrSize * calls[1].temps = Base /\ calls[1].temps = 0
        BY <1>2, <3>2 DEF IInv, Clean, Unused
      <4>2. sp \in 1 .. Base
        BY DEF IInv, Types, Kinds, Numbers, Data
      <4>3. QED
        BY <4>1, <4>2, ConstantFacts DEF StrSize
    <3>3. QED
      BY <3>1, <3>2
  <2>2. QED
    BY <1>2, <2>1 DEF FramePtr, IInv, Levels, Nested, Outermost, Clean, Unused
<1>3. QED
  BY <1>1, <1>2

(* A variable that is read is where it is said to be.                       *)
LEMMA Variable ==
  ASSUME IInv, expect = "operand", NEW x \in Vars
  PROVE  /\ VarAddr(FramePtr, x) \in sp .. Top - 2 /\ VarAddr(FramePtr, x) \in Nat
         /\ Get(mem, VarAddr(FramePtr, x)) = <<x>> /\ <<x>> \in Strings
         /\ sp \in Nat /\ Top \in Nat /\ CopyTemp = Top /\ sp <= Top /\ sp >= 1 /\ Memory(mem)
<1>1. FramePtr = Base
  BY FrameIsBase
<1>2. sp \in 1 .. Base /\ Memory(mem)
  BY DEF IInv, Types, Kinds, Numbers, Data, Memory
<1>3. VarAddr(Base, x) = Base + 2 * x
  BY DEF VarAddr, StrSize
<1>4. x \in Int /\ VarAddr(Base, x) \in sp .. Top - 2 /\ VarAddr(Base, x) \in Nat
  BY SMTT(30), <1>2, <1>3, ConstantFacts
<1>5. Get(mem, VarAddr(Base, x)) = <<x>>
  BY DEF IInv, VarsKept
<1>6. <<x>> \in Strings
  BY <1>4 DEF Strings
<1>7. sp \in Nat /\ Top \in Nat /\ CopyTemp = Top /\ sp <= Top /\ sp >= 1
  BY <1>2, ConstantFacts
<1>8. QED
  BY <1>1, <1>2, <1>4, <1>5, <1>6, <1>7

(* A variable is read.                                                      *)
LEMMA OperandInv ==
  ASSUME IInv, NEW x \in Vars, Operand(x)
  PROVE  IInv'
<1>1. expect = "operand" /\ expect' = "operator"
  BY DEF Operand
<1>2. PICK a \in Nat : a = VarAddr(FramePtr, x)
  BY <1>1, Variable
<1>3. ops' = Push(a, <<x>>) /\ mem' = mem /\ sp' = sp /\ temp' = temp /\ scratch' = scratch
      /\ UNCHANGED <<used, held, arena, pieces, cbase, calls, form, todo, sp, wants, outcome>>
  BY <1>2 DEF Operand
<1>4. Alive(a, <<x>>)'
  BY <1>1, <1>2, <1>3, Variable DEF Alive
<1>5. Above(mem, mem', sp)
  BY <1>3 DEF Above
<1>6. temp' \in BOOLEAN /\ DOMAIN mem' = 0 .. Top + 1
      /\ scratch' \in [0 .. ScratchSlots - 1 -> 0 .. Top]
  BY <1>3 DEF IInv, Types, Kinds, Numbers, Data
<1>7. <<x>> \in Strings
  BY <1>1, Variable
<1>8. QED
  BY <1>1, <1>3, <1>4, <1>5, <1>6, <1>7, Pushes

(* copy()'s result, in the temp that nobody else uses now.                  *)
LEMMA TempOperandInv ==
  ASSUME IInv, Constructs = {}, NEW x \in Vars, CopyOperand(x) \/ IndirectOperand(x)
  PROVE  IInv'
<1>1. expect = "operand" /\ expect' = "operator" /\ ~temp /\ temp' = TRUE
  BY DEF CopyOperand, IndirectOperand
<1>2. PICK v \in Nat : v = VarAddr(FramePtr, x)
  BY <1>1, Variable
<1>3. v \in sp .. Top - 2 /\ Get(mem, v) = <<x>> /\ <<x>> \in Strings /\ sp \in Nat
      /\ Top \in Nat /\ CopyTemp = Top /\ sp <= Top /\ Memory(mem)
  BY <1>1, <1>2, Variable
<1>4. PICK m : /\ m = mem \/ (m = Trashed(mem, sp) /\ pieces = 0)
               /\ mem' = Put(m, CopyTemp, Get(mem, v))
  BY <1>2 DEF CopyOperand, IndirectOperand
<1>5. Memory(m) /\ Above(mem, m, sp)
  <2>1. CASE m = mem
    BY <1>3, <2>1 DEF Above
  <2>2. CASE m = Trashed(mem, sp)
    BY <1>3, <2>2, TrashedAbove
  <2>3. QED
    BY <1>4, <2>1, <2>2
<1>6. /\ Memory(mem') /\ Get(mem', CopyTemp) = <<x>>
      /\ \A b \in Nat : b + 1 < Top => Get(mem', b) = Get(m, b)
      /\ \A b \in Nat : b # Top /\ b # Top + 1 => Word(mem', b) = Word(m, b)
  BY <1>3, <1>4, <1>5, PutGet
<1>7. Above(mem, mem', sp)
  BY <1>3, <1>5, <1>6 DEF Above
<1>8. /\ ops' = Push(CopyTemp, <<x>>)
      /\ UNCHANGED <<used, held, arena, pieces, cbase, calls, form, todo, sp, wants, outcome>>
  BY DEF CopyOperand, IndirectOperand
<1>9. Alive(CopyTemp, <<x>>)'
  BY <1>1, <1>6 DEF Alive
<1>10. scratch' \in [0 .. ScratchSlots - 1 -> 0 .. Top] /\ (pieces > 0 => scratch' = scratch)
  <2>1. CASE CopyOperand(x)
    BY <2>1 DEF CopyOperand, IInv, Types, Kinds, Numbers, Data
  <2>2. CASE IndirectOperand(x)
    BY <1>3, <2>2 DEF IndirectOperand, NoSlots, NoAddr
  <2>3. QED
    BY <2>1, <2>2
<1>11. DOMAIN mem' = 0 .. Top + 1 /\ CopyTemp \in Nat
  BY <1>3, <1>6 DEF Memory
<1>12. QED
  BY <1>1, <1>3, <1>7, <1>8, <1>9, <1>10, <1>11, Pushes

(* The calls stand where they stood.                                        *)
LEMMA StandsStay ==
  ASSUME NEW slot, NEW start, Stands(slot, start), UNCHANGED <<calls, sp, arena>>,
         Len(ops') - OpenOperands' = Len(ops) - OpenOperands, Len(ops') >= OpenOperands'
  PROVE  Stands(slot, start)'
<1>1. Depth' = Depth
  BY DEF Depth
<1>2. QED
  BY <1>1 DEF Stands, StandsAt

(* A statement begins.                                                      *)
LEMMA BeginInv ==
  ASSUME IInv, NEW f \in {"assign", "test", "call"}, Begin(f)
  PROVE  IInv'
<1>1. /\ expect = "statement" /\ expect' = "operand" /\ form' = f /\ todo' = MaxSteps
      /\ temp' = FALSE /\ outcome' = NoOutcome
      /\ UNCHANGED <<used, held, arena, pieces, cbase, sp, mem, scratch, ops, wants>>
  BY DEF Begin
<1>2. calls' = IF f = "call" THEN <<NewCall(FALSE)>> ELSE << >>
  BY DEF Begin
<1>3. /\ calls = << >> /\ ops = << >> /\ pieces = 0 /\ cbase = 0 /\ wants = << >>
      /\ arena \in Nat /\ sp \in Int /\ sp <= Base /\ Base \in Int
  BY <1>1, ConstantFacts DEF IInv, Clean, Levels, Outermost, Types, Numbers, Data
<1>4. Clean /\ Types /\ (~used => arena = 0 /\ sp = Base)
  BY <1>3 DEF IInv, Clean, Unused
<1>5. VarsKept' /\ ValuesRight' /\ Pieces'
  BY <1>1, <1>3 DEF IInv, VarsKept, ValuesRight, NoOutcome, Pieces
<1>6. Room'
  <2>1. sp > MaxSteps * (StrSize + MaxPieces)
    BY DEF Begin
  <2>2. QED
    BY <1>1, <1>3, <2>1, ConstantFacts DEF Room, StrSize
<1>7. Kinds' /\ Numbers'
  <2>1. Kinds'
    BY <1>1, <1>4 DEF Types, Kinds
  <2>2. Numbers'
    BY <1>1, <1>4, ConstantFacts DEF Types, Numbers
  <2>3. QED
    BY <2>1, <2>2
<1>8. Len(ops') = 0 /\ OpenOperands' = 0
  BY <1>1, <1>3 DEF OpenOperands
<1>9. CASE f # "call"
  <2>1. calls' = << >> /\ Depth' = 0
    BY <1>2, <1>9 DEF Depth
  <2>2. Data'
    BY <1>1, <1>4, <2>1 DEF Types, Data
  <2>3. Clean'
    BY <1>1, <1>4, <2>1 DEF Clean, Unused
  <2>4. Levels'
    BY <1>1, <1>3, <1>9, <2>1 DEF Levels, Outermost
  <2>5. Placed(<< >>, << >>)'
    BY <1>8, <2>1 DEF Placed, Stands, Operands, Saved
  <2>6. QED
    BY <1>5, <1>6, <1>7, <2>2, <2>3, <2>4, <2>5 DEF IInv, Types
<1>10. CASE f = "call"
  <2>1. PICK c : c = NewCall(FALSE)
    BY ZenonT(60)
  <2>2. c = [ret |-> FALSE, saved |-> 0, base |-> 0, saveMark |-> arena,
             retMark |-> arena + 2, temps |-> 0, args |-> 0, wants |-> << >>]
    BY <1>3, <2>1 DEF NewCall, StrSize
  <2>3. /\ c \in Calls /\ ~c.ret /\ c.saved = 0 /\ c.base = 0 /\ c.saveMark = arena
        /\ c.retMark = arena + 2 /\ c.temps = 0 /\ c.args = 0 /\ c.wants = << >>
    BY <1>3, <2>2, ConstantFacts DEF Calls
  <2>4. calls' = <<c>>
    BY <1>2, <1>10, <2>1
  <2>5. Len(calls') = 1 /\ calls'[1] = c /\ calls' \in Seq(Calls) /\ calls' # << >> /\ Depth' = 1
    <3>1. c \in Calls
      BY <2>3
    <3>2. QED
      BY <2>4, <3>1 DEF Depth
  <2>6. Data'
    BY <1>1, <1>4, <2>5 DEF Types, Data
  <2>7. Clean'
    <3>1. Unused'
      BY <1>1, <1>3, <1>4, <2>3, <2>5 DEF Unused, StrSize
    <3>2. QED
      BY <1>1, <1>4, <3>1 DEF Clean
  <2>8. Levels'
    <3>1. Nested(1)'
      <4>1. 0 \in 0 .. ScratchSlots - LevelSlots /\ Len(c.wants) = 0
        BY <2>3, ConstantFacts
      <4>2. c.base + c.saved = 0 /\ cbase' = 0
        BY <1>1, <1>3, <2>3
      <4>3. c.saveMark + StrSize = c.retMark /\ ~c.ret /\ c.retMark <= arena' + StrSize
        BY <1>1, <1>3, <2>3 DEF StrSize
      <4>4. QED
        BY <2>3, <2>5, <4>1, <4>2, <4>3 DEF Nested
    <3>2. Outermost'
      BY <1>1, <1>10, <2>3, <2>5 DEF Outermost
    <3>3. \A k \in 1 .. Depth' : k = 1
      BY <2>5
    <3>4. QED
      BY <3>1, <3>2, <3>3 DEF Levels
  <2>9. PICK s \in Int : s = sp - 2
    BY <1>3
  <2>10. Stands(<<s>>, <<0>>)'
    <3>1. \A k \in 1 .. Depth' : k = 1
      BY <2>5
    <3>2. StandsAt(1, <<s>>, <<0>>)'
      BY <1>1, <1>3, <1>8, <2>3, <2>5, <2>9 DEF StandsAt, StrSize
    <3>3. <<s>> \in Seq(Int) /\ <<0>> \in Seq(Nat) /\ Len(<<s>>) = 1 /\ Len(<<0>>) = 1
      OBVIOUS
    <3>4. \A j, k \in 1 .. Depth' : ~(j < k)
      BY <2>5
    <3>5. QED
      BY <1>8, <2>5, <3>1, <3>2, <3>3, <3>4 DEF Stands
  <2>11. Operands(<<0>>)' /\ Saved(<<s>>, <<0>>)'
    <3>1. \A k \in 1 .. Depth' : ~calls'[k].ret
      BY <2>3, <2>5
    <3>2. QED
      BY <1>8, <3>1 DEF Operands, Saved
  <2>12. QED
    BY <1>5, <1>6, <1>7, <2>6, <2>7, <2>8, <2>10, <2>11 DEF IInv, Placed, Types
<1>11. QED
  BY <1>9, <1>10

(* A step spent pays for what it takes from the stack and from the slots.   *)
LEMMA RoomSpent ==
  ASSUME IInv, Spend, NEW n \in Int, n = cbase + pieces, NEW q \in Int, NEW p \in Int,
         sp' = p, cbase' + pieces' = q, p + 2 + MaxPieces - 2 * q >= sp - 2 * n
  PROVE  Room' /\ todo' \in 0 .. MaxSteps
<1>1. todo \in 0 .. MaxSteps /\ todo > 0 /\ todo' = todo - 1
  BY DEF IInv, Types, Numbers, Spend
<1>2. PICK mp \in Nat, r \in Nat : mp = MaxPieces /\ r = 2 + mp /\ r = StrSize + MaxPieces
  BY ConstantFacts DEF StrSize
<1>3. todo \in Nat /\ MaxSteps \in Nat
  BY <1>1, ConstantFacts
<1>4. todo * r = (todo - 1) * r + r
  BY <1>1, <1>3, SpendOne
<1>5. PICK t \in Int, u \in Int : t = todo * r /\ u = (todo - 1) * r
  BY <1>2, <1>3
<1>6. PICK s \in Int : s = sp
  BY ConstantFacts DEF IInv, Types, Numbers
<1>7. s > t + 2 * n
  BY <1>2, <1>5, <1>6 DEF IInv, Room, StrSize
<1>8. p > u + 2 * q
  <2>1. t = u + r
    BY <1>4, <1>5
  <2>2. p + 2 + mp - 2 * q >= s - 2 * n
    BY <1>2, <1>6
  <2>3. QED
    BY <1>2, <1>7, <2>1, <2>2
<1>9. todo' * (StrSize + MaxPieces) = u
  BY <1>1, <1>2, <1>5
<1>10. todo' \in 0 .. MaxSteps
  BY <1>1, <1>3
<1>11. Room'
  BY <1>8, <1>9 DEF Room, StrSize
<1>12. QED
  BY <1>10, <1>11

(* Another argument begins.                                                 *)
LEMMA NextArgInv ==
  ASSUME IInv, Constructs = {}, NextArg
  PROVE  IInv'
<1>1. /\ expect = "args" /\ expect' = "operand" /\ Spend /\ (used \/ call.temps = 0)
      /\ UNCHANGED <<used, held, arena, pieces, cbase, calls, form, temp, sp, mem,
                     scratch, ops, wants, outcome>>
  BY DEF NextArg
<1>2. PICK slot, start : Placed(slot, start)
  BY DEF IInv
<1>3. Types /\ Depth' = Depth /\ OpenOperands = 0 /\ OpenOperands' = 0
  BY <1>1 DEF Depth, OpenOperands, IInv
<1>4. sp \in Int /\ pieces \in Int /\ cbase \in Int /\ StrSize + MaxPieces \in Nat
  BY <1>3, ConstantFacts DEF Types, Kinds, Numbers, Data, StrSize
<1>5. Room' /\ todo' \in 0 .. MaxSteps
  <2>1. PICK n \in Int, p \in Int : n = cbase + pieces /\ p = sp /\ cbase' + pieces' = n /\ sp' = p
    BY <1>1, <1>4
  <2>2. p + 2 + MaxPieces - 2 * n >= sp - 2 * n
    BY SMTT(30), <2>1, ConstantFacts
  <2>3. QED
    BY <1>1, <2>1, <2>2, RoomSpent
<1>6. Types'
  BY <1>1, <1>3, <1>5 DEF Types, Kinds, Numbers, Data
<1>7. Clean'
  <2>1. ~used => calls[1].temps = 0
    BY <1>1 DEF IInv, Clean, Unused, call, Depth
  <2>2. QED
    BY <1>1, <1>3, <2>1 DEF IInv, Clean, Unused
<1>8. Levels'
  BY <1>1, <1>3 DEF IInv, Levels, Nested, Outermost
<1>9. Pieces' /\ VarsKept' /\ ValuesRight'
  BY <1>1 DEF IInv, Pieces, Alive, VarsKept, ValuesRight
<1>10. Stands(slot, start)'
  BY <1>1, <1>2, <1>3, StandsStay DEF Placed, Stands, StandsAt
<1>11. Operands(start)'
  BY <1>1, <1>2, <1>3 DEF Placed, Operands, Alive
<1>12. Saved(slot, start)'
  BY <1>1, <1>2, <1>3 DEF Placed, Saved, Holds
<1>13. QED
  BY <1>5, <1>6, <1>7, <1>8, <1>9, <1>10, <1>11, <1>12 DEF IInv, Placed

(* The right side of a comparison begins.                                   *)
LEMMA EqualInv ==
  ASSUME IInv, Equal
  PROVE  IInv'
<1>1. /\ expect = "operator" /\ expect' = "operand" /\ calls = << >> /\ Len(ops) = 1
      /\ form = "test" /\ ops' = <<[top EXCEPT !.want = JoinedWant]>> /\ wants' = << >>
      /\ UNCHANGED <<used, held, arena, pieces, cbase, calls, form, todo, temp, sp,
                     mem, scratch, outcome>>
  BY DEF Equal
<1>2. PICK slot, start : Placed(slot, start)
  BY DEF IInv
<1>3. Types /\ pieces = 0 /\ Depth = 0 /\ Depth' = 0
  BY <1>1 DEF IInv, Levels, Outermost, Depth
<1>4. wants' = wants /\ ops \in Seq(Ops)
  BY <1>1, <1>3 DEF Types, Data
<1>5. ops' = ops
  <2>1. JoinedWant = top.want /\ top \in Ops
    BY <1>1, <1>2, <1>3, JoinedRight DEF IInv, Placed
  <2>2. [top EXCEPT !.want = JoinedWant] = top
    BY <2>1 DEF Ops
  <2>3. ops' = <<ops[1]>>
    BY <1>1, <2>2 DEF top
  <2>4. ops = <<ops[1]>>
    BY <1>1, <1>4
  <2>5. QED
    BY <2>3, <2>4
<1>6. Types'
  <2>1. Kinds'
    BY <1>1, <1>3 DEF Types, Kinds
  <2>2. Numbers' /\ Data'
    BY <1>1, <1>3, <1>4, <1>5 DEF Types, Numbers, Data
  <2>3. QED
    BY <2>1, <2>2 DEF Types
<1>7. Clean'
  BY <1>1, <1>3 DEF IInv, Clean, Unused
<1>8. Room' /\ Levels'
  BY <1>1, <1>3 DEF IInv, Room, Levels, Outermost
<1>9. Pieces' /\ VarsKept' /\ ValuesRight'
  BY <1>1, <1>3 DEF IInv, Pieces, VarsKept, ValuesRight
<1>10. Placed(slot, start)'
  <2>1. OpenOperands' = 0 /\ Len(ops') = 1
    BY <1>1, <1>5 DEF OpenOperands
  <2>2. Stands(slot, start)'
    BY <1>2, <1>3, <2>1 DEF Placed, Stands
  <2>3. Operands(start)'
    BY <1>1, <1>2, <1>3, <1>5 DEF Placed, Operands, Alive
  <2>4. Saved(slot, start)'
    BY <1>3 DEF Saved
  <2>5. QED
    BY <2>2, <2>3, <2>4 DEF Placed
<1>11. QED
  BY <1>6, <1>7, <1>8, <1>9, <1>10 DEF IInv

(* An operand becomes a piece.                                              *)
LEMMA PlusInv ==
  ASSUME IInv, Constructs = {}, Plus
  PROVE  IInv'
<1>1. /\ expect = "operator" /\ expect' = "operand" /\ Spend /\ pieces < MaxPieces
      /\ ~(form = "test" /\ calls = << >>)
      /\ scratch' = [scratch EXCEPT ![cbase + pieces] = top.addr]
      /\ pieces' = pieces + 1 /\ wants' = Append(wants, top.want) /\ ops' = Pop
      /\ UNCHANGED <<used, held, arena, cbase, calls, form, temp, sp, mem, outcome>>
  BY DEF Plus
<1>2. PICK slot, start : Placed(slot, start)
  BY DEF IInv
<1>3. Types /\ Depth' = Depth /\ OpenOperands = 1 /\ OpenOperands' = 0
      /\ Stands(slot, start) /\ Operands(start)
  BY <1>1, <1>2 DEF Depth, OpenOperands, IInv, Placed
<1>4. PICK n \in Nat : n + 1 = Len(ops) /\ ops \in Seq(Ops)
  <2>1. Len(ops) \in Nat /\ ops \in Seq(Ops) /\ Len(ops) >= 1
    BY <1>3 DEF Types, Data, Stands
  <2>2. QED
    BY <2>1
<1>5. ops' \in Seq(Ops) /\ Len(ops') = n /\ \A i \in 1 .. n : ops'[i] = ops[i]
  <2>1. ops' = SubSeq(ops, 1, n)
    BY <1>1, <1>4 DEF Pop
  <2>2. QED
    BY <1>4, <2>1
<1>6. top \in Ops /\ Alive(top.addr, top.want)
  BY <1>2, <1>3, <1>4, JoinedRight DEF IInv
<1>7. PICK p \in Nat, c \in Nat : p = pieces /\ c = cbase /\ p < MaxPieces
                                   /\ c <= ScratchSlots - LevelSlots
  BY <1>1, <1>3, ConstantFacts DEF Types, Numbers
<1>8. /\ scratch' \in [0 .. ScratchSlots - 1 -> 0 .. Top]
      /\ scratch'[c + p] = top.addr /\ \A j \in 1 .. p : scratch'[c + j - 1] = scratch[c + j - 1]
  <2>1. c + p \in 0 .. ScratchSlots - 1
    BY <1>7, ConstantFacts
  <2>2. top.addr \in 0 .. Top
    <3>1. top.addr \in sp .. Top - 2 \/ top.addr = CopyTemp
      BY <1>6 DEF Alive
    <3>2. sp \in 1 .. Base
      BY <1>3 DEF Types, Numbers
    <3>3. QED
      BY <3>1, <3>2, ConstantFacts
  <2>3. scratch \in [0 .. ScratchSlots - 1 -> 0 .. Top]
    BY <1>3 DEF Types, Data
  <2>4. \A j \in 1 .. p : c + j - 1 # c + p /\ c + j - 1 \in 0 .. ScratchSlots - 1
    BY <1>7, ConstantFacts
  <2>5. QED
    BY <1>1, <1>7, <2>1, <2>2, <2>3, <2>4
<1>9. /\ wants' \in Seq(Strings) /\ Len(wants') = p + 1 /\ wants'[p + 1] = top.want
      /\ \A j \in 1 .. p : wants'[j] = wants[j]
  <2>1. wants \in Seq(Strings) /\ Len(wants) = p /\ top.want \in Strings
    BY <1>3, <1>6, <1>7 DEF Types, Data, Ops
  <2>2. QED
    BY <1>1, <2>1
<1>10. Room' /\ todo' \in 0 .. MaxSteps
  <2>1. PICK s \in Int : s = sp
    BY <1>3, ConstantFacts DEF Types, Numbers
  <2>2. p + c \in Int /\ p + c + 1 \in Int /\ p + c = cbase + pieces
        /\ cbase' + pieces' = p + c + 1 /\ sp' = s
    BY <1>1, <1>7, <2>1
  <2>3. s + 2 + MaxPieces - 2 * (p + c + 1) >= sp - 2 * (p + c)
    <3>1. PICK mp \in Nat : mp = MaxPieces
      BY ConstantFacts
    <3>2. s + 2 + mp - 2 * (p + c + 1) >= s - 2 * (p + c)
      OBVIOUS
    <3>3. QED
      BY <2>1, <3>1, <3>2
  <2>4. QED
    BY <1>1, <2>2, <2>3, RoomSpent
<1>11. Types'
  <2>1. Kinds'
    BY <1>1, <1>3 DEF Types, Kinds
  <2>2. pieces' \in 0 .. MaxPieces
    BY <1>1, <1>7, ConstantFacts
  <2>3. Numbers'
    BY <1>1, <1>3, <1>10, <2>2 DEF Types, Numbers
  <2>4. Data'
    BY <1>1, <1>3, <1>5, <1>7, <1>8, <1>9 DEF Types, Data
  <2>5. QED
    BY <2>1, <2>3, <2>4 DEF Types
<1>12. Clean'
  BY <1>1, <1>3 DEF IInv, Clean, Unused
<1>13. Levels'
  <2>1. \A k \in 1 .. Depth : Nested(k)'
    BY <1>1, <1>3 DEF IInv, Levels, Nested
  <2>2. Outermost'
    BY <1>1 DEF IInv, Levels, Outermost
  <2>3. QED
    BY <1>3, <2>1, <2>2 DEF Levels
<1>14. Pieces'
  <2>1. ASSUME NEW j \in 1 .. p + 1 PROVE Alive(scratch[cbase + j - 1], wants[j])'
    <3>1. CASE j = p + 1
      <4>1. scratch'[cbase' + j - 1] = top.addr /\ wants'[j] = top.want
        BY <1>1, <1>7, <1>8, <1>9, <3>1
      <4>2. PICK a, v : a = top.addr /\ v = top.want
        OBVIOUS
      <4>3. Alive(a, v)'
        BY <1>1, <1>6, <4>2 DEF Alive
      <4>4. QED
        BY <4>1, <4>2, <4>3
    <3>2. CASE j # p + 1
      <4>1. j \in 1 .. p /\ j \in 1 .. pieces
        BY <1>7, <3>2
      <4>2. PICK a, v : a = scratch[c + j - 1] /\ v = wants[j] /\ Alive(a, v)
        BY <1>7, <4>1 DEF IInv, Pieces
      <4>3. Alive(a, v)'
        BY <1>1, <4>2 DEF Alive
      <4>4. scratch'[cbase' + j - 1] = a /\ wants'[j] = v
        BY <1>1, <1>7, <1>8, <1>9, <4>1, <4>2
      <4>5. QED
        BY <4>3, <4>4
    <3>3. QED
      BY <3>1, <3>2
  <2>2. QED
    BY <1>1, <1>7, <2>1 DEF Pieces
<1>15. VarsKept' /\ ValuesRight'
  BY <1>1 DEF IInv, VarsKept, ValuesRight
<1>16. Stands(slot, start)'
  <2>1. Len(ops') - OpenOperands' = Len(ops) - OpenOperands /\ Len(ops') >= OpenOperands'
    BY <1>3, <1>4, <1>5
  <2>2. QED
    BY <1>1, <1>3, <2>1, StandsStay
<1>17. Operands(start)'
  <2>1. ASSUME NEW i \in 1 .. n
        PROVE  Alive(ops[i].addr, ops[i].want)'
               /\ (ops'[i].addr = CopyTemp /\ calls # << >> => i > start[Depth])
    <3>1. PICK b, v : b = ops[i].addr /\ v = ops[i].want /\ Alive(b, v)
          /\ (b = CopyTemp /\ calls # << >> => i > start[Depth])
      BY <1>3, <1>4 DEF Operands
    <3>2. Alive(b, v)'
      BY <1>1, <3>1 DEF Alive
    <3>3. ops'[i].addr = b /\ ops'[i].want = v
      BY <1>5, <3>1
    <3>4. QED
      BY <3>1, <3>2, <3>3
  <2>2. QED
    BY <1>1, <1>3, <1>5, <2>1 DEF Operands
<1>18. Saved(slot, start)'
  <2>1. Above(mem, mem', sp)
    BY <1>1 DEF Above
  <2>2. \A i \in 1 .. Len(ops) - OpenOperands : ops'[i] = ops[i]
    BY <1>3, <1>4, <1>5
  <2>3. QED
    BY <1>1, <1>2, <2>1, <2>2, SavedStays
<1>19. QED
  BY <1>10, <1>11, <1>12, <1>13, <1>14, <1>15, <1>16, <1>17, <1>18 DEF IInv, Placed

(* The argument is counted; d is 1 when it took a temp.                     *)
Counted(c, e, d) ==
  e = [ret |-> c.ret, saved |-> c.saved, base |-> c.base, saveMark |-> c.saveMark,
       retMark |-> c.retMark, temps |-> c.temps + d, args |-> c.args + 1, wants |-> c.wants]

(* An argument ends: its operand at a is w, in a temp when d is 1.          *)
LEMMA ArgEnds ==
  ASSUME IInv, expect = "operator", expect' = "args", calls # << >>,
         NEW d \in {0, 1}, sp' = sp - 2 * d, pieces = 0 => d = 0,
         NEW a \in Nat, NEW w \in Strings, ops' = Append(Pop, [addr |-> a, want |-> w]), Alive(a, w)',
         Above(mem, mem', sp), Get(mem', CopyTemp) = Get(mem, CopyTemp), DOMAIN mem' = 0 .. Top + 1,
         NEW e \in Calls, Counted(call, e, d), calls' = [calls EXCEPT ![Depth] = e],
         pieces' = 0, wants' = << >>,
         UNCHANGED <<used, held, arena, cbase, form, todo, temp, scratch, outcome>>
  PROVE  IInv'
<1>1. PICK slot, start : Placed(slot, start)
  BY DEF IInv
<1>2. Types /\ OpenOperands = 1 /\ OpenOperands' = 0 /\ Stands(slot, start) /\ Operands(start)
  BY <1>1 DEF OpenOperands, IInv, Placed
<1>3. PICK n \in Nat : n + 1 = Len(ops) /\ ops \in Seq(Ops)
  <2>1. Len(ops) \in Nat /\ ops \in Seq(Ops) /\ Len(ops) >= 1
    BY <1>2 DEF Types, Data, Stands
  <2>2. QED
    BY SMTT(30), <2>1
<1>4. /\ ops' \in Seq(Ops) /\ Len(ops') = n + 1
      /\ ops'[n + 1] = [addr |-> a, want |-> w] /\ \A i \in 1 .. n : ops'[i] = ops[i]
  <2>1. Pop = SubSeq(ops, 1, n)
    BY <1>3 DEF Pop
  <2>2. Pop \in Seq(Ops) /\ Len(Pop) = n /\ \A i \in 1 .. n : Pop[i] = ops[i]
    BY <1>3, <2>1
  <2>3. [addr |-> a, want |-> w] \in Ops
    BY DEF Ops
  <2>4. QED
    BY <2>2, <2>3
<1>5. Depth \in Nat /\ Depth \in 1 .. Depth /\ Depth >= 1 /\ calls \in Seq(Calls)
  BY <1>2 DEF Depth, Types, Data
<1>6. /\ Depth' = Depth /\ calls' \in Seq(Calls) /\ calls' # << >> /\ calls'[Depth] = e
      /\ \A k \in 1 .. Depth : k # Depth => calls'[k] = calls[k]
  BY <1>5 DEF Depth
<1>7. PICK c \in Calls : c = calls[Depth] /\ Counted(c, e, d)
  BY <1>5 DEF call, Depth
<1>8. /\ e.ret = c.ret /\ e.saved = c.saved /\ e.base = c.base /\ e.saveMark = c.saveMark
      /\ e.retMark = c.retMark /\ e.temps = c.temps + d /\ e.args = c.args + 1
      /\ e.wants = c.wants
  BY <1>7 DEF Counted
<1>9. \A k \in 1 .. Depth :
        /\ calls'[k] \in Calls /\ Alike(calls[k], calls'[k])
        /\ calls'[k].base = calls[k].base /\ calls'[k].saveMark = calls[k].saveMark
        /\ calls'[k].retMark = calls[k].retMark
  BY <1>5, <1>6, <1>7, <1>8 DEF Alike
<1>10. PICK s \in Int, p \in Int, b \in Int, u \in Nat :
          /\ s = sp /\ p = pieces /\ b = cbase /\ u = todo * (StrSize + MaxPieces)
          /\ p >= d /\ b >= 0 /\ s <= Base /\ s > u + 2 * (b + p)
  <2>1. sp \in Int /\ sp <= Base /\ pieces \in Nat /\ cbase \in Nat /\ todo \in Nat /\ MaxPieces \in Nat
    BY <1>2, ConstantFacts DEF Types, Numbers
  <2>2. todo * (StrSize + MaxPieces) \in Nat
    BY <2>1 DEF StrSize
  <2>3. pieces >= d
    BY <2>1
  <2>4. sp > todo * (StrSize + MaxPieces) + 2 * (cbase + pieces)
    BY DEF IInv, Room, StrSize
  <2>5. QED
    BY <2>1, <2>2, <2>3, <2>4
<1>11. sp' \in Nat /\ sp' <= sp /\ sp' >= 1 /\ sp \in Nat /\ sp' <= Base
       /\ sp' > u + 2 * (b + 0) /\ Base \in Nat
  <2>1. PICK q \in Int, bt \in Nat : q = s - 2 * d /\ q = sp' /\ bt = Base
    BY <1>10, ConstantFacts
  <2>2. q <= s /\ q >= 1 /\ q <= bt /\ q > u + 2 * (b + 0)
    BY <1>10, <2>1
  <2>3. QED
    BY <1>10, <2>1, <2>2
<1>12. Types'
  <2>1. Kinds'
    BY <1>2 DEF Types, Kinds
  <2>2. pieces' \in 0 .. MaxPieces /\ sp' \in 1 .. Base
    BY <1>11, ConstantFacts
  <2>3. Numbers'
    BY <1>2, <2>2 DEF Types, Numbers
  <2>4. wants' \in Seq(Strings) /\ Len(wants') = pieces'
    OBVIOUS
  <2>5. Data'
    BY <1>2, <1>4, <1>6, <2>4 DEF Types, Data
  <2>6. QED
    BY <2>1, <2>3, <2>5 DEF Types
<1>13. Room'
  BY <1>10, <1>11 DEF Room, StrSize
<1>14. Clean'
  <2>1. ASSUME ~used
        PROVE  /\ arena = 0 /\ Depth = 1 /\ ~calls'[1].ret /\ sp' + StrSize * calls'[1].temps = Base
    <3>1. arena = 0 /\ Depth = 1 /\ ~calls[1].ret /\ sp + StrSize * calls[1].temps = Base
      BY <2>1 DEF IInv, Clean, Unused
    <3>2. calls'[1] = e /\ c = calls[1]
      BY <1>6, <1>7, <3>1
    <3>3. c.temps \in Nat /\ ~e.ret
      BY <1>8, <3>1, <3>2 DEF Calls
    <3>4. sp' + 2 * e.temps = s + 2 * c.temps
      BY SMTT(30), <1>8, <1>10, <3>3
    <3>5. QED
      BY <1>10, <3>1, <3>2, <3>3, <3>4 DEF StrSize
  <2>2. Unused'
    BY <1>6, <2>1 DEF Unused
  <2>3. QED
    BY <1>6, <2>2 DEF IInv, Clean
<1>15. Levels'
  <2>1. ASSUME NEW k \in 1 .. Depth PROVE Nested(k)'
    <3>1. Nested(k)
      BY DEF IInv, Levels
    <3>2. k # Depth => k + 1 \in 1 .. Depth
      BY <1>5
    <3>3. calls'[k].base + calls'[k].saved = IF k = Depth' THEN cbase' ELSE calls'[k + 1].base
      BY <1>6, <1>9, <3>1, <3>2 DEF Nested, Alike
    <3>4. QED
      BY SMTT(30), <1>6, <1>9, <3>1, <3>3 DEF Nested, Alike
  <2>2. Outermost'
    <3>1. 1 \in 1 .. Depth
      BY <1>5
    <3>2. Outermost
      BY DEF IInv, Levels
    <3>3. QED
      BY <1>6, <1>9, <3>1, <3>2 DEF Outermost, Alike
  <2>3. QED
    BY <1>6, <2>1, <2>2 DEF Levels
<1>16. Pieces' /\ ValuesRight'
  BY DEF IInv, Pieces, ValuesRight
<1>17. VarsKept'
  BY <1>10, <1>11, AboveFrom, VarsStay DEF IInv
<1>18. Stands(slot, start)'
  <2>1. ASSUME NEW k \in 1 .. Depth PROVE StandsAt(k, slot, start)'
    <3>1. StandsAt(k, slot, start) /\ slot[k] \in Int /\ start[k] \in Nat
      BY SMTT(30), <1>2 DEF Stands
    <3>2. CASE k = Depth
      <4>1. slot[k] + c.retMark = sp + arena + 2 * c.temps /\ slot[k] + 2 + c.saved <= Base
            /\ (c.ret => slot[k] >= sp) /\ start[k] + c.args = Len(ops) - 1
            /\ (~c.ret => start[k] = 0)
        BY <1>2, <1>7, <3>1, <3>2 DEF StandsAt, StrSize
      <4>2. c.temps \in Nat /\ c.args \in Nat /\ arena \in Nat /\ c.retMark \in Nat
        BY <1>2 DEF Calls, Types, Numbers
      <4>3. slot[k] + e.retMark = sp' + arena + 2 * e.temps
        <5>1. PICK x \in Int, y \in Int : x = slot[k] /\ y = c.retMark
          BY <3>1, <4>2
        <5>2. PICK ct \in Int, ar \in Int : ct = c.temps /\ ar = arena
          BY <4>2
        <5>3. x + y = s + ar + 2 * ct
          BY <1>10, <4>1, <5>1, <5>2
        <5>4. sp' = s - 2 * d /\ e.temps = ct + d /\ e.retMark = y
          BY <1>8, <1>10, <5>1, <5>2
        <5>5. x + y = (s - 2 * d) + ar + 2 * (ct + d)
          BY <5>3
        <5>6. QED
          BY <5>1, <5>2, <5>4, <5>5
      <4>4. slot[k] + 2 + e.saved <= Base /\ (e.ret => slot[k] >= sp')
        BY <1>8, <1>11, <3>1, <4>1
      <4>a. PICK x \in Int : x = start[k]
        BY <3>1
      <4>b. x + c.args = n /\ e.args = c.args + 1 /\ Len(ops') = n + 1
        <5>1. Len(ops) - 1 = n /\ Len(ops') = n + 1
          BY <1>3, <1>4
        <5>2. QED
          BY <1>8, <4>1, <4>a, <5>1
      <4>5. start[k] + e.args = Len(ops') - 0
        BY SMTT(30), <4>2, <4>a, <4>b
      <4>c. ~e.ret => start[k] = 0
        BY <1>8, <4>1
      <4>6. QED
        BY <1>2, <1>6, <3>2, <4>3, <4>4, <4>5, <4>c DEF StandsAt, StrSize
    <3>3. CASE k # Depth
      <4>1. k + 1 \in 1 .. Depth /\ calls'[k] = calls[k] /\ calls'[k + 1].retMark = calls[k + 1].retMark
        BY <1>5, <1>6, <1>9, <3>3
      <4>2. calls[k].ret => slot[k] >= sp'
        BY <1>11, <3>1 DEF StandsAt
      <4>3. QED
        BY <1>6, <3>1, <3>3, <4>1, <4>2 DEF StandsAt
    <3>4. QED
      BY <3>2, <3>3
  <2>2. \A j, k \in 1 .. Depth :
          j < k => /\ start[j] <= start[k]
                   /\ calls'[j].ret => slot[j] >= slot[k] + StrSize + calls'[k].saved
    BY <1>2, <1>9 DEF Stands, Alike
  <2>3. Len(ops') >= OpenOperands'
    BY <1>2, <1>4
  <2>4. QED
    BY <1>2, <1>6, <2>1, <2>2, <2>3 DEF Stands
<1>19. Operands(start)'
  <2>1. ASSUME NEW i \in 1 .. n
        PROVE  Alive(ops[i].addr, ops[i].want)'
               /\ (ops'[i].addr = CopyTemp => i > start[Depth])
    <3>0. Alive(ops[i].addr, ops[i].want) /\ (ops[i].addr = CopyTemp => i > start[Depth])
      BY <1>2, <1>3 DEF Operands
    <3>1. PICK x, v : x = ops[i].addr /\ v = ops[i].want /\ Alive(x, v)
          /\ (x = CopyTemp => i > start[Depth])
      BY <3>0
    <3>2. Alive(x, v)'
      BY <1>11, <3>1, AliveStays
    <3>3. ops'[i].addr = x /\ ops'[i].want = v
      BY <1>4, <3>1
    <3>4. QED
      BY <3>1, <3>2, <3>3
  <2>2. Alive(ops[n + 1].addr, ops[n + 1].want)'
    BY <1>4
  <2>3. n + 1 > start[Depth]
    BY <1>2, <1>3, <1>5, StartsBelow
  <2>4. QED
    BY <1>4, <1>6, <2>1, <2>2, <2>3 DEF Operands
<1>20. Saved(slot, start)'
  <2>1. \A i \in 1 .. Len(ops) - OpenOperands : ops'[i] = ops[i]
    BY <1>2, <1>3, <1>4
  <2>2. QED
    BY <1>1, <1>6, <1>9, <2>1, SavedAlike
<1>21. QED
  BY <1>12, <1>13, <1>14, <1>15, <1>16, <1>17, <1>18, <1>19, <1>20 DEF IInv, Placed

(* A record with some fields changed, in full.                              *)
LEMMA CountedIs ==
  ASSUME NEW c \in Calls, NEW e
  PROVE  /\ e = [c EXCEPT !.args = c.args + 1] => e \in Calls /\ Counted(c, e, 0)
         /\ e = [[c EXCEPT !.args = c.args + 1] EXCEPT !.temps = c.temps + 1]
              => e \in Calls /\ Counted(c, e, 1)
<1>1. c.temps \in Nat /\ c.args \in Nat /\ c.temps + 0 = c.temps
  BY DEF Calls
<1>2. ASSUME e = [c EXCEPT !.args = c.args + 1] PROVE e \in Calls /\ Counted(c, e, 0)
  BY <1>1, <1>2 DEF Calls, Counted
<1>3. ASSUME e = [[c EXCEPT !.args = c.args + 1] EXCEPT !.temps = c.temps + 1]
      PROVE  e \in Calls /\ Counted(c, e, 1)
  <2>1. PICK f \in Calls : f = [c EXCEPT !.args = c.args + 1] /\ Counted(c, f, 0)
    <3>1. PICK f : f = [c EXCEPT !.args = c.args + 1]
      OBVIOUS
    <3>2. f \in Calls /\ Counted(c, f, 0)
      BY <1>1, <3>1 DEF Calls, Counted
    <3>3. QED
      BY <3>1, <3>2
  <2>2. PICK t \in Nat : t = c.temps + 1
    BY <1>1
  <2>3. e = [f EXCEPT !.temps = t]
    BY <1>3, <2>1, <2>2
  <2>4. e \in Calls
    BY <2>3 DEF Calls
  <2>5. e = [ret |-> f.ret, saved |-> f.saved, base |-> f.base, saveMark |-> f.saveMark,
             retMark |-> f.retMark, temps |-> t, args |-> f.args, wants |-> f.wants]
    BY <2>3 DEF Calls
  <2>6. /\ f.ret = c.ret /\ f.saved = c.saved /\ f.base = c.base /\ f.saveMark = c.saveMark
        /\ f.retMark = c.retMark /\ f.args = c.args + 1 /\ f.wants = c.wants
    BY <2>1 DEF Counted
  <2>7. QED
    BY <2>2, <2>4, <2>5, <2>6 DEF Counted
<1>4. QED
  BY <1>2, <1>3

(* An argument ends, joined in a temp or as it is.                          *)
LEMMA EndArgInv ==
  ASSUME IInv, EndArg
  PROVE  IInv'
<1>1. /\ expect = "operator" /\ calls # << >> /\ expect' = "args" /\ pieces' = 0 /\ wants' = << >>
      /\ UNCHANGED <<used, held, arena, cbase, form, todo, temp, scratch, outcome>>
  BY DEF EndArg
<1>2. PICK slot, start : Placed(slot, start)
  BY DEF IInv
<1>3. Types /\ Depth \in 1 .. Depth /\ calls \in Seq(Calls) /\ calls[Depth] \in Calls
      /\ call = calls[Depth] /\ Len(ops) \in Nat /\ Len(ops) >= 1 /\ ops \in Seq(Ops)
  <2>1. Types /\ Stands(slot, start)
    BY <1>2 DEF IInv, Placed
  <2>2. Len(ops) >= 1
    BY <1>1, <2>1 DEF Stands, OpenOperands
  <2>3. QED
    BY <1>1, <2>1, <2>2 DEF Types, Data, Depth, call
<1>4. /\ top \in Ops /\ Alive(top.addr, top.want) /\ Joined = JoinedWant /\ JoinedWant \in Strings
  BY <1>2, <1>3, JoinedRight DEF IInv, Placed
<1>5. Memory(mem) /\ Top \in Nat /\ CopyTemp = Top /\ sp \in Int /\ sp <= Top
  BY SMTT(30), <1>3, ConstantFacts DEF Types, Data, Numbers, Memory
<1>6. PICK c \in Calls : c = calls[Depth]
  BY <1>3
<1>7. CASE pieces = 0
  <2>1. /\ calls' = [calls EXCEPT ![Len(calls)].args = @ + 1] /\ sp' = sp /\ mem' = mem /\ ops' = ops
    BY <1>7 DEF EndArg
  <2>2. PICK e : e = [c EXCEPT !.args = c.args + 1]
    OBVIOUS
  <2>3. calls' = [calls EXCEPT ![Depth] = e]
    BY <1>6, <2>1, <2>2 DEF Depth
  <2>4. e \in Calls /\ Counted(call, e, 0)
    BY ZenonT(60), <1>3, <1>6, <2>2, CountedIs
  <2>5. sp' = sp - 2 * 0
    BY <1>5, <2>1
  <2>6. PICK a \in Nat, w \in Strings : a = top.addr /\ w = top.want
    BY <1>4 DEF Ops
  <2>7. ops' = Append(Pop, [addr |-> a, want |-> w])
    <3>1. top = [addr |-> a, want |-> w]
      BY <1>4, <2>6 DEF Ops
    <3>2. ops = Append(SubSeq(ops, 1, Len(ops) - 1), ops[Len(ops)])
      <4>1. PICK n \in Nat : n + 1 = Len(ops) /\ n = Len(ops) - 1
        BY <1>3
      <4>2. SubSeq(ops, 1, n) \in Seq(Ops) /\ Len(SubSeq(ops, 1, n)) = n
            /\ \A i \in 1 .. n : SubSeq(ops, 1, n)[i] = ops[i]
        BY <1>3, <4>1
      <4>3. ops[n + 1] \in Ops
        BY <1>3, <4>1
      <4>4. PICK o : o = Append(SubSeq(ops, 1, n), ops[n + 1])
        OBVIOUS
      <4>5. o \in Seq(Ops) /\ Len(o) = n + 1 /\ \A i \in 1 .. n + 1 : o[i] = ops[i]
        BY <4>2, <4>3, <4>4
      <4>6. o = ops
        BY <1>3, <4>1, <4>5, SeqEqual
      <4>7. QED
        BY <4>1, <4>4, <4>6
    <3>3. QED
      BY <2>1, <3>1, <3>2 DEF Pop, top
  <2>8. Alive(a, w)'
    BY <1>1, <1>4, <2>1, <2>6 DEF Alive
  <2>9. Above(mem, mem', sp) /\ Get(mem', CopyTemp) = Get(mem, CopyTemp) /\ DOMAIN mem' = 0 .. Top + 1
    BY <1>5, <2>1 DEF Above, Memory
  <2>10. 0 \in {0, 1}
    OBVIOUS
  <2>11. QED
    BY <1>1, <2>3, <2>4, <2>5, <2>7, <2>8, <2>9, <2>10, ArgEnds
<1>8. CASE pieces # 0
  <2>1. /\ sp' = sp - StrSize /\ mem' = Put(mem, sp', Joined)
        /\ ops' = Append(Pop, [addr |-> sp', want |-> JoinedWant])
        /\ calls' = [calls EXCEPT ![Len(calls)].args = @ + 1, ![Len(calls)].temps = @ + 1]
    BY <1>8 DEF EndArg
  <2>2. PICK e : e = [[c EXCEPT !.args = c.args + 1] EXCEPT !.temps = c.temps + 1]
    OBVIOUS
  <2>3. calls' = [calls EXCEPT ![Depth] = e]
    <3>1. PICK f : f = [c EXCEPT !.args = c.args + 1]
      OBVIOUS
    <3>2. f.temps = c.temps
      BY <1>6, <3>1 DEF Calls
    <3>3. calls' = [[calls EXCEPT ![Depth] = f] EXCEPT ![Depth] = [f EXCEPT !.temps = f.temps + 1]]
      BY <1>3, <1>6, <2>1, <3>1 DEF Depth
    <3>4. QED
      BY <1>3, <2>2, <3>1, <3>2, <3>3
  <2>4. e \in Calls /\ Counted(call, e, 1)
    BY ZenonT(60), <1>3, <1>6, <2>2, CountedIs
  <2>5. sp' = sp - 2 * 1 /\ sp' \in Nat /\ sp' >= 1 /\ sp' + 1 < sp /\ sp \in Nat
    <3>1. todo \in Nat /\ MaxPieces \in Nat /\ cbase \in Nat /\ pieces \in Nat /\ pieces >= 1
      BY <1>3, <1>8, ConstantFacts DEF Types, Numbers
    <3>2. PICK u \in Nat : u = todo * (StrSize + MaxPieces)
      BY <3>1 DEF StrSize
    <3>3. sp > u + 2 * (cbase + pieces)
      BY <3>2 DEF IInv, Room, StrSize
    <3>4. sp > 2
      BY <1>5, <3>1, <3>2, <3>3
    <3>5. QED
      BY <1>5, <2>1, <3>4 DEF StrSize
  <2>6. PICK a \in Nat : a = sp' /\ a \in 0 .. Top /\ a + 1 < sp /\ a >= 1
                         /\ a + 1 < Top /\ a \in a .. Top - 2 /\ Top # a /\ Top # a + 1
    BY <1>5, <2>5
  <2>7. /\ Memory(mem') /\ Get(mem', a) = JoinedWant
        /\ Get(mem', CopyTemp) = Get(mem, CopyTemp)
    <3>1. mem' = Put(mem, a, Joined)
      BY <2>1, <2>6
    <3>2. Memory(mem') /\ Get(mem', a) = Joined
      BY <1>5, <2>6, <3>1, PutGet
    <3>3. Top \in Nat /\ Top > a + 1
      BY <1>5, <2>6
    <3>4. Get(mem', Top) = Get(mem, Top)
      BY <1>5, <2>6, <3>1, <3>3, PutGet
    <3>5. QED
      BY <1>4, <1>5, <3>2, <3>4
  <2>8. Above(mem, mem', sp)
    BY <1>5, <2>1, <2>5, <2>6, PutAbove
  <2>9. ops' = Append(Pop, [addr |-> a, want |-> JoinedWant])
    BY <2>1, <2>6
  <2>v. PICK v \in Strings : v = JoinedWant
    BY <1>4
  <2>10. Alive(a, v)'
    <3>1. a \in sp' .. Top - 2
      BY <2>6
    <3>2. QED
      BY <2>7, <2>v, <3>1 DEF Alive
  <2>11. 1 \in {0, 1} /\ DOMAIN mem' = 0 .. Top + 1 /\ sp' = sp - 2 * 1
    BY <2>5, <2>7 DEF Memory
  <2>12. QED
    <3>1. PICK d \in {0, 1} : d = 1
      OBVIOUS
    <3>3. /\ ops' = Append(Pop, [addr |-> a, want |-> v]) /\ Alive(a, v)'
          /\ sp' = sp - 2 * d /\ Counted(call, e, d) /\ (pieces = 0 => d = 0) /\ e \in Calls
      BY <1>8, <2>4, <2>9, <2>10, <2>11, <2>v, <3>1
    <3>4. QED
      BY <1>1, <2>3, <2>7, <2>8, <2>11, <3>1, <3>3, ArgEnds
<1>9. QED
  BY <1>7, <1>8

(* A condition with a call in it, always evaluated, is an argument.         *)
LEMMA ConditionArgInv ==
  ASSUME IInv, Constructs = {}, NEW runs \in BOOLEAN, ConditionArg(runs)
  PROVE  IInv'
<1>1. /\ expect = "operand" /\ expect' = "args" /\ Spend /\ calls # << >> /\ pieces = 0
      /\ ~temp /\ used' = TRUE /\ arena' = arena + StrSize /\ sp' = sp - StrSize
      /\ mem' = Put(Trashed(mem, sp'), sp', <<FnG>>) /\ scratch' = NoSlots
      /\ UNCHANGED <<held, pieces, cbase, calls, form, temp, ops, wants, outcome>>
  BY DEF ConditionArg
<1>2. PICK slot, start : Placed(slot, start)
  BY DEF IInv
<1>3. Types /\ Depth' = Depth /\ OpenOperands = 0 /\ OpenOperands' = 0
      /\ Stands(slot, start) /\ Operands(start)
  BY <1>1, <1>2 DEF Depth, OpenOperands, IInv, Placed
<1>4. PICK s \in Int, p \in Int, n \in Int, mp \in Nat, bt \in Nat :
        /\ s = sp /\ p = s - 2 /\ n = cbase + pieces /\ mp = MaxPieces /\ bt = Base
        /\ n >= 0 /\ s <= bt /\ arena \in Nat
  BY <1>3, ConstantFacts DEF Types, Numbers
<1>5. sp' = p /\ cbase' + pieces' = n
  BY <1>1, <1>4 DEF StrSize
<1>6. Room' /\ todo' \in 0 .. MaxSteps
  <2>1. p + 2 + MaxPieces - 2 * n >= sp - 2 * n
    BY <1>4
  <2>2. QED
    BY <1>1, <1>4, <1>5, <2>1, RoomSpent
<1>7. p >= 1 /\ p <= bt /\ p + 1 < s /\ p <= s
  <2>1. todo' \in Nat
    BY <1>6, ConstantFacts
  <2>2. PICK r \in Nat, t \in Nat : r = StrSize + MaxPieces /\ t = todo'
    BY <1>4, <2>1 DEF StrSize
  <2>3. PICK u \in Nat : u = t * r
    BY <2>2
  <2>4. p > u + 2 * n
    BY <1>5, <1>6, <2>2, <2>3 DEF Room, StrSize
  <2>5. QED
    BY <1>4, <2>4
<1>8. Memory(mem) /\ Top \in Nat /\ CopyTemp = Top /\ s <= Top /\ bt <= Top
  BY SMTT(30), <1>3, <1>4, ConstantFacts DEF Types, Data, Memory
<1>9. Memory(mem') /\ Above(mem, mem', sp)
  <2>1. PICK m : m = Trashed(mem, p)
    OBVIOUS
  <2>2. Memory(m) /\ Above(mem, m, p)
    BY <1>7, <1>8, <2>1, TrashedAbove
  <2>3. p \in 0 .. Top /\ mem' = Put(m, p, <<FnG>>) /\ s \in Nat /\ s \in p .. Top
    BY <1>1, <1>5, <1>7, <1>8, <2>1
  <2>4. Memory(mem') /\ Above(m, mem', s)
    BY <1>7, <2>2, <2>3, PutGet, PutAbove
  <2>5. Above(mem, mem', s)
    BY <2>2, <2>3, <2>4, AboveBoth
  <2>6. QED
    BY <1>4, <2>4, <2>5
<1>10. Types'
  <2>1. Kinds'
    BY <1>1, <1>3 DEF Types, Kinds
  <2>2. arena' \in Nat /\ sp' \in 1 .. Base
    BY <1>1, <1>4, <1>5, <1>7 DEF StrSize
  <2>3. Numbers'
    BY <1>1, <1>3, <1>6, <2>2 DEF Types, Numbers
  <2>4. scratch' \in [0 .. ScratchSlots - 1 -> 0 .. Top]
    BY <1>1, <1>8 DEF NoSlots, NoAddr
  <2>5. Data'
    BY <1>1, <1>3, <1>9, <2>4 DEF Types, Data, Memory
  <2>6. QED
    BY <2>1, <2>3, <2>5 DEF Types
<1>11. Clean'
  BY <1>1 DEF IInv, Clean, Unused
<1>12. Levels'
  <2>1. ASSUME NEW k \in 1 .. Depth PROVE Nested(k)'
    <3>1. Nested(k) /\ calls[k] \in Calls
      BY <1>3 DEF IInv, Levels, Types, Data, Depth
    <3>2. PICK x \in Int, y \in Int : x = calls[k].retMark /\ y = IF calls[k].ret THEN 0 ELSE 2
      BY <3>1 DEF Calls
    <3>3. x <= arena + y
      BY <3>1, <3>2 DEF Nested, StrSize
    <3>4. x <= arena' + y
      BY <1>1, <1>4, <3>2, <3>3 DEF StrSize
    <3>5. QED
      BY <1>1, <1>3, <3>1, <3>2, <3>4 DEF Nested, StrSize
  <2>2. Outermost'
    BY <1>1 DEF IInv, Levels, Outermost
  <2>3. QED
    BY <1>3, <2>1, <2>2 DEF Levels
<1>13. Pieces' /\ ValuesRight'
  BY <1>1 DEF IInv, Pieces, ValuesRight
<1>14. VarsKept'
  BY <1>4, <1>9, AboveFrom, VarsStay DEF IInv
<1>15. Stands(slot, start)'
  <2>1. ASSUME NEW k \in 1 .. Depth PROVE StandsAt(k, slot, start)'
    <3>1. StandsAt(k, slot, start) /\ slot[k] \in Int
      BY <1>3 DEF Stands
    <3>2. sp' + arena' = sp + arena
      BY <1>1, <1>4 DEF StrSize
    <3>3. calls[k].ret => slot[k] >= sp'
      BY <1>4, <1>5, <1>7, <3>1 DEF StandsAt
    <3>4. QED
      BY <1>1, <1>3, <3>1, <3>2, <3>3 DEF StandsAt
  <2>2. QED
    BY <1>1, <1>3, <2>1 DEF Stands
<1>16. Operands(start)'
  <2>1. ASSUME NEW i \in 1 .. Len(ops)
        PROVE  Alive(ops[i].addr, ops[i].want)'
               /\ (ops[i].addr = CopyTemp => i > start[Depth])
    <3>0. Alive(ops[i].addr, ops[i].want) /\ (ops[i].addr = CopyTemp => i > start[Depth])
      BY <1>1, <1>3 DEF Operands
    <3>1. PICK x, v : x = ops[i].addr /\ v = ops[i].want /\ Alive(x, v)
      BY <3>0
    <3>2. sp \in Nat /\ sp' \in Nat /\ sp' <= sp
      BY <1>4, <1>5, <1>7
    <3>3. Alive(x, v)'
      BY <1>1, <1>9, <3>1, <3>2, AliveStays
    <3>4. QED
      BY <1>1, <3>0, <3>1, <3>3
  <2>2. QED
    BY <1>1, <1>3, <2>1 DEF Operands
<1>17. Saved(slot, start)'
  BY <1>1, <1>2, <1>9, SavedStays
<1>18. QED
  BY <1>6, <1>10, <1>11, <1>12, <1>13, <1>14, <1>15, <1>16, <1>17 DEF IInv, Placed

(* What a pending call holds stays while the step writes below it.          *)
LEMMA HeldStays ==
  ASSUME IInv, NEW slot, NEW start, Placed(slot, start), NEW k \in 1 .. Depth, calls[k].ret,
         NEW d, d = calls[k],
         NEW t \in Int, t <= slot[k] + StrSize, Above(mem, mem', t),
         \A i \in 1 .. start[k] : ops'[i] = ops[i]
  PROVE  Holds(d, slot[k], start[k])'
<1>1. Stands(slot, start) /\ Types
  BY DEF Placed, IInv
<1>2. calls[k] \in Calls /\ start[k] \in Nat /\ slot[k] \in Int
  BY <1>1, StartsBelow
<1>3. slot[k] >= sp /\ slot[k] + StrSize + calls[k].saved <= Base
  BY <1>1 DEF Stands, StandsAt
<1>4. sp \in Nat
  BY <1>1, ConstantFacts DEF Types, Numbers
<1>5. slot[k] \in Nat /\ slot[k] + StrSize \in Int
  BY <1>2, <1>3, <1>4 DEF StrSize
<1>6. Above(mem, mem', slot[k] + StrSize)
  BY <1>5, AboveFrom
<1>7. Holds(calls[k], slot[k], start[k])
  BY DEF Placed, Saved
<1>8. PICK c \in Calls, s \in Nat, n \in Nat : c = calls[k] /\ s = slot[k] /\ n = start[k]
  BY <1>2, <1>5
<1>9. d \in Calls /\ d.saved = c.saved /\ d.wants = c.wants
  BY <1>8
<1>10. Holds(d, s, n)'
  BY <1>3, <1>6, <1>7, <1>8, <1>9, HoldsStays
<1>11. QED
  BY <1>8, <1>10

(* A call begins: what is pending is saved, one buffer more stands lowest.  *)
LEMMA BeginCallInv ==
  ASSUME IInv, Constructs = {}, BeginCall
  PROVE  IInv'
<1>1. /\ expect = "operand" /\ expect' = "operand" /\ Spend /\ ~temp
      /\ cbase + pieces + LevelSlots <= ScratchSlots
      /\ sp' = sp - pieces - StrSize /\ used' = TRUE /\ arena' = arena + pieces + StrSize
      /\ calls' = Append(calls, NewCall(TRUE)) /\ cbase' = cbase + pieces
      /\ pieces' = 0 /\ wants' = << >>
      /\ UNCHANGED <<held, expect, form, temp, scratch, ops, outcome>>
  BY DEF BeginCall
<1>2. PICK slot, start : Placed(slot, start)
  BY DEF IInv
<1>3. Types /\ Stands(slot, start) /\ Operands(start) /\ OpenOperands = 0 /\ OpenOperands' = 0
  BY <1>1, <1>2 DEF OpenOperands, IInv, Placed
<1>4. PICK s \in Nat, p \in Nat, cb \in Nat, ar \in Nat, mp \in Nat, bt \in Nat, tp \in Nat,
          n \in Nat, o \in Nat :
        /\ s = sp /\ p = pieces /\ cb = cbase /\ ar = arena /\ mp = MaxPieces /\ bt = Base
        /\ tp = Top /\ n = Depth /\ o = Len(ops)
        /\ p <= mp /\ s <= bt /\ bt <= tp /\ cb \in 0 .. ScratchSlots - LevelSlots
  <2>1. PICK s \in Nat, p \in Nat, cb \in Nat, ar \in Nat :
          /\ s = sp /\ p = pieces /\ cb = cbase /\ ar = arena /\ s <= Base /\ p <= MaxPieces
    BY <1>3, ConstantFacts DEF Types, Numbers
  <2>2. PICK mp \in Nat, bt \in Nat, tp \in Nat : mp = MaxPieces /\ bt = Base /\ tp = Top
    BY ConstantFacts
  <2>3. PICK n \in Nat, o \in Nat : n = Depth /\ o = Len(ops)
    BY <1>3 DEF Types, Data, Depth
  <2>4. bt <= tp /\ s <= bt /\ p <= mp /\ cb \in 0 .. ScratchSlots - LevelSlots
    BY <1>3, <2>1, <2>2, ConstantFacts DEF Types, Numbers
  <2>5. QED
    BY <2>1, <2>2, <2>3, <2>4
<1>5. PICK c : c = [ret |-> TRUE, saved |-> p, base |-> cb, saveMark |-> ar + p,
                    retMark |-> ar + p + 2, temps |-> 0, args |-> 0, wants |-> wants]
  OBVIOUS
<1>c. c.ret = TRUE /\ c.wants = wants
  BY <1>5
<1>d. /\ c.saved = p /\ c.base = cb /\ c.saveMark = ar + p /\ c.retMark = ar + p + 2
      /\ c.temps = 0 /\ c.args = 0
  BY <1>5
<1>e. c \in Calls
  <2>1. p \in 0 .. MaxPieces /\ wants \in Seq(Strings)
    BY <1>3, <1>4 DEF Types, Data
  <2>2. QED
    BY <1>5, <2>1 DEF Calls
<1>6. /\ calls' \in Seq(Calls) /\ Depth' = n + 1 /\ calls'[n + 1] = c /\ calls' # << >>
      /\ \A k \in 1 .. n : calls'[k] = calls[k] /\ calls[k] \in Calls
  <2>1. calls \in Seq(Calls)
    BY <1>3 DEF Types, Data
  <2>2. calls' = Append(calls, c)
    BY <1>1, <1>4, <1>5 DEF NewCall, StrSize
  <2>3. Len(calls) = n /\ n \in Nat
    BY <1>4 DEF Depth
  <2>4. calls' \in Seq(Calls) /\ Len(calls') = n + 1 /\ calls'[n + 1] = c
        /\ \A k \in 1 .. n : calls'[k] = calls[k] /\ calls[k] \in Calls
    BY <1>e, <2>1, <2>2, <2>3
  <2>5. calls' # << >>
    BY <2>4
  <2>6. QED
    BY <2>4, <2>5 DEF Depth
<1>7. PICK z \in Int : sp' = z /\ z = s - p - 2 /\ z + 2 + p = s /\ z <= s
  BY <1>1, <1>4 DEF StrSize
<1>8. Room' /\ todo' \in 0 .. MaxSteps
  <2>1. PICK q \in Int : q = cb + p
    OBVIOUS
  <2>2. q = cbase + pieces /\ cbase' + pieces' = q
    BY <1>1, <1>4, <2>1
  <2>3. z + 2 + MaxPieces - 2 * q >= sp - 2 * q
    BY <1>4, <1>7
  <2>4. QED
    BY <1>1, <1>7, <2>2, <2>3, RoomSpent
<1>9. z >= 1
  <2>1. todo' \in Nat
    BY <1>8, ConstantFacts
  <2>2. PICK r \in Nat, t \in Nat : r = StrSize + MaxPieces /\ t = todo'
    BY <1>4, <2>1 DEF StrSize
  <2>3. PICK u \in Nat : u = t * r
    BY <2>2
  <2>4. cbase' + pieces' = cb + p
    BY <1>1, <1>4
  <2>5. z > u + 2 * (cb + p)
    BY <1>7, <1>8, <2>2, <2>3, <2>4 DEF Room, StrSize
  <2>6. QED
    BY <2>5
<1>10. /\ Memory(mem') /\ Above(mem, mem', s)
       /\ \A j \in 1 .. p : Word(mem', z + 2 + j - 1) = scratch[cb + j - 1]
  <2>1. Memory(mem)
    BY <1>3 DEF Types, Data, Memory
  <2>2. mem' = [a \in 0 .. tp + 1 |-> IF a \in s - p .. s - 1
                                       THEN <<"word", << >>, scratch[cb + a - (s - p)]>>
                                       ELSE mem[a]]
    BY <1>4, <2>1 DEF BeginCall, Memory
  <2>3. Memory(mem')
    BY <1>4, <2>2 DEF Memory
  <2>4. \A a \in 0 .. tp + 1 : a >= s => mem'[a] = mem[a]
    BY <2>2
  <2>5. ASSUME NEW a \in s .. Top - 1
        PROVE  (a <= Top - 2 => Get(mem', a) = Get(mem, a)) /\ Word(mem', a) = Word(mem, a)
    <3>1. a \in 0 .. tp + 1 /\ a + 1 \in 0 .. tp + 1 /\ a >= s /\ a + 1 >= s
      BY <1>4
    <3>2. mem'[a] = mem[a] /\ mem'[a + 1] = mem[a + 1]
      BY <2>4, <3>1
    <3>3. QED
      BY <2>1, <2>3, <3>2 DEF Get, Word, Memory
  <2>6. ASSUME NEW j \in 1 .. p PROVE Word(mem', z + 2 + j - 1) = scratch[cb + j - 1]
    <3>1. PICK a \in 0 .. tp + 1 : a = z + 2 + j - 1 /\ a \in s - p .. s - 1
      BY <1>4, <1>7, <1>9
    <3>2. cb + a - (s - p) = cb + j - 1
      BY <1>7, <3>1
    <3>3. mem'[a] = <<"word", << >>, scratch[cb + j - 1]>>
      BY <2>2, <3>1, <3>2
    <3>4. a \in DOMAIN mem'
      BY <2>2, <3>1
    <3>5. QED
      BY <3>1, <3>3, <3>4 DEF Word
  <2>7. QED
    BY <2>3, <2>5, <2>6 DEF Above
<1>11. Types'
  <2>1. Kinds'
    BY <1>1, <1>3 DEF Types, Kinds
  <2>2. arena' \in Nat /\ sp' \in 1 .. Base
    BY <1>1, <1>4, <1>7, <1>9 DEF StrSize
  <2>3. pieces' \in 0 .. MaxPieces /\ cbase' \in 0 .. ScratchSlots - LevelSlots
    BY <1>1, <1>4, ConstantFacts
  <2>4. Numbers'
    BY <1>1, <1>8, <2>2, <2>3 DEF Numbers
  <2>5. Data'
    <3>1. << >> \in Seq(Strings) /\ Len(<< >>) = 0
      OBVIOUS
    <3>2. wants' \in Seq(Strings) /\ Len(wants') = pieces'
      BY <1>1, <3>1
    <3>3. calls' \in Seq(Calls) /\ ops' \in Seq(Ops) /\ scratch' \in [0 .. ScratchSlots - 1 -> 0 .. Top]
      BY <1>1, <1>3, <1>6 DEF Types, Data
    <3>4. QED
      BY <1>10, <3>2, <3>3 DEF Data, Memory
  <2>6. QED
    BY <2>1, <2>4, <2>5 DEF Types
<1>12. Clean'
  BY <1>1 DEF Clean, Unused
<1>13. Levels'
  <2>1. ASSUME NEW k \in 1 .. n + 1 PROVE Nested(k)'
    <3>1. CASE k = n + 1
      <4>1. c.base + c.saved = cbase' /\ c.base \in 0 .. ScratchSlots - LevelSlots
        BY <1>1, <1>4, <1>d
      <4>2. Len(c.wants) = c.saved
        BY <1>3, <1>4, <1>c, <1>d DEF Types, Data
      <4>3. c.saveMark + StrSize = c.retMark /\ c.retMark <= arena' + 0
        BY <1>1, <1>4, <1>d DEF StrSize
      <4>4. QED
        BY <1>c, <1>6, <3>1, <4>1, <4>2, <4>3 DEF Nested
    <3>2. CASE k # n + 1
      <4>1. k \in 1 .. n /\ Nested(k)
        BY <1>3, <1>4, <3>2 DEF IInv, Levels
      <4>2. calls'[k] = calls[k] /\ calls[k] \in Calls /\ k # n + 1
        BY <1>6, <3>2, <4>1
      <4>3. PICK x \in Int, y \in Int : x = calls[k].retMark /\ y = IF calls[k].ret THEN 0 ELSE 2
        BY <4>2 DEF Calls
      <4>4. x <= arena + y
        BY <4>1, <4>3 DEF Nested, StrSize
      <4>5. x <= arena' + y
        BY <1>1, <1>4, <4>3, <4>4 DEF StrSize
      <4>6. calls[k].base + calls[k].saved = calls'[k + 1].base
        <5>1. CASE k = n
          BY <1>4, <1>d, <1>6, <4>1, <5>1 DEF Nested
        <5>2. CASE k # n
          <6>1. k + 1 \in 1 .. n
            BY <4>1, <5>2
          <6>2. QED
            BY <1>4, <1>6, <4>1, <5>2, <6>1 DEF Nested
        <5>3. QED
          BY <5>1, <5>2
      <4>7. QED
        BY <1>6, <4>1, <4>2, <4>3, <4>5, <4>6 DEF Nested, StrSize
    <3>3. QED
      BY <3>1, <3>2
  <2>2. Outermost'
    <3>0. Outermost
      BY DEF IInv, Levels
    <3>1. CASE n = 0
      <4>1. calls = << >> /\ calls'[1] = c
        <5>1. calls \in Seq(Calls) /\ Len(calls) = 0
          BY <1>3, <1>4, <3>1 DEF Depth, Types, Data
        <5>2. calls'[0 + 1] = c
          BY <1>6, <3>1
        <5>3. QED
          BY <5>1, <5>2
      <4>2. cb = 0 /\ form # "call" /\ (form = "test" => p = 0)
        BY <1>4, <3>0, <4>1 DEF Outermost
      <4>3. QED
        BY <1>1, <1>c, <1>d, <1>6, <4>1, <4>2 DEF Outermost
    <3>2. CASE n # 0
      <4>1. calls # << >> /\ 1 \in 1 .. n
        BY <1>4, <3>2 DEF Depth
      <4>2. calls'[1] = calls[1]
        BY <1>6, <4>1
      <4>3. QED
        BY <1>1, <1>6, <3>0, <4>1, <4>2 DEF Outermost
    <3>3. QED
      BY <3>1, <3>2
  <2>3. QED
    BY <1>6, <2>1, <2>2 DEF Levels
<1>14. Pieces' /\ ValuesRight'
  BY <1>1 DEF IInv, Pieces, ValuesRight
<1>15. VarsKept'
  BY <1>4, <1>10, AboveFrom, VarsStay DEF IInv
<1>a. slot \in Seq(Int) /\ start \in Seq(Nat) /\ Len(slot) = n /\ Len(start) = n
  BY <1>3, <1>4 DEF Stands
<1>16. PICK slot2 : /\ slot2 \in Seq(Int) /\ Len(slot2) = n + 1 /\ slot2[n + 1] = z
                    /\ \A k \in 1 .. n : slot2[k] = slot[k]
  <2>1. PICK slot2 : slot2 = Append(slot, z)
    OBVIOUS
  <2>2. slot2 \in Seq(Int) /\ Len(slot2) = n + 1 /\ slot2[n + 1] = z
        /\ \A k \in 1 .. n : slot2[k] = slot[k]
    BY <1>a, <2>1
  <2>3. QED
    BY <2>2
<1>b. PICK start2 : /\ start2 \in Seq(Nat) /\ Len(start2) = n + 1 /\ start2[n + 1] = o
                    /\ \A k \in 1 .. n : start2[k] = start[k]
  <2>1. PICK start2 : start2 = Append(start, o)
    OBVIOUS
  <2>2. start2 \in Seq(Nat) /\ Len(start2) = n + 1 /\ start2[n + 1] = o
        /\ \A k \in 1 .. n : start2[k] = start[k]
    BY <1>a, <2>1
  <2>3. QED
    BY <2>2
<1>17. Stands(slot2, start2)'
  <2>0. \A k \in 1 .. n : /\ StandsAt(k, slot, start) /\ slot[k] \in Int /\ start[k] \in Nat
                          /\ start[k] <= o
    <3>1. ASSUME NEW k \in 1 .. Depth
          PROVE  slot[k] \in Int /\ start[k] \in Nat /\ start[k] <= o
      BY <1>3, <1>4, StartsBelow
    <3>2. \A k \in 1 .. Depth : StandsAt(k, slot, start)
      BY <1>3 DEF Stands
    <3>3. QED
      BY <1>4, <3>1, <3>2
  <2>1. ASSUME NEW k \in 1 .. n + 1 PROVE StandsAt(k, slot2, start2)'
    <3>1. CASE k = n + 1
      <4>1. z + c.retMark = sp' + arena' + StrSize * c.temps
        BY <1>1, <1>4, <1>d, <1>7 DEF StrSize
      <4>2. z + StrSize + c.saved <= Base /\ z >= sp'
        BY <1>4, <1>d, <1>7 DEF StrSize
      <4>3. o + c.args = Len(ops') - OpenOperands'
        BY <1>1, <1>3, <1>4, <1>d
      <4>4. QED
        BY <1>c, <1>6, <1>16, <1>b, <3>1, <4>1, <4>2, <4>3 DEF StandsAt
    <3>2. CASE k # n + 1
      <4>1. k \in 1 .. n /\ StandsAt(k, slot, start) /\ calls'[k] = calls[k]
            /\ slot2[k] = slot[k] /\ start2[k] = start[k] /\ slot[k] \in Int
        BY <1>6, <1>16, <1>b, <2>0, <3>2
      <4>2. slot[k] + calls[k].retMark
              = slot2[k + 1] + calls'[k + 1].retMark + StrSize * calls[k].temps
        <5>1. CASE k = n
          <6>1. slot[k] + calls[k].retMark = s + ar + StrSize * calls[k].temps
            BY <1>4, <4>1, <5>1 DEF StandsAt
          <6>2. slot2[k + 1] + calls'[k + 1].retMark = s + ar
            BY <1>d, <1>6, <1>7, <1>16, <1>b, <5>1
          <6>3. QED
            BY <6>1, <6>2
        <5>2. CASE k # n
          <6>1. k + 1 \in 1 .. n
            BY <4>1, <5>2
          <6>2. QED
            BY <1>4, <1>6, <1>16, <1>b, <4>1, <5>2, <6>1 DEF StandsAt
        <5>3. QED
          BY <5>1, <5>2
      <4>3. start[k] + calls[k].args = start2[k + 1]
        <5>1. CASE k = n
          <6>1. start[k] + calls[k].args = Len(ops) - OpenOperands
            BY <1>4, <4>1, <5>1 DEF StandsAt
          <6>2. QED
            BY <1>3, <1>4, <1>16, <1>b, <5>1, <6>1
        <5>2. CASE k # n
          <6>1. k + 1 \in 1 .. n
            BY <4>1, <5>2
          <6>2. QED
            BY <1>4, <1>16, <1>b, <4>1, <5>2, <6>1 DEF StandsAt
        <5>3. QED
          BY <5>1, <5>2
      <4>4. calls[k].ret => slot[k] >= sp'
        BY <1>4, <1>7, <4>1 DEF StandsAt
      <4>5. k # n + 1
        BY <3>2
      <4>6. QED
        BY <1>6, <4>1, <4>2, <4>3, <4>4, <4>5 DEF StandsAt
    <3>3. QED
      BY <3>1, <3>2
  <2>2. ASSUME NEW j \in 1 .. n + 1, NEW k \in 1 .. n + 1, j < k
        PROVE  /\ start2[j] <= start2[k]
               /\ calls'[j].ret => slot2[j] >= slot2[k] + StrSize + calls'[k].saved
    <3>0. j \in 1 .. n
      BY <2>2
    <3>1. CASE k = n + 1
      <4>1. calls[j].ret => slot[j] >= s
        BY <1>4, <2>0, <3>0 DEF StandsAt
      <4>2. slot2[k] + StrSize + calls'[k].saved = s
        BY <1>d, <1>6, <1>7, <1>16, <1>b, <3>1 DEF StrSize
      <4>3. QED
        BY <1>6, <1>16, <1>b, <2>0, <3>0, <3>1, <4>1, <4>2
    <3>2. CASE k # n + 1
      <4>1. k \in 1 .. n
        BY <3>2
      <4>2. QED
        BY <1>3, <1>4, <1>6, <1>16, <1>b, <2>2, <3>0, <4>1 DEF Stands
    <3>3. QED
      BY <3>1, <3>2
  <2>3. Len(ops') >= OpenOperands'
    BY <1>1, <1>3, <1>4
  <2>4. QED
    BY <1>6, <1>16, <1>b, <2>1, <2>2, <2>3 DEF Stands
<1>18. \A i \in 1 .. o : ops[i].addr \in s .. tp - 2 /\ ops[i].addr # CopyTemp
                         /\ Alive(ops[i].addr, ops[i].want)
  <2>1. CopyTemp \notin s .. tp - 2
    BY <1>4, ConstantFacts
  <2>2. QED
    BY <1>1, <1>3, <1>4, <2>1 DEF Operands, Alive
<1>19. Operands(start2)'
  <2>1. ASSUME NEW i \in 1 .. o PROVE Alive(ops[i].addr, ops[i].want)'
    <3>1. PICK x, v : x = ops[i].addr /\ v = ops[i].want /\ Alive(x, v)
      BY <1>18
    <3>2. sp \in Nat /\ sp' \in Nat /\ sp' <= sp
      BY <1>4, <1>7, <1>9
    <3>3. Alive(x, v)'
      BY <1>1, <1>4, <1>10, <3>1, <3>2, AliveStays
    <3>4. QED
      BY <1>1, <3>1, <3>3
  <2>2. QED
    BY <1>1, <1>4, <1>18, <2>1 DEF Operands
<1>20. Saved(slot2, start2)'
  <2>1. ASSUME NEW k \in 1 .. n, calls[k].ret PROVE Holds(calls[k], slot2[k], start2[k])'
    <3>1. PICK d : d = calls[k]
      OBVIOUS
    <3>2. s <= slot[k] + StrSize /\ k \in 1 .. Depth
      <4>1. StandsAt(k, slot, start) /\ slot[k] \in Int
        BY <1>3, <1>4 DEF Stands
      <4>2. QED
        BY <1>4, <2>1, <4>1 DEF StandsAt, StrSize
    <3>3. Holds(d, slot[k], start[k])'
      BY <1>1, <1>2, <1>10, <2>1, <3>1, <3>2, HeldStays
    <3>4. QED
      BY <1>6, <1>16, <1>b, <3>1, <3>3
  <2>2. Holds(c, z, o)'
    <3>1. \A i \in 1 .. o : ops'[i].addr >= z + StrSize
      BY <1>1, <1>7, <1>18 DEF StrSize
    <3>2. ASSUME NEW j \in 1 .. p
          PROVE  LET a == Word(mem', z + StrSize + j - 1)
                 IN a \in z + StrSize + c.saved .. Top - 2 /\ Get(mem', a) = c.wants[j]
      <4>1. PICK a, w : a = scratch[cb + j - 1] /\ w = wants[j] /\ Alive(a, w)
        BY <1>4 DEF IInv, Pieces
      <4>2. a \in s .. Top - 2 /\ Get(mem, a) = w
        BY <1>1, <1>4, <4>1 DEF Alive
      <4>3. a \in s .. Top - 1 /\ a <= Top - 2
        BY <1>4, <4>2
      <4>4. Get(mem', a) = w
        BY <1>10, <4>2, <4>3 DEF Above
      <4>5. Word(mem', z + StrSize + j - 1) = a /\ z + StrSize + c.saved = s
        BY <1>d, <1>7, <1>10, <4>1 DEF StrSize
      <4>6. QED
        BY <1>c, <4>1, <4>2, <4>4, <4>5
    <3>3. QED
      BY <1>d, <3>1, <3>2 DEF Holds
  <2>3. ASSUME NEW k \in 1 .. n + 1, calls'[k].ret
        PROVE  Holds(calls[k], slot2[k], start2[k])'
    <3>1. CASE k = n + 1
      BY <1>6, <1>16, <1>b, <2>2, <3>1
    <3>2. CASE k # n + 1
      <4>1. k \in 1 .. n /\ calls[k].ret
        BY <1>6, <2>3, <3>2
      <4>2. QED
        BY <2>1, <4>1
    <3>3. QED
      BY <3>1, <3>2
  <2>4. QED
    BY <1>6, <2>3 DEF Saved
<1>21. QED
  BY <1>8, <1>11, <1>12, <1>13, <1>14, <1>15, <1>17, <1>19, <1>20 DEF IInv, Placed

(* What the arguments of the call on top are is what they are meant to be.  *)
LEMMA ArgsRight ==
  ASSUME Types, NEW slot, NEW start, Stands(slot, start), Operands(start),
         expect = "args", calls # << >>
  PROVE  /\ ArgStrings = ArgWants /\ <<FnF>> \o ArgWants \in Strings
         /\ call \in Calls /\ call.args \in Nat /\ call.args <= Len(ops)
         /\ Depth \in 1 .. Depth /\ call = calls[Depth]
<1>1. Depth \in 1 .. Depth /\ call = calls[Depth]
  BY DEF Types, Data, Depth, call
<1>2. PICK st \in Nat, ag \in Nat, o \in Nat :
        st = start[Depth] /\ ag = call.args /\ o = Len(ops) /\ st + ag = o
  <2>1. OpenOperands = 0
    BY DEF OpenOperands
  <2>2. calls[Depth] \in Calls /\ start[Depth] \in Nat /\ Len(ops) \in Nat
        /\ start[Depth] + calls[Depth].args = Len(ops) - OpenOperands
    BY <1>1, StartsBelow
  <2>3. call.args \in Nat
    BY <1>1, <2>2 DEF Calls
  <2>4. PICK st \in Nat, ag \in Nat, o \in Nat : st = start[Depth] /\ ag = call.args /\ o = Len(ops)
    BY <2>2, <2>3
  <2>5. st + ag = o
    BY <1>1, <2>1, <2>2, <2>4
  <2>6. QED
    BY <2>4, <2>5
<1>3. call \in Calls
  BY <1>1, StartsBelow
<1>4. ops \in Seq(Ops)
  BY DEF Types, Data
<1>5. Args \in Seq(Ops) /\ Len(Args) = ag /\ \A i \in 1 .. ag : Args[i] = ops[st + i]
  <2>1. Args = SubSeq(ops, st + 1, o)
    <3>1. Len(ops) - call.args + 1 = st + 1 /\ Len(ops) = o
      BY <1>2
    <3>2. QED
      BY <3>1 DEF Args
  <2>2. PICK u \in Nat : u = st + 1 /\ u <= o + 1 /\ o = Len(ops) /\ ag = o - u + 1
    BY SMTT(30), <1>2
  <2>3. SubSeq(ops, u, o) \in Seq(Ops) /\ Len(SubSeq(ops, u, o)) = o - u + 1
        /\ \A i \in 1 .. o - u + 1 : SubSeq(ops, u, o)[i] = ops[u + i - 1]
    BY SMTT(30), <1>4, <2>2
  <2>4. \A i \in 1 .. ag : u + i - 1 = st + i
    BY <2>2
  <2>5. QED
    BY <2>1, <2>2, <2>3, <2>4
<1>6. \A i \in 1 .. ag : Get(mem, Args[i].addr) = Args[i].want /\ Args[i].want \in Strings
  <2>1. ASSUME NEW i \in 1 .. ag
        PROVE  Get(mem, Args[i].addr) = Args[i].want /\ Args[i].want \in Strings
    <3>1. st + i \in 1 .. Len(ops) /\ Args[i] = ops[st + i]
      BY SMTT(30), <1>2, <1>5
    <3>2. Alive(ops[st + i].addr, ops[st + i].want)
      BY <3>1 DEF Operands
    <3>3. ops[st + i] \in Ops
      BY <1>4, <3>1
    <3>4. QED
      BY <3>1, <3>2, <3>3 DEF Alive, Ops
  <2>2. QED
    BY <2>1
<1>7. ArgStrings = ArgWants
  <2>1. [i \in 1 .. Len(Args) |-> Get(mem, Args[i].addr)] = [i \in 1 .. Len(Args) |-> Args[i].want]
    BY <1>5, <1>6
  <2>2. QED
    BY <2>1 DEF ArgStrings, ArgWants
<1>8. ArgWants \in Strings
  <2>1. [i \in 1 .. Len(Args) |-> Args[i].want] \in Seq(Strings)
    BY <1>5, <1>6
  <2>2. QED
    BY <2>1, FlattenSeqType DEF ArgWants, Strings
<1>9. <<FnF>> \o ArgWants \in Strings
  BY <1>8 DEF FnF, Strings
<1>10. QED
  BY <1>1, <1>2, <1>3, <1>7, <1>9

(* A call ends: its result is an operand, and what it saved is pending again. *)
LEMMA EndCallInv ==
  ASSUME IInv, EndCall
  PROVE  IInv'
<1>1. /\ expect = "args" /\ expect' = "operator" /\ call.ret /\ temp' = FALSE
      /\ pieces' = call.saved /\ cbase' = call.base /\ wants' = call.wants
      /\ calls' = SubSeq(calls, 1, Len(calls) - 1)
      /\ UNCHANGED <<used, held, arena, form, todo, outcome>>
  BY DEF EndCall
<1>2. PICK slot, start : Placed(slot, start)
  BY DEF IInv
<1>3. /\ Types /\ Stands(slot, start) /\ Operands(start) /\ Levels /\ Room
      /\ calls # << >> /\ pieces = 0
  BY <1>1, <1>2 DEF IInv, Placed, Clean
<1>4. OpenOperands = 0 /\ OpenOperands' = 1
  BY <1>1 DEF OpenOperands
<1>5. /\ ArgStrings = ArgWants /\ call \in Calls
      /\ Depth \in 1 .. Depth /\ call = calls[Depth]
  BY <1>1, <1>3, ArgsRight
<1>w. PICK W \in Strings : W = <<FnF>> \o ArgWants
  BY <1>1, <1>3, ArgsRight
<1>6. PICK n \in Nat, d \in Nat, o \in Nat :
        /\ d = Depth /\ d = n + 1 /\ o = Len(ops) /\ d \in 1 .. Depth
        /\ calls \in Seq(Calls) /\ ops \in Seq(Ops)
  <2>1. calls \in Seq(Calls) /\ ops \in Seq(Ops) /\ Len(ops) \in Nat /\ Depth \in Nat /\ Depth >= 1
    BY <1>3, <1>5 DEF Types, Data, Depth
  <2>2. PICK d \in Nat, o \in Nat : d = Depth /\ o = Len(ops) /\ d \in 1 .. Depth
    BY <1>5, <2>1
  <2>3. d - 1 \in Nat /\ d = (d - 1) + 1
    BY <2>1, <2>2
  <2>4. QED
    BY <2>1, <2>2, <2>3
<1>7. PICK c \in Calls : c = call /\ c = calls[d] /\ c = calls[n + 1]
  BY <1>5, <1>6
<1>8. PICK sv \in Nat, ba \in Nat, sm \in Nat, rm \in Nat, t \in Nat, ag \in Nat :
        /\ sv = c.saved /\ ba = c.base /\ sm = c.saveMark /\ rm = c.retMark /\ t = c.temps
        /\ ag = c.args
  <2>1. c.saved \in Nat
    BY ConstantFacts DEF Calls
  <2>2. QED
    BY <2>1 DEF Calls
<1>9. PICK s \in Nat, ar \in Nat, bt \in Nat, tp \in Nat :
        /\ s = sp /\ ar = arena /\ bt = Base /\ tp = Top /\ s >= 1 /\ s <= bt /\ bt <= tp
  <2>1. sp \in 1 .. Base /\ arena \in Nat
    BY <1>3 DEF Types, Numbers
  <2>2. PICK bt \in Nat, tp \in Nat : bt = Base /\ tp = Top /\ bt <= tp
    BY ConstantFacts
  <2>3. PICK s \in Nat, ar \in Nat : s = sp /\ ar = arena /\ s >= 1 /\ s <= bt
    BY <2>1, <2>2
  <2>4. QED
    BY <2>2, <2>3
<1>10. c.ret /\ sv \in 0 .. MaxPieces
  BY <1>1, <1>7, <1>8 DEF Calls
<1>11. PICK l \in Int, st \in Nat :
         /\ l = slot[d] /\ st = start[d] /\ l + rm = s + ar + 2 * t
         /\ l + 2 + sv <= bt /\ l >= s /\ st + ag = o
  <2>1. StandsAt(d, slot, start) /\ slot[d] \in Int /\ start[d] \in Nat
    BY <1>3, <1>6, StartsBelow DEF Stands
  <2>2. PICK l \in Int, st \in Nat : l = slot[d] /\ st = start[d]
    BY <2>1
  <2>3. l + rm = s + ar + 2 * t /\ st + ag = o
    BY <1>4, <1>6, <1>7, <1>8, <1>9, <2>1, <2>2 DEF StandsAt, StrSize
  <2>4. l + 2 + sv <= bt
    BY <1>7, <1>8, <1>9, <2>1, <2>2 DEF StandsAt, StrSize
  <2>5. l >= s
    BY <1>7, <1>9, <1>10, <2>1, <2>2 DEF StandsAt
  <2>6. QED
    BY <2>2, <2>3, <2>4, <2>5
<1>12. /\ ba + sv = cbase /\ ba \in 0 .. ScratchSlots - LevelSlots /\ Len(c.wants) = sv
       /\ sm + 2 = rm /\ rm <= ar
  <2>1. Nested(d)
    BY <1>3, <1>6 DEF Levels
  <2>2. ba + sv = cbase /\ ba \in 0 .. ScratchSlots - LevelSlots /\ Len(c.wants) = sv
    BY <1>6, <1>7, <1>8, <2>1 DEF Nested
  <2>3. sm + 2 = rm
    BY <1>7, <1>8, <2>1 DEF Nested, StrSize
  <2>4. rm <= ar + 0
    BY <1>7, <1>8, <1>9, <1>10, <2>1 DEF Nested
  <2>5. QED
    BY <1>8, <1>9, <2>2, <2>3, <2>4
<1>13. PICK af \in Nat, lo \in Nat, ln \in Nat :
         /\ af = s + 2 * t /\ af = s + t * 2 /\ af <= l /\ lo = l + 2 /\ ln = l
         /\ af + (ar - rm) = l /\ af + (ar - sm) = lo /\ ln \in 1 .. tp - 2 /\ ln \in 0 .. tp
         /\ lo \in s .. tp /\ lo <= bt
  <2>1. PICK af \in Nat, ln \in Nat : af = s + 2 * t /\ ln = l
    BY <1>9, <1>11
  <2>2. PICK lo \in Nat : lo = ln + 2
    OBVIOUS
  <2>3. af + ar = ln + rm /\ af <= ln /\ af = s + t * 2 /\ af >= s
    BY SMTT(30), <1>11, <1>12, <2>1
  <2>4. af + (ar - rm) = ln /\ af + (ar - sm) = lo
    <3>1. rm = sm + 2 /\ af + ar = ln + rm /\ lo = ln + 2
      BY <1>12, <2>2, <2>3
    <3>2. QED
      BY <3>1
  <2>5. ln \in 1 .. tp - 2 /\ ln \in 0 .. tp /\ lo \in s .. tp /\ lo <= bt
    BY <1>9, <1>11, <2>1, <2>2
  <2>6. af <= l /\ lo = l + 2 /\ ln = l
    BY <2>1, <2>2, <2>3
  <2>7. QED
    BY <2>1, <2>3, <2>4, <2>5, <2>6
<1>14. PICK m : m = Trashed(mem, s)
  OBVIOUS
<1>15. mem' = Put(m, ln, W) /\ sp' = af
  <2>1. sp + (arena - call.retMark) + call.temps * StrSize = ln
        /\ sp + call.temps * StrSize = af
    BY <1>7, <1>8, <1>9, <1>13 DEF StrSize
  <2>2. ln \in 1 .. Top - 2
    BY <1>9, <1>13
  <2>3. m = Trashed(mem, sp) /\ W = <<FnF>> \o ArgStrings
    BY <1>5, <1>9, <1>14, <1>w
  <2>4. QED
    BY <2>1, <2>2, <2>3 DEF EndCall
<1>16. Memory(mem) /\ Memory(m) /\ Above(mem, m, s)
  BY <1>3, <1>14, TrashedAbove DEF Types, Data, Memory
<1>17. Memory(mem') /\ Above(mem, mem', lo) /\ Get(mem', ln) = W
  <2>1. ln \in 0 .. Top /\ lo \in Nat /\ ln + 1 < lo /\ lo \in s .. Top
    BY <1>9, <1>13
  <2>2. Above(m, mem', lo) /\ Memory(mem') /\ Get(mem', ln) = W
    BY <1>15, <1>16, <2>1, PutGet, PutAbove
  <2>3. QED
    BY <1>16, <2>1, <2>2, AboveBoth
<1>18. Holds(c, slot[d], st)
  BY <1>2, <1>6, <1>7, <1>10, <1>11 DEF Placed, Saved
<1>19. ASSUME NEW j \in 1 .. sv
       PROVE  /\ scratch'[ba + j - 1] \in lo + sv .. Top - 2
              /\ Get(mem, scratch'[ba + j - 1]) = c.wants[j]
              /\ scratch'[ba + j - 1] = Word(m, lo + ((ba + j - 1) - ba))
  <2>1. ba + j - 1 \in 0 .. ScratchSlots - 1 /\ ba + j - 1 \in ba .. ba + sv - 1
    <3>1. PICK mp \in Nat, ss \in Nat : mp = MaxPieces /\ ss = ScratchSlots /\ LevelSlots = mp + 1
      BY ConstantFacts
    <3>2. sv <= mp /\ ba <= ss - (mp + 1)
      BY <1>10, <1>12, <3>1
    <3>3. QED
      BY <3>1, <3>2
  <2>2. PICK i \in Int : i = ba + j - 1 /\ i \in 0 .. ScratchSlots - 1 /\ i \in ba .. ba + sv - 1
    BY <2>1
  <2>3. (sp + call.temps * StrSize) + (arena - call.saveMark) + (i - call.base) = lo + (i - ba)
    BY <1>7, <1>8, <1>9, <1>13 DEF StrSize
  <2>4. i \in call.base .. call.base + call.saved - 1
    BY <1>7, <1>8, <2>2
  <2>5. scratch'[i] = Word(m, lo + (i - ba))
    BY <1>9, <1>14, <2>2, <2>3, <2>4 DEF EndCall
  <2>6. PICK b \in Int : b = lo + j - 1 /\ b = lo + (i - ba) /\ b \in s .. Top - 1
    BY <1>9, <1>11, <1>13, <2>2
  <2>7. Word(m, b) = Word(mem, b)
    BY <1>16, <2>6 DEF Above
  <2>8. slot[d] + StrSize + j - 1 = b /\ slot[d] + StrSize + c.saved = lo + sv
    BY <1>8, <1>11, <1>13, <2>6 DEF StrSize
  <2>9. Word(mem, b) \in lo + sv .. Top - 2 /\ Get(mem, Word(mem, b)) = c.wants[j]
    BY <1>8, <1>18, <2>8 DEF Holds
  <2>10. QED
    BY <2>2, <2>5, <2>6, <2>7, <2>9
<1>20. scratch' \in [0 .. ScratchSlots - 1 -> 0 .. Top]
  <2>1. ASSUME NEW i \in 0 .. ScratchSlots - 1 PROVE scratch'[i] \in 0 .. Top
    <3>1. CASE i \in ba .. ba + sv - 1
      <4>1. PICK j \in 1 .. sv : i = ba + j - 1
        <5>1. i - ba + 1 \in 1 .. sv /\ i = ba + (i - ba + 1) - 1
          BY <3>1
        <5>2. QED
          BY <5>1
      <4>2. scratch'[i] \in lo + sv .. Top - 2
        BY <1>19, <4>1
      <4>3. QED
        BY <1>9, <4>2
    <3>2. CASE i \notin ba .. ba + sv - 1
      <4>1. i \notin call.base .. call.base + call.saved - 1
        BY <1>7, <1>8, <3>2
      <4>2. scratch'[i] = 0
        BY <4>1 DEF EndCall, NoAddr
      <4>3. QED
        BY <1>9, <4>2
    <3>3. QED
      BY <3>1, <3>2
  <2>2. DOMAIN scratch' = 0 .. ScratchSlots - 1 /\ scratch' = [i \in DOMAIN scratch' |-> scratch'[i]]
    BY DEF EndCall
  <2>3. QED
    BY <2>1, <2>2
<1>21. /\ ops' \in Seq(Ops) /\ Len(ops') = st + 1 /\ ops'[st + 1].addr = ln
       /\ ops'[st + 1].want = W /\ \A i \in 1 .. st : ops'[i] = ops[i]
  <2>1. PICK r : r = [addr |-> ln, want |-> W] /\ r \in Ops /\ r.addr = ln /\ r.want = W
    <3>1. PICK r : r = [addr |-> ln, want |-> W]
      OBVIOUS
    <3>2. r \in Ops /\ r.addr = ln /\ r.want = W
      BY <3>1 DEF Ops
    <3>3. QED
      BY <3>1, <3>2
  <2>2. (sp + call.temps * StrSize) + (arena - call.retMark) = ln
    BY <1>7, <1>8, <1>9, <1>13 DEF StrSize
  <2>3. ops' = Append(SubSeq(ops, 1, Len(ops) - call.args), r)
    BY <1>w, <2>1, <2>2 DEF EndCall
  <2>4. Len(ops) - call.args = st
    <3>1. Len(ops) = o /\ call.args = ag /\ st + ag = o
      BY <1>6, <1>7, <1>8, <1>11
    <3>2. QED
      BY <3>1
  <2>5. PICK u : u = SubSeq(ops, 1, st)
    OBVIOUS
  <2>6. u \in Seq(Ops) /\ Len(u) = st /\ \A i \in 1 .. st : u[i] = ops[i]
    <3>1. st <= o /\ o = Len(ops) /\ ops \in Seq(Ops)
      BY <1>6, <1>11
    <3>2. QED
      BY <2>5, <3>1
  <2>7. ops' = Append(u, r)
    BY <2>3, <2>4, <2>5
  <2>8. QED
    BY <2>1, <2>6, <2>7
<1>22. calls' \in Seq(Calls) /\ Depth' = n /\ \A k \in 1 .. n : calls'[k] = calls[k] /\ calls[k] \in Calls
  <2>1. Len(calls) = n + 1 /\ Len(calls) - 1 = n
    BY <1>6 DEF Depth
  <2>2. calls' = SubSeq(calls, 1, n)
    BY <1>1, <2>1
  <2>3. QED
    BY <1>6, <2>1, <2>2 DEF Depth
<1>23. slot \in Seq(Int) /\ start \in Seq(Nat) /\ Len(slot) = n + 1 /\ Len(start) = n + 1
  BY <1>3, <1>6 DEF Stands
<1>24. PICK slot2 : /\ slot2 \in Seq(Int) /\ Len(slot2) = n
                    /\ \A k \in 1 .. n : slot2[k] = slot[k]
  <2>1. SubSeq(slot, 1, n) \in Seq(Int) /\ Len(SubSeq(slot, 1, n)) = n
        /\ \A k \in 1 .. n : SubSeq(slot, 1, n)[k] = slot[k]
    BY <1>23
  <2>2. QED
    BY <2>1
<1>25. PICK start2 : /\ start2 \in Seq(Nat) /\ Len(start2) = n
                     /\ \A k \in 1 .. n : start2[k] = start[k]
  <2>1. SubSeq(start, 1, n) \in Seq(Nat) /\ Len(SubSeq(start, 1, n)) = n
        /\ \A k \in 1 .. n : SubSeq(start, 1, n)[k] = start[k]
    BY <1>23
  <2>2. QED
    BY <2>1
<1>26. used = TRUE
  <2>1. SUFFICES ASSUME ~used PROVE FALSE
    BY <1>3 DEF Types, Kinds
  <2>2. Depth = 1 /\ ~calls[1].ret
    BY <1>3, <2>1 DEF IInv, Clean, Unused
  <2>3. QED
    BY <1>5, <1>7, <1>10, <2>2
<1>27. Types'
  <2>1. Kinds'
    BY <1>1, <1>3 DEF Types, Kinds
  <2>2. sp' \in 1 .. Base
    BY <1>9, <1>11, <1>13, <1>15
  <2>3. pieces' \in 0 .. MaxPieces /\ cbase' \in 0 .. ScratchSlots - LevelSlots
    BY <1>1, <1>7, <1>8, <1>10, <1>12
  <2>4. Numbers'
    BY <1>1, <1>3, <2>2, <2>3 DEF Types, Numbers
  <2>5. wants' \in Seq(Strings) /\ Len(wants') = pieces'
    BY <1>1, <1>7, <1>8, <1>12 DEF Calls
  <2>6. Data'
    BY <1>17, <1>20, <1>21, <1>22, <2>5 DEF Data, Memory
  <2>7. QED
    BY <2>1, <2>4, <2>6 DEF Types
<1>28. Clean'
  BY <1>1, <1>26 DEF Clean, Unused
<1>29. Room'
  <2>1. MaxPieces \in Nat /\ todo \in Nat
    BY <1>3, ConstantFacts DEF Types, Numbers
  <2>2. PICK r \in Nat, td \in Nat : r = StrSize + MaxPieces /\ td = todo
    BY <2>1 DEF StrSize
  <2>3. PICK u \in Nat : u = td * r
    BY <2>2
  <2>4. s > u + 2 * (cbase + pieces)
    BY <1>3, <1>9, <2>2, <2>3 DEF Room, StrSize
  <2>5. s > u + 2 * (ba + sv)
    BY <1>3, <1>12, <2>4
  <2>6. cbase' + pieces' = ba + sv
    BY <1>1, <1>7, <1>8
  <2>7. af > u + 2 * (ba + sv)
    BY <1>13, <2>5
  <2>8. QED
    BY <1>1, <1>15, <2>2, <2>3, <2>6, <2>7 DEF Room, StrSize
<1>30. Levels'
  <2>1. ASSUME NEW k \in 1 .. n PROVE Nested(k)'
    <3>1. Nested(k) /\ calls'[k] = calls[k] /\ calls[k] \in Calls /\ k # Depth
      BY <1>3, <1>6, <1>22 DEF Levels
    <3>2. calls[k].base + calls[k].saved = calls[k + 1].base
      BY <3>1 DEF Nested
    <3>3. k = n => calls[k + 1].base = cbase'
      BY <1>1, <1>7
    <3>4. k # n => calls'[k + 1] = calls[k + 1]
      BY <1>22
    <3>5. calls[k].base + calls[k].saved = IF k = n THEN cbase' ELSE calls'[k + 1].base
      BY <3>2, <3>3, <3>4
    <3>6. QED
      BY <1>1, <1>22, <3>1, <3>5 DEF Nested
  <2>2. Outermost'
    <3>0. Outermost
      BY <1>3 DEF Levels
    <3>1. CASE n = 0
      <4>1. calls' = << >>
        <5>1. Len(calls') = 0
          BY <1>22, <3>1 DEF Depth
        <5>2. QED
          BY <1>22, <5>1
      <4>2. c = calls[1]
        BY <1>7, <3>1
      <4>3. c.base = 0 /\ form # "call" /\ (form = "test" => c.saved = 0)
        BY <1>3, <1>10, <3>0, <4>2 DEF Outermost
      <4>4. QED
        BY <1>1, <1>7, <4>1, <4>3 DEF Outermost
    <3>2. CASE n # 0
      <4>1. calls'[1] = calls[1]
        BY <1>22, <3>2
      <4>2. calls' # << >>
        BY <1>22, <3>2 DEF Depth
      <4>3. QED
        BY <1>1, <1>3, <3>0, <4>1, <4>2 DEF Outermost
    <3>3. QED
      BY <3>1, <3>2
  <2>3. QED
    BY <1>22, <2>1, <2>2 DEF Levels
<1>31. Pieces'
  <2>1. ASSUME NEW j \in 1 .. sv PROVE Alive(scratch[ba + j - 1], c.wants[j])'
    <3>1. PICK a, w : /\ a = scratch'[ba + j - 1] /\ w = c.wants[j]
                      /\ a \in lo + sv .. Top - 2 /\ Get(mem, a) = w
      BY <1>19
    <3>2. a \in lo .. Top - 1 /\ a <= Top - 2 /\ a \in af .. Top - 2
      BY <1>9, <1>13, <3>1
    <3>3. Get(mem', a) = w
      BY <1>17, <3>1, <3>2 DEF Above
    <3>4. Alive(a, w)'
      BY <1>15, <3>2, <3>3 DEF Alive
    <3>5. QED
      BY <3>1, <3>4
  <2>2. pieces' = sv /\ cbase' = ba /\ wants' = c.wants
    BY <1>1, <1>7, <1>8
  <2>3. QED
    BY <2>1, <2>2 DEF Pieces
<1>32. VarsKept'
  <2>1. Above(mem, mem', Base)
    BY <1>9, <1>13, <1>17, AboveFrom
  <2>2. QED
    BY <2>1, VarsStay DEF IInv
<1>33. ValuesRight'
  BY <1>1 DEF IInv, ValuesRight
<1>34. \A k \in 1 .. n : /\ StandsAt(k, slot, start) /\ slot[k] \in Int /\ start[k] \in Nat
                         /\ start[k] <= st /\ (calls[k].ret => slot[k] >= lo + sv)
  <2>1. ASSUME NEW k \in 1 .. n
        PROVE  /\ slot[k] \in Int /\ start[k] \in Nat /\ start[k] <= st
               /\ StandsAt(k, slot, start) /\ (calls[k].ret => slot[k] >= slot[d] + StrSize + calls[d].saved)
    <3>1. k \in 1 .. Depth /\ d \in 1 .. Depth /\ k < d
      BY <1>6
    <3>2. slot[k] \in Int /\ start[k] \in Nat /\ start[k] <= start[Depth] /\ StandsAt(k, slot, start)
      BY <1>3, <3>1, StartsBelow DEF Stands
    <3>3. calls[k].ret => slot[k] >= slot[d] + StrSize + calls[d].saved
      BY <1>3, <3>1 DEF Stands
    <3>4. QED
      BY <1>6, <1>11, <3>2, <3>3
  <2>2. slot[d] + StrSize + calls[d].saved = lo + sv
    BY <1>7, <1>8, <1>11, <1>13 DEF StrSize
  <2>3. QED
    BY <2>1, <2>2
<1>35. Stands(slot2, start2)'
  <2>1. ASSUME NEW k \in 1 .. n PROVE StandsAt(k, slot2, start2)'
    <3>1. /\ StandsAt(k, slot, start) /\ calls'[k] = calls[k] /\ slot2[k] = slot[k]
          /\ start2[k] = start[k] /\ slot[k] \in Int /\ k # Depth /\ k \in 1 .. n + 1
      BY SMTT(30), <1>6, <1>22, <1>24, <1>25, <1>34
    <3>2. PICK x \in Nat, y \in Nat : x = calls[k].retMark /\ y = calls[k].temps
      BY <1>22 DEF Calls
    <3>3. slot[k] + x = slot[k + 1] + calls[k + 1].retMark + 2 * y
      BY <3>1, <3>2 DEF StandsAt, StrSize
    <3>4. slot[k] + x = (IF k = n THEN sp' + arena' ELSE slot2[k + 1] + calls'[k + 1].retMark) + 2 * y
      <4>1. CASE k = n
        <5>1. slot[k + 1] + calls[k + 1].retMark = l + rm
          BY <1>6, <1>7, <1>8, <1>11, <4>1
        <5>2. sp' + arena' = l + rm
          BY <1>1, <1>9, <1>11, <1>13, <1>15
        <5>3. QED
          BY <3>3, <4>1, <5>1, <5>2
      <4>2. CASE k # n
        <5>1. k + 1 \in 1 .. n
          BY <4>2
        <5>2. calls'[k + 1] = calls[k + 1] /\ slot2[k + 1] = slot[k + 1]
          BY <1>22, <1>24, <5>1
        <5>3. QED
          BY <3>3, <4>2, <5>2
      <4>3. QED
        BY <4>1, <4>2
    <3>5. calls[k].ret => slot[k] >= sp'
      <4>1. lo + sv >= af
        BY <1>13
      <4>2. calls[k].ret => slot[k] >= lo + sv
        BY <1>34
      <4>3. QED
        BY <1>15, <3>1, <4>1, <4>2
    <3>6. start[k] + calls[k].args = IF k = n THEN Len(ops') - OpenOperands' ELSE start2[k + 1]
      <4>1. start[k] + calls[k].args = start[k + 1]
        BY <3>1 DEF StandsAt
      <4>2. CASE k = n
        <5>1. start[k + 1] = st /\ Len(ops') - OpenOperands' = st
          BY <1>4, <1>6, <1>11, <1>21, <4>2
        <5>2. QED
          BY <4>1, <4>2, <5>1
      <4>3. CASE k # n
        <5>1. k + 1 \in 1 .. n
          BY <4>3
        <5>2. QED
          BY <1>25, <4>1, <4>3, <5>1
      <4>4. QED
        BY <4>2, <4>3
    <3>7. slot[k] + StrSize + calls[k].saved <= Base /\ (~calls[k].ret => start[k] = 0)
      BY <3>1 DEF StandsAt
    <3>8. QED
      BY <1>22, <3>1, <3>2, <3>4, <3>5, <3>6, <3>7 DEF StandsAt, StrSize
  <2>2. ASSUME NEW j \in 1 .. n, NEW k \in 1 .. n, j < k
        PROVE  /\ start2[j] <= start2[k]
               /\ calls'[j].ret => slot2[j] >= slot2[k] + StrSize + calls'[k].saved
    <3>1. j \in 1 .. Depth /\ k \in 1 .. Depth
      BY <1>6
    <3>2. QED
      BY <1>3, <1>22, <1>24, <1>25, <2>2, <3>1 DEF Stands
  <2>3. Len(ops') >= OpenOperands'
    BY <1>4, <1>21
  <2>4. QED
    BY <1>22, <1>24, <1>25, <2>1, <2>2, <2>3 DEF Stands
<1>36. Operands(start2)'
  <2>1. ASSUME NEW i \in 1 .. st
        PROVE  Alive(ops[i].addr, ops[i].want)' /\ ops'[i].addr # CopyTemp
    <3>1. PICK a, w : a = ops[i].addr /\ w = ops[i].want /\ Alive(a, w) /\ a >= lo /\ a # CopyTemp
      <4>1. i \in 1 .. Len(ops) /\ ~(i > start[Depth])
        <5>1. start[Depth] = st /\ Len(ops) = o
          BY <1>6, <1>11
        <5>2. i \in 1 .. o /\ ~(i > st)
          BY <1>11
        <5>3. QED
          BY <5>1, <5>2
      <4>2. Alive(ops[i].addr, ops[i].want) /\ ops[i].addr # CopyTemp
        BY <1>3, <4>1 DEF Operands
      <4>3. ops[i].addr >= slot[d] + StrSize /\ slot[d] + StrSize = lo
        BY <1>11, <1>13, <1>18 DEF Holds, StrSize
      <4>4. QED
        BY <4>2, <4>3
    <3>2. a \in s .. Top - 2 /\ Get(mem, a) = w
      BY <1>9, <3>1 DEF Alive
    <3>3. a \in lo .. Top - 1 /\ a <= Top - 2 /\ a \in af .. Top - 2
      BY <1>9, <1>13, <3>1, <3>2
    <3>4. Get(mem', a) = w
      BY <1>17, <3>2, <3>3 DEF Above
    <3>5. Alive(a, w)'
      BY <1>15, <3>3, <3>4 DEF Alive
    <3>6. QED
      BY <1>21, <3>1, <3>5
  <2>2. Alive(ops[st + 1].addr, ops[st + 1].want)' /\ ops'[st + 1].addr # CopyTemp
    <3>1. ln \in af .. Top - 2 /\ ln # CopyTemp
      BY <1>9, <1>13, ConstantFacts
    <3>2. Alive(ln, W)'
      BY <1>15, <1>17, <3>1 DEF Alive
    <3>3. QED
      BY <1>21, <3>1, <3>2
  <2>3. ASSUME NEW i \in 1 .. st + 1
        PROVE  Alive(ops[i].addr, ops[i].want)' /\ ops'[i].addr # CopyTemp
    <3>1. CASE i = st + 1
      BY <2>2, <3>1
    <3>2. CASE i # st + 1
      <4>1. i \in 1 .. st
        BY <3>2
      <4>2. QED
        BY <2>1, <4>1
    <3>3. QED
      BY <3>1, <3>2
  <2>4. QED
    BY <1>21, <2>3 DEF Operands
<1>37. Saved(slot2, start2)'
  <2>1. ASSUME NEW k \in 1 .. n, calls'[k].ret
        PROVE  Holds(calls[k], slot2[k], start2[k])'
    <3>1. calls[k].ret /\ k \in 1 .. Depth /\ slot[k] \in Int /\ start[k] \in Nat /\ start[k] <= st
          /\ slot[k] >= lo + sv
      BY <1>6, <1>22, <1>34, <2>1
    <3>2. PICK e : e = calls[k]
      OBVIOUS
    <3>3. lo \in Int /\ lo <= slot[k] + StrSize
      BY <1>13, <3>1 DEF StrSize
    <3>4. \A i \in 1 .. start[k] : ops'[i] = ops[i]
      BY <1>21, <3>1
    <3>5. Holds(e, slot[k], start[k])'
      BY <1>2, <1>17, <3>1, <3>2, <3>3, <3>4, HeldStays
    <3>6. QED
      BY <1>22, <1>24, <1>25, <3>2, <3>5
  <2>2. QED
    BY <1>22, <2>1 DEF Saved
<1>38. QED
  BY <1>27, <1>28, <1>29, <1>30, <1>31, <1>32, <1>33, <1>35, <1>36, <1>37 DEF IInv, Placed

(* A procedure statement ends.                                              *)
LEMMA EndCallStatementInv ==
  ASSUME IInv, EndCallStatement
  PROVE  IInv'
<1>1. /\ expect = "args" /\ ~call.ret /\ Forget /\ ops' = << >> /\ calls' = << >>
      /\ outcome' = [got |-> ArgStrings, want |-> ArgWants]
      /\ pieces' = call.saved /\ cbase' = call.base /\ wants' = call.wants
      /\ expect' = "statement" /\ form' = "none" /\ todo' = 0 /\ temp' = FALSE /\ held' = held
  BY DEF EndCallStatement
<1>2. PICK slot, start : Placed(slot, start)
  BY DEF IInv
<1>3. /\ Types /\ Stands(slot, start) /\ Operands(start) /\ Levels /\ calls # << >>
  BY <1>1, <1>2 DEF IInv, Placed, Clean
<1>4. /\ ArgStrings = ArgWants /\ call \in Calls
      /\ Depth \in 1 .. Depth /\ call = calls[Depth]
  BY <1>1, <1>3, ArgsRight
<1>5. Nested(Depth) /\ Depth = 1
  BY <1>1, <1>3, <1>4 DEF Levels, Nested
<1>6. PICK c \in Calls : c = call /\ c = calls[1] /\ ~c.ret /\ c.saved = 0 /\ c.base = 0
                         /\ c.wants = << >> /\ c.retMark <= arena + StrSize
  <2>1. call = calls[1] /\ Nested(1) /\ Outermost
    BY <1>3, <1>4, <1>5 DEF Levels
  <2>2. PICK c \in Calls : c = call /\ c = calls[1]
    BY <1>4, <2>1
  <2>3. c.saved = 0 /\ c.base = 0 /\ Len(c.wants) = c.saved /\ c.retMark <= arena + StrSize
    BY <1>1, <1>3, <2>1, <2>2 DEF Nested, Outermost
  <2>4. c.wants \in Seq(Strings)
    BY DEF Calls
  <2>5. c.wants = << >>
    BY <2>3, <2>4
  <2>6. QED
    BY <1>1, <2>2, <2>3, <2>5
<1>7. ValuesRight'
  BY <1>1, <1>4 DEF ValuesRight
<1>8. sp \in 1 .. Base /\ arena \in Nat /\ used \in BOOLEAN /\ held \in BOOLEAN
  BY <1>3 DEF Types, Kinds, Numbers
<1>9. PICK t \in Nat, rm \in Nat, s \in Nat, ar \in Nat, bt \in Nat, l \in Int :
        /\ t = c.temps /\ rm = c.retMark /\ s = sp /\ ar = arena /\ bt = Base /\ l = slot[1]
        /\ 1 <= s /\ s <= bt /\ rm <= ar + 2
  <2>1. slot[1] \in Int
    BY <1>3, <1>4, <1>5, StartsBelow
  <2>2. PICK t \in Nat, rm \in Nat : t = c.temps /\ rm = c.retMark
    BY DEF Calls
  <2>3. PICK s \in Nat, ar \in Nat, bt \in Nat :
          s = sp /\ ar = arena /\ bt = Base /\ 1 <= s /\ s <= bt
    BY <1>8, ConstantFacts
  <2>4. rm <= ar + 2
    BY <1>6, <2>2, <2>3 DEF StrSize
  <2>5. QED
    BY <2>1, <2>2, <2>3, <2>4
<1>10. s + 2 * t <= bt
  <2>1. StandsAt(1, slot, start)
    BY <1>3, <1>4, <1>5 DEF Stands
  <2>2. l + rm = s + ar + 2 * t
    BY <1>5, <1>6, <1>9, <2>1 DEF StandsAt, StrSize
  <2>3. l + 2 + 0 <= bt
    BY <1>6, <1>9, <2>1 DEF StandsAt, StrSize
  <2>4. QED
    BY <1>9, <2>2, <2>3
<1>11. /\ used' \in BOOLEAN /\ held' \in BOOLEAN /\ arena' \in Nat /\ sp' \in 1 .. Base
       /\ (held' => used') /\ (~held' => ~used') /\ (~used' => sp' = Base /\ arena' = 0)
  <2>1. held => used
    BY DEF IInv, Clean
  <2>2. CASE used /\ ~held
    <3>1. used' = FALSE /\ arena' = 0 /\ sp' = Base
      BY <2>2 DEF EndCallStatement
    <3>2. Base \in 1 .. Base
      BY ConstantFacts
    <3>3. QED
      BY <1>1, <1>8, <2>2, <3>1, <3>2
  <2>3. CASE ~(used /\ ~held)
    <3>1. used' = used /\ arena' = arena /\ sp' = sp + call.temps * StrSize
      BY <2>3 DEF EndCallStatement
    <3>2. sp' = s + 2 * t
      <4>1. call.temps = t /\ sp = s
        BY <1>6, <1>9
      <4>2. QED
        BY <3>1, <4>1 DEF StrSize
    <3>3. sp' \in 1 .. Base
      BY <1>9, <1>10, <3>2
    <3>4. ~used => sp' = Base /\ arena = 0
      <4>1. ~used => sp + StrSize * c.temps = Base /\ arena = 0
        BY <1>3, <1>6 DEF IInv, Clean, Unused
      <4>2. ~used => s + 2 * t = Base
        BY <1>9, <4>1 DEF StrSize
      <4>3. QED
        BY <3>2, <4>1, <4>2
    <3>5. QED
      BY <1>1, <1>8, <2>1, <2>3, <3>1, <3>3, <3>4
  <2>4. QED
    BY <2>2, <2>3
<1>12. pieces' = 0 /\ cbase' = 0 /\ wants' = << >> /\ temp' \in BOOLEAN
  BY <1>1, <1>6
<1>13. QED
  BY <1>1, <1>7, <1>11, <1>12, StatementEnds

------------------------------------------------------------------------------
(* The specification.                                                       *)

(* Every step.                                                              *)
LEMMA NextInv ==
  ASSUME IInv, Constructs = {}, [Next]_vars
  PROVE  IInv'
<1>1. CASE \E f \in {"assign", "test", "call"} : Begin(f)
  BY <1>1, BeginInv
<1>2. CASE \E x \in Vars : Operand(x) \/ CopyOperand(x) \/ IndirectOperand(x)
  BY <1>2, OperandInv, TempOperandInv
<1>3. CASE Plus \/ BeginCall \/ EndArg \/ NextArg \/ EndCall
  BY <1>3, PlusInv, BeginCallInv, EndArgInv, NextArgInv, EndCallInv
<1>4. CASE \E runs \in BOOLEAN : ConditionArg(runs)
  BY <1>4, ConditionArgInv
<1>5. CASE EndCallStatement \/ EndAssign \/ Equal \/ EndTest
  BY <1>5, EndCallStatementInv, EndAssignInv, EqualInv, EndTestInv
<1>6. CASE BranchNotTaken \/ EndBody
  BY <1>6, BetweenInv
<1>7. CASE UNCHANGED vars
  <2>1. UNCHANGED <<used, held, arena, pieces, cbase, calls, expect, form, todo, temp, sp, mem,
                    scratch, ops, wants, outcome>>
    BY <1>7 DEF vars, source
  <2>2. Types' /\ Clean' /\ Room' /\ Levels' /\ Pieces' /\ VarsKept' /\ ValuesRight'
    <3>1. Types' /\ Clean' /\ Room'
      BY <2>1 DEF IInv, Types, Kinds, Numbers, Data, Clean, Unused, Depth, Room
    <3>2. Levels'
      BY <2>1 DEF IInv, Levels, Nested, Outermost, Depth
    <3>3. Pieces' /\ VarsKept' /\ ValuesRight'
      BY <2>1 DEF IInv, Pieces, Alive, VarsKept, ValuesRight
    <3>4. QED
      BY <3>1, <3>2, <3>3
  <2>3. PICK slot, start : Placed(slot, start)
    BY DEF IInv
  <2>4. Stands(slot, start)'
    BY <2>1, <2>3 DEF Placed, Stands, StandsAt, Depth, OpenOperands
  <2>5. Operands(start)' /\ Saved(slot, start)'
    BY <2>1, <2>3 DEF Placed, Operands, Alive, Saved, Holds, Depth
  <2>6. QED
    BY <2>2, <2>4, <2>5 DEF IInv, Placed
<1>8. QED
  BY <1>1, <1>2, <1>3, <1>4, <1>5, <1>6, <1>7 DEF Next

(* IInv holds of every state of a program that leaves the Constructs out.   *)
LEMMA Invariant ==
  ASSUME Constructs = {}
  PROVE  Spec => []IInv
<1>1. Init => IInv
  BY InitInv
<1>2. IInv /\ [Next]_vars => IInv'
  BY NextInv
<1>3. QED
  BY <1>1, <1>2, PTL DEF Spec

(* $sp and all that is pending are back after every statement, and a         *)
(* variable is addressed from the frame base wherever one may be read,       *)
(* whatever calls and concatenations the statements nest, for any number of  *)
(* variables, pieces and scratch slots and any depth of calls: what          *)
(* EmitFramePtr's comment relies on.  Statements leave out the Constructs.   *)
THEOREM BaseIsKept ==
  ASSUME Constructs = {}
  PROVE  Spec => []BaseKept
<1>1. IInv => BaseKept
  <2>1. SUFFICES ASSUME IInv PROVE BaseKept
    OBVIOUS
  <2>2. TypeOK
    BY <2>1 DEF IInv, Types, Kinds, Numbers, Data, TypeOK
  <2>3. FrameReached
    BY <2>1, FrameIsBase DEF FrameReached
  <2>4. StatementClean
    <3>1. SUFFICES ASSUME expect = "statement"
                   PROVE  /\ pieces = 0 /\ cbase = 0 /\ ops = << >> /\ calls = << >>
                          /\ ~held => sp = Base /\ ~used /\ arena = 0
      BY DEF StatementClean
    <3>2. pieces = 0 /\ ops = << >> /\ calls = << >> /\ (~held => ~used)
      BY <2>1, <3>1 DEF IInv, Clean
    <3>3. cbase = 0
      BY <2>1, <3>2 DEF IInv, Levels, Outermost
    <3>4. ~used => sp = Base /\ arena = 0
      BY <2>1, <3>2 DEF IInv, Clean, Unused
    <3>5. QED
      BY <3>2, <3>3, <3>4
  <2>5. QED
    BY <2>2, <2>3, <2>4 DEF BaseKept
<1>2. QED
  BY <1>1, Invariant, PTL

(* Every operand on the stack and every pending piece has the string it had  *)
(* when it was evaluated until it is used: no call, no concatenation and no  *)
(* copy() of the same statement overwrites it or moves $sp away from it.     *)
THEOREM OperandsStayAlive ==
  ASSUME Constructs = {}
  PROVE  Spec => []OperandsAlive
<1>1. IInv => OperandsAlive
  BY DEF IInv, Placed, Operands, Pieces, Alive, OperandsAlive
<1>2. QED
  BY <1>1, Invariant, PTL

(* An assignment stores, a test compares and a procedure gets the strings    *)
(* that the source means.                                                    *)
THEOREM StatementsGetTheirStrings ==
  ASSUME Constructs = {}
  PROVE  Spec => []ValuesRight
<1>1. IInv => ValuesRight
  BY DEF IInv
<1>2. QED
  BY <1>1, Invariant, PTL
--------------------------------------------------------------------------------
(* Jumps (ControlFlow).                                                    *)

(* The sums of a function, from the first argument on.                      *)
LEMMA SumsAre ==
  ASSUME NEW n \in Nat, NEW w \in [1..n -> Int], Len(w) = n
  PROVE  /\ Sums(w) \in [0..n -> Int] /\ Sums(w)[0] = 0
         /\ \A i \in 1..n : Sums(w)[i] = Sums(w)[i - 1] + w[i]
<1> DEFINE F == [i \in 1..n |-> [c \in Int |-> c + w[i]]]
           Is(f) == f = [i \in 0..n |-> IF i = 0 THEN 0 ELSE f[i - 1] + w[i]]
           s == CHOOSE f : Is(f)
<1>1. \A i \in 1..n : w[i] \in Int
  OBVIOUS
<1>2. PICK g \in [0..n -> Int] : Iterates(g, 0, F, n)
  <2>1. F \in Steps(n, Int)
    BY <1>1 DEF Steps
  <2> HIDE DEF F
  <2>2. n \in Nat /\ 0 \in Int
    OBVIOUS
  <2>3. QED
    BY ONLY <2>1, <2>2, Iterated
<1>3. ASSUME NEW i \in 1..n PROVE g[i] = g[i - 1] + w[i]
  <2>1. g[i - 1] \in Int
    BY <1>1, <1>2
  <2> HIDE DEF F
  <2>2. g[i] = F[i][g[i - 1]]
    BY <1>2 DEF Iterates
  <2> USE DEF F
  <2>3. QED
    BY <2>1, <2>2
<1>4. Is(g)
  <2>1. g[0] = 0 /\ g = [i \in 0..n |-> g[i]]
    BY <1>1, <1>2 DEF Iterates
  <2>2. \A i \in 0..n : g[i] = IF i = 0 THEN 0 ELSE g[i - 1] + w[i]
    <3>1. \A i \in 0..n : i = 0 \/ i \in 1..n
      OBVIOUS
    <3>2. QED
      BY ONLY <1>3, <2>1, <3>1
  <2>3. QED
    BY ONLY <2>1, <2>2
<1>5. Sums(w) = s
  BY DEF Sums
<1>6. Is(s)
  <2> HIDE DEF Is
  <2>1. QED
    BY <1>4
<1>7. \A f : Is(f) => f[0] = 0 /\ \A i \in 1..n : f[i] = f[i - 1] + w[i]
  <2> TAKE f
  <2> HAVE Is(f)
  <2>1. QED
    OBVIOUS
<1>8. s \in [0..n -> Int]
  <2> HIDE DEF s
  <2> DEFINE T == {i \in 0..n : s[i] \in Int}
  <2>1. 0 \in T
    BY <1>1, <1>6, <1>7
  <2>2. ASSUME NEW i \in 0..n - 1, i \in T PROVE i + 1 \in T
    <3>1. i + 1 \in 1..n /\ (i + 1) - 1 = i
      BY <1>1
    <3>2. s[i + 1] = s[i] + w[i + 1]
      BY <1>6, <1>7, <3>1
    <3>3. QED
      BY <1>1, <2>2, <3>1, <3>2
  <2>3. 0..n \subseteq T
    <3> HIDE DEF T
    <3>1. QED
      BY <2>1, <2>2, CountUp
  <2>4. \A i \in 0..n : s[i] \in Int
    BY <2>3
  <2>5. DOMAIN s = 0..n /\ s = [i \in 0..n |-> s[i]]
    BY <1>6
  <2>6. QED
    BY <2>4, <2>5
<1>9. QED
  <2>1. s[0] = 0 /\ \A i \in 1..n : s[i] = s[i - 1] + w[i]
    <3> HIDE DEF s, Is
    <3>1. QED
      BY <1>6, <1>7
  <2> HIDE DEF s
  <2>2. QED
    BY <1>5, <1>8, <2>1

(* Functions that agree on the first m arguments have the same m sums.      *)
LEMMA SumsAlike ==
  ASSUME NEW p \in Nat, NEW v \in [1..p -> Int], Len(v) = p,
         NEW q \in Nat, NEW w \in [1..q -> Int], Len(w) = q,
         NEW m \in Nat, m <= p, m <= q, \A i \in 1..m : v[i] = w[i]
  PROVE  \A i \in 0..m : Sums(v)[i] = Sums(w)[i]
<1> DEFINE T == {i \in 0..m : Sums(v)[i] = Sums(w)[i]}
<1>1. 0 \in T
  BY SumsAre
<1>2. ASSUME NEW i \in 0..m - 1, i \in T PROVE i + 1 \in T
  <2>1. i + 1 \in 1..p /\ i + 1 \in 1..q /\ i + 1 \in 1..m /\ (i + 1) - 1 = i
    OBVIOUS
  <2>2. Sums(v)[i + 1] = Sums(v)[i] + v[i + 1] /\ Sums(w)[i + 1] = Sums(w)[i] + w[i + 1]
    <3>1. Sums(v)[i + 1] = Sums(v)[(i + 1) - 1] + v[i + 1]
      BY <2>1, SumsAre
    <3>2. Sums(w)[i + 1] = Sums(w)[(i + 1) - 1] + w[i + 1]
      BY <2>1, SumsAre
    <3>3. QED
      BY <2>1, <3>1, <3>2
  <2>3. QED
    BY <1>2, <2>1, <2>2
<1>3. 0..m \subseteq T
  <2> HIDE DEF T
  <2>1. QED
    BY <1>1, <1>2, CountUp
<1>4. QED
  BY <1>3

(* The sums of numbers that are not negative do not decrease.               *)
LEMMA SumsGrow ==
  ASSUME NEW n \in Nat, NEW w \in [1..n -> Int], Len(w) = n, \A i \in 1..n : w[i] >= 0,
         NEW k \in 0..n
  PROVE  \A i \in k..n : Sums(w)[k] <= Sums(w)[i]
<1> DEFINE T == {i \in 0..n - k : Sums(w)[k] <= Sums(w)[k + i]}
<1>0. Sums(w) \in [0..n -> Int]
  BY SumsAre
<1>1. 0 \in T
  BY <1>0
<1>2. ASSUME NEW i \in 0..(n - k) - 1, i \in T PROVE i + 1 \in T
  <2>1. PICK j \in 0..n : j = k + i
    OBVIOUS
  <2>2. j + 1 \in 1..n /\ (j + 1) - 1 = j /\ k + (i + 1) = j + 1
    BY <2>1
  <2>3. Sums(w)[j + 1] = Sums(w)[(j + 1) - 1] + w[j + 1]
    BY <2>2, SumsAre
  <2>4. w[j + 1] \in Int /\ w[j + 1] >= 0 /\ Sums(w)[j] \in Int /\ Sums(w)[k] \in Int
    BY <1>0, <2>2
  <2>5. Sums(w)[k] <= Sums(w)[j + 1]
    BY <1>2, <2>1, <2>2, <2>3, <2>4
  <2>6. QED
    BY <2>2, <2>5
<1>3. 0..n - k \subseteq T
  <2> HIDE DEF T
  <2>1. n - k \in Nat
    OBVIOUS
  <2>2. QED
    BY <1>1, <1>2, <2>1, CountUp
<1>4. ASSUME NEW i \in k..n PROVE Sums(w)[k] <= Sums(w)[i]
  <2>1. i - k \in 0..n - k /\ k + (i - k) = i
    OBVIOUS
  <2>2. QED
    BY <1>3, <2>1
<1>5. QED
  BY <1>4

(* A bounded set of numbers has a greatest.                                 *)
LEMMA MaxIs ==
  ASSUME NEW n \in Nat, NEW S \in SUBSET (0..n), S # {}
  PROVE  Max(S) \in S /\ \A y \in S : Max(S) >= y
<1> DEFINE T == {i \in Nat : \E y \in S : y = n - i}
           Is(x) == x \in S /\ \A y \in S : x >= y
<1>1. T # {} /\ T \in SUBSET Nat
  <2>1. PICK y \in S : TRUE
    OBVIOUS
  <2>2. n - y \in Nat /\ n - (n - y) = y
    BY <2>1
  <2>3. QED
    BY <2>2
<1>2. PICK i \in T : \A j \in T : i <= j
  <2> HIDE DEF T
  <2>1. QED
    BY <1>1, Least
<1>3. Is(n - i)
  <2>1. i \in Nat /\ n - i \in S
    BY <1>2
  <2>2. ASSUME NEW y \in S PROVE n - i >= y
    <3>1. n - y \in Nat /\ n - (n - y) = y
      OBVIOUS
    <3>2. n - y \in T
      BY <3>1
    <3>3. QED
      BY <1>2, <2>1, <3>1, <3>2
  <2>3. QED
    BY <2>1, <2>2
<1>4. Is(CHOOSE x : Is(x))
  <2> HIDE DEF Is
  <2>1. QED
    BY <1>3
<1>5. \E x \in S : \A y \in S : x >= y
  BY <1>3
<1>6. QED
  BY <1>5 DEF Max

(* ... and a least.                                                         *)
LEMMA MinIs ==
  ASSUME NEW S \in SUBSET Nat, S # {}
  PROVE  Min(S) \in S /\ \A y \in S : Min(S) <= y
<1>1. \E x \in S : \A y \in S : x <= y
  BY Least
<1>2. QED
  BY <1>1 DEF Min

(* The blocks that a construct has open.                                    *)
LEMMA BlocksAre ==
  ASSUME NEW c \in Construct
  PROVE  /\ BlocksOf(c) \in Nat
         /\ c.kind \in Loops => BlocksOf(c) = LoopDepths(c.kind)[3] /\ BlocksOf(c) \in 2..3
         /\ c.kind \in Loops => LoopDepths(c.kind)[3] = LoopDepths(c.kind)[1] + 1
                                /\ LoopDepths(c.kind)[1] \in 1..2 /\ LoopDepths(c.kind)[2] = 0
         /\ c.kind = "if" => BlocksOf(c) = 1
         /\ c.kind = "case" => BlocksOf(c) = c.arms
         /\ c.kind \in Loops <=> c.kind \notin {"if", "case"}
<1>1. c.kind \in {"if", "while", "for", "repeat", "case"} /\ c.arms \in Nat
  BY DEF Construct
<1>2. QED
  BY <1>1 DEF BlocksOf, Loops, LoopDepths

(* Outer adds up the blocks of the constructs, one after another.           *)
LEMMA OuterIs ==
  ASSUME NEW s \in Seq(Construct)
  PROVE  /\ Outer(s) \in [0..Len(s) -> Int] /\ Outer(s)[0] = 0
         /\ \A i \in 1..Len(s) : Outer(s)[i] = Outer(s)[i - 1] + BlocksOf(s[i])
         /\ \A k \in 0..Len(s) : \A i \in k..Len(s) : Outer(s)[k] <= Outer(s)[i]
<1> DEFINE n == Len(s)
           w == [k \in 1..n |-> BlocksOf(s[k])]
<1>1. n \in Nat /\ \A i \in 1..n : s[i] \in Construct
  OBVIOUS
<1>2. w \in [1..n -> Int] /\ Len(w) = n /\ \A i \in 1..n : w[i] = BlocksOf(s[i]) /\ w[i] >= 0
  <2>1. \A i \in 1..n : BlocksOf(s[i]) \in Nat
    BY <1>1, BlocksAre
  <2>2. w \in Seq(Int)
    BY <1>1, <2>1
  <2>3. QED
    BY <1>1, <2>1, <2>2
<1>3. Outer(s) = Sums(w)
  BY DEF Outer
<1> HIDE DEF n, w
<1>4. /\ Sums(w) \in [0..n -> Int] /\ Sums(w)[0] = 0
      /\ \A i \in 1..n : Sums(w)[i] = Sums(w)[i - 1] + w[i]
  BY ONLY <1>1, <1>2, SumsAre
<1>5. \A k \in 0..n : \A i \in k..n : Sums(w)[k] <= Sums(w)[i]
  BY ONLY <1>1, <1>2, SumsGrow
<1>6. QED
  BY <1>2, <1>3, <1>4, <1>5 DEF n

(* Fors counts the for loops among the constructs.                          *)
LEMMA ForsIs ==
  ASSUME NEW s \in Seq(Construct)
  PROVE  /\ Fors(s) \in [0..Len(s) -> Int] /\ Fors(s)[0] = 0
         /\ \A i \in 1..Len(s) : Fors(s)[i] = Fors(s)[i - 1] + (IF s[i].kind = "for" THEN 1 ELSE 0)
         /\ \A k \in 0..Len(s) : \A i \in k..Len(s) : Fors(s)[k] <= Fors(s)[i]
<1> DEFINE n == Len(s)
           w == [k \in 1..n |-> IF s[k].kind = "for" THEN 1 ELSE 0]
<1>1. n \in Nat
  OBVIOUS
<1>2. w \in [1..n -> Int] /\ Len(w) = n
      /\ \A i \in 1..n : w[i] = (IF s[i].kind = "for" THEN 1 ELSE 0) /\ w[i] >= 0
  <2>1. w \in Seq(Int)
    BY <1>1
  <2>2. QED
    BY <1>1, <2>1
<1>3. Fors(s) = Sums(w)
  BY DEF Fors
<1> HIDE DEF n, w
<1>4. /\ Sums(w) \in [0..n -> Int] /\ Sums(w)[0] = 0
      /\ \A i \in 1..n : Sums(w)[i] = Sums(w)[i - 1] + w[i]
  BY ONLY <1>1, <1>2, SumsAre
<1>5. \A k \in 0..n : \A i \in k..n : Sums(w)[k] <= Sums(w)[i]
  BY ONLY <1>1, <1>2, SumsGrow
<1>6. QED
  BY <1>2, <1>3, <1>4, <1>5 DEF n

(* The nearest loop.                                                        *)
Nearest(s, k, l) ==
  /\ l \in 0..k /\ (l # 0 => s[l].kind \in Loops)
  /\ \A i \in 1..k : s[i].kind \in Loops => i <= l

(* LoopIn is the nearest loop among the first k constructs, and the only one.*)
LEMMA LoopInIs ==
  ASSUME NEW s, NEW k \in Nat
  PROVE  Nearest(s, k, LoopIn(s, k)) /\ \A l : Nearest(s, k, l) => l = LoopIn(s, k)
<1> DEFINE S == {i \in 1..k : s[i].kind \in Loops} \cup {0}
           m == Max(S)
<1>1. S \in SUBSET (0..k) /\ S # {}
  OBVIOUS
<1>2. m \in S /\ \A y \in S : m >= y
  <2> HIDE DEF S
  <2>1. QED
    BY <1>1, MaxIs
<1>3. LoopIn(s, k) = m
  BY DEF LoopIn
<1> HIDE DEF m
<1>4. Nearest(s, k, m)
  BY <1>1, <1>2 DEF Nearest
<1>5. ASSUME NEW l, Nearest(s, k, l) PROVE l = m
  <2>1. l \in 0..k /\ l \in S /\ m \in 0..k
    BY <1>1, <1>2, <1>5 DEF Nearest
  <2>2. m >= l
    BY <1>2, <2>1
  <2>3. m <= l
    BY <1>2, <1>5, <2>1 DEF Nearest
  <2>4. QED
    BY <2>1, <2>2, <2>3
<1>6. QED
  BY <1>3, <1>4, <1>5

(* Constructs whose first m are alike.                                      *)
FirstAlike(s, t, m) ==
  /\ m <= Len(s) /\ m <= Len(t)
  /\ \A i \in 1..m : s[i].kind = t[i].kind /\ BlocksOf(s[i]) = BlocksOf(t[i])

(* What only looks at the first k constructs does not see what follows.     *)
LEMMA AlikeSums ==
  ASSUME NEW s \in Seq(Construct), NEW t \in Seq(Construct), NEW m \in Nat, FirstAlike(s, t, m), NEW k \in 0..m
  PROVE  /\ Outer(s)[k] = Outer(t)[k] /\ Fors(s)[k] = Fors(t)[k] /\ LoopIn(s, k) = LoopIn(t, k)
         /\ BreakIn(s, k) = BreakIn(t, k) /\ ContinueIn(s, k) = ContinueIn(t, k)
<1>1. \A i \in 0..m : Outer(s)[i] = Outer(t)[i] /\ Fors(s)[i] = Fors(t)[i]
  <2> DEFINE T == {i \in 0..m : Outer(s)[i] = Outer(t)[i] /\ Fors(s)[i] = Fors(t)[i]}
  <2>1. 0 \in T
    BY OuterIs, ForsIs
  <2>2. ASSUME NEW i \in 0..m - 1, i \in T PROVE i + 1 \in T
    <3>1. PICK j \in 1..m : j = i + 1 /\ j - 1 = i
      OBVIOUS
    <3>2. j \in 1..Len(s) /\ j \in 1..Len(t)
      BY DEF FirstAlike
    <3>3. Outer(s)[j] = Outer(s)[j - 1] + BlocksOf(s[j]) /\ Outer(t)[j] = Outer(t)[j - 1] + BlocksOf(t[j])
      BY <3>2, OuterIs
    <3>4. /\ Fors(s)[j] = Fors(s)[j - 1] + (IF s[j].kind = "for" THEN 1 ELSE 0)
          /\ Fors(t)[j] = Fors(t)[j - 1] + (IF t[j].kind = "for" THEN 1 ELSE 0)
      BY <3>2, ForsIs
    <3>5. s[j].kind = t[j].kind /\ BlocksOf(s[j]) = BlocksOf(t[j])
      BY DEF FirstAlike
    <3>6. Outer(s)[j] = Outer(t)[j] /\ Fors(s)[j] = Fors(t)[j]
      BY <2>2, <3>1, <3>3, <3>4, <3>5
    <3>7. QED
      BY <3>1, <3>6
  <2>3. 0..m \subseteq T
    <3> HIDE DEF T
    <3>1. QED
      BY <2>1, <2>2, CountUp
  <2>4. QED
    BY <2>3
<1>2. k \in Nat /\ Nearest(t, k, LoopIn(t, k))
  BY LoopInIs
<1>3. Nearest(s, k, LoopIn(t, k))
  <2>1. \A i \in 1..k : s[i].kind = t[i].kind
    BY DEF FirstAlike
  <2>2. QED
    BY <1>2, <2>1 DEF Nearest
<1>4. LoopIn(s, k) = LoopIn(t, k)
  BY <1>2, <1>3, LoopInIs
<1>5. LoopIn(t, k) \in 0..k
  BY <1>2 DEF Nearest
<1>6. LoopIn(t, k) # 0 => LoopIn(t, k) - 1 \in 0..m /\ LoopIn(t, k) \in 0..m
  BY <1>5
<1>7. QED
  BY <1>1, <1>4, <1>6 DEF BreakIn, ContinueIn

(* Inside of a loop break and continue have depths that are not negative;   *)
(* outside of every loop they are -1.                                       *)
LEMMA InLoop ==
  ASSUME NEW s \in Seq(Construct), NEW k \in 0..Len(s)
  PROVE  /\ BreakIn(s, k) \in Int /\ ContinueIn(s, k) \in Int /\ BreakIn(s, k) >= -1 /\ ContinueIn(s, k) >= -1
         /\ LoopIn(s, k) = 0 <=> BreakIn(s, k) < 0
         /\ LoopIn(s, k) = 0 <=> ContinueIn(s, k) < 0
<1>0. k \in Nat /\ Len(s) \in Nat
  OBVIOUS
<1>1. PICK l \in 0..k : l = LoopIn(s, k) /\ (l # 0 => s[l].kind \in Loops)
  BY <1>0, LoopInIs DEF Nearest
<1>2. CASE l = 0
  BY <1>1, <1>2 DEF BreakIn, ContinueIn
<1>3. CASE l # 0
  <2>1. l \in 1..Len(s) /\ s[l] \in Construct /\ l - 1 \in 0..Len(s) /\ k \in l..Len(s) /\ l \in 0..Len(s)
    BY <1>0, <1>1, <1>3
  <2>2. BlocksOf(s[l]) \in 2..3
    BY <1>1, <1>3, <2>1, BlocksAre
  <2>3. Outer(s)[l] = Outer(s)[l - 1] + BlocksOf(s[l]) /\ Outer(s)[l] <= Outer(s)[k]
    BY <2>1, OuterIs
  <2>4. Outer(s)[l] \in Int /\ Outer(s)[l - 1] \in Int /\ Outer(s)[k] \in Int
    BY <2>1, OuterIs
  <2>5. BreakIn(s, k) = Outer(s)[k] - Outer(s)[l - 1] - 1 /\ ContinueIn(s, k) = Outer(s)[k] - Outer(s)[l]
    BY <1>1, <1>3 DEF BreakIn, ContinueIn
  <2>6. BreakIn(s, k) \in Nat /\ ContinueIn(s, k) \in Nat
    <3>1. PICK a \in Int : a = Outer(s)[l - 1]
      BY <2>4
    <3>2. PICK b \in 2..3 : b = BlocksOf(s[l])
      BY <2>2
    <3>3. PICK c \in Int : c = Outer(s)[k]
      BY <2>4
    <3>4. Outer(s)[l] = a + b /\ a + b <= c
      BY <2>3, <3>1, <3>2, <3>3
    <3>5. c - a - 1 \in Nat /\ c - (a + b) \in Nat
      BY <3>4
    <3>6. QED
      BY <2>5, <3>1, <3>3, <3>4, <3>5
  <2>7. QED
    BY <1>1, <1>3, <2>6
<1>4. QED
  BY <1>2, <1>3

(* What a sequence of constructs and the depths inside it are.              *)
LEMMA InsideIs ==
  ASSUME NEW s, NEW x, NEW b, NEW c, NEW f, Inside(s, x, b, c, f)
  PROVE  s \in Seq(Construct) /\ x \in Nat /\ b \in Int /\ c \in Int /\ b >= -1 /\ c >= -1 /\ f \in Nat
<1>1. s \in Seq(Construct) /\ x = Outer(s)[Len(s)] /\ b = BreakIn(s, Len(s)) /\ c = ContinueIn(s, Len(s))
      /\ f = Fors(s)[Len(s)]
  BY DEF Inside
<1>2. Len(s) \in Nat /\ Len(s) \in 0..Len(s) /\ 0 \in 0..Len(s)
  BY <1>1
<1>3. x \in Int /\ Outer(s)[0] = 0 /\ Outer(s)[0] <= x
  BY <1>1, <1>2, OuterIs
<1>4. f \in Int /\ Fors(s)[0] = 0 /\ Fors(s)[0] <= f
  BY <1>1, <1>2, ForsIs
<1>5. QED
  BY <1>1, <1>2, <1>3, <1>4, InLoop

(* A construct more: t is s, and e after the n constructs of s.             *)
Longer(s, e, t, n) ==
  /\ t \in Seq(Construct) /\ Len(t) = n + 1 /\ t[n + 1] = e /\ n \in Nat
  /\ \A i \in 1..n : t[i] = s[i]
  /\ FirstAlike(t, s, n)
  /\ Outer(t)[n + 1] = Outer(s)[n] + BlocksOf(e)
  /\ Fors(t)[n + 1] = Fors(s)[n] + (IF e.kind = "for" THEN 1 ELSE 0)
  /\ LoopIn(t, n + 1) = IF e.kind \in Loops THEN n + 1 ELSE LoopIn(s, n)

(* What a sequence with one more construct is.                              *)
LEMMA PushIs ==
  ASSUME NEW s \in Seq(Construct), NEW e \in Construct, NEW t, t = Append(s, e), NEW n, n = Len(s)
  PROVE  Longer(s, e, t, n)
<1>1. t \in Seq(Construct) /\ Len(t) = n + 1 /\ t[n + 1] = e /\ n \in Nat /\ \A i \in 1..n : t[i] = s[i]
  OBVIOUS
<1>2. FirstAlike(t, s, n)
  BY <1>1 DEF FirstAlike
<1>3. Outer(t)[n] = Outer(s)[n] /\ Fors(t)[n] = Fors(s)[n] /\ LoopIn(t, n) = LoopIn(s, n)
  <2>1. n \in 0..n
    BY <1>1
  <2>2. QED
    BY <1>1, <1>2, <2>1, AlikeSums
<1>4. n + 1 \in 1..Len(t) /\ (n + 1) - 1 = n
  BY <1>1
<1>5. Outer(t)[n + 1] = Outer(s)[n] + BlocksOf(e)
  <2>1. Outer(t)[n + 1] = Outer(t)[(n + 1) - 1] + BlocksOf(t[n + 1])
    BY <1>1, <1>4, OuterIs
  <2>2. QED
    BY <1>1, <1>3, <1>4, <2>1
<1>6. Fors(t)[n + 1] = Fors(s)[n] + (IF e.kind = "for" THEN 1 ELSE 0)
  <2>1. Fors(t)[n + 1] = Fors(t)[(n + 1) - 1] + (IF t[n + 1].kind = "for" THEN 1 ELSE 0)
    BY <1>1, <1>4, ForsIs
  <2>2. QED
    BY <1>1, <1>3, <1>4, <2>1
<1>7. Nearest(t, n, LoopIn(t, n))
  BY <1>1, LoopInIs
<1>8. ASSUME e.kind \notin Loops PROVE LoopIn(t, n + 1) = LoopIn(s, n)
  <2>1. Nearest(t, n + 1, LoopIn(t, n))
    BY <1>1, <1>7, <1>8 DEF Nearest
  <2>2. QED
    BY <1>1, <1>3, <2>1, LoopInIs
<1>9. ASSUME e.kind \in Loops PROVE LoopIn(t, n + 1) = n + 1
  <2>1. Nearest(t, n + 1, n + 1)
    BY <1>1, <1>9 DEF Nearest
  <2>2. QED
    BY <1>1, <2>1, LoopInIs
<1>10. QED
  BY <1>1, <1>2, <1>5, <1>6, <1>8, <1>9 DEF Longer

(* A construct opens: the depths are those inside it.                       *)
LEMMA PushKeeps ==
  ASSUME NEW s, NEW x, NEW b, NEW c, NEW f, Inside(s, x, b, c, f),
         NEW e \in Construct, e.break = b, e.continue = c, NEW k, k = BlocksOf(e)
  PROVE  /\ e.kind \notin Loops => Inside(Append(s, e), x + k, Deepened(b, k), Deepened(c, k), f)
         /\ e.kind \in Loops => Inside(Append(s, e), x + LoopDepths(e.kind)[3], LoopDepths(e.kind)[1],
                                       LoopDepths(e.kind)[2], f + (IF e.kind = "for" THEN 1 ELSE 0))
<1>0. e \in Construct
  OBVIOUS
<1>1. PICK t : t = Append(s, e)
  OBVIOUS
<1>2. PICK n : n = Len(s)
  OBVIOUS
<1>3. s \in Seq(Construct) /\ x \in Nat /\ b \in Int /\ c \in Int /\ b >= -1 /\ c >= -1 /\ f \in Nat
  BY InsideIs
<1>4. /\ t \in Seq(Construct) /\ Len(t) = n + 1 /\ t[n + 1] = e /\ n \in Nat
      /\ \A i \in 1..n : t[i] = s[i]
      /\ FirstAlike(t, s, n)
      /\ Outer(t)[n + 1] = Outer(s)[n] + BlocksOf(e)
      /\ Fors(t)[n + 1] = Fors(s)[n] + (IF e.kind = "for" THEN 1 ELSE 0)
      /\ LoopIn(t, n + 1) = IF e.kind \in Loops THEN n + 1 ELSE LoopIn(s, n)
  <2>1. Longer(s, e, t, n)
    BY ONLY <1>0, <1>1, <1>2, <1>3, PushIs
  <2>2. QED
    BY ONLY <2>1 DEF Longer
<1>5. x = Outer(s)[n] /\ b = BreakIn(s, n) /\ c = ContinueIn(s, n) /\ f = Fors(s)[n]
  BY <1>2 DEF Inside
<1>6. ASSUME NEW i \in 1..n + 1 PROVE t[i].break = BreakIn(t, i - 1) /\ t[i].continue = ContinueIn(t, i - 1)
  <2>1. i - 1 \in 0..n
    BY <1>4
  <2>2. BreakIn(t, i - 1) = BreakIn(s, i - 1) /\ ContinueIn(t, i - 1) = ContinueIn(s, i - 1)
    BY <1>3, <1>4, <2>1, AlikeSums
  <2>3. CASE i = n + 1
    <3>1. i - 1 = n /\ t[i] = e
      BY <1>4, <2>3
    <3>2. QED
      BY <1>5, <2>2, <3>1
  <2>4. CASE i # n + 1
    <3>1. i \in 1..Len(s) /\ t[i] = s[i]
      BY <1>2, <1>4, <2>4
    <3>2. QED
      BY <2>2, <3>1 DEF Inside
  <2>5. QED
    BY <2>3, <2>4
<1>7. Outer(t)[n + 1] = x + k /\ Fors(t)[n + 1] = f + (IF e.kind = "for" THEN 1 ELSE 0)
  BY <1>4, <1>5
<1>8. ASSUME e.kind \notin Loops
      PROVE  BreakIn(t, n + 1) = Deepened(b, k) /\ ContinueIn(t, n + 1) = Deepened(c, k)
  <2>1. PICK l \in 0..n : l = LoopIn(s, n) /\ l = LoopIn(t, n + 1)
    BY <1>3, <1>4, <1>8, LoopInIs DEF Nearest
  <2>2. (l = 0 <=> b < 0) /\ (l = 0 <=> c < 0)
    <3>1. n \in 0..Len(s)
      BY <1>2, <1>4
    <3>2. QED
      BY <1>3, <1>5, <2>1, <3>1, InLoop
  <2>3. CASE l = 0
    <3>1. b = -1 /\ c = -1 /\ BreakIn(t, n + 1) = -1 /\ ContinueIn(t, n + 1) = -1
      BY <1>3, <2>1, <2>2, <2>3 DEF BreakIn, ContinueIn
    <3>2. QED
      BY <3>1 DEF Deepened
  <2>4. CASE l # 0
    <3>1. l - 1 \in 0..n /\ l \in 0..n
      BY <1>4, <2>1, <2>4
    <3>2. Outer(t)[l] = Outer(s)[l] /\ Outer(t)[l - 1] = Outer(s)[l - 1]
      BY <1>3, <1>4, <3>1, AlikeSums
    <3>3. Outer(s)[l] \in Int /\ Outer(s)[l - 1] \in Int /\ k \in Nat
      BY <1>2, <1>3, <3>1, OuterIs, BlocksAre
    <3>4. /\ b = x - Outer(s)[l - 1] - 1 /\ c = x - Outer(s)[l]
          /\ BreakIn(t, n + 1) = (x + k) - Outer(s)[l - 1] - 1 /\ ContinueIn(t, n + 1) = (x + k) - Outer(s)[l]
      BY <1>5, <1>7, <2>1, <2>4, <3>2 DEF BreakIn, ContinueIn
    <3>5. b >= 0 /\ c >= 0
      BY <1>3, <2>2, <2>4
    <3>6. BreakIn(t, n + 1) = b + k /\ ContinueIn(t, n + 1) = c + k
      <4>1. PICK p \in Int : p = Outer(s)[l - 1]
        BY <3>3
      <4>2. PICK q \in Int : q = Outer(s)[l]
        BY <3>3
      <4>3. k \in Int /\ x \in Int
        BY <1>3, <3>3
      <4>4. (x + k) - p - 1 = (x - p - 1) + k /\ (x + k) - q = (x - q) + k
        BY ONLY <4>1, <4>2, <4>3, p \in Int, q \in Int
      <4>5. QED
        BY ONLY <3>4, <4>1, <4>2, <4>4
    <3>7. QED
      BY <3>5, <3>6 DEF Deepened
  <2>5. QED
    BY <2>3, <2>4
<1>9. ASSUME e.kind \in Loops
      PROVE  /\ BreakIn(t, n + 1) = LoopDepths(e.kind)[1] /\ ContinueIn(t, n + 1) = LoopDepths(e.kind)[2]
             /\ k = LoopDepths(e.kind)[3]
  <2>1. LoopIn(t, n + 1) = n + 1 /\ n + 1 # 0 /\ (n + 1) - 1 = n
    BY <1>4, <1>9
  <2>2. Outer(t)[n] = x
    <3>1. n \in 0..n
      BY <1>4
    <3>2. QED
      BY <1>3, <1>4, <1>5, <3>1, AlikeSums
  <2>3. /\ BreakIn(t, n + 1) = (x + k) - x - 1
        /\ ContinueIn(t, n + 1) = (x + k) - (x + k)
    BY <1>7, <2>1, <2>2 DEF BreakIn, ContinueIn
  <2>4. /\ k = LoopDepths(e.kind)[3] /\ k \in 2..3 /\ LoopDepths(e.kind)[2] = 0
        /\ LoopDepths(e.kind)[1] \in 1..2 /\ LoopDepths(e.kind)[3] = LoopDepths(e.kind)[1] + 1
    BY <1>9, BlocksAre
  <2>5. QED
    BY ONLY <1>3, <2>3, <2>4
<1>10. ASSUME e.kind \notin Loops PROVE Inside(t, x + k, Deepened(b, k), Deepened(c, k), f)
  <2>1. e.kind # "for"
    BY <1>10 DEF Loops
  <2>2. Fors(t)[n + 1] = f
    BY <1>3, <1>7, <2>1
  <2>3. QED
    BY <1>4, <1>6, <1>7, <1>8, <1>10, <2>2 DEF Inside
<1>11. ASSUME e.kind \in Loops
       PROVE  Inside(t, x + LoopDepths(e.kind)[3], LoopDepths(e.kind)[1], LoopDepths(e.kind)[2],
                     f + (IF e.kind = "for" THEN 1 ELSE 0))
  BY <1>4, <1>6, <1>7, <1>9, <1>11 DEF Inside
<1>12. QED
  BY <1>1, <1>10, <1>11

(* A construct closes: the depths it was opened with are back.  Of s, e is  *)
(* the last construct and t those before it; e has k blocks open.           *)
Closed(s, x, b, c, f, e, t, k) ==
  /\ e \in Construct /\ s = Append(t, e) /\ t \in Seq(Construct) /\ k \in Nat
  /\ Inside(t, x - k, e.break, e.continue, f - (IF e.kind = "for" THEN 1 ELSE 0))
  /\ e.kind \notin Loops => b = Deepened(e.break, k) /\ c = Deepened(e.continue, k)

(* Without its last construct a nest has the depths that one was opened with.*)
LEMMA PopKeeps ==
  ASSUME NEW s, NEW x, NEW b, NEW c, NEW f, Inside(s, x, b, c, f), s # <<>>,
         NEW e, e = s[Len(s)], NEW t, t = SubSeq(s, 1, Len(s) - 1), NEW k, k = BlocksOf(e)
  PROVE  Closed(s, x, b, c, f, e, t, k)
<1>1. s \in Seq(Construct) /\ x \in Nat /\ b \in Int /\ c \in Int /\ b >= -1 /\ c >= -1 /\ f \in Nat
  BY InsideIs
<1>2. PICK n : n = Len(t)
  OBVIOUS
<1>3. t \in Seq(Construct) /\ Len(s) = n + 1 /\ n \in Nat /\ e \in Construct /\ s = Append(t, e)
  <2>1. Len(s) \in Nat \ {0} /\ \A i \in 1..Len(s) : s[i] \in Construct
    BY <1>1
  <2>2. t \in Seq(Construct) /\ Len(t) = Len(s) - 1 /\ \A i \in 1..Len(s) - 1 : t[i] = s[i]
    <3>1. PICK m \in Nat : m = Len(s) - 1
      BY <2>1
    <3>2. t = SubSeq(s, 1, m) /\ 1 \in Int /\ m \in Int /\ \A i \in 1..m : s[i] \in Construct
      BY <2>1, <3>1
    <3>3. /\ SubSeq(s, 1, m) \in Seq(Construct) /\ Len(SubSeq(s, 1, m)) = IF 1 <= m THEN m - 1 + 1 ELSE 0
          /\ \A i \in 1..m - 1 + 1 : SubSeq(s, 1, m)[i] = s[1 + i - 1]
      BY ONLY <3>2, SubSeqProperties
    <3>4. QED
      BY <3>1, <3>2, <3>3
  <2>3. e \in Construct
    BY <2>1
  <2>4. s = Append(t, e)
    <3>1. PICK r : r = Append(t, e)
      OBVIOUS
    <3>2. r \in Seq(Construct) /\ Len(r) = Len(s) /\ \A i \in 1..Len(s) : r[i] = s[i]
      BY <2>1, <2>2, <2>3, <3>1
    <3>3. r = s
      BY <1>1, <2>1, <3>2, SeqEqual
    <3>4. QED
      BY <3>1, <3>3
  <2>5. QED
    BY <1>2, <2>1, <2>2, <2>3, <2>4
<1>4. /\ s[n + 1] = e /\ \A i \in 1..n : s[i] = t[i]
      /\ FirstAlike(s, t, n)
      /\ Outer(s)[n + 1] = Outer(t)[n] + BlocksOf(e)
      /\ Fors(s)[n + 1] = Fors(t)[n] + (IF e.kind = "for" THEN 1 ELSE 0)
  <2>1. Longer(t, e, s, n)
    BY ONLY <1>2, <1>3, PushIs
  <2>2. QED
    BY ONLY <2>1 DEF Longer
<1>5. k \in Nat
  BY <1>3, BlocksAre
<1>6. n \in 0..n /\ n \in 0..Len(t)
  BY <1>2, <1>3
<1>7. Outer(t)[n] \in Int /\ Fors(t)[n] \in Int
  BY <1>3, <1>6, OuterIs, ForsIs
<1>8. x = Outer(s)[n + 1] /\ f = Fors(s)[n + 1] /\ \A i \in 1..n + 1 : s[i].break = BreakIn(s, i - 1)
                                                              /\ s[i].continue = ContinueIn(s, i - 1)
  BY <1>3 DEF Inside
<1>9. x - k = Outer(t)[n] /\ f - (IF e.kind = "for" THEN 1 ELSE 0) = Fors(t)[n]
  BY <1>4, <1>5, <1>7, <1>8
<1>10. ASSUME NEW i \in 1..n + 1
       PROVE  s[i].break = BreakIn(t, i - 1) /\ s[i].continue = ContinueIn(t, i - 1)
  <2>1. i - 1 \in 0..n
    BY <1>3
  <2>2. BreakIn(t, i - 1) = BreakIn(s, i - 1) /\ ContinueIn(t, i - 1) = ContinueIn(s, i - 1)
    BY <1>1, <1>3, <1>4, <2>1, AlikeSums
  <2>3. QED
    BY <1>8, <2>2
<1>11. e.break = BreakIn(t, n) /\ e.continue = ContinueIn(t, n)
  <2>1. n + 1 \in 1..n + 1 /\ (n + 1) - 1 = n
    BY <1>3
  <2>2. s[n + 1].break = BreakIn(t, (n + 1) - 1) /\ s[n + 1].continue = ContinueIn(t, (n + 1) - 1)
    BY <1>10, <2>1
  <2>3. QED
    BY <1>4, <2>1, <2>2
<1>12. \A i \in 1..n : t[i].break = BreakIn(t, i - 1) /\ t[i].continue = ContinueIn(t, i - 1)
  <2> TAKE i \in 1..n
  <2>1. i \in 1..n + 1 /\ s[i] = t[i]
    BY <1>3, <1>4
  <2>2. QED
    BY <1>10, <2>1
<1>13. Inside(t, x - k, e.break, e.continue, f - (IF e.kind = "for" THEN 1 ELSE 0))
  BY <1>2, <1>3, <1>9, <1>11, <1>12 DEF Inside
<1>14. ASSUME e.kind \notin Loops PROVE b = Deepened(e.break, k) /\ c = Deepened(e.continue, k)
  <2>1. PICK y : y = x - k
    OBVIOUS
  <2>2. PICK g : g = f - (IF e.kind = "for" THEN 1 ELSE 0)
    OBVIOUS
  <2>3. Inside(Append(t, e), y + k, Deepened(e.break, k), Deepened(e.continue, k), g)
    BY ONLY <1>3, <1>13, <1>14, <2>1, <2>2, k = BlocksOf(e), PushKeeps
  <2>4. QED
    BY <1>3, <2>3 DEF Inside
<1>15. QED
  BY <1>3, <1>5, <1>13, <1>14 DEF Closed

(* The construct that is open last gets other blocks.                       *)
LEMMA ReplaceKeeps ==
  ASSUME NEW s, NEW x, NEW b, NEW c, NEW f, Inside(s, x, b, c, f), s # <<>>,
         NEW e, e = s[Len(s)], NEW t, t = SubSeq(s, 1, Len(s) - 1), e.kind \notin Loops,
         NEW d \in Construct, d.kind = e.kind, d.break = e.break, d.continue = e.continue,
         NEW k \in Int, BlocksOf(d) = BlocksOf(e) + k
  PROVE  Inside(Append(t, d), x + k, Deepened(b, k), Deepened(c, k), f)
<1>1. x \in Nat /\ b \in Int /\ c \in Int /\ b >= -1 /\ c >= -1 /\ f \in Nat
  BY InsideIs
<1>2. PICK m : m = BlocksOf(e)
  OBVIOUS
<1>3. PICK g : g = f - (IF e.kind = "for" THEN 1 ELSE 0)
  OBVIOUS
<1>4. PICK y : y = x - m
  OBVIOUS
<1>5. /\ e \in Construct /\ m \in Nat
      /\ Inside(t, y, e.break, e.continue, g)
      /\ b = Deepened(e.break, m) /\ c = Deepened(e.continue, m)
  <2>1. Closed(s, x, b, c, f, e, t, m)
    BY <1>2, PopKeeps
  <2>2. QED
    BY <1>3, <1>4, <2>1, Zenon DEF Closed
<1>6. PICK p : p = m + k
  OBVIOUS
<1>7. Inside(Append(t, d), y + p, Deepened(e.break, p), Deepened(e.continue, p), g)
  BY <1>2, <1>5, <1>6, PushKeeps
<1>8. g = f
  BY <1>1, <1>3 DEF Loops
<1>9. y + p = x + k
  BY <1>1, <1>4, <1>5, <1>6
<1>10. e.break \in Int /\ e.continue \in Int
  BY <1>5 DEF Construct
<1>11. Deepened(e.break, p) = Deepened(b, k) /\ Deepened(e.continue, p) = Deepened(c, k)
  <2>1. \A u \in Int : Deepened(u, m + k) = Deepened(Deepened(u, m), k)
    BY <1>5, BlocksAre DEF Deepened
  <2>2. QED
    BY <1>5, <1>6, <1>10, <2>1
<1>12. QED
  BY <1>7, <1>8, <1>9, <1>11

(* What one instruction does to the number of open blocks.                  *)
Delta(op) == IF op \in Openers THEN 1 ELSE IF op = "end" THEN -1 ELSE 0
(* What an instruction adds to a count of named.                              *)
OneOf(op, named) == IF op \in named THEN 1 ELSE 0

(* The instructions counted are a finite set.                               *)
LEMMA CountIs ==
  ASSUME NEW code \in Seq(Instrs), NEW named, NEW n, n = Len(code)
  PROVE  /\ Count(code, named, n + 1) = Cardinality({k \in 1..n : code[k].op \in named})
         /\ IsFiniteSet({k \in 1..n : code[k].op \in named}) /\ Count(code, named, n + 1) \in Nat
<1>1. n \in Nat /\ 1..(n + 1) - 1 = 1..n
  OBVIOUS
<1>2. Count(code, named, n + 1) = Cardinality({k \in 1..n : code[k].op \in named})
  BY <1>1 DEF Count
<1>3. IsFiniteSet(1..n)
  BY <1>1, FS_Interval
<1>4. IsFiniteSet({k \in 1..n : code[k].op \in named})
  <2>1. {k \in 1..n : code[k].op \in named} \in SUBSET (1..n)
    OBVIOUS
  <2>2. QED
    BY <1>3, <2>1, FS_Subset
<1>5. QED
  BY <1>2, <1>4, FS_CardinalityType

(* An instruction emitted adds one to the count if it is one of named.        *)
LEMMA CountAppend ==
  ASSUME NEW code \in Seq(Instrs), NEW ins \in Instrs, NEW named, NEW n, n = Len(code),
         NEW t, t = Append(code, ins)
  PROVE  Count(t, named, (n + 1) + 1) = Count(code, named, n + 1) + OneOf(ins.op, named)
<1>1. /\ t \in Seq(Instrs) /\ Len(t) = n + 1 /\ n \in Nat /\ t[n + 1] = ins
      /\ \A i \in 1..n : t[i] = code[i]
  OBVIOUS
<1> DEFINE S == {k \in 1..n : code[k].op \in named}
           R == {k \in 1..n + 1 : t[k].op \in named}
<1>2. Count(code, named, n + 1) = Cardinality(S) /\ IsFiniteSet(S) /\ Cardinality(S) \in Nat
  BY CountIs
<1>3. Count(t, named, (n + 1) + 1) = Cardinality(R)
  BY <1>1, CountIs
<1>4. CASE ins.op \in named
  <2>1. R = S \cup {n + 1} /\ n + 1 \notin S
    BY <1>1, <1>4
  <2> HIDE DEF R, S
  <2>2. Cardinality(R) = Cardinality(S) + 1
    BY <1>2, <2>1, FS_AddElement
  <2>3. QED
    BY <1>2, <1>3, <1>4, <2>2 DEF OneOf
<1>5. CASE ins.op \notin named
  <2>1. R = S
    BY <1>1, <1>5
  <2> HIDE DEF R, S
  <2>2. QED
    BY <1>2, <1>3, <1>5, <2>1 DEF OneOf
<1>6. QED
  BY <1>4, <1>5

(* Code whose instructions are alike has as many of them.                   *)
LEMMA CountAlike ==
  ASSUME NEW s \in Seq(Instrs), NEW t \in Seq(Instrs), NEW n, n = Len(s), n = Len(t), NEW named,
         \A i \in 1..n : s[i].op \in named <=> t[i].op \in named
  PROVE  Count(s, named, n + 1) = Count(t, named, n + 1)
<1>1. {k \in 1..n : s[k].op \in named} = {k \in 1..n : t[k].op \in named}
  OBVIOUS
<1>2. Count(s, named, n + 1) = Cardinality({k \in 1..n : s[k].op \in named})
  BY CountIs
<1>3. Count(t, named, n + 1) = Cardinality({k \in 1..n : t[k].op \in named})
  BY CountIs
<1>4. QED
  BY <1>1, <1>2, <1>3

(* The open blocks are those opened less those closed.                      *)
LEMMA OpenBlocksAre ==
  ASSUME NEW code \in Seq(Instrs), NEW n, n = Len(code)
  PROVE  /\ OpenBlocks(code) = Count(code, Openers, n + 1) - Count(code, {"end"}, n + 1)
         /\ OpenBlocks(code) \in Int
<1>1. OpenBlocks(code) = Count(code, Openers, n + 1) - Count(code, {"end"}, n + 1)
  BY DEF OpenBlocks, Level
<1>2. Count(code, Openers, n + 1) \in Nat /\ Count(code, {"end"}, n + 1) \in Nat
  BY CountIs
<1>3. QED
  BY <1>1, <1>2

(* An instruction more.                                                     *)
LEMMA AppendOpens ==
  ASSUME NEW code \in Seq(Instrs), NEW ins \in Instrs
  PROVE  OpenBlocks(Append(code, ins)) = OpenBlocks(code) + Delta(ins.op)
<1>1. PICK n : n = Len(code)
  OBVIOUS
<1>2. PICK t : t = Append(code, ins)
  OBVIOUS
<1>3. t \in Seq(Instrs) /\ Len(t) = n + 1 /\ n \in Nat
  BY <1>1, <1>2
<1>4. PICK p \in Nat : p = Count(code, Openers, n + 1)
  BY <1>1, CountIs
<1>5. PICK q \in Nat : q = Count(code, {"end"}, n + 1)
  BY <1>1, CountIs
<1>6. /\ Count(t, Openers, (n + 1) + 1) = p + OneOf(ins.op, Openers)
      /\ Count(t, {"end"}, (n + 1) + 1) = q + OneOf(ins.op, {"end"})
  BY <1>1, <1>2, <1>4, <1>5, CountAppend
<1>7. OpenBlocks(code) = p - q
  BY <1>1, <1>4, <1>5, OpenBlocksAre
<1>8. OpenBlocks(t) = (p + OneOf(ins.op, Openers)) - (q + OneOf(ins.op, {"end"}))
  <2>1. OpenBlocks(t) = Count(t, Openers, (n + 1) + 1) - Count(t, {"end"}, (n + 1) + 1)
    BY <1>3, OpenBlocksAre
  <2>2. QED
    BY <1>6, <2>1
<1>9. QED
  BY <1>2, <1>7, <1>8 DEF Delta, OneOf, Openers

(* What an instruction emitted may make of the code: one instruction more;  *)
(* local.tee of local.set and local.get; nothing of i32.eqz twice.          *)
Extended(code, ins, t) ==
  /\ t = Append(code, ins) /\ Len(t) = Len(code) + 1 /\ t[Len(code) + 1] = ins
  /\ \A i \in 1..Len(code) : t[i] = code[i]
Teed(code, ins, t) ==
  /\ Len(code) \in 1..Len(code) /\ Len(t) = Len(code) /\ code[Len(code)].op = "set" /\ ins.op = "get"
  /\ t[Len(code)].op = "tee" /\ t[Len(code)].part = code[Len(code)].part /\ t[Len(code)].at = code[Len(code)].at
  /\ \A i \in 1..Len(code) : i # Len(code) => t[i] = code[i]
Dropped(code, ins, t) ==
  /\ Len(code) \in 1..Len(code) /\ code[Len(code)].op = "eqz" /\ ins.op = "eqz"
  /\ Len(t) = Len(code) - 1 /\ code = Append(t, code[Len(code)])
  /\ \A i \in 1..Len(code) - 1 : t[i] = code[i]

(* These are all; and the last rewrite can not be one with the next.        *)
LEMMA EmitIs ==
  ASSUME NEW b, Buffer(b), NEW ins \in Instrs
  PROVE  /\ Buffer(Emit(b, ins))
         /\ \/ Extended(b.code, ins, Emit(b, ins).code)
            \/ Teed(b.code, ins, Emit(b, ins).code)
            \/ Dropped(b.code, ins, Emit(b, ins).code)
<1>0. PICK code \in Seq(Instrs) : code = b.code
  BY DEF Buffer
<1>1. PICK n \in Nat : n = Len(code)
  OBVIOUS
<1>2. /\ b = [code |-> code, last |-> b.last] /\ b.last \in {0, n}
      /\ DOMAIN b = {"code", "last"} /\ \A i \in 1..n : code[i] \in Instrs
  <2>1. b = [code |-> code, last |-> b.last] /\ b.last \in {0, n}
    BY <1>0, <1>1 DEF Buffer
  <2>2. QED
    BY <1>1, <2>1
<1>3. CASE IsTee(b, ins)
  <2>1. b.last = n /\ n \in 1..n /\ code[n].op = "set" /\ ins.op = "get"
    BY <1>0, <1>1, <1>2, <1>3 DEF IsTee, IsPair
  <2>2. PICK t : t = [code EXCEPT ![n].op = "tee"]
    OBVIOUS
  <2>3. Emit(b, ins) = [code |-> t, last |-> n]
    BY <1>0, <1>2, <1>3, <2>1, <2>2 DEF Emit
  <2>4. PICK e : e = [code[n] EXCEPT !.op = "tee"]
    OBVIOUS
  <2>5. e \in Instrs /\ e.op = "tee" /\ e.part = code[n].part /\ e.at = code[n].at
    <3>1. code[n] \in Instrs
      BY <1>2, <2>1
    <3>2. QED
      BY <2>4, <3>1 DEF Instrs, Fits, OpNames
  <2>6. t \in Seq(Instrs) /\ Len(t) = n /\ t[n] = e /\ \A i \in 1..n : i # n => t[i] = code[i]
    <3>1. t = [code EXCEPT ![n] = e]
      BY <2>2, <2>4
    <3>2. t[n] = e /\ \A i \in 1..n : i # n => t[i] = code[i]
      BY <1>1, <2>1, <3>1
    <3>3. t \in Seq(Instrs) /\ Len(t) = n
      BY <1>1, <2>1, <2>5, <3>1
    <3>4. QED
      BY <3>2, <3>3
  <2>7. Teed(code, ins, t)
    BY <1>1, <2>1, <2>5, <2>6 DEF Teed
  <2>8. QED
    BY <1>0, <1>1, <2>3, <2>6, <2>7 DEF Buffer
<1>4. CASE ~IsTee(b, ins) /\ IsNothing(b, ins)
  <2>1. b.last = n /\ n \in 1..n /\ code[n].op = "eqz" /\ ins.op = "eqz"
    BY <1>0, <1>1, <1>2, <1>4 DEF IsNothing, IsPair
  <2>2. PICK m \in Nat : m = n - 1
    BY <2>1
  <2>3. PICK t : t = SubSeq(code, 1, m)
    OBVIOUS
  <2>4. Emit(b, ins) = [code |-> t, last |-> 0]
    BY <1>0, <1>2, <1>4, <2>1, <2>2, <2>3 DEF Emit
  <2>5. t \in Seq(Instrs) /\ Len(t) = m /\ \A i \in 1..m : t[i] = code[i]
    <3>1. 1 \in Int /\ m \in Int /\ \A i \in 1..m : code[i] \in Instrs
      BY <1>2, <2>2
    <3>2. /\ SubSeq(code, 1, m) \in Seq(Instrs) /\ Len(SubSeq(code, 1, m)) = IF 1 <= m THEN m - 1 + 1 ELSE 0
          /\ \A i \in 1..m - 1 + 1 : SubSeq(code, 1, m)[i] = code[1 + i - 1]
      BY ONLY <3>1, SubSeqProperties
    <3>3. QED
      BY <2>2, <2>3, <3>2
  <2>6. code = Append(t, code[n])
    <3>1. code[n] \in Instrs
      BY <1>2, <2>1
    <3>2. PICK r : r = Append(t, code[n])
      OBVIOUS
    <3>3. r \in Seq(Instrs) /\ Len(r) = n /\ \A i \in 1..n : r[i] = code[i]
      BY <2>2, <2>5, <3>1, <3>2
    <3>4. r = code
      BY <1>1, <3>3, SeqEqual
    <3>5. QED
      BY <3>2, <3>4
  <2>7. Dropped(code, ins, t)
    BY <1>1, <2>1, <2>2, <2>5, <2>6 DEF Dropped
  <2>8. QED
    BY <1>0, <2>4, <2>5, <2>7 DEF Buffer
<1>5. CASE ~IsTee(b, ins) /\ ~IsNothing(b, ins)
  <2>1. PICK t : t = Append(code, ins)
    OBVIOUS
  <2>2. Emit(b, ins) = [code |-> t, last |-> Window(b, ins.op)]
    BY <1>0, <1>5, <2>1 DEF Emit
  <2>3. /\ t \in Seq(Instrs) /\ Len(t) = n + 1 /\ t[n + 1] = ins
        /\ \A i \in 1..n : t[i] = code[i]
    BY <1>1, <2>1
  <2>4. Window(b, ins.op) \in {0, n + 1}
    BY <1>0, <1>1 DEF Window
  <2>5. Extended(code, ins, t)
    BY <1>1, <2>1, <2>3 DEF Extended
  <2>6. QED
    BY <1>0, <1>1, <2>2, <2>3, <2>4, <2>5 DEF Buffer
<1>6. QED
  BY <1>3, <1>4, <1>5

(* What is emitted, rewritten or not, opens and closes what its instruction *)
(* does.                                                                    *)
LEMMA EmitDoes ==
  ASSUME NEW b, Buffer(b), NEW ins \in Instrs
  PROVE  /\ Buffer(Emit(b, ins))
         /\ OpenBlocks(Emit(b, ins).code) = OpenBlocks(b.code) + Delta(ins.op)
<1>0. PICK code \in Seq(Instrs) : code = b.code
  BY DEF Buffer
<1>1. PICK n \in Nat : n = Len(code)
  OBVIOUS
<1>2. Buffer(Emit(b, ins))
  BY EmitIs
<1>3. PICK t \in Seq(Instrs) : t = Emit(b, ins).code
  BY <1>2 DEF Buffer
<1>4. OpenBlocks(code) \in Int /\ OpenBlocks(t) \in Int
  <2>1. PICK m : m = Len(t)
    OBVIOUS
  <2>2. QED
    BY <1>1, <2>1, OpenBlocksAre
<1>5. Extended(code, ins, t) \/ Teed(code, ins, t) \/ Dropped(code, ins, t)
  BY <1>0, <1>3, EmitIs
<1>6. CASE Extended(code, ins, t)
  BY <1>0, <1>2, <1>3, <1>6, AppendOpens DEF Extended
<1>7. CASE Teed(code, ins, t)
  <2>1. ASSUME NEW named, "set" \notin named, "tee" \notin named
        PROVE  Count(t, named, n + 1) = Count(code, named, n + 1)
    <3>1. \A i \in 1..n : t[i].op \in named <=> code[i].op \in named
      BY <1>1, <1>7, <2>1 DEF Teed
    <3>2. Len(t) = n
      BY <1>1, <1>7 DEF Teed
    <3>3. QED
      BY <1>1, <3>1, <3>2, CountAlike
  <2>2. OpenBlocks(t) = OpenBlocks(code)
    <3>1. Count(t, Openers, n + 1) = Count(code, Openers, n + 1)
      BY <2>1 DEF Openers
    <3>2. Count(t, {"end"}, n + 1) = Count(code, {"end"}, n + 1)
      BY <2>1
    <3>3. Len(t) = n
      BY <1>1, <1>7 DEF Teed
    <3>4. QED
      BY <1>1, <3>1, <3>2, <3>3, OpenBlocksAre
  <2>3. Delta(ins.op) = 0
    BY <1>7 DEF Teed, Delta, Openers
  <2>4. QED
    BY <1>0, <1>2, <1>3, <1>4, <2>2, <2>3
<1>8. CASE Dropped(code, ins, t)
  <2>1. code[n].op = "eqz" /\ ins.op = "eqz" /\ code = Append(t, code[n]) /\ n \in 1..n
    BY <1>1, <1>8 DEF Dropped
  <2>2. code[n] \in Instrs
    BY <1>1, <2>1
  <2>3. OpenBlocks(code) = OpenBlocks(t) + Delta(code[n].op)
    BY <2>1, <2>2, AppendOpens
  <2>4. Delta(code[n].op) = 0 /\ Delta(ins.op) = 0
    BY <2>1 DEF Delta, Openers
  <2>5. QED
    BY <1>0, <1>2, <1>3, <1>4, <2>3, <2>4
<1>9. QED
  BY <1>5, <1>6, <1>7, <1>8

(* Instructions that open m blocks more than they close.                    *)
Opened(s, net, m) ==
  /\ s \in Seq(Instrs) /\ net \in [0..Len(s) -> Int] /\ net[0] = 0 /\ net[Len(s)] = m
  /\ \A k \in 1..Len(s) : net[k] = net[k - 1] + Delta(s[k].op)
(* The instructions s open m blocks, less those they close.                 *)
NetIs(s, m) == \E net : Opened(s, net, m)

(* What a sequence emits, instruction by instruction.                       *)
Emitted(b, s, g) ==
  /\ g[0] = b /\ g[Len(s)] = EmitAll(b, s) /\ \A i \in 0..Len(s) : Buffer(g[i])
  /\ \A i \in 1..Len(s) : g[i] = Emit(g[i - 1], s[i])

(* There is such a run for every sequence.                                  *)
LEMMA EmitAllRuns ==
  ASSUME NEW b, Buffer(b), NEW s \in Seq(Instrs)
  PROVE  \E g : Emitted(b, s, g)
<1>2. PICK n \in Nat : n = Len(s)
  OBVIOUS
<1> DEFINE B == {y \in [code : Seq(Instrs), last : Nat] : Buffer(y)}
           F == [i \in 1..n |-> [y \in B |-> Emit(y, s[i])]]
           Is(f) == f = [i \in 0..n |-> IF i = 0 THEN b ELSE Emit(f[i - 1], s[i])]
           d == CHOOSE f : Is(f)
<1>3. b \in B /\ \A i \in 1..n : s[i] \in Instrs
  BY <1>2 DEF Buffer
<1>4. \A i \in 1..n : \A y \in B : Emit(y, s[i]) \in B
  <2> TAKE i \in 1..n
  <2> TAKE y \in B
  <2>1. Buffer(Emit(y, s[i]))
    BY <1>3, EmitDoes
  <2>2. QED
    BY <2>1 DEF Buffer
<1>5. PICK g \in [0..n -> B] : Iterates(g, b, F, n)
  <2>1. F \in Steps(n, B)
    BY <1>4 DEF Steps
  <2> HIDE DEF F, B
  <2>2. QED
    BY ONLY <1>3, <2>1, n \in Nat, Iterated
<1>6. Is(g)
  <2>1. \A i \in 1..n : g[i] = Emit(g[i - 1], s[i])
    <3> TAKE i \in 1..n
    <3> HIDE DEF F, B
    <3>0. i - 1 \in 0..n
      BY <1>2
    <3>1. g[i - 1] \in B
      BY <1>5, <3>0
    <3>2. g[i] = F[i][g[i - 1]]
      BY <1>5 DEF Iterates
    <3> USE DEF F
    <3>3. QED
      BY <3>1, <3>2
  <2>2. g[0] = b /\ g = [i \in 0..n |-> g[i]]
    <3> HIDE DEF F, B
    <3>1. QED
      BY <1>5 DEF Iterates
  <2>3. \A i \in 0..n : i = 0 \/ i \in 1..n
    OBVIOUS
  <2>4. \A i \in 0..n : g[i] = IF i = 0 THEN b ELSE Emit(g[i - 1], s[i])
    BY ONLY <2>1, <2>2, <2>3
  <2>5. QED
    BY ONLY <2>2, <2>4
<1>7. Is(d)
  <2> HIDE DEF Is
  <2>1. QED
    BY <1>6
<1>8. EmitAll(b, s) = d[n]
  BY <1>2 DEF EmitAll
<1>9. d[0] = b /\ \A i \in 1..n : d[i] = Emit(d[i - 1], s[i])
  <2>1. \A f : Is(f) => f[0] = b /\ \A i \in 1..n : f[i] = Emit(f[i - 1], s[i])
    OBVIOUS
  <2> HIDE DEF d, Is
  <2>2. QED
    BY <1>7, <2>1
<1> HIDE DEF d, F, B, Is
<1> DEFINE T == {i \in 0..n : Buffer(d[i])}
<1>10. 0 \in T
  BY <1>9
<1>11. ASSUME NEW i \in 0..n - 1, i \in T PROVE i + 1 \in T
  <2>1. PICK j \in 1..n : j = i + 1 /\ j - 1 = i
    BY <1>2
  <2>2. d[j] = Emit(d[i], s[j]) /\ Buffer(d[i])
    BY <1>9, <1>11, <2>1
  <2>3. Buffer(d[j])
    BY <1>3, <2>2, EmitDoes
  <2>4. QED
    BY <2>1, <2>3
<1>12. 0..n \subseteq T
  <2> HIDE DEF T
  <2>1. QED
    BY <1>10, <1>11, CountUp
<1>13. QED
  BY <1>2, <1>8, <1>9, <1>12 DEF Emitted

(* A sequence emitted opens m blocks, whatever is rewritten on the way.     *)
LEMMA EmitAllDoes ==
  ASSUME NEW b, Buffer(b), NEW s, NEW m, NetIs(s, m)
  PROVE  Buffer(EmitAll(b, s)) /\ OpenBlocks(EmitAll(b, s).code) = OpenBlocks(b.code) + m /\ m \in Int
<1>1. PICK net : Opened(s, net, m)
  BY DEF NetIs
<1>2. PICK n \in Nat : n = Len(s)
  BY <1>1 DEF Opened
<1>3. \A i \in 1..n : s[i] \in Instrs
  BY <1>1, <1>2 DEF Opened
<1>4. PICK d : Emitted(b, s, d)
  BY <1>1, EmitAllRuns DEF Opened
<1>8. EmitAll(b, s) = d[n]
  BY <1>2, <1>4 DEF Emitted
<1>9. d[0] = b /\ \A i \in 1..n : d[i] = Emit(d[i - 1], s[i])
  BY <1>2, <1>4 DEF Emitted
<1>10. net \in [0..n -> Int] /\ net[0] = 0 /\ net[n] = m
       /\ \A k \in 1..n : net[k] = net[k - 1] + Delta(s[k].op)
  BY <1>1, <1>2 DEF Opened
<1>11. OpenBlocks(b.code) \in Int
  BY OpenBlocksAre DEF Buffer
<1> DEFINE T == {i \in 0..n : Buffer(d[i]) /\ OpenBlocks(d[i].code) = OpenBlocks(b.code) + net[i]}
<1>12. 0 \in T
  BY <1>9, <1>10, <1>11
<1>13. ASSUME NEW i \in 0..n - 1, i \in T PROVE i + 1 \in T
  <2>1. PICK j \in 1..n : j = i + 1 /\ j - 1 = i
    BY <1>2
  <2>2. d[j] = Emit(d[i], s[j]) /\ net[j] = net[i] + Delta(s[j].op)
    BY <1>9, <1>10, <2>1
  <2>3. Buffer(d[i]) /\ OpenBlocks(d[i].code) = OpenBlocks(b.code) + net[i]
    BY <1>13
  <2>4. Buffer(d[j]) /\ OpenBlocks(d[j].code) = OpenBlocks(d[i].code) + Delta(s[j].op)
    BY <1>3, <2>2, <2>3, EmitDoes
  <2>5. net[i] \in Int /\ Delta(s[j].op) \in Int
    BY <1>10 DEF Delta
  <2>6. OpenBlocks(d[j].code) = OpenBlocks(b.code) + net[j]
    BY <1>11, <2>2, <2>3, <2>4, <2>5
  <2>7. QED
    BY <2>1, <2>4, <2>6
<1>14. 0..n \subseteq T
  <2> HIDE DEF T
  <2>1. QED
    BY <1>12, <1>13, CountUp
<1>15. n \in T
  BY <1>14
<1>16. m \in Int
  BY <1>10
<1>17. QED
  BY <1>8, <1>10, <1>15, <1>16

(* The instructions that statements are made of, but for the places.        *)
LEMMA InsIs == \A op \in OpNames, n \in Int : Ins(op, n) \in Instrs /\ Ins(op, n).op = op
<1> TAKE op \in OpNames, n \in Int
<1>1. Ins(op, n) = [op |-> op, n |-> n, at |-> 0, part |-> Nowhere]
  BY Zenon DEF Ins, Nowhere
<1>2. Nowhere \in PartNames /\ Nowhere \notin TakeParts
  BY Zenon DEF PartNames, TakeParts, Nowhere
<1>3. QED
  BY <1>1, <1>2 DEF Instrs, Fits

(* What one instruction opens.                                              *)
LEMMA NetOne ==
  ASSUME NEW a \in Instrs
  PROVE  NetIs(<<a>>, Delta(a.op))
<1>1. PICK s \in Seq(Instrs) : s = <<a>> /\ Len(s) = 1 /\ s[1] = a
  <2>1. <<a>> \in Seq(Instrs)
    OBVIOUS
  <2>2. Len(<<a>>) = 1 /\ <<a>>[1] = a
    OBVIOUS
  <2>3. QED
    BY <2>1, <2>2
<1>2. PICK d \in Int : d = Delta(a.op)
  BY DEF Delta
<1>3. PICK net : net = [k \in 0..1 |-> IF k = 0 THEN 0 ELSE d]
  OBVIOUS
<1>4. Opened(s, net, d)
  BY <1>1, <1>2, <1>3 DEF Opened
<1>5. QED
  BY <1>1, <1>2, <1>4 DEF NetIs

(* Nothing opens nothing.                                                   *)
LEMMA NetNone == NetIs(<<>>, 0)
<1>1. PICK net : net = [k \in 0..0 |-> 0]
  OBVIOUS
<1>2. Opened(<<>>, net, 0)
  BY <1>1 DEF Opened
<1>3. QED
  BY <1>2 DEF NetIs

(* One sequence after another opens what both open.                         *)
LEMMA NetBoth ==
  ASSUME NEW p, NEW q, NEW m, NEW n, NetIs(p, m), NetIs(q, n)
  PROVE  NetIs(p \o q, m + n)
<1>1. PICK f : Opened(p, f, m)
  BY DEF NetIs
<1>2. PICK g : Opened(q, g, n)
  BY DEF NetIs
<1>3. PICK a \in Nat : a = Len(p)
  BY <1>1 DEF Opened
<1>4. PICK b \in Nat : b = Len(q)
  BY <1>2 DEF Opened
<1>5. PICK s \in Seq(Instrs) : s = p \o q
  <2>1. p \in Seq(Instrs) /\ q \in Seq(Instrs)
    BY <1>1, <1>2 DEF Opened
  <2>2. p \o q \in Seq(Instrs)
    BY <2>1
  <2>3. QED
    BY <2>2
<1>6. Len(s) = a + b /\ (\A i \in 1..a : s[i] = p[i]) /\ (\A i \in 1..b : s[a + i] = q[i])
  BY <1>1, <1>2, <1>3, <1>4, <1>5 DEF Opened
<1>7. /\ f \in [0..a -> Int] /\ f[0] = 0 /\ f[a] = m /\ \A k \in 1..a : f[k] = f[k - 1] + Delta(p[k].op)
      /\ g \in [0..b -> Int] /\ g[0] = 0 /\ g[b] = n
  BY <1>1, <1>2, <1>3, <1>4 DEF Opened
<1>8. \A k \in 1..b : g[k] = g[k - 1] + Delta(q[k].op)
  BY <1>2, <1>4 DEF Opened
<1>9. m \in Int /\ n \in Int
  BY <1>7
<1>10. PICK net : net = [k \in 0..a + b |-> IF k <= a THEN f[k] ELSE m + g[k - a]]
  OBVIOUS
<1>11. \A k \in 0..a : net[k] = f[k]
  BY <1>10
<1>12. \A k \in 0..b : net[a + k] = m + g[k]
  <2> TAKE k \in 0..b
  <2>1. a + k \in 0..a + b /\ (a + k) - a = k /\ (a + k <= a => k = 0 /\ a + k = a)
    OBVIOUS
  <2>2. CASE k = 0
    BY <1>7, <1>9, <1>11, <2>1, <2>2
  <2>3. CASE k # 0
    BY <1>10, <2>1, <2>3
  <2>4. QED
    BY <2>2, <2>3
<1>13. ASSUME NEW k \in 0..a + b PROVE net[k] \in Int
  <2>1. CASE k <= a
    BY <1>7, <1>11, <2>1
  <2>2. CASE k > a
    <3>1. PICK i \in 0..b : i = k - a /\ k = a + i
      BY <2>2
    <3>2. g[i] \in Int /\ net[k] = m + g[i]
      BY <1>7, <1>12, <3>1
    <3>3. QED
      BY <1>9, <3>2
  <2>3. QED
    BY <2>1, <2>2
<1>14. ASSUME NEW k \in 1..a + b PROVE net[k] = net[k - 1] + Delta(s[k].op)
  <2>1. CASE k <= a
    <3>1. k \in 1..a /\ k \in 0..a /\ k - 1 \in 0..a
      BY <2>1
    <3>2. QED
      BY <1>6, <1>7, <1>11, <3>1
  <2>2. CASE k > a
    <3>1. PICK i \in 1..b : i = k - a
      BY <2>2
    <3>2. PICK j \in 0..b : j = i - 1
      OBVIOUS
    <3>3. k = a + i /\ k - 1 = a + j /\ i \in 0..b
      BY <3>1, <3>2
    <3>4. net[k] = m + g[i] /\ net[k - 1] = m + g[j] /\ s[k] = q[i] /\ g[i] = g[j] + Delta(q[i].op)
      BY <1>6, <1>8, <1>12, <3>2, <3>3
    <3>5. g[j] \in Int /\ Delta(q[i].op) \in Int
      BY <1>7 DEF Delta
    <3>6. QED
      BY <1>9, <3>4, <3>5
  <2>3. QED
    BY <2>1, <2>2
<1>15. net \in [0..a + b -> Int] /\ net[0] = 0 /\ net[a + b] = m + n
  <2>1. net = [k \in 0..a + b |-> net[k]]
    BY <1>10
  <2>2. net[0] = 0
    BY <1>7, <1>11
  <2>3. b \in 0..b
    OBVIOUS
  <2>4. net[a + b] = m + n
    BY <1>7, <1>12, <2>3
  <2>5. QED
    BY <1>13, <2>1, <2>2, <2>4
<1>16. Opened(s, net, m + n)
  BY <1>6, <1>14, <1>15 DEF Opened
<1>17. QED
  BY <1>5, <1>16 DEF NetIs

(* Two instructions.                                                        *)
LEMMA NetTwo ==
  ASSUME NEW a \in Instrs, NEW b \in Instrs
  PROVE  NetIs(<<a, b>>, Delta(a.op) + Delta(b.op))
<1>1. PICK s \in Seq(Instrs) : s = <<a, b>> /\ Len(s) = 2 /\ s[1] = a /\ s[2] = b
  <2>1. <<a, b>> \in Seq(Instrs)
    OBVIOUS
  <2>2. Len(<<a, b>>) = 2 /\ <<a, b>>[1] = a /\ <<a, b>>[2] = b
    OBVIOUS
  <2>3. QED
    BY <2>1, <2>2
<1>2. PICK d \in Int : d = Delta(a.op)
  BY DEF Delta
<1>3. PICK e \in Int : e = Delta(b.op)
  BY DEF Delta
<1>4. PICK net : net = [k \in 0..2 |-> IF k = 0 THEN 0 ELSE IF k = 1 THEN d ELSE d + e]
  OBVIOUS
<1>5. Opened(s, net, d + e)
  BY <1>1, <1>2, <1>3, <1>4 DEF Opened
<1>6. QED
  BY <1>1, <1>2, <1>3, <1>5 DEF NetIs

(* Three instructions.                                                      *)
LEMMA NetThree ==
  ASSUME NEW a \in Instrs, NEW b \in Instrs, NEW c \in Instrs
  PROVE  NetIs(<<a, b, c>>, Delta(a.op) + Delta(b.op) + Delta(c.op))
<1>1. <<a, b, c>> = <<a, b>> \o <<c>>
  OBVIOUS
<1>2. QED
  BY <1>1, NetOne, NetTwo, NetBoth

(* Four instructions.                                                       *)
LEMMA NetFour ==
  ASSUME NEW a \in Instrs, NEW b \in Instrs, NEW c \in Instrs, NEW d \in Instrs
  PROVE  NetIs(<<a, b, c, d>>, Delta(a.op) + Delta(b.op) + Delta(c.op) + Delta(d.op))
<1>1. <<a, b, c, d>> = <<a, b, c>> \o <<d>>
  OBVIOUS
<1>2. QED
  BY <1>1, NetOne, NetThree, NetBoth

(* The names of the operations that stand for places of the source, but for *)
(* the step of a for loop.                                                  *)
Answering == {"read", "act", "proc", "invoke", "init", "bound", "beyond", "equal", "select"}

(* They are among the instructions, and so are the parts they have.         *)
LEMMA NamesAre ==
  /\ "read" \in Answering /\ "act" \in Answering /\ "proc" \in Answering /\ "invoke" \in Answering
  /\ "init" \in Answering /\ "bound" \in Answering /\ "beyond" \in Answering /\ "equal" \in Answering
  /\ "select" \in Answering
  /\ "c" \in PartNames /\ "d" \in PartNames /\ "act" \in PartNames /\ "proc" \in PartNames
  /\ "call" \in PartNames /\ "arg" \in PartNames /\ "argproc" \in PartNames /\ "argcall" \in PartNames
  /\ "init" \in PartNames /\ "bound" \in PartNames /\ "test" \in PartNames /\ "select" \in PartNames
  /\ "label" \in PartNames /\ "step" \in PartNames
BY DEF Answering, OpNames, PartNames

(* A place of the source is an instruction.                                 *)
LEMMA PlaceIs ==
  ASSUME NEW at \in Nat
  PROVE  /\ \A op \in Answering, part \in PartNames : Place(op, at, part) \in Instrs /\ Place(op, at, part).op = op
         /\ Place("step", at, "step") \in Instrs /\ Place("step", at, "step").op = "step"
         /\ Place("step", at, "step").part \notin TakeParts
<1>1. \A op, part : Place(op, at, part) = [op |-> op, n |-> 0, at |-> at, part |-> part]
  BY DEF Place, Seen
<1>2. \A op \in Answering : op \in OpNames /\ op # "release" /\ op # "step"
  BY DEF Answering, OpNames
<1>3. "step" \in OpNames /\ "step" \in PartNames /\ "step" \notin TakeParts
  BY DEF OpNames, PartNames, TakeParts
<1>4. ASSUME NEW op \in Answering, NEW part \in PartNames
      PROVE  Place(op, at, part) \in Instrs /\ Place(op, at, part).op = op
  BY <1>1, <1>2 DEF Instrs, Fits
<1>5. QED
  BY <1>1, <1>3, <1>4 DEF Instrs, Fits

(* block, loop and if open a block, end closes one.                         *)
LEMMA DeltaIs ==
  /\ Delta("block") = 1 /\ Delta("loop") = 1 /\ Delta("if") = 1 /\ Delta("end") = -1
  /\ \A op \in OpNames \ {"block", "loop", "if", "end"} : Delta(op) = 0
BY DEF Delta, Openers

(* What is emitted for a condition leaves no block open, nor does a call,   *)
(* nor the end of an arm.                                                   *)
LEMMA ConditionNet ==
  ASSUME NEW shape \in Shapes, NEW j \in Nat
  PROVE  NetIs(Condition(shape, j), 0)
<1>1. PICK r \in Instrs : r = Place("read", j, "c") /\ r.op = "read"
  BY PlaceIs, NamesAre
<1>2. PICK r2 \in Instrs : r2 = Place("read", j, "d") /\ r2.op = "read"
  BY PlaceIs, NamesAre
<1>3. PICK z \in Instrs : z = Op("eqz") /\ z.op = "eqz"
  BY InsIs DEF Op, OpNames
<1>4. PICK i \in Instrs : i = Op("if") /\ i.op = "if"
  BY InsIs DEF Op, OpNames
<1>5. PICK k \in Instrs : k = Ins("const", 1) /\ k.op = "const"
  BY InsIs DEF OpNames
<1>6. PICK l \in Instrs : l = Op("else") /\ l.op = "else"
  BY InsIs DEF Op, OpNames
<1>7. PICK e \in Instrs : e = Op("end") /\ e.op = "end"
  BY InsIs DEF Op, OpNames
<1>8. /\ Delta("read") = 0 /\ Delta("eqz") = 0 /\ Delta("if") = 1 /\ Delta("const") = 0 /\ Delta("else") = 0
      /\ Delta("end") = -1
  BY DeltaIs DEF OpNames
<1>9. shape \in {"plain", "not", "ornot"}
  BY BodyConstants
<1>10. CASE shape = "plain"
  <2>1. Condition(shape, j) = <<r>>
    BY <1>1, <1>10 DEF Condition
  <2>2. QED
    BY <1>1, <1>8, <2>1, NetOne
<1>11. CASE shape = "not"
  <2>1. Condition(shape, j) = <<r, z>>
    BY <1>1, <1>3, <1>11 DEF Condition
  <2>2. NetIs(<<r, z>>, 0 + 0)
    BY <1>1, <1>3, <1>8, NetTwo
  <2>3. QED
    BY <2>1, <2>2
<1>12. CASE shape = "ornot"
  <2>1. Condition(shape, j) = <<r, i, k, l, r2, z, e>>
    BY <1>1, <1>2, <1>3, <1>4, <1>5, <1>6, <1>7, <1>12 DEF Condition
  <2>2. NetIs(<<r, i, k, l>>, 0 + 1 + 0 + 0)
    BY <1>1, <1>4, <1>5, <1>6, <1>8, NetFour
  <2>3. NetIs(<<r2, z, e>>, 0 + 0 + -1)
    BY <1>2, <1>3, <1>7, <1>8, NetThree
  <2>4. <<r, i, k, l, r2, z, e>> = <<r, i, k, l>> \o <<r2, z, e>>
    OBVIOUS
  <2>5. NetIs(<<r, i, k, l, r2, z, e>>, (0 + 1 + 0 + 0) + (0 + 0 + -1))
    BY <2>2, <2>3, <2>4, NetBoth
  <2>6. QED
    BY <2>1, <2>5
<1>13. QED
  BY <1>9, <1>10, <1>11, <1>12

(* A simple statement, with or without arguments.                           *)
LEMMA SimpleNet ==
  ASSUME NEW shape \in Simples, NEW j \in Nat
  PROVE  /\ shape = "plain" => NetIs(<<Place("act", j, "act")>>, 0)
         /\ shape # "plain" => NetIs(Through(shape, j), 0)
<1>1. PICK a \in Instrs : a = Place("act", j, "act") /\ a.op = "act"
  BY PlaceIs, NamesAre
<1>2. PICK p \in Instrs : p = Place("proc", j, "proc") /\ p.op = "proc"
  BY PlaceIs, NamesAre
<1>3. PICK q \in Instrs : q = Place("proc", j, "argproc") /\ q.op = "proc"
  BY PlaceIs, NamesAre
<1>4. PICK t \in Instrs : t = Ins("set", CaseTemp) /\ t.op = "set"
  BY InsIs DEF OpNames, CaseTemp
<1>5. PICK g \in Instrs : g = Ins("get", CaseTemp) /\ g.op = "get"
  BY InsIs DEF OpNames, CaseTemp
<1>6. PICK i \in Instrs : i = Place("invoke", j, "argcall") /\ i.op = "invoke"
  BY PlaceIs, NamesAre
<1>7. PICK v \in Instrs : v = Place("invoke", j, "call") /\ v.op = "invoke"
  BY PlaceIs, NamesAre
<1>8. PICK r \in Instrs : r = Place("read", j, "arg") /\ r.op = "read"
  BY PlaceIs, NamesAre
<1>9. /\ Delta("act") = 0 /\ Delta("proc") = 0 /\ Delta("set") = 0 /\ Delta("get") = 0 /\ Delta("invoke") = 0
      /\ Delta("read") = 0
  BY DeltaIs DEF OpNames
<1>10. shape \in {"plain", "none", "arg", "call"}
  BY BodyConstants
<1>11. CASE shape = "plain"
  BY <1>1, <1>9, <1>11, NetOne
<1>12. CASE shape # "plain"
  <2>1. NetIs(Argument(shape, j), 0)
    <3>1. CASE shape = "none"
      BY <3>1, NetNone DEF Argument
    <3>2. CASE shape = "arg"
      <4>1. Argument(shape, j) = <<r>>
        BY <1>8, <3>2 DEF Argument
      <4>2. QED
        BY <1>8, <1>9, <4>1, NetOne
    <3>3. CASE shape = "call"
      <4>1. Argument(shape, j) = <<q, t, g, i>>
        BY <1>3, <1>4, <1>5, <1>6, <3>3 DEF Argument
      <4>2. NetIs(<<q, t, g, i>>, 0 + 0 + 0 + 0)
        BY <1>3, <1>4, <1>5, <1>6, <1>9, NetFour
      <4>3. QED
        BY <4>1, <4>2
    <3>4. QED
      BY <1>10, <1>12, <3>1, <3>2, <3>3
  <2>2. NetIs(<<p, t>>, 0 + 0) /\ NetIs(<<g, v>>, 0 + 0)
    BY <1>2, <1>4, <1>5, <1>7, <1>9, NetTwo
  <2>3. PICK x : x = Argument(shape, j)
    OBVIOUS
  <2>4. Through(shape, j) = <<p, t>> \o x \o <<g, v>>
    BY <1>2, <1>4, <1>5, <1>7, <2>3 DEF Through
  <2>5. NetIs(<<p, t>> \o x, (0 + 0) + 0)
    BY <2>1, <2>2, <2>3, NetBoth
  <2>6. NetIs((<<p, t>> \o x) \o <<g, v>>, ((0 + 0) + 0) + (0 + 0))
    BY <2>2, <2>5, NetBoth
  <2>7. QED
    BY <1>12, <2>4, <2>6
<1>13. QED
  BY <1>11, <1>12

(* The else before a label opens nothing.                                   *)
LEMMA ElsesNet ==
  ASSUME NEW n \in Nat
  PROVE  NetIs(Elses(n), 0)
<1>1. PICK l \in Instrs : l = Op("else") /\ l.op = "else"
  BY InsIs DEF Op, OpNames
<1>2. Delta("else") = 0
  BY DeltaIs DEF OpNames
<1>3. QED
  BY <1>1, <1>2, NetOne, NetNone DEF Elses

(* The ends of a case close its ifs.                                        *)
LEMMA EndsNet ==
  ASSUME NEW n \in Nat
  PROVE  NetIs([k \in 1..n |-> Op("end")], -n)
<1>1. PICK e \in Instrs : e = Op("end") /\ e.op = "end"
  BY InsIs DEF Op, OpNames
<1>2. Delta("end") = -1
  BY DeltaIs
<1>3. PICK s : s = [k \in 1..n |-> e]
  OBVIOUS
<1>4. s \in Seq(Instrs) /\ Len(s) = n /\ \A k \in 1..n : s[k] = e
  BY <1>3
<1>5. PICK net : net = [k \in 0..n |-> 0 - k]
  OBVIOUS
<1>6. Opened(s, net, -n)
  BY <1>1, <1>2, <1>4, <1>5 DEF Opened
<1>7. QED
  BY <1>1, <1>3, <1>6 DEF NetIs

(* The level goes up and down with each instruction.                        *)
LEMMA LevelIs ==
  ASSUME NEW code \in Seq(Instrs), NEW n \in Nat, n = Len(code)
  PROVE  /\ Level(code, 1) = 0 /\ \A i \in 1..n + 1 : Level(code, i) \in Int
         /\ \A i \in 1..n : Level(code, i + 1) = Level(code, i) + Delta(code[i].op)
<1> DEFINE S(named, i) == {k \in 1..i - 1 : code[k].op \in named}
<1>1. ASSUME NEW named, NEW i \in 1..n + 1
      PROVE  IsFiniteSet(S(named, i)) /\ Count(code, named, i) = Cardinality(S(named, i))
  <2>1. IsFiniteSet(1..i - 1)
    BY FS_Interval
  <2>2. S(named, i) \in SUBSET (1..i - 1)
    OBVIOUS
  <2>3. IsFiniteSet(S(named, i))
    BY <2>1, <2>2, FS_Subset
  <2>4. QED
    BY <2>3 DEF Count
<1>2. ASSUME NEW named, NEW i \in 1..n
      PROVE  Count(code, named, i + 1) = Count(code, named, i) + OneOf(code[i].op, named)
  <2>0. i \in 1..n + 1 /\ i + 1 \in 1..n + 1
    OBVIOUS
  <2>1. /\ IsFiniteSet(S(named, i)) /\ Count(code, named, i) = Cardinality(S(named, i))
        /\ Count(code, named, i + 1) = Cardinality(S(named, i + 1))
    BY <1>1, <2>0
  <2>2. CASE code[i].op \in named
    <3>1. S(named, i + 1) = S(named, i) \cup {i} /\ i \notin S(named, i)
      BY <2>2
    <3> HIDE DEF S
    <3>2. QED
      BY <2>1, <2>2, <3>1, FS_AddElement DEF OneOf
  <2>3. CASE code[i].op \notin named
    <3>1. S(named, i + 1) = S(named, i)
      BY <2>3
    <3>2. Cardinality(S(named, i)) \in Nat
      BY <2>1, FS_CardinalityType
    <3> HIDE DEF S
    <3>3. QED
      BY <2>1, <2>3, <3>1, <3>2 DEF OneOf
  <2>4. QED
    BY <2>2, <2>3
<1>3. \A named : \A i \in 1..n + 1 : Count(code, named, i) \in Nat
  <2> TAKE named
  <2> TAKE i \in 1..n + 1
  <2> HIDE DEF S
  <2>1. QED
    BY <1>1, FS_CardinalityType
<1>4. \A named : Count(code, named, 1) = 0
  <2> TAKE named
  <2>1. S(named, 1) = {} /\ 1 \in 1..n + 1
    OBVIOUS
  <2> HIDE DEF S
  <2>2. QED
    BY <1>1, <2>1, FS_EmptySet
<1>5. ASSUME NEW i \in 1..n PROVE Level(code, i + 1) = Level(code, i) + Delta(code[i].op)
  <2>1. i \in 1..n + 1 /\ i + 1 \in 1..n + 1
    OBVIOUS
  <2>2. PICK o \in Nat : o = Count(code, Openers, i)
    BY <1>3, <2>1
  <2>3. PICK e \in Nat : e = Count(code, {"end"}, i)
    BY <1>3, <2>1
  <2>4. Level(code, i) = o - e
    BY <2>2, <2>3 DEF Level
  <2>5. Level(code, i + 1) = (o + OneOf(code[i].op, Openers)) - (e + OneOf(code[i].op, {"end"}))
    BY <1>2, <2>2, <2>3 DEF Level
  <2>6. QED
    BY <2>4, <2>5 DEF Delta, OneOf, Openers
<1>6. ASSUME NEW i \in 1..n + 1 PROVE Level(code, i) \in Int
  <2>1. Count(code, Openers, i) \in Nat /\ Count(code, {"end"}, i) \in Nat
    BY <1>3
  <2>2. QED
    BY <2>1 DEF Level
<1>7. Level(code, 1) = 0
  BY <1>4 DEF Level
<1>8. QED
  BY <1>5, <1>6, <1>7

(* Two codes that begin with the same m instructions, but for a local.set   *)
(* that has become a local.tee.                                             *)
LikeUpTo(code, t, m) ==
  /\ m <= Len(code) /\ m <= Len(t)
  /\ \A k \in 1..m : t[k].op = code[k].op \/ (code[k].op = "set" /\ t[k].op = "tee")

(* They have the same levels there.                                         *)
LEMMA LevelAlike ==
  ASSUME NEW code \in Seq(Instrs), NEW t \in Seq(Instrs), NEW m \in Nat, LikeUpTo(code, t, m),
         NEW i \in 1..m + 1
  PROVE  Level(t, i) = Level(code, i)
<1>1. \A k \in 1..i - 1 : t[k].op = code[k].op \/ (code[k].op = "set" /\ t[k].op = "tee")
  BY DEF LikeUpTo
<1>2. {k \in 1..i - 1 : t[k].op \in Openers} = {k \in 1..i - 1 : code[k].op \in Openers}
  BY <1>1 DEF Openers
<1>3. {k \in 1..i - 1 : t[k].op \in {"end"}} = {k \in 1..i - 1 : code[k].op \in {"end"}}
  BY <1>1
<1>4. QED
  BY <1>2, <1>3 DEF Level, Count

(* What stands before a position is the same too.                           *)
LEMMA HeadAlike ==
  ASSUME NEW code \in Seq(Instrs), NEW t \in Seq(Instrs), NEW m \in Nat, LikeUpTo(code, t, m),
         NEW i \in 1..m + 1
  PROVE  /\ Freed(code, i) => Freed(t, i)
         /\ \A d \in Int : InHead(code, i, d) => InHead(t, i, d)
<1>1. \A k \in 1..m : t[k].op = code[k].op \/ (code[k].op = "set" /\ t[k].op = "tee")
  BY DEF LikeUpTo
<1>2. ASSUME Freed(code, i) PROVE Freed(t, i)
  <2>1. CASE i > 1 /\ code[i - 1].op = "release"
    <3>1. i - 1 \in 1..m
      BY <2>1
    <3>2. t[i - 1].op = "release"
      BY <1>1, <2>1, <3>1
    <3>3. QED
      BY <2>1, <3>2 DEF Freed
  <2>2. CASE i > 2 /\ code[i - 1].op = "step" /\ code[i - 2].op = "release"
    <3>1. i - 1 \in 1..m /\ i - 2 \in 1..m
      BY <2>2
    <3>2. t[i - 1].op = "step" /\ t[i - 2].op = "release"
      BY <1>1, <2>2, <3>1
    <3>3. QED
      BY <2>2, <3>2 DEF Freed
  <2>3. QED
    BY <1>2, <2>1, <2>2 DEF Freed
<1>3. ASSUME NEW d \in Int, InHead(code, i, d) PROVE InHead(t, i, d)
  <2>1. PICK q \in 2..i - 1 :
          /\ code[q - 1].op = "block" /\ code[q].op = "loop" /\ Level(code, i) = Level(code, q) + 1 + d
          /\ \A k \in q + 1..i - 1 : code[k].op \in Openers => Level(code, k) > Level(code, q)
    BY <1>3, Zenon DEF InHead
  <2>2. \A k \in 1..m + 1 : Level(t, k) = Level(code, k)
    BY LevelAlike
  <2>3. t[q - 1].op = "block" /\ t[q].op = "loop" /\ Level(t, i) = Level(t, q) + 1 + d
    <3>1. q \in 1..m /\ q - 1 \in 1..m /\ q \in 1..m + 1
      BY <2>1
    <3>2. Level(t, i) = Level(code, i) /\ Level(t, q) = Level(code, q)
      BY <2>2, <3>1
    <3>3. QED
      BY <1>1, <2>1, <3>1, <3>2
  <2>4. ASSUME NEW k \in q + 1..i - 1, t[k].op \in Openers PROVE Level(t, k) > Level(t, q)
    <3>1. k \in 1..m /\ k \in 1..m + 1 /\ q \in 1..m + 1
      BY <2>1
    <3>2. code[k].op \in Openers
      BY <1>1, <2>4, <3>1 DEF Openers
    <3>3. Level(code, k) > Level(code, q)
      BY <2>1, <3>2
    <3>4. QED
      BY <2>2, <3>1, <3>3
  <2>5. QED
    BY <2>1, <2>3, <2>4, Zenon DEF InHead
<1>4. QED
  BY <1>2, <1>3

(* What the last instruction of a head was before it came.                  *)
LEMMA HeadBefore ==
  ASSUME NEW s \in Seq(Instrs), NEW n \in Nat, n = Len(s), NEW k \in 1..n, NEW d \in Int, InHead(s, k + 1, d)
  PROVE  \/ k > 1 /\ s[k - 1].op = "block" /\ s[k].op = "loop" /\ d = 0
         \/ /\ InHead(s, k, d - Delta(s[k].op))
            /\ s[k].op \in Openers => d - Delta(s[k].op) >= 0
<1>0. (k + 1) - 1 = k
  OBVIOUS
<1>1. PICK q \in 2..k :
        /\ s[q - 1].op = "block" /\ s[q].op = "loop" /\ Level(s, k + 1) = Level(s, q) + 1 + d
        /\ \A j \in q + 1..k : s[j].op \in Openers => Level(s, j) > Level(s, q)
  BY <1>0, Zenon DEF InHead
<1>2. /\ Level(s, k + 1) = Level(s, k) + Delta(s[k].op) /\ Level(s, k) \in Int /\ Level(s, q) \in Int
      /\ Delta(s[k].op) \in Int
  <2>1. k \in 1..n + 1 /\ q \in 1..n + 1
    OBVIOUS
  <2>2. Delta(s[k].op) \in Int
    BY DEF Delta
  <2>3. QED
    BY <2>1, <2>2, LevelIs
<1>3. CASE q = k
  <2>1. Delta(s[k].op) = 1
    BY <1>1, <1>3, DeltaIs
  <2>2. d = 0
    BY <1>1, <1>2, <1>3, <2>1
  <2>3. QED
    BY <1>1, <1>3, <2>2
<1>4. CASE q # k
  <2>1. q \in 2..k - 1 /\ k \in q + 1..k /\ \A j \in q + 1..k - 1 : j \in q + 1..k
    BY <1>4
  <2>2. Level(s, k) = Level(s, q) + 1 + (d - Delta(s[k].op))
    BY <1>1, <1>2
  <2>3. InHead(s, k, d - Delta(s[k].op))
    <3>1. \A j \in q + 1..k - 1 : s[j].op \in Openers => Level(s, j) > Level(s, q)
      BY <1>1, <2>1
    <3>2. QED
      BY <1>1, <2>1, <2>2, <3>1, Zenon DEF InHead
  <2>4. ASSUME s[k].op \in Openers PROVE d - Delta(s[k].op) >= 0
    <3>1. Level(s, k) > Level(s, q)
      BY <1>1, <2>1, <2>4
    <3>2. QED
      BY <1>2, <2>2, <3>1
  <2>5. QED
    BY <2>3, <2>4
<1>5. QED
  BY <1>3, <1>4

(* A head goes on, or begins.                                               *)
LEMMA HeadGrows ==
  ASSUME NEW code \in Seq(Instrs), NEW n \in Nat, n = Len(code), NEW ins \in Instrs, NEW t, Extended(code, ins, t)
  PROVE  /\ t \in Seq(Instrs) /\ Len(t) = n + 1 /\ LikeUpTo(code, t, n)
         /\ n > 0 /\ code[n].op = "block" /\ ins.op = "loop" => InHead(t, n + 2, 0)
         /\ \A d \in Int :
              InHead(code, n + 1, d) /\ (ins.op \in Openers => d >= 0) => InHead(t, n + 2, d + Delta(ins.op))
<1>1. t \in Seq(Instrs) /\ Len(t) = n + 1 /\ t[n + 1] = ins /\ \A i \in 1..n : t[i] = code[i]
  BY DEF Extended
<1>2. LikeUpTo(code, t, n)
  BY <1>1 DEF LikeUpTo
<1>3. /\ Level(t, n + 2) = Level(t, n + 1) + Delta(ins.op) /\ \A i \in 1..n + 2 : Level(t, i) \in Int
      /\ Delta(ins.op) \in Int
  <2>1. n + 1 \in Nat /\ n + 1 \in 1..n + 1 /\ (n + 1) + 1 = n + 2
    OBVIOUS
  <2>2. Level(t, (n + 1) + 1) = Level(t, n + 1) + Delta(t[n + 1].op) /\ \A i \in 1..(n + 1) + 1 : Level(t, i) \in Int
    BY <1>1, <2>1, LevelIs
  <2>3. Delta(ins.op) \in Int
    BY DEF Delta
  <2>4. QED
    BY <1>1, <2>1, <2>2, <2>3
<1>4. ASSUME n > 0, code[n].op = "block", ins.op = "loop" PROVE InHead(t, n + 2, 0)
  <2>1. n + 1 \in 2..(n + 2) - 1 /\ t[(n + 1) - 1].op = "block" /\ t[n + 1].op = "loop"
    BY <1>1, <1>4
  <2>2. Level(t, n + 2) = Level(t, n + 1) + 1 + 0
    BY <1>3, <1>4, DeltaIs
  <2>3. \A k \in (n + 1) + 1..(n + 2) - 1 : FALSE
    OBVIOUS
  <2>4. QED
    BY <2>1, <2>2, <2>3, Zenon DEF InHead
<1>5. ASSUME NEW d \in Int, InHead(code, n + 1, d), ins.op \in Openers => d >= 0
      PROVE  InHead(t, n + 2, d + Delta(ins.op))
  <2>1. InHead(t, n + 1, d)
    BY <1>1, <1>2, <1>5, HeadAlike
  <2>2. PICK q \in 2..(n + 1) - 1 :
          /\ t[q - 1].op = "block" /\ t[q].op = "loop" /\ Level(t, n + 1) = Level(t, q) + 1 + d
          /\ \A k \in q + 1..(n + 1) - 1 : t[k].op \in Openers => Level(t, k) > Level(t, q)
    BY <2>1, Zenon DEF InHead
  <2>3. q \in 2..(n + 2) - 1 /\ Level(t, q) \in Int /\ Level(t, n + 1) \in Int
    BY <1>3
  <2>4. Level(t, n + 2) = Level(t, q) + 1 + (d + Delta(ins.op))
    BY <1>3, <2>2, <2>3
  <2>5. ASSUME NEW k \in q + 1..(n + 2) - 1, t[k].op \in Openers PROVE Level(t, k) > Level(t, q)
    <3>1. CASE k = n + 1
      BY <1>1, <1>5, <2>2, <2>3, <2>5, <3>1
    <3>2. CASE k # n + 1
      <4>1. k \in q + 1..(n + 1) - 1
        BY <3>2
      <4>2. QED
        BY <2>2, <2>5, <4>1
    <3>3. QED
      BY <3>1, <3>2
  <2>6. QED
    BY <2>2, <2>3, <2>4, <2>5, Zenon DEF InHead
<1>6. QED
  BY <1>1, <1>2, <1>4, <1>5

(* What the end of the code shares with the first k instructions emitted.   *)
Trails(code, s, k) ==
  /\ k > 0 /\ s[k].op \in {"block", "release"} => Len(code) > 0 /\ code[Len(code)].op = s[k].op
  /\ Freed(s, k + 1) => Freed(code, Len(code) + 1)
  /\ \A d \in Int : InHead(s, k + 1, d) => InHead(code, Len(code) + 1, d)

(* One instruction of s is emitted, rewritten or not.                       *)
LEMMA EmitTrails ==
  ASSUME NEW code \in Seq(Instrs), NEW s \in Seq(Instrs), Backs(code), Backs(s),
         NEW k \in 1..Len(s), Trails(code, s, k - 1), NEW t \in Seq(Instrs),
         Extended(code, s[k], t) \/ Teed(code, s[k], t) \/ Dropped(code, s[k], t)
  PROVE  Backs(t) /\ Trails(t, s, k)
<1>1. PICK n \in Nat : n = Len(code)
  OBVIOUS
<1>2. PICK ins \in Instrs : ins = s[k] /\ Delta(ins.op) \in Int
  <2>1. s[k] \in Instrs /\ Delta(s[k].op) \in Int
    BY DEF Delta
  <2>2. QED
    BY <2>1
<1>3. PICK m \in Nat : m = Len(s)
  OBVIOUS
<1>4. /\ k \in 1..m /\ (k - 1) + 1 = k
      /\ \A d \in Int : InHead(s, k, d) => InHead(code, n + 1, d)
      /\ Freed(s, k) => Freed(code, n + 1)
      /\ k > 1 /\ s[k - 1].op \in {"block", "release"} => n > 0 /\ code[n].op = s[k - 1].op
  <2>1. (k - 1) + 1 = k /\ k \in 1..m /\ (k - 1 > 0 <=> k > 1)
    BY <1>3
  <2>2. /\ \A d \in Int : InHead(s, (k - 1) + 1, d) => InHead(code, Len(code) + 1, d)
        /\ Freed(s, (k - 1) + 1) => Freed(code, Len(code) + 1)
        /\ k - 1 > 0 /\ s[k - 1].op \in {"block", "release"} => Len(code) > 0 /\ code[Len(code)].op = s[k - 1].op
    BY DEF Trails
  <2>3. QED
    BY <1>1, <2>1, <2>2
<1>5. ASSUME NEW j \in Nat, j <= n, LikeUpTo(code, t, j), NEW i \in 1..j, t[i].op = code[i].op, t[i].n = code[i].n
      PROVE  BackAt(t, i)
  <2>1. BackAt(code, i) /\ i \in 1..j + 1
    BY <1>1, <1>5 DEF Backs
  <2>2. /\ Freed(code, i) => Freed(t, i)
        /\ InHead(code, i, 0) => InHead(t, i, 0)
    BY <1>5, <2>1, HeadAlike
  <2>3. QED
    BY <1>5, <2>1, <2>2 DEF BackAt
<1>6. ASSUME NEW d \in Int, InHead(s, k + 1, d)
      PROVE  \/ k > 1 /\ s[k - 1].op = "block" /\ ins.op = "loop" /\ d = 0
             \/ InHead(code, n + 1, d - Delta(ins.op)) /\ (ins.op \in Openers => d - Delta(ins.op) >= 0)
  <2>1. \/ k > 1 /\ s[k - 1].op = "block" /\ s[k].op = "loop" /\ d = 0
        \/ InHead(s, k, d - Delta(s[k].op)) /\ (s[k].op \in Openers => d - Delta(s[k].op) >= 0)
    BY <1>3, <1>6, HeadBefore
  <2>2. d - Delta(ins.op) \in Int
    BY <1>2
  <2>3. QED
    BY <1>2, <1>4, <2>1, <2>2
<1>7. CASE Extended(code, ins, t)
  <2>1. /\ Len(t) = n + 1 /\ t[n + 1] = ins /\ \A i \in 1..n : t[i] = code[i]
    BY <1>1, <1>7 DEF Extended
  <2>2. /\ LikeUpTo(code, t, n)
        /\ n > 0 /\ code[n].op = "block" /\ ins.op = "loop" => InHead(t, n + 2, 0)
        /\ \A d \in Int :
              InHead(code, n + 1, d) /\ (ins.op \in Openers => d >= 0) => InHead(t, n + 2, d + Delta(ins.op))
    BY <1>1, <1>7, HeadGrows
  <2>3. /\ Freed(code, n + 1) => Freed(t, n + 1)
        /\ InHead(code, n + 1, 0) => InHead(t, n + 1, 0)
    BY <2>2, HeadAlike
  <2>4. BackAt(t, n + 1)
    <3>1. BackAt(s, k)
      BY DEF Backs
    <3>2. QED
      BY <1>2, <1>4, <2>1, <2>3, <3>1 DEF BackAt
  <2>5. Backs(t)
    <3>1. \A i \in 1..n + 1 : i = n + 1 \/ i \in 1..n
      OBVIOUS
    <3>2. \A i \in 1..n : BackAt(t, i)
      BY <1>5, <2>1, <2>2
    <3>3. QED
      BY <2>1, <2>4, <3>1, <3>2 DEF Backs
  <2>6. ASSUME NEW d \in Int, InHead(s, k + 1, d) PROVE InHead(t, n + 2, d)
    <3>1. CASE k > 1 /\ s[k - 1].op = "block" /\ ins.op = "loop" /\ d = 0
      BY <1>4, <2>2, <3>1
    <3>2. CASE InHead(code, n + 1, d - Delta(ins.op)) /\ (ins.op \in Openers => d - Delta(ins.op) >= 0)
      <4>1. PICK e \in Int : e = d - Delta(ins.op) /\ e + Delta(ins.op) = d
        BY <1>2
      <4>2. InHead(t, n + 2, e + Delta(ins.op))
        BY <2>2, <3>2, <4>1
      <4>3. QED
        BY <4>1, <4>2
    <3>3. QED
      BY <1>6, <2>6, <3>1, <3>2
  <2>7. ASSUME Freed(s, k + 1) PROVE Freed(t, n + 2)
    <3>1. CASE s[k].op = "release"
      <4>1. n + 2 > 1 /\ t[(n + 2) - 1].op = "release"
        BY <1>2, <2>1, <3>1
      <4>2. QED
        BY <4>1 DEF Freed
    <3>2. CASE k > 1 /\ s[k].op = "step" /\ s[k - 1].op = "release"
      <4>1. n > 0 /\ code[n].op = "release"
        BY <1>4, <3>2
      <4>2. n + 2 > 2 /\ t[(n + 2) - 1].op = "step" /\ t[(n + 2) - 2].op = "release"
        BY <1>2, <2>1, <3>2, <4>1
      <4>3. QED
        BY <4>2 DEF Freed
    <3>3. QED
      BY <2>7, <3>1, <3>2 DEF Freed
  <2>8. QED
    BY <1>2, <2>1, <2>5, <2>6, <2>7 DEF Trails
<1>8. CASE Teed(code, ins, t)
  <2>1. /\ n > 0 /\ Len(t) = n /\ code[n].op = "set" /\ ins.op = "get" /\ t[n].op = "tee"
        /\ \A i \in 1..n : i # n => t[i] = code[i]
    BY <1>1, <1>8 DEF Teed
  <2>2. LikeUpTo(code, t, n)
    BY <1>1, <2>1 DEF LikeUpTo
  <2>3. Backs(t)
    <3>1. \A i \in 1..n : i # n => BackAt(t, i)
      BY <1>5, <2>1, <2>2
    <3>2. BackAt(t, n)
      BY <2>1 DEF BackAt
    <3>3. QED
      BY <2>1, <3>1, <3>2 DEF Backs
  <2>4. Delta(ins.op) = 0 /\ ins.op \notin {"loop", "block", "release", "step"}
    BY <2>1 DEF Delta, Openers
  <2>5. ASSUME NEW d \in Int, InHead(s, k + 1, d) PROVE InHead(t, n + 1, d)
    <3>1. InHead(code, n + 1, d - 0) /\ d - 0 = d
      BY <1>6, <2>4, <2>5
    <3>2. QED
      BY <2>2, <3>1, HeadAlike
  <2>6. ~Freed(s, k + 1)
    BY <1>2, <2>4 DEF Freed
  <2>7. QED
    BY <1>2, <2>1, <2>3, <2>4, <2>5, <2>6 DEF Trails
<1>9. CASE Dropped(code, ins, t)
  <2>0. n \in 1..n
    BY <1>1, <1>9 DEF Dropped
  <2>1. PICK j \in Nat : j = n - 1 /\ n \in 1..n
    BY <2>0
  <2>2. /\ Len(t) = j /\ code[n].op = "eqz" /\ ins.op = "eqz" /\ \A i \in 1..j : t[i] = code[i]
    BY <1>1, <1>9, <2>1 DEF Dropped
  <2>3. LikeUpTo(code, t, j)
    BY <1>1, <2>1, <2>2 DEF LikeUpTo
  <2>4. Backs(t)
    <3>1. \A i \in 1..j : BackAt(t, i)
      BY <1>5, <2>1, <2>2, <2>3
    <3>2. QED
      BY <2>2, <3>1 DEF Backs
  <2>5. Delta("eqz") = 0 /\ "eqz" \notin Openers
    BY DEF Delta, Openers
  <2>6. ASSUME NEW d \in Int, InHead(s, k + 1, d) PROVE InHead(t, j + 1, d)
    <3>1. InHead(code, n + 1, d - 0) /\ d - 0 = d
      BY <1>6, <2>2, <2>5, <2>6
    <3>2. InHead(code, n, d - 0)
      <4>1. \/ n > 1 /\ code[n - 1].op = "block" /\ code[n].op = "loop" /\ d = 0
            \/ InHead(code, n, d - Delta(code[n].op))
        BY <1>1, <2>1, <3>1, HeadBefore
      <4>2. QED
        BY <2>2, <2>5, <4>1
    <3>3. InHead(t, n, d)
      <4>1. n \in 1..j + 1
        BY <2>1
      <4>2. QED
        BY <2>3, <3>1, <3>2, <4>1, HeadAlike
    <3>4. QED
      BY <2>1, <3>3
  <2>7. ~Freed(s, k + 1)
    BY <1>2, <2>2 DEF Freed
  <2>8. QED
    BY <1>2, <2>2, <2>4, <2>6, <2>7 DEF Trails
<1>10. QED
  BY <1>2, <1>7, <1>8, <1>9

(* The places in code are of the first n tokens, or of what has been        *)
(* emitted of s.                                                            *)
Places(code, s, k, n) ==
  /\ Once(code)
  /\ \A i \in 1..Len(code) :
       Marked(code, i) =>
         \/ code[i].at <= n
         \/ \E m \in 1..k : Marked(s, m) /\ s[m].part = code[i].part /\ s[m].at = code[i].at
(* Instructions whose places are of token j, each in them once.             *)
Tidy(s, j) ==
  /\ s \in Seq(Instrs) /\ Backs(s) /\ Once(s)
  /\ \A m \in 1..Len(s) : Marked(s, m) => s[m].at = j

(* One instruction of s is emitted: its place is a new one.                 *)
LEMMA EmitPlaces ==
  ASSUME NEW code \in Seq(Instrs), NEW n \in Nat, NEW s, Tidy(s, n + 1),
         NEW k \in 1..Len(s), Places(code, s, k - 1, n), NEW t \in Seq(Instrs),
         Extended(code, s[k], t) \/ Teed(code, s[k], t) \/ Dropped(code, s[k], t)
  PROVE  Places(t, s, k, n)
<1>1. PICK l \in Nat : l = Len(code)
  OBVIOUS
<1>2. /\ Once(code) /\ s \in Seq(Instrs) /\ Once(s) /\ \A m \in 1..Len(s) : Marked(s, m) => s[m].at = n + 1
      /\ \A i \in 1..l :
           Marked(code, i) =>
             \/ code[i].at <= n
             \/ \E m \in 1..k - 1 : Marked(s, m) /\ s[m].part = code[i].part /\ s[m].at = code[i].at
  BY <1>1 DEF Places, Tidy
<1> DEFINE Known(c, i, h) ==
             Marked(c, i) =>
               \/ c[i].at <= n
               \/ \E m \in 1..h : Marked(s, m) /\ s[m].part = c[i].part /\ s[m].at = c[i].at
<1>3. ASSUME NEW i \in 1..l, NEW e, t[e].part = code[i].part, t[e].at = code[i].at PROVE Known(t, e, k)
  <2>1. Known(code, i, k - 1)
    BY <1>2
  <2>2. \A m \in 1..k - 1 : m \in 1..k
    OBVIOUS
  <2>3. QED
    BY <1>3, <2>1, <2>2 DEF Marked
<1>4. ASSUME Len(t) <= l, \A i \in 1..Len(t) : t[i].part = code[i].part /\ t[i].at = code[i].at
      PROVE  Places(t, s, k, n)
  <2>1. \A i \in 1..Len(t) : i \in 1..l
    BY <1>4
  <2>2. \A i \in 1..Len(t) : Known(t, i, k)
    BY <1>3, <1>4, <2>1
  <2>3. Once(t)
    BY <1>1, <1>2, <1>4, <2>1 DEF Once, Marked
  <2>4. QED
    BY <2>2, <2>3 DEF Places
<1>5. CASE Extended(code, s[k], t)
  <2>1. Len(t) = l + 1 /\ t[l + 1] = s[k] /\ \A i \in 1..l : t[i] = code[i]
    BY <1>1, <1>5 DEF Extended
  <2>2. \A i \in 1..l : Known(t, i, k)
    BY <1>3, <2>1
  <2>3. Known(t, l + 1, k)
    <3>1. k \in 1..k
      OBVIOUS
    <3>2. QED
      BY <2>1, <3>1 DEF Marked
  <2>4. ASSUME NEW i \in 1..l, Marked(code, i) \/ Marked(s, k), code[i].part = s[k].part, code[i].at = s[k].at
        PROVE  FALSE
    <3>1. Marked(code, i) /\ Marked(s, k)
      BY <2>4 DEF Marked
    <3>2. code[i].at = n + 1
      BY <1>2, <2>4, <3>1
    <3>3. PICK m \in 1..k - 1 : Marked(s, m) /\ s[m].part = code[i].part /\ s[m].at = code[i].at
      BY <1>2, <3>1, <3>2
    <3>4. m \in 1..Len(s) /\ m # k
      OBVIOUS
    <3>5. QED
      BY <1>2, <2>4, <3>3, <3>4 DEF Once
  <2>5. Once(t)
    <3>1. \A i \in 1..l + 1 : i = l + 1 \/ i \in 1..l
      OBVIOUS
    <3> SUFFICES ASSUME NEW i \in 1..l + 1, NEW j \in 1..l + 1, Marked(t, i), t[i].part = t[j].part, t[i].at = t[j].at
                 PROVE  i = j
      BY <2>1 DEF Once
    <3>2. CASE i \in 1..l /\ j \in 1..l
      BY <1>1, <1>2, <2>1, <3>2 DEF Once, Marked
    <3>3. CASE i \in 1..l /\ j = l + 1
      BY <2>1, <2>4, <3>3 DEF Marked
    <3>4. CASE i = l + 1 /\ j \in 1..l
      BY <2>1, <2>4, <3>4 DEF Marked
    <3>5. QED
      BY <3>1, <3>2, <3>3, <3>4
  <2>6. QED
    <3>1. \A i \in 1..Len(t) : i = l + 1 \/ i \in 1..l
      BY <2>1
    <3>2. \A i \in 1..Len(t) : Known(t, i, k)
      BY <2>2, <2>3, <3>1
    <3>3. QED
      BY <2>5, <3>2 DEF Places
<1>6. CASE Teed(code, s[k], t)
  BY <1>1, <1>4, <1>6 DEF Teed
<1>7. CASE Dropped(code, s[k], t)
  BY <1>1, <1>4, <1>7 DEF Dropped
<1>8. QED
  BY <1>5, <1>6, <1>7

(* A tidy sequence emitted leaves code in which every branch and every      *)
(* place is as it should be.                                                *)
LEMMA EmitAllTidy ==
  ASSUME NEW b, Buffer(b), NEW n \in Nat, NEW s, Tidy(s, n + 1),
         Backs(b.code), Once(b.code), UpTo(b.code, n)
  PROVE  Backs(EmitAll(b, s).code) /\ Once(EmitAll(b, s).code) /\ UpTo(EmitAll(b, s).code, n + 1)
<1>1. s \in Seq(Instrs) /\ Backs(s)
  BY DEF Tidy
<1>2. PICK m \in Nat : m = Len(s)
  BY <1>1
<1>3. PICK d : Emitted(b, s, d)
  BY <1>1, EmitAllRuns
<1>4. /\ d[0] = b /\ d[m] = EmitAll(b, s) /\ \A i \in 0..m : Buffer(d[i])
      /\ \A i \in 1..m : d[i] = Emit(d[i - 1], s[i]) /\ s[i] \in Instrs
  BY <1>1, <1>2, <1>3 DEF Emitted
<1> DEFINE T == {i \in 0..m : Backs(d[i].code) /\ Trails(d[i].code, s, i) /\ Places(d[i].code, s, i, n)}
<1>5. 0 \in T
  <2>1. b.code \in Seq(Instrs)
    BY DEF Buffer
  <2>2. Trails(b.code, s, 0)
    <3>1. ~Freed(s, 0 + 1)
      BY DEF Freed
    <3>2. \A e : ~InHead(s, 0 + 1, e)
      BY DEF InHead
    <3>3. QED
      BY <3>1, <3>2 DEF Trails
  <2>3. Places(b.code, s, 0, n)
    BY DEF Places, UpTo
  <2>4. QED
    BY <1>4, <2>2, <2>3
<1>6. ASSUME NEW i \in 0..m - 1, i \in T PROVE i + 1 \in T
  <2>1. PICK k \in 1..Len(s) : k = i + 1 /\ k - 1 = i /\ k \in 1..m /\ i \in 0..m
    BY <1>2
  <2>2. PICK t : t = d[k].code
    OBVIOUS
  <2>3. d[k] = Emit(d[i], s[k]) /\ s[k] \in Instrs /\ Buffer(d[i]) /\ Buffer(d[k])
    <3>1. k \in 0..m
      BY <2>1
    <3>2. QED
      BY <1>4, <2>1, <3>1
  <2>4. Extended(d[i].code, s[k], t) \/ Teed(d[i].code, s[k], t) \/ Dropped(d[i].code, s[k], t)
    BY <2>2, <2>3, EmitIs
  <2>5. PICK code \in Seq(Instrs) : code = d[i].code
    BY <2>3 DEF Buffer
  <2>6. t \in Seq(Instrs)
    BY <2>2, <2>3 DEF Buffer
  <2>7. Backs(code) /\ Trails(code, s, k - 1) /\ Places(code, s, k - 1, n)
    BY <1>6, <2>1, <2>5
  <2>8. Backs(t) /\ Trails(t, s, k)
    BY <1>1, <2>4, <2>5, <2>6, <2>7, EmitTrails
  <2>9. Places(t, s, k, n)
    BY <2>4, <2>5, <2>6, <2>7, EmitPlaces
  <2>10. QED
    BY <2>1, <2>2, <2>8, <2>9
<1>7. 0..m \subseteq T
  <2> HIDE DEF T
  <2>1. QED
    BY <1>5, <1>6, CountUp
<1>8. m \in T
  BY <1>7
<1>9. PICK t : t = EmitAll(b, s).code
  OBVIOUS
<1>10. Backs(t) /\ Places(t, s, m, n)
  BY <1>4, <1>8, <1>9
<1>11. t \in Seq(Instrs)
  <2>1. m \in 0..m
    OBVIOUS
  <2>2. Buffer(EmitAll(b, s))
    BY <1>4, <2>1
  <2>3. QED
    BY <1>9, <2>2 DEF Buffer
<1>12. UpTo(t, n + 1)
  <2> SUFFICES ASSUME NEW i \in 1..Len(t), Marked(t, i) PROVE t[i].at <= n + 1
    BY DEF UpTo
  <2>1. t[i].at \in Nat
    <3>1. t[i] \in Instrs
      BY <1>11
    <3>2. QED
      BY <3>1 DEF Instrs
  <2>2. CASE t[i].at <= n
    BY <2>1, <2>2
  <2>3. CASE \E j \in 1..m : Marked(s, j) /\ s[j].part = t[i].part /\ s[j].at = t[i].at
    <3>1. PICK j \in 1..m : Marked(s, j) /\ s[j].at = t[i].at
      BY <2>3
    <3>2. s[j].at = n + 1
      BY <1>2, <3>1 DEF Tidy
    <3>3. QED
      BY <3>1, <3>2
  <2>4. QED
    BY <1>10, <2>2, <2>3 DEF Places
<1>13. QED
  BY <1>9, <1>10, <1>12 DEF Places

(* An instruction that is no branch, and no place that takes bytes.         *)
Calm(ins) == ins \in Instrs /\ ins.op \notin {"br", "brif"} /\ ins.part \notin TakeParts
(* No place takes bytes, and every branch comes after a release.            *)
Bare(s) ==
  /\ s \in Seq(Instrs)
  /\ \A i \in 1..Len(s) : s[i].part \notin TakeParts /\ (s[i].op \in {"br", "brif"} => Freed(s, i))

(* Most instructions are calm.                                              *)
LEMMA InsCalm ==
  /\ \A op \in OpNames \ {"br", "brif"}, n \in Int : Calm(Ins(op, n))
  /\ \A n \in Int : Br(n).part \notin TakeParts /\ BrIf(n).part \notin TakeParts
<1>1. \A op \in OpNames, n \in Int : Ins(op, n) \in Instrs /\ Ins(op, n).op = op
  BY InsIs
<1>2. \A op, n : Ins(op, n).part \notin TakeParts
  BY DEF Ins, TakeParts
<1>3. QED
  BY <1>1, <1>2 DEF Calm, Br, BrIf

(* So are the places that take none.                                        *)
LEMMA PlaceCalm ==
  /\ \A op \in Answering, at \in Nat, part \in PartNames \ TakeParts : Calm(Place(op, at, part))
  /\ \A op, at, part : Place(op, at, part).part = part /\ Place(op, at, part).at = at
<1>1. \A op, at, part : Place(op, at, part).part = part /\ Place(op, at, part).at = at
  BY DEF Place, Seen
<1>2. \A op \in Answering, at \in Nat, part \in PartNames :
        Place(op, at, part) \in Instrs /\ Place(op, at, part).op = op
  BY PlaceIs
<1>3. QED
  BY <1>1, <1>2 DEF Calm, Answering

(* Calm instructions are bare, and so is a branch after a release.          *)
LEMMA BareIs ==
  /\ Bare(<<>>)
  /\ \A a : Calm(a) => Bare(<<a>>)
  /\ \A a, b : Calm(a) /\ Calm(b) => Bare(<<a, b>>)
  /\ \A a, b, c : Calm(a) /\ Calm(b) /\ Calm(c) => Bare(<<a, b, c>>)
  /\ \A a, b : Calm(a) /\ a.op = "release" /\ b \in Instrs /\ b.part \notin TakeParts => Bare(<<a, b>>)
<1>1. Bare(<<>>)
  BY DEF Bare
<1>2. ASSUME NEW a, Calm(a) PROVE Bare(<<a>>)
  <2>1. a \in Instrs
    BY <1>2 DEF Calm
  <2>2. PICK s \in Seq(Instrs) : s = <<a>> /\ Len(s) = 1 /\ s[1] = a
    <3>1. <<a>> \in Seq(Instrs)
      BY <2>1
    <3>2. Len(<<a>>) = 1 /\ <<a>>[1] = a
      OBVIOUS
    <3>3. QED
      BY <3>1, <3>2
  <2>3. QED
    BY <1>2, <2>2 DEF Calm, Bare
<1>3. ASSUME NEW a, NEW b, Calm(a) /\ Calm(b) PROVE Bare(<<a, b>>)
  <2>1. a \in Instrs /\ b \in Instrs
    BY <1>3 DEF Calm
  <2>2. PICK s \in Seq(Instrs) : s = <<a, b>> /\ Len(s) = 2 /\ s[1] = a /\ s[2] = b
    <3>1. <<a, b>> \in Seq(Instrs)
      BY <2>1
    <3>2. Len(<<a, b>>) = 2 /\ <<a, b>>[1] = a /\ <<a, b>>[2] = b
      OBVIOUS
    <3>3. QED
      BY <3>1, <3>2
  <2>3. QED
    BY <1>3, <2>2 DEF Calm, Bare
<1>4. ASSUME NEW a, NEW b, NEW c, Calm(a) /\ Calm(b) /\ Calm(c) PROVE Bare(<<a, b, c>>)
  <2>1. a \in Instrs /\ b \in Instrs /\ c \in Instrs
    BY <1>4 DEF Calm
  <2>2. PICK s \in Seq(Instrs) : s = <<a, b, c>> /\ Len(s) = 3 /\ s[1] = a /\ s[2] = b /\ s[3] = c
    <3>1. <<a, b, c>> \in Seq(Instrs)
      BY <2>1
    <3>2. Len(<<a, b, c>>) = 3 /\ <<a, b, c>>[1] = a /\ <<a, b, c>>[2] = b /\ <<a, b, c>>[3] = c
      OBVIOUS
    <3>3. QED
      BY <3>1, <3>2
  <2>3. QED
    BY <1>4, <2>2 DEF Calm, Bare
<1>5. ASSUME NEW a, NEW b, Calm(a) /\ a.op = "release" /\ b \in Instrs /\ b.part \notin TakeParts PROVE Bare(<<a, b>>)
  <2>1. a \in Instrs /\ b \in Instrs
    BY <1>5 DEF Calm
  <2>2. PICK s \in Seq(Instrs) : s = <<a, b>> /\ Len(s) = 2 /\ s[1] = a /\ s[2] = b
    <3>1. <<a, b>> \in Seq(Instrs)
      BY <2>1
    <3>2. Len(<<a, b>>) = 2 /\ <<a, b>>[1] = a /\ <<a, b>>[2] = b
      OBVIOUS
    <3>3. QED
      BY <3>1, <3>2
  <2>3. Freed(s, 2)
    BY <1>5, <2>2 DEF Freed
  <2>4. QED
    BY <1>5, <2>2, <2>3 DEF Calm, Bare
<1>6. QED
  BY <1>1, <1>2, <1>3, <1>4, <1>5

(* After others, what comes after a release still does.                     *)
LEMMA FreedAfter ==
  ASSUME NEW p \in Seq(Instrs), NEW q \in Seq(Instrs), NEW m, m = Len(p), NEW k \in 1..Len(q), Freed(q, k)
  PROVE  Freed(p \o q, m + k)
<1>1. PICK s : s = p \o q
  OBVIOUS
<1>2. PICK n \in Nat : n = Len(q)
  OBVIOUS
<1>3. m \in Nat /\ k \in 1..n /\ \A i \in 1..n : s[m + i] = q[i]
  BY <1>1, <1>2
<1>4. CASE k > 1 /\ q[k - 1].op = "release"
  <2>1. k - 1 \in 1..n /\ m + (k - 1) = (m + k) - 1 /\ m + k > 1
    BY <1>3, <1>4
  <2>2. s[(m + k) - 1] = q[k - 1]
    BY <1>3, <2>1
  <2>3. QED
    BY <1>1, <1>4, <2>1, <2>2 DEF Freed
<1>5. CASE k > 2 /\ q[k - 1].op = "step" /\ q[k - 2].op = "release"
  <2>1. /\ k - 1 \in 1..n /\ m + (k - 1) = (m + k) - 1 /\ m + k > 2
        /\ k - 2 \in 1..n /\ m + (k - 2) = (m + k) - 2
    BY <1>3, <1>5
  <2>2. s[(m + k) - 1] = q[k - 1] /\ s[(m + k) - 2] = q[k - 2]
    BY <1>3, <2>1
  <2>3. QED
    BY <1>1, <1>5, <2>1, <2>2 DEF Freed
<1>6. QED
  BY <1>4, <1>5 DEF Freed

(* And so do the instructions that code begins with.                        *)
LEMMA FreedBefore ==
  ASSUME NEW p \in Seq(Instrs), NEW q \in Seq(Instrs), NEW k \in 1..Len(p), Freed(p, k)
  PROVE  Freed(p \o q, k)
<1>1. PICK s : s = p \o q
  OBVIOUS
<1>2. k \in Int /\ \A i \in 1..Len(p) : s[i] = p[i]
  BY <1>1
<1>3. (k > 1 => k - 1 \in 1..Len(p)) /\ (k > 2 => k - 2 \in 1..Len(p))
  OBVIOUS
<1>4. QED
  BY <1>1, <1>2, <1>3 DEF Freed

(* Bare instructions may follow tidy ones, whatever token these are of.     *)
LEMMA TidyBare ==
  ASSUME NEW p, NEW q, NEW j, Tidy(p, j), Bare(q)
  PROVE  Tidy(p \o q, j)
<1>1. PICK m \in Nat : m = Len(p)
  BY DEF Tidy
<1>2. PICK n \in Nat : n = Len(q)
  BY DEF Bare
<1>3. PICK s : s = p \o q
  OBVIOUS
<1>4. p \in Seq(Instrs) /\ q \in Seq(Instrs)
  BY DEF Tidy, Bare
<1>5. /\ s \in Seq(Instrs) /\ Len(s) = m + n /\ \A i \in 1..m : s[i] = p[i]
      /\ \A i \in 1..n : s[m + i] = q[i]
  BY <1>1, <1>2, <1>3, <1>4
<1>6. \A i \in 1..m + n : i \in 1..m \/ \E k \in 1..n : i = m + k
  <2> TAKE i \in 1..m + n
  <2>1. CASE i > m
    <3>1. i - m \in 1..n /\ i = m + (i - m)
      BY <2>1
    <3>2. QED
      BY <3>1
  <2>2. QED
    BY <2>1
<1>7. \A k \in 1..n : s[m + k].part \notin TakeParts
  BY <1>2, <1>5 DEF Bare
<1>8. ASSUME NEW i \in 1..m PROVE BackAt(s, i)
  <2>1. LikeUpTo(p, s, m)
    BY <1>1, <1>5 DEF LikeUpTo
  <2>2. i \in 1..m + 1 /\ BackAt(p, i)
    BY <1>1 DEF Tidy, Backs
  <2>3. (Freed(p, i) => Freed(s, i)) /\ (InHead(p, i, 0) => InHead(s, i, 0))
    BY <1>4, <1>5, <2>1, <2>2, HeadAlike
  <2>4. QED
    BY <1>5, <2>2, <2>3 DEF BackAt
<1>9. ASSUME NEW k \in 1..n PROVE BackAt(s, m + k)
  <2>1. Freed(q, k) => Freed(s, m + k)
    BY <1>1, <1>2, <1>3, <1>4, FreedAfter
  <2>2. q[k].op \in {"br", "brif"} => Freed(q, k)
    BY <1>2 DEF Bare
  <2>3. QED
    BY <1>5, <2>1, <2>2 DEF BackAt
<1>10. Backs(s)
  BY <1>5, <1>6, <1>8, <1>9 DEF Backs
<1>11. ASSUME NEW i \in 1..Len(s), Marked(s, i) PROVE i \in 1..m /\ Marked(p, i) /\ s[i] = p[i]
  BY <1>5, <1>6, <1>7, <1>11 DEF Marked
<1>12. Once(s)
  <2> SUFFICES ASSUME NEW i \in 1..Len(s), NEW k \in 1..Len(s), Marked(s, i), s[i].part = s[k].part, s[i].at = s[k].at
               PROVE  i = k
    BY DEF Once
  <2>1. Marked(s, k)
    BY DEF Marked
  <2>2. i \in 1..m /\ k \in 1..m /\ Marked(p, i) /\ s[i] = p[i] /\ s[k] = p[k]
    BY <1>11, <2>1
  <2>3. Once(p)
    BY DEF Tidy
  <2>4. QED
    BY <1>1, <2>2, <2>3 DEF Once
<1>13. \A i \in 1..Len(s) : Marked(s, i) => s[i].at = j
  BY <1>1, <1>11 DEF Tidy
<1>14. QED
  BY <1>3, <1>5, <1>10, <1>12, <1>13 DEF Tidy

(* Bare instructions are tidy, and bare ones may follow them.               *)
LEMMA BareTidy ==
  ASSUME NEW q, Bare(q), NEW j
  PROVE  Tidy(q, j)
<1>1. Tidy(<<>>, j)
  BY DEF Tidy, Backs, Once
<1>2. <<>> \o q = q
  BY DEF Bare
<1>3. QED
  BY <1>1, <1>2, TidyBare

(* Bare instructions after bare ones.                                       *)
LEMMA BareBoth ==
  ASSUME NEW p, NEW q, Bare(p), Bare(q)
  PROVE  Bare(p \o q)
<1>1. p \in Seq(Instrs) /\ q \in Seq(Instrs)
  BY DEF Bare
<1>2. PICK m \in Nat : m = Len(p)
  BY <1>1
<1>3. PICK n \in Nat : n = Len(q)
  BY <1>1
<1>4. PICK s : s = p \o q
  OBVIOUS
<1>5. /\ s \in Seq(Instrs) /\ Len(s) = m + n /\ \A i \in 1..m : s[i] = p[i]
      /\ \A i \in 1..n : s[m + i] = q[i]
  BY <1>1, <1>2, <1>3, <1>4
<1> DEFINE Good(i) == s[i].part \notin TakeParts /\ (s[i].op \in {"br", "brif"} => Freed(s, i))
<1>6. ASSUME NEW i \in 1..m PROVE Good(i)
  <2>1. p[i].part \notin TakeParts /\ (p[i].op \in {"br", "brif"} => Freed(p, i))
    BY <1>2 DEF Bare
  <2>2. Freed(p, i) => Freed(s, i)
    BY <1>1, <1>2, <1>4, FreedBefore
  <2>3. QED
    BY <1>5, <2>1, <2>2
<1>7. ASSUME NEW k \in 1..n PROVE Good(m + k)
  <2>1. q[k].part \notin TakeParts /\ (q[k].op \in {"br", "brif"} => Freed(q, k))
    BY <1>3 DEF Bare
  <2>2. Freed(q, k) => Freed(s, m + k)
    BY <1>1, <1>2, <1>3, <1>4, FreedAfter
  <2>3. s[m + k] = q[k]
    BY <1>5
  <2>4. QED
    BY <2>1, <2>2, <2>3
<1>8. ASSUME NEW i \in 1..m + n PROVE Good(i)
  <2>1. CASE i > m
    <3>1. PICK k \in 1..n : k = i - m /\ i = m + k
      BY <2>1
    <3> HIDE DEF Good
    <3>2. QED
      BY <1>7, <3>1
  <2>2. CASE i \in 1..m
    BY <1>6, <2>2
  <2>3. QED
    BY <2>1, <2>2
<1>9. QED
  BY <1>4, <1>5, <1>8 DEF Bare

(* The places of p that take bytes have their parts in taking.                *)
Known(p, j, taking) == Tidy(p, j) /\ \A i \in 1..Len(p) : Marked(p, i) => p[i].part \in taking
(* The end of p is d blocks deep in the head of a loop.                     *)
Heads(p, d) == p \in Seq(Instrs) /\ d \in Int /\ InHead(p, Len(p) + 1, d)

(* Nothing is tidy.                                                         *)
LEMMA NoneKnown ==
  ASSUME NEW j
  PROVE  Known(<<>>, j, {})
BY DEF Known, Tidy, Backs, Once

(* An instruction more: a place that is not in p yet, or a branch out of    *)
(* the head of a loop, or neither.                                          *)
LEMMA KnownAppend ==
  ASSUME NEW p, NEW j, NEW taking, Known(p, j, taking), NEW a \in Instrs, NEW t, t = Append(p, a),
         a.part \in TakeParts => a.at = j /\ a.part \notin taking,
         a.op \in {"br", "brif"} => a.op = "brif" /\ a.n = 1 /\ Heads(p, 0),
         NEW more, taking \subseteq more, a.part \in TakeParts => a.part \in more
  PROVE  Known(t, j, more)
<1>1. p \in Seq(Instrs) /\ Backs(p) /\ Once(p)
  BY DEF Known, Tidy
<1>2. PICK n \in Nat : n = Len(p)
  BY <1>1
<1>3. /\ t \in Seq(Instrs) /\ Len(t) = n + 1 /\ t[n + 1] = a
      /\ \A i \in 1..n : t[i] = p[i]
  BY <1>1, <1>2
<1>4. \A i \in 1..n + 1 : i = n + 1 \/ i \in 1..n
  BY <1>2
<1>5. LikeUpTo(p, t, n)
  BY <1>2, <1>3 DEF LikeUpTo
<1>6. ASSUME NEW i \in 1..n PROVE BackAt(t, i)
  <2>1. i \in 1..n + 1 /\ BackAt(p, i)
    BY <1>1, <1>2 DEF Backs
  <2>2. (Freed(p, i) => Freed(t, i)) /\ \A d \in Int : InHead(p, i, d) => InHead(t, i, d)
    BY <1>1, <1>3, <1>5, <2>1, HeadAlike
  <2>3. QED
    BY <1>3, <2>1, <2>2 DEF BackAt
<1>7. BackAt(t, n + 1)
  <2>1. CASE a.op \in {"br", "brif"}
    <3>1. a.op = "brif" /\ a.n = 1 /\ InHead(p, n + 1, 0)
      BY <1>2, <2>1 DEF Heads
    <3>2. n + 1 \in 1..n + 1
      BY <1>2
    <3>3. \A d \in Int : InHead(p, n + 1, d) => InHead(t, n + 1, d)
      BY <1>1, <1>3, <1>5, <3>2, HeadAlike
    <3>4. QED
      BY <1>3, <3>1, <3>3 DEF BackAt
  <2>2. CASE a.op \notin {"br", "brif"}
    BY <1>3, <2>2 DEF BackAt
  <2>3. QED
    BY <2>1, <2>2
<1>8. Backs(t)
  BY <1>3, <1>4, <1>6, <1>7 DEF Backs
<1>9. \A i \in 1..n : Marked(p, i) => p[i].part \in taking /\ p[i].at = j
  BY <1>2 DEF Known, Tidy
<1>10. ASSUME NEW i \in 1..n + 1, Marked(t, i)
       PROVE  /\ t[i].at = j /\ t[i].part \in more
              /\ i # n + 1 => i \in 1..n /\ Marked(p, i) /\ t[i].part \in taking /\ t[i] = p[i]
  <2>1. CASE i = n + 1
    BY <1>3, <1>10, <2>1 DEF Marked
  <2>2. CASE i \in 1..n
    <3>1. Marked(p, i) /\ t[i] = p[i]
      BY <1>3, <1>10, <2>2 DEF Marked
    <3>2. QED
      BY <1>9, <2>2, <3>1
  <2>3. QED
    BY <1>4, <2>1, <2>2
<1>11. Once(t)
  <2> SUFFICES ASSUME NEW i \in 1..n + 1, NEW k \in 1..n + 1, Marked(t, i), t[i].part = t[k].part, t[i].at = t[k].at
               PROVE  i = k
    BY <1>3 DEF Once
  <2>1. Marked(t, k)
    BY DEF Marked
  <2>2. CASE i = n + 1 /\ k # n + 1
    <3>1. a.part \in taking /\ a.part \in TakeParts
      BY <1>3, <1>10, <2>1, <2>2 DEF Marked
    <3>2. QED
      BY <3>1
  <2>3. CASE i # n + 1 /\ k = n + 1
    <3>1. a.part \in taking /\ a.part \in TakeParts
      BY <1>3, <1>10, <2>1, <2>3 DEF Marked
    <3>2. QED
      BY <3>1
  <2>4. CASE i # n + 1 /\ k # n + 1
    <3>1. i \in 1..n /\ Marked(p, i) /\ t[i] = p[i] /\ k \in 1..n /\ t[k] = p[k]
      BY <1>10, <2>1, <2>4
    <3>2. QED
      BY <1>1, <1>2, <3>1 DEF Once
  <2>5. QED
    BY <2>2, <2>3, <2>4
<1>12. Tidy(t, j)
  BY <1>3, <1>8, <1>10, <1>11 DEF Tidy
<1>13. QED
  BY <1>3, <1>10, <1>12 DEF Known

(* An instruction that is no branch.                                        *)
LEMMA KnownCalm ==
  ASSUME NEW p, NEW j, NEW taking, Known(p, j, taking), NEW a \in Instrs, NEW t, t = Append(p, a),
         a.op \notin {"br", "brif"}, a.part \notin TakeParts
  PROVE  Known(t, j, taking)
<1>1. taking \subseteq taking
  OBVIOUS
<1>2. QED
  BY <1>1, KnownAppend

(* A place that takes bytes.                                                *)
LEMMA KnownPlace ==
  ASSUME NEW p, NEW j, NEW taking, Known(p, j, taking), NEW a \in Instrs, NEW t, t = Append(p, a),
         a.op \notin {"br", "brif"}, a.at = j, a.part \notin taking, NEW more, more = taking \cup {a.part}
  PROVE  Known(t, j, more)
<1>1. taking \subseteq more /\ a.part \in more
  OBVIOUS
<1>2. QED
  BY <1>1, KnownAppend

(* A branch out of the head of a loop.                                      *)
LEMMA KnownBranch ==
  ASSUME NEW p, NEW j, NEW taking, Known(p, j, taking), NEW a \in Instrs, NEW t, t = Append(p, a),
         a.op = "brif", a.n = 1, Heads(p, 0), a.part \notin TakeParts
  PROVE  Known(t, j, taking)
<1>1. taking \subseteq taking
  OBVIOUS
<1>2. QED
  BY <1>1, KnownAppend

(* How deep in the head of a loop an instruction more leads.                *)
LEMMA HeadsAppend ==
  ASSUME NEW p, NEW d, Heads(p, d), NEW a \in Instrs, NEW t, t = Append(p, a), a.op \in Openers => d >= 0,
         NEW e, e = d + Delta(a.op)
  PROVE  Heads(t, e)
<1>1. p \in Seq(Instrs) /\ d \in Int
  BY DEF Heads
<1>2. PICK n \in Nat : n = Len(p)
  BY <1>1
<1>3. Extended(p, a, t)
  BY <1>1 DEF Extended
<1>4. InHead(p, n + 1, d)
  BY <1>2 DEF Heads
<1>5. t \in Seq(Instrs) /\ Len(t) = n + 1 /\ InHead(t, n + 2, d + Delta(a.op))
  BY <1>1, <1>2, <1>3, <1>4, HeadGrows
<1>6. e \in Int /\ (n + 1) + 1 = n + 2
  BY <1>1 DEF Delta
<1>7. QED
  BY <1>5, <1>6 DEF Heads

(* The head of a loop begins.                                               *)
LEMMA HeadsBegin ==
  ASSUME NEW p \in Seq(Instrs), NEW b \in Instrs, b.op = "block", NEW l \in Instrs, l.op = "loop",
         NEW t, t = Append(Append(p, b), l)
  PROVE  Heads(t, 0)
<1>1. PICK n \in Nat : n = Len(p)
  OBVIOUS
<1>2. PICK q \in Seq(Instrs) : q = Append(p, b)
  <2>1. Append(p, b) \in Seq(Instrs)
    OBVIOUS
  <2>2. QED
    BY <2>1
<1>3. Len(q) = n + 1 /\ q[n + 1] = b
  BY <1>1, <1>2
<1>4. Extended(q, l, t)
  BY <1>2 DEF Extended
<1>5. PICK m \in Nat : m = n + 1 /\ m > 0
  BY <1>1
<1>6. t \in Seq(Instrs) /\ Len(t) = m + 1 /\ InHead(t, m + 2, 0)
  BY <1>3, <1>4, <1>5, HeadGrows
<1>7. (m + 1) + 1 = m + 2
  OBVIOUS
<1>8. QED
  BY <1>6, <1>7 DEF Heads

(* An if leads one deeper, its end back.                                    *)
LEMMA HeadsAlong ==
  ASSUME NEW p, NEW d, Heads(p, d), NEW a \in Instrs, NEW t, t = Append(p, a)
  PROVE  /\ a.op \notin Openers /\ a.op # "end" => Heads(t, d)
         /\ a.op = "if" /\ d = 0 => Heads(t, 1)
         /\ a.op = "end" /\ d = 1 => Heads(t, 0)
<1>1. d \in Int
  BY DEF Heads
<1>2. ASSUME a.op \notin Openers, a.op # "end" PROVE Heads(t, d)
  <2>1. d = d + Delta(a.op)
    BY <1>1, <1>2 DEF Delta
  <2>2. QED
    BY <1>2, <2>1, HeadsAppend
<1>3. ASSUME a.op = "if", d = 0 PROVE Heads(t, 1)
  <2>1. PICK e : e = d + Delta(a.op) /\ e = 1
    BY <1>3 DEF Delta, Openers
  <2>2. d >= 0
    BY <1>3
  <2>3. Heads(t, e)
    BY <2>1, <2>2, HeadsAppend
  <2>4. QED
    BY <2>1, <2>3
<1>4. ASSUME a.op = "end", d = 1 PROVE Heads(t, 0)
  <2>1. PICK e : e = d + Delta(a.op) /\ e = 0
    BY <1>4 DEF Delta, Openers
  <2>2. a.op \notin Openers
    BY <1>4 DEF Openers
  <2>3. QED
    BY <2>1, <2>2, HeadsAppend
<1>5. QED
  BY <1>2, <1>3, <1>4

(* The operations and the parts that the code of a statement has.           *)
LEMMA CodeCalm ==
  /\ \A op \in {"block", "loop", "if", "else", "end", "eqz", "release"} : Calm(Op(op)) /\ Op(op).op = op
  /\ \A n \in Int, op \in {"const", "set", "get"} : Calm(Ins(op, n)) /\ Ins(op, n).op = op
<1>1. {"block", "loop", "if", "else", "end", "eqz", "release", "const", "set", "get"}
        \subseteq OpNames \ {"br", "brif"}
  BY DEF OpNames
<1>2. \A op, n : Ins(op, n).op = op
  BY DEF Ins
<1>3. \A op \in OpNames \ {"br", "brif"}, n \in Int : Calm(Ins(op, n))
  BY InsCalm
<1>4. QED
  BY <1>1, <1>2, <1>3 DEF Op

(* A place that takes bytes is of the token it is emitted for.              *)
LEMMA PlaceMarked ==
  ASSUME NEW op \in Answering, NEW j \in Nat, NEW part \in TakeParts
  PROVE  /\ Place(op, j, part) \in Instrs /\ Place(op, j, part).op = op
         /\ Place(op, j, part).at = j /\ Place(op, j, part).part = part
<1>1. part \in PartNames
  BY DEF TakeParts, PartNames
<1>2. QED
  BY <1>1, PlaceIs, PlaceCalm

(* The code of a condition: it reads each of its two places once.           *)
LEMMA ConditionKnown ==
  ASSUME NEW shape \in Shapes, NEW j \in Nat
  PROVE  Tidy(Condition(shape, j), j)
<1>1. /\ Calm(Op("eqz")) /\ Calm(Op("if")) /\ Calm(Ins("const", 1)) /\ Calm(Op("else")) /\ Calm(Op("end"))
      /\ Op("eqz").op = "eqz" /\ Op("if").op = "if" /\ Ins("const", 1).op = "const" /\ Op("else").op = "else"
      /\ Op("end").op = "end"
  BY CodeCalm
<1>2. /\ Place("read", j, "c") \in Instrs /\ Place("read", j, "c").op = "read" /\ Place("read", j, "c").at = j
      /\ Place("read", j, "c").part = "c"
      /\ Place("read", j, "d") \in Instrs /\ Place("read", j, "d").op = "read" /\ Place("read", j, "d").at = j
      /\ Place("read", j, "d").part = "d"
  <2>1. "c" \in TakeParts /\ "d" \in TakeParts /\ "read" \in Answering
    BY DEF TakeParts, Answering
  <2>2. QED
    BY <2>1, PlaceMarked
<1>r. PICK r \in Instrs : r = Place("read", j, "c") /\ r.op = "read" /\ r.at = j /\ r.part = "c"
  BY <1>2
<1>r2. PICK r2 \in Instrs : r2 = Place("read", j, "d") /\ r2.op = "read" /\ r2.at = j /\ r2.part = "d"
  BY <1>2
<1>z. PICK z \in Instrs : z = Op("eqz") /\ z.op = "eqz" /\ z.part \notin TakeParts
  BY <1>1 DEF Calm
<1>i. PICK i \in Instrs : i = Op("if") /\ i.op = "if" /\ i.part \notin TakeParts
  BY <1>1 DEF Calm
<1>k. PICK k \in Instrs : k = Ins("const", 1) /\ k.op = "const" /\ k.part \notin TakeParts
  BY <1>1 DEF Calm
<1>l. PICK l \in Instrs : l = Op("else") /\ l.op = "else" /\ l.part \notin TakeParts
  BY <1>1 DEF Calm
<1>e. PICK e \in Instrs : e = Op("end") /\ e.op = "end" /\ e.part \notin TakeParts
  BY <1>1 DEF Calm
<1>shape. shape \in {"plain", "not", "ornot"}
  BY BodyConstants
<1>3. PICK s3 : s3 = <<>> /\ Known(s3, j, {})
  BY NoneKnown
<1>4. PICK s4 : s4 = Append(s3, r)
  OBVIOUS
<1>5. Known(s4, j, {"c"})
  <2>1. r.part \notin {} /\ {"c"} = {} \cup {r.part}
    BY <1>r
  <2>2. QED
    BY ONLY <1>3, <1>r, <2>1, <1>4, KnownPlace
<1>6. CASE shape = "plain"
  <2>1. <<r>> = s4
    BY ONLY <1>3, <1>4
  <2>2. Condition(shape, j) = <<r>>
    BY <1>r, <1>6 DEF Condition
  <2>3. QED
    BY <1>5, <2>1, <2>2 DEF Known
<1>7. CASE shape = "not"
  <2>1. PICK t1 : t1 = Append(s4, z)
    OBVIOUS
  <2>2. Known(t1, j, {"c"})
    BY ONLY <1>5, <1>z, <2>1, KnownCalm
  <2>3. <<r, z>> = t1
    BY ONLY <1>3, <1>4, <2>1
  <2>4. Condition(shape, j) = <<r, z>>
    BY <1>r, <1>z, <1>7 DEF Condition
  <2>5. QED
    BY <2>2, <2>3, <2>4 DEF Known
<1>8. CASE shape = "ornot"
  <2>1. PICK t1 : t1 = Append(s4, i)
    OBVIOUS
  <2>2. Known(t1, j, {"c"})
    BY ONLY <1>5, <1>i, <2>1, KnownCalm
  <2>3. PICK t3 : t3 = Append(t1, k)
    OBVIOUS
  <2>4. Known(t3, j, {"c"})
    BY ONLY <2>2, <1>k, <2>3, KnownCalm
  <2>5. PICK t5 : t5 = Append(t3, l)
    OBVIOUS
  <2>6. Known(t5, j, {"c"})
    BY ONLY <2>4, <1>l, <2>5, KnownCalm
  <2>7. PICK t7 : t7 = Append(t5, r2)
    OBVIOUS
  <2>8. Known(t7, j, {"c", "d"})
    <3>1. r2.part \notin {"c"} /\ {"c", "d"} = {"c"} \cup {r2.part}
      BY <1>r2
    <3>2. QED
      BY ONLY <2>6, <1>r2, <3>1, <2>7, KnownPlace
  <2>9. PICK t9 : t9 = Append(t7, z)
    OBVIOUS
  <2>10. Known(t9, j, {"c", "d"})
    BY ONLY <2>8, <1>z, <2>9, KnownCalm
  <2>11. PICK t11 : t11 = Append(t9, e)
    OBVIOUS
  <2>12. Known(t11, j, {"c", "d"})
    BY ONLY <2>10, <1>e, <2>11, KnownCalm
  <2>13. <<r, i, k, l, r2, z, e>> = t11
    BY ONLY <1>3, <1>4, <2>1, <2>3, <2>5, <2>7, <2>9, <2>11
  <2>14. Condition(shape, j) = <<r, i, k, l, r2, z, e>>
    BY <1>e, <1>i, <1>k, <1>l, <1>r, <1>r2, <1>z, <1>8 DEF Condition
  <2>15. QED
    BY <2>12, <2>13, <2>14 DEF Known
<1>9. QED
  BY <1>shape, <1>6, <1>7, <1>8

(* The head of a while: its condition, and the branch out of its loop.      *)
LEMMA WhileKnown ==
  ASSUME NEW shape \in Shapes, NEW j \in Nat
  PROVE  Tidy((<<Op("block"), Op("loop")>> \o Condition(shape, j)) \o <<Op("eqz"), BrIf(1)>>, j)
<1>1. /\ Calm(Op("eqz")) /\ Calm(Op("if")) /\ Calm(Ins("const", 1)) /\ Calm(Op("else")) /\ Calm(Op("end"))
      /\ Op("eqz").op = "eqz" /\ Op("if").op = "if" /\ Ins("const", 1).op = "const" /\ Op("else").op = "else"
      /\ Op("end").op = "end"
  BY CodeCalm
<1>2. /\ Place("read", j, "c") \in Instrs /\ Place("read", j, "c").op = "read" /\ Place("read", j, "c").at = j
      /\ Place("read", j, "c").part = "c"
      /\ Place("read", j, "d") \in Instrs /\ Place("read", j, "d").op = "read" /\ Place("read", j, "d").at = j
      /\ Place("read", j, "d").part = "d"
  <2>1. "c" \in TakeParts /\ "d" \in TakeParts /\ "read" \in Answering
    BY DEF TakeParts, Answering
  <2>2. QED
    BY <2>1, PlaceMarked
<1>r. PICK r \in Instrs : r = Place("read", j, "c") /\ r.op = "read" /\ r.at = j /\ r.part = "c"
  BY <1>2
<1>r2. PICK r2 \in Instrs : r2 = Place("read", j, "d") /\ r2.op = "read" /\ r2.at = j /\ r2.part = "d"
  BY <1>2
<1>z. PICK z \in Instrs : z = Op("eqz") /\ z.op = "eqz" /\ z.part \notin TakeParts
  BY <1>1 DEF Calm
<1>i. PICK i \in Instrs : i = Op("if") /\ i.op = "if" /\ i.part \notin TakeParts
  BY <1>1 DEF Calm
<1>k. PICK k \in Instrs : k = Ins("const", 1) /\ k.op = "const" /\ k.part \notin TakeParts
  BY <1>1 DEF Calm
<1>l. PICK l \in Instrs : l = Op("else") /\ l.op = "else" /\ l.part \notin TakeParts
  BY <1>1 DEF Calm
<1>e. PICK e \in Instrs : e = Op("end") /\ e.op = "end" /\ e.part \notin TakeParts
  BY <1>1 DEF Calm
<1>delta. /\ Delta("read") = 0 /\ Delta("eqz") = 0 /\ Delta("if") = 1 /\ Delta("const") = 0 /\ Delta("else") = 0
          /\ Delta("end") = -1
  BY DeltaIs DEF OpNames
<1>3. Calm(Op("block")) /\ Calm(Op("loop")) /\ Op("block").op = "block" /\ Op("loop").op = "loop"
  BY CodeCalm
<1>b. PICK b \in Instrs : b = Op("block") /\ b.op = "block" /\ b.part \notin TakeParts
  BY <1>3 DEF Calm
<1>m. PICK m \in Instrs : m = Op("loop") /\ m.op = "loop" /\ m.part \notin TakeParts
  BY <1>3 DEF Calm
<1>x. PICK x \in Instrs : x = BrIf(1) /\ x.op = "brif" /\ x.n = 1 /\ x.part \notin TakeParts
  <2>1. BrIf(1) \in Instrs /\ BrIf(1).op = "brif" /\ BrIf(1).part \notin TakeParts
    BY InsIs, InsCalm DEF BrIf, OpNames
  <2>2. BrIf(1).n = 1
    BY DEF BrIf, Ins
  <2>3. QED
    BY <2>1, <2>2
<1>shape. shape \in {"plain", "not", "ornot"}
  BY BodyConstants
<1>4. PICK s4 : s4 = <<>> /\ s4 \in Seq(Instrs) /\ Known(s4, j, {})
  <2>1. <<>> \in Seq(Instrs)
    OBVIOUS
  <2>2. QED
    BY <2>1, NoneKnown
<1>5. PICK s5 : s5 = Append(s4, b)
  OBVIOUS
<1>6. Known(s5, j, {})
  BY ONLY <1>4, <1>b, <1>5, KnownCalm
<1>7. PICK s7 : s7 = Append(s5, m)
  OBVIOUS
<1>8. Known(s7, j, {})
  BY ONLY <1>6, <1>m, <1>7, KnownCalm
<1>9. Known(s7, j, {}) /\ Heads(s7, 0)
  BY ONLY <1>b, <1>m, <1>4, <1>5, <1>7, <1>8, HeadsBegin
<1>10. PICK s10 : s10 = Append(s7, r)
  OBVIOUS
<1>11. Known(s10, j, {"c"}) /\ Heads(s10, 0)
  <2>1. r.part \notin {} /\ {"c"} = {} \cup {r.part}
    BY <1>r
  <2>2. QED
    BY ONLY <1>9, <1>r, <2>1, <1>10, KnownPlace, HeadsAlong DEF Openers
<1>12. CASE shape = "plain"
  <2>1. PICK t1 : t1 = Append(s10, z)
    OBVIOUS
  <2>2. Known(t1, j, {"c"}) /\ Heads(t1, 0)
    BY ONLY <1>11, <1>z, <2>1, KnownCalm, HeadsAlong DEF Openers
  <2>3. PICK t3 : t3 = Append(t1, x)
    OBVIOUS
  <2>4. Known(t3, j, {"c"})
    BY ONLY <2>2, <1>x, <2>3, KnownBranch
  <2>5. <<b, m, r, z, x>> = t3
    <3>1. /\ s4 = <<>> /\ s5 = Append(s4, b) /\ s7 = Append(s5, m) /\ s10 = Append(s7, r)
          /\ t1 = Append(s10, z) /\ t3 = Append(t1, x)
      BY ONLY <1>4, <1>5, <1>7, <1>10, <2>1, <2>3
    <3>2. QED
      BY ONLY <3>1
  <2>6. Condition(shape, j) = <<r>>
    BY <1>r, <1>12 DEF Condition
  <2>7. <<b, m, r>> = <<b, m>> \o <<r>>
    OBVIOUS
  <2>8. <<b, m, r, z, x>> = <<b, m, r>> \o <<z, x>>
    OBVIOUS
  <2>9. QED
    BY <1>b, <1>m, <1>z, <1>x, <2>4, <2>5, <2>6, <2>7, <2>8 DEF Known
<1>13. CASE shape = "not"
  <2>1. PICK t1 : t1 = Append(s10, z)
    OBVIOUS
  <2>2. Known(t1, j, {"c"}) /\ Heads(t1, 0)
    BY ONLY <1>11, <1>z, <2>1, KnownCalm, HeadsAlong DEF Openers
  <2>3. PICK t3 : t3 = Append(t1, z)
    OBVIOUS
  <2>4. Known(t3, j, {"c"}) /\ Heads(t3, 0)
    BY ONLY <2>2, <1>z, <2>3, KnownCalm, HeadsAlong DEF Openers
  <2>5. PICK t5 : t5 = Append(t3, x)
    OBVIOUS
  <2>6. Known(t5, j, {"c"})
    BY ONLY <2>4, <1>x, <2>5, KnownBranch
  <2>7. <<b, m, r, z, z, x>> = t5
    <3>1. /\ s4 = <<>> /\ s5 = Append(s4, b) /\ s7 = Append(s5, m) /\ s10 = Append(s7, r)
          /\ t1 = Append(s10, z) /\ t3 = Append(t1, z) /\ t5 = Append(t3, x)
      BY ONLY <1>4, <1>5, <1>7, <1>10, <2>1, <2>3, <2>5
    <3>2. QED
      BY ONLY <3>1
  <2>8. Condition(shape, j) = <<r, z>>
    BY <1>r, <1>z, <1>13 DEF Condition
  <2>9. <<b, m, r, z>> = <<b, m>> \o <<r, z>>
    OBVIOUS
  <2>10. <<b, m, r, z, z, x>> = <<b, m, r, z>> \o <<z, x>>
    OBVIOUS
  <2>11. QED
    BY <1>b, <1>m, <1>z, <1>x, <2>6, <2>7, <2>8, <2>9, <2>10 DEF Known
<1>14. CASE shape = "ornot"
  <2>1. PICK t1 : t1 = Append(s10, i)
    OBVIOUS
  <2>2. Known(t1, j, {"c"}) /\ Heads(t1, 1)
    BY ONLY <1>11, <1>i, <2>1, KnownCalm, HeadsAlong DEF Openers
  <2>3. PICK t3 : t3 = Append(t1, k)
    OBVIOUS
  <2>4. Known(t3, j, {"c"}) /\ Heads(t3, 1)
    BY ONLY <2>2, <1>k, <2>3, KnownCalm, HeadsAlong DEF Openers
  <2>5. PICK t5 : t5 = Append(t3, l)
    OBVIOUS
  <2>6. Known(t5, j, {"c"}) /\ Heads(t5, 1)
    BY ONLY <2>4, <1>l, <2>5, KnownCalm, HeadsAlong DEF Openers
  <2>7. PICK t7 : t7 = Append(t5, r2)
    OBVIOUS
  <2>8. Known(t7, j, {"c", "d"}) /\ Heads(t7, 1)
    <3>1. r2.part \notin {"c"} /\ {"c", "d"} = {"c"} \cup {r2.part}
      BY <1>r2
    <3>2. QED
      BY ONLY <2>6, <1>r2, <3>1, <2>7, KnownPlace, HeadsAlong DEF Openers
  <2>9. PICK t9 : t9 = Append(t7, z)
    OBVIOUS
  <2>10. Known(t9, j, {"c", "d"}) /\ Heads(t9, 1)
    BY ONLY <2>8, <1>z, <2>9, KnownCalm, HeadsAlong DEF Openers
  <2>11. PICK t11 : t11 = Append(t9, e)
    OBVIOUS
  <2>12. Known(t11, j, {"c", "d"}) /\ Heads(t11, 0)
    BY ONLY <2>10, <1>e, <2>11, KnownCalm, HeadsAlong DEF Openers
  <2>13. PICK t13 : t13 = Append(t11, z)
    OBVIOUS
  <2>14. Known(t13, j, {"c", "d"}) /\ Heads(t13, 0)
    BY ONLY <2>12, <1>z, <2>13, KnownCalm, HeadsAlong DEF Openers
  <2>15. PICK t15 : t15 = Append(t13, x)
    OBVIOUS
  <2>16. Known(t15, j, {"c", "d"})
    BY ONLY <2>14, <1>x, <2>15, KnownBranch
  <2>17. <<b, m, r, i, k, l, r2, z, e, z, x>> = t15
    <3>1. /\ s4 = <<>> /\ s5 = Append(s4, b) /\ s7 = Append(s5, m) /\ s10 = Append(s7, r)
          /\ t1 = Append(s10, i) /\ t3 = Append(t1, k) /\ t5 = Append(t3, l) /\ t7 = Append(t5, r2)
          /\ t9 = Append(t7, z) /\ t11 = Append(t9, e) /\ t13 = Append(t11, z) /\ t15 = Append(t13, x)
      BY ONLY <1>4, <1>5, <1>7, <1>10, <2>1, <2>3, <2>5, <2>7, <2>9, <2>11, <2>13, <2>15
    <3>2. QED
      BY ONLY <3>1
  <2>18. Condition(shape, j) = <<r, i, k, l, r2, z, e>>
    BY <1>e, <1>i, <1>k, <1>l, <1>r, <1>r2, <1>z, <1>14 DEF Condition
  <2>19. <<b, m, r, i, k, l, r2, z, e>> = <<b, m>> \o <<r, i, k, l, r2, z, e>>
    OBVIOUS
  <2>20. <<b, m, r, i, k, l, r2, z, e, z, x>> = <<b, m, r, i, k, l, r2, z, e>> \o <<z, x>>
    OBVIOUS
  <2>21. QED
    BY <1>b, <1>m, <1>z, <1>x, <2>16, <2>17, <2>18, <2>19, <2>20 DEF Known
<1>15. QED
  BY <1>shape, <1>12, <1>13, <1>14

(* The head of a for: it computes its first value and its limit, and leaves *)
(* its loop when the counter is beyond the limit.                           *)
LEMMA ForKnown ==
  ASSUME NEW j \in Nat, NEW l \in Int
  PROVE  Tidy(<<Place("init", j, "init"), Place("bound", j, "bound"), Ins("set", l), Op("block"), Op("loop"),
                Ins("get", l), Place("beyond", j, "test"), BrIf(1), Op("block")>>, j)
<1>1. {"init", "bound"} \subseteq TakeParts /\ {"init", "bound"} \subseteq Answering
  BY DEF TakeParts, Answering
<1>a. PICK a \in Instrs : a = Place("init", j, "init") /\ a.op = "init" /\ a.at = j /\ a.part = "init"
  BY <1>1, PlaceMarked
<1>b. PICK b \in Instrs : b = Place("bound", j, "bound") /\ b.op = "bound" /\ b.at = j /\ b.part = "bound"
  BY <1>1, PlaceMarked
<1>2. /\ Calm(Op("block")) /\ Calm(Op("loop")) /\ Op("block").op = "block" /\ Op("loop").op = "loop"
      /\ Calm(Ins("set", l)) /\ Calm(Ins("get", l)) /\ Ins("set", l).op = "set" /\ Ins("get", l).op = "get"
  BY CodeCalm
<1>c. PICK c \in Instrs : c = Ins("set", l) /\ c.op = "set" /\ c.part \notin TakeParts
  BY <1>2 DEF Calm
<1>d. PICK d \in Instrs : d = Op("block") /\ d.op = "block" /\ d.part \notin TakeParts
  BY <1>2 DEF Calm
<1>e. PICK e \in Instrs : e = Op("loop") /\ e.op = "loop" /\ e.part \notin TakeParts
  BY <1>2 DEF Calm
<1>f. PICK f \in Instrs : f = Ins("get", l) /\ f.op = "get" /\ f.part \notin TakeParts
  BY <1>2 DEF Calm
<1>g. PICK g \in Instrs : g = Place("beyond", j, "test") /\ g.op = "beyond" /\ g.part \notin TakeParts
  <2>1. "beyond" \in Answering /\ "test" \in PartNames \ TakeParts
    BY DEF Answering, PartNames, TakeParts
  <2>2. Place("beyond", j, "test") \in Instrs /\ Place("beyond", j, "test").op = "beyond"
    BY <2>1, PlaceIs
  <2>3. Calm(Place("beyond", j, "test"))
    BY <2>1, PlaceCalm
  <2>4. QED
    BY <2>2, <2>3 DEF Calm
<1>h. PICK h \in Instrs : h = BrIf(1) /\ h.op = "brif" /\ h.n = 1 /\ h.part \notin TakeParts
  <2>1. BrIf(1) \in Instrs /\ BrIf(1).op = "brif" /\ BrIf(1).part \notin TakeParts
    BY InsIs, InsCalm DEF BrIf, OpNames
  <2>2. BrIf(1).n = 1
    BY DEF BrIf, Ins
  <2>3. QED
    BY <2>1, <2>2
<1>3. PICK s3 : s3 = <<>> /\ Known(s3, j, {})
  BY NoneKnown
<1>4. PICK s4 : s4 = Append(s3, a)
  OBVIOUS
<1>5. Known(s4, j, {"init"})
  <2>1. a.part \notin {} /\ {"init"} = {} \cup {a.part}
    BY <1>a
  <2>2. QED
    BY ONLY <1>3, <1>a, <2>1, <1>4, KnownPlace
<1>6. PICK s6 : s6 = Append(s4, b)
  OBVIOUS
<1>7. Known(s6, j, {"init", "bound"})
  <2>1. b.part \notin {"init"} /\ {"init", "bound"} = {"init"} \cup {b.part}
    BY <1>b
  <2>2. QED
    BY ONLY <1>5, <1>b, <2>1, <1>6, KnownPlace
<1>8. PICK s8 : s8 = Append(s6, c)
  OBVIOUS
<1>9. Known(s8, j, {"init", "bound"})
  BY ONLY <1>7, <1>c, <1>8, KnownCalm
<1>10. s8 \in Seq(Instrs)
  BY <1>9 DEF Known, Tidy
<1>11. PICK s11 : s11 = Append(s8, d)
  OBVIOUS
<1>12. Known(s11, j, {"init", "bound"})
  BY ONLY <1>9, <1>d, <1>11, KnownCalm
<1>13. PICK s13 : s13 = Append(s11, e)
  OBVIOUS
<1>14. Known(s13, j, {"init", "bound"})
  BY ONLY <1>12, <1>e, <1>13, KnownCalm
<1>15. Known(s13, j, {"init", "bound"}) /\ Heads(s13, 0)
  BY ONLY <1>d, <1>e, <1>10, <1>11, <1>13, <1>14, HeadsBegin
<1>16. PICK s16 : s16 = Append(s13, f)
  OBVIOUS
<1>17. Known(s16, j, {"init", "bound"}) /\ Heads(s16, 0)
  BY ONLY <1>15, <1>f, <1>16, KnownCalm, HeadsAlong DEF Openers
<1>18. PICK s18 : s18 = Append(s16, g)
  OBVIOUS
<1>19. Known(s18, j, {"init", "bound"}) /\ Heads(s18, 0)
  BY ONLY <1>17, <1>g, <1>18, KnownCalm, HeadsAlong DEF Openers
<1>20. PICK s20 : s20 = Append(s18, h)
  OBVIOUS
<1>21. Known(s20, j, {"init", "bound"})
  BY ONLY <1>19, <1>h, <1>20, KnownBranch
<1>22. PICK s22 : s22 = Append(s20, d)
  OBVIOUS
<1>23. Known(s22, j, {"init", "bound"})
  BY ONLY <1>21, <1>d, <1>22, KnownCalm
<1>24. <<a, b, c, d, e, f, g, h, d>> = s22
  <2>1. /\ s3 = <<>> /\ s4 = Append(s3, a) /\ s6 = Append(s4, b) /\ s8 = Append(s6, c)
        /\ s11 = Append(s8, d) /\ s13 = Append(s11, e) /\ s16 = Append(s13, f)
        /\ s18 = Append(s16, g) /\ s20 = Append(s18, h) /\ s22 = Append(s20, d)
    BY ONLY <1>3, <1>4, <1>6, <1>8, <1>11, <1>13, <1>16, <1>18, <1>20, <1>22
  <2>2. QED
    BY ONLY <2>1
<1>25. QED
  BY <1>a, <1>b, <1>c, <1>d, <1>e, <1>f, <1>g, <1>h, <1>23, <1>24 DEF Known

(* A statement without statements in it computes no places that take bytes. *)
LEMMA SimpleBare ==
  ASSUME NEW shape \in Simples, NEW j \in Nat
  PROVE  /\ shape = "plain" => Bare(<<Place("act", j, "act")>>)
         /\ shape # "plain" => Bare(Through(shape, j))
<1>1. /\ {"act", "proc", "invoke", "read"} \subseteq Answering
      /\ {"act", "proc", "argproc", "argcall", "call", "arg"} \subseteq PartNames \ TakeParts
  BY DEF Answering, PartNames, TakeParts
<1>2. /\ Calm(Place("act", j, "act")) /\ Calm(Place("proc", j, "proc")) /\ Calm(Place("proc", j, "argproc"))
      /\ Calm(Place("invoke", j, "argcall")) /\ Calm(Place("invoke", j, "call")) /\ Calm(Place("read", j, "arg"))
  BY <1>1, PlaceCalm
<1>3. Calm(Ins("set", CaseTemp)) /\ Calm(Ins("get", CaseTemp))
  BY CodeCalm DEF CaseTemp
<1>4. shape \in {"plain", "none", "arg", "call"}
  BY BodyConstants
<1>5. ASSUME shape # "plain" PROVE Bare(Through(shape, j))
  <2>1. Bare(Argument(shape, j))
    <3>1. CASE shape = "none"
      <4>1. Argument(shape, j) = <<>>
        BY <3>1 DEF Argument
      <4>2. QED
        BY <4>1, BareIs
    <3>2. CASE shape = "arg"
      <4>1. Argument(shape, j) = <<Place("read", j, "arg")>>
        BY <3>2 DEF Argument
      <4>2. QED
        BY <1>2, <4>1, BareIs
    <3>3. CASE shape = "call"
      <4>1. PICK a \in Instrs : a = Place("proc", j, "argproc") /\ Calm(a)
        BY <1>2 DEF Calm
      <4>2. PICK b \in Instrs : b = Ins("set", CaseTemp) /\ Calm(b)
        BY <1>3 DEF Calm
      <4>3. PICK c \in Instrs : c = Ins("get", CaseTemp) /\ Calm(c)
        BY <1>3 DEF Calm
      <4>4. PICK d \in Instrs : d = Place("invoke", j, "argcall") /\ Calm(d)
        BY <1>2 DEF Calm
      <4>5. Bare(<<a, b>>) /\ Bare(<<c, d>>)
        BY <4>1, <4>2, <4>3, <4>4, BareIs
      <4>6. <<a, b, c, d>> = <<a, b>> \o <<c, d>>
        OBVIOUS
      <4>7. Argument(shape, j) = <<a, b, c, d>>
        BY <3>3, <4>1, <4>2, <4>3, <4>4 DEF Argument
      <4>8. QED
        BY <4>5, <4>6, <4>7, BareBoth
    <3>4. QED
      BY <1>4, <1>5, <3>1, <3>2, <3>3
  <2>2. Bare(<<Place("proc", j, "proc"), Ins("set", CaseTemp)>>)
    BY <1>2, <1>3, BareIs
  <2>3. Bare(<<Ins("get", CaseTemp), Place("invoke", j, "call")>>)
    BY <1>2, <1>3, BareIs
  <2>4. PICK p : p = <<Place("proc", j, "proc"), Ins("set", CaseTemp)>> \o Argument(shape, j)
    OBVIOUS
  <2>5. Bare(p)
    BY <2>1, <2>2, <2>4, BareBoth
  <2>6. Through(shape, j) = p \o <<Ins("get", CaseTemp), Place("invoke", j, "call")>>
    BY <2>4 DEF Through
  <2>7. QED
    BY <2>3, <2>5, <2>6, BareBoth
<1>6. QED
  BY <1>2, <1>5, BareIs

(* Nor do the else before a label and the ends of a case.                   *)
LEMMA EndsBare ==
  ASSUME NEW n \in Nat
  PROVE  Bare(Elses(n)) /\ Bare([k \in 1..n |-> Op("end")])
<1>1. Calm(Op("else")) /\ Calm(Op("end"))
  BY CodeCalm
<1>2. Bare(Elses(n))
  BY <1>1, BareIs DEF Elses
<1>3. PICK e \in Instrs : e = Op("end") /\ Calm(e)
  BY <1>1 DEF Calm
<1>4. PICK s : s = [k \in 1..n |-> e]
  OBVIOUS
<1>5. s \in Seq(Instrs) /\ Len(s) = n /\ \A k \in 1..n : s[k] = e
  <2>1. s \in [1..n -> Instrs]
    BY <1>4
  <2>2. QED
    BY <1>4, <2>1
<1>6. Bare(s)
  BY <1>3, <1>5 DEF Bare, Calm
<1>7. QED
  BY <1>2, <1>3, <1>4, <1>6

(* The depths are those inside the constructs that are open after a step    *)
(* that opens m blocks.                                                     *)
Deeper(m) ==
  /\ exitDepth' = exitDepth + m /\ forLimitDepth' <= MaxFor
  /\ Inside(nest', exitDepth', breakDepth', continueDepth', forLimitDepth')
  /\ \A k \in 1..Len(nest') : nest'[k].at \in 1..Len(src) + 1

(* What every statement and every word of one leaves true: a token is       *)
(* appended, and code that opens m blocks is emitted.                       *)
LEMMA ParsingKeeps ==
  ASSUME BodyInv, phase = "parse", Parsing,
         NEW kind \in TokenKinds, NEW shape \in AnyShape, Token(kind, shape),
         NEW s, NEW m, NetIs(s, m), Emits(s), Deeper(m), Tidy(s, here)
  PROVE  BodyInv'
<1>1. /\ Buffer(buf) /\ OpenBlocks(buf.code) = exitDepth + 1 /\ pc = 1 /\ phase' = "parse" /\ pc' = 1
      /\ Inside(nest, exitDepth, breakDepth, continueDepth, forLimitDepth)
  BY DEF BodyInv, DepthInv, CodeInv, Parsing, machine
<1>after. /\ exitDepth' = exitDepth + m /\ forLimitDepth' <= MaxFor
          /\ Inside(nest', exitDepth', breakDepth', continueDepth', forLimitDepth')
          /\ \A k \in 1..Len(nest') : nest'[k].at \in 1..Len(src) + 1
  BY DEF Deeper
<1>2. Buffer(buf') /\ OpenBlocks(buf'.code) = OpenBlocks(buf.code) + m /\ m \in Int
  BY <1>1, EmitAllDoes DEF Emits
<1>3. OpenBlocks(buf'.code) = exitDepth' + 1
  <2>1. exitDepth \in Nat
    BY <1>1, InsideIs
  <2>2. QED
    BY <1>1, <1>2, <1>after, <2>1
<1>4. pc' \in 1..Len(buf'.code) + 1
  <2>1. Len(buf'.code) \in Nat
    BY <1>2 DEF Buffer
  <2>2. QED
    BY <1>1, <2>1
<1>5. CodeInv'
  BY <1>1, <1>2, <1>4 DEF CodeInv
<1>6. DepthInv'
  BY <1>3, <1>after DEF DepthInv
<1>7. TokenInv'
  <2>1. PICK n \in Nat : n = Len(src)
    BY DEF BodyInv, TokenInv
  <2>2. src \in Seq(Tokens) /\ \A j \in 1..n : src[j].up < j
    BY <2>1 DEF BodyInv, TokenInv
  <2>3. PICK up : up = IF nest = <<>> THEN 0 ELSE current.at
    OBVIOUS
  <2>4. up \in 0..n
    <3>1. CASE nest = <<>>
      BY <2>1, <2>3, <3>1
    <3>2. CASE nest # <<>>
      <4>1. nest \in Seq(Construct)
        BY <1>1 DEF Inside
      <4>2. Len(nest) \in 1..Len(nest)
        BY <3>2, <4>1
      <4>3. current.at \in 1..n
        BY <2>1, <4>2 DEF BodyInv, TokenInv, current
      <4>4. QED
        BY <2>3, <3>2, <4>3
    <3>3. QED
      BY <3>1, <3>2
  <2>5. PICK t \in Tokens : t = [kind |-> kind, shape |-> shape, up |-> up]
    <3>1. up \in Nat
      BY <2>1, <2>4
    <3>2. [kind |-> kind, shape |-> shape, up |-> up] \in Tokens
      BY <3>1 DEF Tokens
    <3>3. QED
      BY <3>2
  <2>6. src' = Append(src, t) /\ t.up = up
    BY <2>3, <2>5 DEF Token
  <2>7. /\ src' \in Seq(Tokens) /\ Len(src') = n + 1 /\ src'[n + 1] = t
        /\ \A j \in 1..n : src'[j] = src[j]
    BY <2>1, <2>2, <2>5, <2>6
  <2>8. \A j \in 1..n + 1 : src'[j].up < j
    <3> TAKE j \in 1..n + 1
    <3>1. CASE j = n + 1
      BY <2>1, <2>4, <2>6, <2>7, <3>1
    <3>2. CASE j # n + 1
      <4>1. j \in 1..n
        BY <2>1, <3>2
      <4>2. QED
        BY <2>2, <2>7, <4>1
    <3>3. QED
      BY <3>1, <3>2
  <2>9. QED
    BY <1>after, <2>1, <2>7, <2>8 DEF TokenInv
<1>8. ReleaseInv'
  <2>1. PICK n \in Nat : n = Len(src)
    BY DEF BodyInv, TokenInv
  <2>2. Backs(buf.code) /\ Once(buf.code) /\ UpTo(buf.code, n) /\ taken = {}
    BY <2>1 DEF BodyInv, ReleaseInv
  <2>3. Tidy(s, n + 1)
    BY <2>1 DEF here
  <2>4. Backs(buf'.code) /\ Once(buf'.code) /\ UpTo(buf'.code, n + 1)
    BY <1>1, <2>1, <2>2, <2>3, EmitAllTidy DEF Emits
  <2>5. taken' = {}
    BY <2>2 DEF Parsing, machine
  <2>6. Len(src') = n + 1
    <3>1. PICK t : src' = Append(src, t)
      BY DEF Token
    <3>2. src \in Seq(Tokens)
      BY DEF BodyInv, TokenInv
    <3>3. QED
      BY <2>1, <3>1, <3>2
  <2>7. QED
    BY <1>1, <2>4, <2>5, <2>6 DEF ReleaseInv
<1>9. QED
  BY <1>5, <1>6, <1>7, <1>8 DEF BodyInv

(* What a step of the parser starts from.                                   *)
LEMMA ParseFrom ==
  ASSUME BodyInv
  PROVE  /\ Inside(nest, exitDepth, breakDepth, continueDepth, forLimitDepth) /\ nest \in Seq(Construct)
         /\ exitDepth \in Nat /\ breakDepth \in Int /\ continueDepth \in Int /\ breakDepth >= -1
         /\ continueDepth >= -1 /\ forLimitDepth \in Nat /\ forLimitDepth <= MaxFor
         /\ Len(src) \in Nat /\ here \in Nat /\ here = Len(src) + 1 /\ Len(nest) \in Nat
         /\ \A k \in 1..Len(nest) : nest[k].at \in 1..Len(src) + 1
         /\ nest # <<>> => Len(nest) \in 1..Len(nest) /\ current.at \in 1..Len(src)
<1>1. /\ Inside(nest, exitDepth, breakDepth, continueDepth, forLimitDepth) /\ forLimitDepth <= MaxFor
      /\ src \in Seq(Tokens)
      /\ \A k \in 1..Len(nest) : nest[k].at \in 1..Len(src)
  BY DEF BodyInv, DepthInv, TokenInv
<1>2. /\ nest \in Seq(Construct) /\ exitDepth \in Nat /\ breakDepth \in Int /\ continueDepth \in Int
      /\ breakDepth >= -1 /\ continueDepth >= -1 /\ forLimitDepth \in Nat
  BY <1>1, InsideIs
<1>3. Len(src) \in Nat /\ here = Len(src) + 1 /\ Len(nest) \in Nat
  BY <1>1, <1>2 DEF here
<1>4. \A k \in 1..Len(nest) : nest[k].at \in 1..Len(src) + 1
  BY <1>1, <1>3
<1>5. ASSUME nest # <<>> PROVE Len(nest) \in 1..Len(nest) /\ current.at \in 1..Len(src)
  <2>1. Len(nest) \in 1..Len(nest)
    BY <1>2, <1>5
  <2>2. QED
    BY <1>1, <2>1 DEF current
<1>6. QED
  BY <1>1, <1>2, <1>3, <1>4, <1>5

(* A construct opens.                                                       *)
LEMMA OpensOne ==
  ASSUME BodyInv, NEW kind \in {"if", "while", "for", "repeat", "case"}, Opens(kind)
  PROVE  \E e \in Construct :
           /\ nest' = Append(nest, e) /\ e.kind = kind /\ e.arms = 0 /\ e.break = breakDepth
           /\ e.continue = continueDepth
           /\ \A k \in 1..Len(nest') : nest'[k].at \in 1..Len(src) + 1
<1>1. /\ nest \in Seq(Construct) /\ breakDepth \in Int /\ continueDepth \in Int /\ here \in Nat
      /\ here = Len(src) + 1 /\ Len(src) \in Nat /\ Len(nest) \in Nat
      /\ \A k \in 1..Len(nest) : nest[k].at \in 1..Len(src) + 1
  BY ParseFrom
<1>2. PICK e : e = [kind |-> kind, at |-> here, arms |-> 0, last |-> FALSE,
                    break |-> breakDepth, continue |-> continueDepth]
  OBVIOUS
<1>3. e \in Construct /\ e.kind = kind /\ e.arms = 0 /\ e.at = here /\ e.break = breakDepth
      /\ e.continue = continueDepth
  BY <1>1, <1>2 DEF Construct
<1>4. nest' = Append(nest, e)
  BY <1>2 DEF Opens
<1>5. /\ Len(nest') = Len(nest) + 1 /\ nest'[Len(nest) + 1] = e
      /\ \A k \in 1..Len(nest) : nest'[k] = nest[k]
  BY <1>1, <1>3, <1>4
<1>6. \A k \in 1..Len(nest') : nest'[k].at \in 1..Len(src) + 1
  <2> TAKE k \in 1..Len(nest')
  <2>1. CASE k = Len(nest) + 1
    BY <1>1, <1>3, <1>5, <2>1
  <2>2. CASE k # Len(nest) + 1
    <3>1. k \in 1..Len(nest)
      BY <1>1, <1>5, <2>2
    <3>2. QED
      BY <1>1, <1>5, <3>1
  <2>3. QED
    BY <2>1, <2>2
<1>7. QED
  BY <1>3, <1>4, <1>6

(* The last construct closes, or another word of it comes.                  *)
LEMMA LastOne ==
  ASSUME BodyInv, NEW kind, Within(kind)
  PROVE  /\ phase = "parse" /\ nest # <<>> /\ current \in Construct /\ current.kind = kind /\ inner \in Seq(Construct)
         /\ \A k \in 1..Len(inner) : inner[k].at \in 1..Len(src) + 1
         /\ \A d \in Construct : d.at = current.at =>
              \A k \in 1..Len(Append(inner, d)) : Append(inner, d)[k].at \in 1..Len(src) + 1
<1>1. /\ Inside(nest, exitDepth, breakDepth, continueDepth, forLimitDepth) /\ nest \in Seq(Construct)
      /\ Len(src) \in Nat /\ Len(nest) \in Nat
      /\ \A k \in 1..Len(nest) : nest[k].at \in 1..Len(src) + 1
      /\ nest # <<>> => Len(nest) \in 1..Len(nest) /\ current.at \in 1..Len(src)
  BY ParseFrom
<1>2. phase = "parse" /\ nest # <<>> /\ current.kind = kind
  BY DEF Within
<1>3. PICK m : m = BlocksOf(current)
  OBVIOUS
<1>4. Closed(nest, exitDepth, breakDepth, continueDepth, forLimitDepth, current, inner, m)
  BY <1>1, <1>2, <1>3, PopKeeps DEF current, inner
<1>5. current \in Construct /\ nest = Append(inner, current) /\ inner \in Seq(Construct)
  BY <1>4 DEF Closed
<1>6. /\ Len(inner) \in Nat /\ Len(nest) = Len(inner) + 1
      /\ \A k \in 1..Len(inner) : inner[k] = nest[k] /\ k \in 1..Len(nest)
  <2>1. PICK n \in Nat : n = Len(inner)
    BY <1>5
  <2>2. Len(nest) = n + 1 /\ \A k \in 1..n : nest[k] = inner[k]
    BY ONLY <1>5, <2>1, n \in Nat
  <2>3. QED
    BY <2>1, <2>2
<1>7. \A k \in 1..Len(inner) : inner[k].at \in 1..Len(src) + 1
  BY <1>1, <1>6
<1>8. ASSUME NEW d \in Construct, d.at = current.at, NEW k \in 1..Len(Append(inner, d))
      PROVE  Append(inner, d)[k].at \in 1..Len(src) + 1
  <2>1. PICK n \in Nat : n = Len(inner)
    BY <1>6
  <2>2. PICK t : t = Append(inner, d)
    OBVIOUS
  <2>3. Len(t) = n + 1 /\ t[n + 1] = d /\ \A i \in 1..n : t[i] = inner[i]
    BY ONLY <1>5, <2>1, <2>2, n \in Nat, d \in Construct
  <2>4. current.at \in 1..Len(src) + 1
    BY <1>1, <1>2
  <2>5. CASE k = n + 1
    BY <1>8, <2>2, <2>3, <2>4, <2>5
  <2>6. CASE k # n + 1
    <3>1. k \in 1..n
      BY <2>1, <2>2, <2>3, <2>6
    <3>2. QED
      BY <1>7, <2>1, <2>2, <2>3, <3>1
  <2>7. QED
    BY <2>5, <2>6
<1>9. QED
  BY <1>2, <1>5, <1>7, <1>8

(* The blocks a loop opens; if and case are no loops.                       *)
LEMMA DepthOfLoops ==
  /\ \A kind \in {"while", "for", "repeat"} : kind \in Loops
  /\ LoopDepths("while")[3] = 2 /\ LoopDepths("repeat")[3] = 2 /\ LoopDepths("for")[3] = 3
  /\ "if" \notin Loops /\ "case" \notin Loops
BY DEF Loops, LoopDepths

(* A statement without statements in it.                                    *)
LEMMA StaysDeep ==
  ASSUME BodyInv, UNCHANGED depths
  PROVE  Deepen(0) /\ (nest' = nest => Deeper(0))
<1>1. /\ Inside(nest, exitDepth, breakDepth, continueDepth, forLimitDepth)
      /\ exitDepth \in Nat /\ breakDepth \in Int /\ continueDepth \in Int /\ forLimitDepth <= MaxFor
      /\ \A k \in 1..Len(nest) : nest[k].at \in 1..Len(src) + 1
  BY ParseFrom
<1>2. /\ exitDepth' = exitDepth /\ breakDepth' = breakDepth /\ continueDepth' = continueDepth
      /\ forLimitDepth' = forLimitDepth
  BY DEF depths
<1>3. Deepen(0)
  BY <1>1, <1>2 DEF Deepen, Deepened
<1>4. ASSUME nest' = nest PROVE Deeper(0)
  <2>1. exitDepth' = exitDepth + 0
    BY <1>1, <1>2
  <2>2. QED
    BY <1>1, <1>2, <1>4, <2>1 DEF Deeper
<1>5. QED
  BY <1>3, <1>4

(* A loop opens, with the blocks that LoopDepths gives it.                  *)
LEMMA OpensLoop ==
  ASSUME BodyInv, NEW kind \in {"while", "for", "repeat"}, Opens(kind), EnterLoop(kind),
         kind = "for" => forLimitDepth < MaxFor
  PROVE  Deeper(LoopDepths(kind)[3])
<1>1. /\ Inside(nest, exitDepth, breakDepth, continueDepth, forLimitDepth) /\ forLimitDepth \in Nat
      /\ forLimitDepth <= MaxFor
  BY ParseFrom
<1>2. PICK e \in Construct :
        /\ nest' = Append(nest, e) /\ e.kind = kind /\ e.break = breakDepth /\ e.continue = continueDepth
        /\ \A k \in 1..Len(nest') : nest'[k].at \in 1..Len(src) + 1
  BY OpensOne
<1>3. PICK k : k = BlocksOf(e)
  OBVIOUS
<1>4. e.kind \in Loops
  BY <1>2, DepthOfLoops
<1>5. Inside(Append(nest, e), exitDepth + LoopDepths(e.kind)[3], LoopDepths(e.kind)[1], LoopDepths(e.kind)[2],
             forLimitDepth + (IF e.kind = "for" THEN 1 ELSE 0))
  BY <1>1, <1>2, <1>3, <1>4, PushKeeps
<1>6. /\ exitDepth' = exitDepth + LoopDepths(kind)[3] /\ breakDepth' = LoopDepths(kind)[1]
      /\ continueDepth' = LoopDepths(kind)[2]
      /\ forLimitDepth' = forLimitDepth + (IF kind = "for" THEN 1 ELSE 0)
  BY DEF EnterLoop
<1>7. Inside(nest', exitDepth', breakDepth', continueDepth', forLimitDepth')
  BY <1>2, <1>5, <1>6, Zenon
<1>8. forLimitDepth' <= MaxFor
  BY <1>1, <1>6, BodyConstants
<1>9. QED
  BY <1>2, <1>6, <1>7, <1>8 DEF Deeper

(* An if or a case opens; a case has no block yet.                          *)
LEMMA OpensIf ==
  ASSUME BodyInv, NEW kind \in {"if", "case"}, Opens(kind), NEW m, m = (IF kind = "if" THEN 1 ELSE 0), Deepen(m)
  PROVE  Deeper(m)
<1>1. /\ Inside(nest, exitDepth, breakDepth, continueDepth, forLimitDepth) /\ forLimitDepth <= MaxFor
  BY ParseFrom
<1>2. PICK e \in Construct :
        /\ nest' = Append(nest, e) /\ e.kind = kind /\ e.arms = 0 /\ e.break = breakDepth
        /\ e.continue = continueDepth
        /\ \A k \in 1..Len(nest') : nest'[k].at \in 1..Len(src) + 1
  BY OpensOne
<1>3. m = BlocksOf(e) /\ e.kind \notin Loops
  BY <1>2, BlocksAre, DepthOfLoops
<1>4. Inside(nest', exitDepth + m, Deepened(breakDepth, m), Deepened(continueDepth, m), forLimitDepth)
  BY <1>1, <1>2, <1>3, PushKeeps
<1>5. QED
  BY <1>1, <1>2, <1>4 DEF Deepen, Deeper

(* An if or a case goes on, with m more blocks.                             *)
LEMMA GoesOn ==
  ASSUME BodyInv, NEW kind \in {"if", "case"}, Within(kind), NEW d \in Construct, nest' = Append(inner, d),
         d.at = current.at, d.kind = current.kind, d.break = current.break, d.continue = current.continue,
         NEW m \in Nat, d.arms = current.arms + m, kind = "if" => m = 0, Deepen(m)
  PROVE  Deeper(m)
<1>1. /\ Inside(nest, exitDepth, breakDepth, continueDepth, forLimitDepth) /\ forLimitDepth <= MaxFor
  BY ParseFrom
<1>2. /\ nest # <<>> /\ current \in Construct /\ current.kind = kind
      /\ \A k \in 1..Len(nest') : nest'[k].at \in 1..Len(src) + 1
  BY LastOne
<1>3. PICK c : c = current
  OBVIOUS
<1>4. PICK t : t = inner
  OBVIOUS
<1>5. c = nest[Len(nest)] /\ t = SubSeq(nest, 1, Len(nest) - 1) /\ nest # <<>> /\ m \in Int
  BY <1>2, <1>3, <1>4 DEF current, inner
<1>6. c \in Construct /\ c.kind = kind /\ d.arms = c.arms + m
  BY <1>2, <1>3
<1>7. /\ d \in Construct /\ d.kind = c.kind /\ d.break = c.break /\ d.continue = c.continue
      /\ c.kind \notin Loops
  BY <1>3, <1>6, DepthOfLoops
<1>8. BlocksOf(d) = BlocksOf(c) + m
  <2>1. CASE kind = "if"
    BY <1>6, <1>7, <2>1, BlocksAre
  <2>2. CASE kind = "case"
    BY <1>6, <1>7, <2>2, BlocksAre
  <2>3. QED
    BY <2>1, <2>2
<1>9. Inside(Append(t, d), exitDepth + m, Deepened(breakDepth, m), Deepened(continueDepth, m), forLimitDepth)
  BY ONLY <1>1, <1>5, <1>7, <1>8, ReplaceKeeps
<1>10. nest' = Append(t, d)
  BY <1>4
<1>11. QED
  BY <1>1, <1>2, <1>9, <1>10 DEF Deepen, Deeper

(* An if or a case ends: what it had open, m blocks, is closed.             *)
LEMMA ClosesIf ==
  ASSUME BodyInv, NEW kind \in {"if", "case"}, Within(kind), nest' = inner,
         NEW m, m = (IF kind = "if" THEN 1 ELSE current.arms), Deepen(-m)
  PROVE  Deeper(-m)
<1>1. /\ Inside(nest, exitDepth, breakDepth, continueDepth, forLimitDepth) /\ forLimitDepth <= MaxFor
      /\ exitDepth \in Nat /\ forLimitDepth \in Nat
  BY ParseFrom
<1>2. /\ nest # <<>> /\ current \in Construct /\ current.kind = kind
      /\ \A k \in 1..Len(inner) : inner[k].at \in 1..Len(src) + 1
  BY LastOne
<1>3. m = BlocksOf(current) /\ current.kind \notin Loops /\ current.kind # "for"
  BY <1>2, BlocksAre, DepthOfLoops
<1>4. Closed(nest, exitDepth, breakDepth, continueDepth, forLimitDepth, current, inner, m)
  BY <1>1, <1>2, <1>3, PopKeeps DEF current, inner
<1>5. /\ m \in Nat /\ current.break \in Int /\ current.continue \in Int
      /\ Inside(inner, exitDepth - m, current.break, current.continue, forLimitDepth - 0)
      /\ breakDepth = Deepened(current.break, m) /\ continueDepth = Deepened(current.continue, m)
  BY <1>2, <1>3, <1>4 DEF Closed, Construct
<1>6. Deepened(breakDepth, -m) = current.break /\ Deepened(continueDepth, -m) = current.continue
  BY <1>5 DEF Deepened
<1>7. /\ exitDepth' = exitDepth + -m /\ exitDepth' = exitDepth - m /\ breakDepth' = current.break
      /\ continueDepth' = current.continue /\ forLimitDepth' = forLimitDepth - 0 /\ forLimitDepth' <= MaxFor
  BY <1>1, <1>5, <1>6 DEF Deepen
<1>8. Inside(nest', exitDepth', breakDepth', continueDepth', forLimitDepth')
  BY <1>5, <1>7
<1>9. QED
  BY <1>2, <1>7, <1>8 DEF Deeper

(* A loop ends: the depths it was opened with are given back.               *)
LEMMA ClosesLoop ==
  ASSUME BodyInv, NEW kind \in {"while", "for", "repeat"}, Within(kind), nest' = inner, LeaveLoop(kind)
  PROVE  Deeper(-LoopDepths(kind)[3])
<1>1. /\ Inside(nest, exitDepth, breakDepth, continueDepth, forLimitDepth) /\ forLimitDepth <= MaxFor
      /\ exitDepth \in Nat /\ forLimitDepth \in Nat
  BY ParseFrom
<1>2. /\ nest # <<>> /\ current \in Construct /\ current.kind = kind
      /\ \A k \in 1..Len(inner) : inner[k].at \in 1..Len(src) + 1
  BY LastOne
<1>3. PICK m \in Nat : m = BlocksOf(current) /\ m = LoopDepths(kind)[3]
  BY <1>2, BlocksAre, DepthOfLoops
<1>4. Closed(nest, exitDepth, breakDepth, continueDepth, forLimitDepth, current, inner, m)
  BY <1>1, <1>2, <1>3, PopKeeps DEF current, inner
<1>5. Inside(inner, exitDepth - m, current.break, current.continue, forLimitDepth - (IF kind = "for" THEN 1 ELSE 0))
  BY <1>2, <1>4, Zenon DEF Closed
<1>6. /\ exitDepth' = exitDepth - m /\ breakDepth' = current.break /\ continueDepth' = current.continue
      /\ forLimitDepth' = forLimitDepth - (IF kind = "for" THEN 1 ELSE 0)
  BY <1>3 DEF LeaveLoop
<1>7. Inside(nest', exitDepth', breakDepth', continueDepth', forLimitDepth')
  BY <1>5, <1>6, Zenon
<1>8. exitDepth' = exitDepth + -m /\ forLimitDepth' <= MaxFor
  BY <1>1, <1>6, BodyConstants
<1>9. QED
  BY <1>2, <1>3, <1>7, <1>8 DEF Deeper

(* Nothing but the mark that its last part has come changes.                *)
LEMMA LastSet ==
  ASSUME NEW c \in Construct, NEW d, d = [c EXCEPT !.last = TRUE]
  PROVE  /\ d \in Construct /\ d.at = c.at /\ d.kind = c.kind /\ d.break = c.break
         /\ d.continue = c.continue /\ d.arms = c.arms + 0
<1>1. d.at = c.at /\ d.kind = c.kind /\ d.break = c.break /\ d.continue = c.continue /\ d.arms = c.arms
  BY Zenon DEF Construct
<1>2. c.arms \in Nat
  BY DEF Construct
<1>3. d \in Construct
  BY Zenon DEF Construct
<1>4. QED
  BY <1>1, <1>2, <1>3

(* The words the statements are made of.                                    *)
LEMMA WordsAre ==
  /\ \A s \in Shapes \cup Simples : s \in AnyShape
  /\ "" \in AnyShape
  /\ "simple" \in TokenKinds /\ "if" \in TokenKinds /\ "else" \in TokenKinds /\ "while" \in TokenKinds
  /\ "for" \in TokenKinds /\ "repeat" \in TokenKinds /\ "case" \in TokenKinds /\ "arm" \in TokenKinds
  /\ "otherwise" \in TokenKinds /\ "end" \in TokenKinds /\ "exit" \in TokenKinds /\ "break" \in TokenKinds
  /\ "continue" \in TokenKinds
BY DEF AnyShape, TokenKinds

(* A simple statement opens nothing.                                        *)
LEMMA SimpleKeeps ==
  ASSUME BodyInv, NEW shape \in Simples, Simple(shape)
  PROVE  BodyInv'
<1>1. /\ phase = "parse" /\ Parsing /\ Token("simple", shape)
      /\ Emits(IF shape = "plain" THEN <<Place("act", here, "act")>> ELSE Through(shape, here))
      /\ UNCHANGED <<depths, nest>>
  BY Zenon DEF Simple, Statement, SpaceFor
<1>3. PICK j \in Nat : j = here
  BY ParseFrom
<1>code. PICK s : s = (IF shape = "plain" THEN <<Place("act", j, "act")>> ELSE Through(shape, j)) /\ Emits(s)
  BY <1>1, <1>3
<1>net. NetIs(s, 0)
  <2>1. CASE shape = "plain"
    BY <1>code, <2>1, SimpleNet
  <2>2. CASE shape # "plain"
    BY <1>code, <2>2, SimpleNet
  <2>3. QED
    BY <2>1, <2>2
<1>deep. Deeper(0)
  <2>1. UNCHANGED depths /\ nest' = nest
    BY <1>1, Zenon
  <2>2. QED
    BY <2>1, StaysDeep
<1>words. "simple" \in TokenKinds /\ shape \in AnyShape
  BY WordsAre
<1>tidy. Tidy(s, here)
  <2>1. Bare(s)
    BY <1>code, SimpleBare
  <2>2. QED
    BY <2>1, BareTidy
<1>qed. QED
  BY <1>1, <1>code, <1>net, <1>deep, <1>words, <1>tidy, ParsingKeeps

(* The statements of the arms of an if are in its block.                    *)
LEMMA IfKeeps ==
  ASSUME BodyInv, NEW shape \in Shapes, If(shape)
  PROVE  BodyInv'
<1>1. /\ phase = "parse" /\ Parsing /\ Token("if", shape)
      /\ Opens("if") /\ Deepen(1)
      /\ Emits(Condition(shape, here) \o <<Op("if")>>)
  BY Zenon DEF If, Statement, SpaceFor
<1>3. PICK j \in Nat : j = here
  BY ParseFrom
<1>i. PICK i \in Instrs : i = Op("if") /\ i.op = "if"
  BY InsIs DEF Op, OpNames
<1>delta. Delta("if") = 1
  BY DeltaIs DEF OpNames
<1>code. PICK s : s = Condition(shape, j) \o <<i>> /\ Emits(s)
  BY <1>1, <1>3, <1>i
<1>net. NetIs(s, 1)
  <2>1. NetIs(Condition(shape, j), 0)
    BY ConditionNet
  <2>2. NetIs(<<i>>, 1)
    BY <1>i, <1>delta, NetOne
  <2>3. NetIs(s, 0 + 1)
    BY <1>code, <2>1, <2>2, NetBoth
  <2>4. QED
    BY <2>3
<1>deep. Deeper(1)
  BY <1>1, OpensIf
<1>words. "if" \in TokenKinds /\ shape \in AnyShape
  BY WordsAre
<1>tidy. Tidy(s, here)
  <2>1. Tidy(Condition(shape, j), j)
    BY ConditionKnown
  <2>2. Bare(<<i>>)
    BY <1>i, CodeCalm, BareIs
  <2>3. QED
    BY <1>3, <1>code, <2>1, <2>2, TidyBare
<1>qed. QED
  BY <1>1, <1>code, <1>net, <1>deep, <1>words, <1>tidy, ParsingKeeps

(* A while opens a block and a loop.                                        *)
LEMMA WhileKeeps ==
  ASSUME BodyInv, NEW shape \in Shapes, While(shape)
  PROVE  BodyInv'
<1>1. /\ phase = "parse" /\ Parsing /\ Token("while", shape)
      /\ Opens("while") /\ EnterLoop("while")
      /\ Emits(<<Op("block"), Op("loop")>> \o Condition(shape, here) \o <<Op("eqz"), BrIf(1)>>)
  BY Zenon DEF While, Statement, SpaceFor
<1>3. PICK j \in Nat : j = here
  BY ParseFrom
<1>b. PICK b \in Instrs : b = Op("block") /\ b.op = "block"
  BY InsIs DEF Op, OpNames
<1>l. PICK l \in Instrs : l = Op("loop") /\ l.op = "loop"
  BY InsIs DEF Op, OpNames
<1>z. PICK z \in Instrs : z = Op("eqz") /\ z.op = "eqz"
  BY InsIs DEF Op, OpNames
<1>y. PICK y \in Instrs : y = BrIf(1) /\ y.op = "brif"
  BY InsIs DEF BrIf, OpNames
<1>delta. Delta("block") = 1 /\ Delta("loop") = 1 /\ Delta("eqz") = 0 /\ Delta("brif") = 0
  BY DeltaIs DEF OpNames
<1>code. PICK s : s = (<<b, l>> \o Condition(shape, j)) \o <<z, y>> /\ Emits(s)
  BY <1>1, <1>3, <1>b, <1>l, <1>z, <1>y
<1>net. NetIs(s, 2)
  <2>1. NetIs(Condition(shape, j), 0)
    BY ConditionNet
  <2>2. NetIs(<<b, l>>, 1 + 1) /\ NetIs(<<z, y>>, 0 + 0)
    BY <1>b, <1>l, <1>z, <1>y, <1>delta, NetTwo
  <2>3. NetIs(<<b, l>> \o Condition(shape, j), (1 + 1) + 0)
    BY <2>1, <2>2, NetBoth
  <2>4. NetIs(s, ((1 + 1) + 0) + (0 + 0))
    BY <1>code, <2>2, <2>3, NetBoth
  <2>5. QED
    BY <2>4
<1>deep. Deeper(2)
  <2>1. Deeper(LoopDepths("while")[3])
    BY <1>1, OpensLoop
  <2>2. QED
    BY <2>1, DepthOfLoops
<1>words. "while" \in TokenKinds /\ shape \in AnyShape
  BY WordsAre
<1>tidy. Tidy(s, here)
  <2>1. Tidy((<<b, l>> \o Condition(shape, j)) \o <<z, y>>, j)
    BY <1>b, <1>l, <1>z, <1>y, WhileKnown
  <2>2. QED
    BY <1>3, <1>code, <2>1
<1>qed. QED
  BY <1>1, <1>code, <1>net, <1>deep, <1>words, <1>tidy, ParsingKeeps

(* A for opens a block, a loop and the block that continue leaves.          *)
LEMMA ForKeeps ==
  ASSUME BodyInv, For
  PROVE  BodyInv'
<1>1. /\ phase = "parse" /\ Parsing /\ Token("for", "")
      /\ forLimitDepth < MaxFor /\ Opens("for") /\ EnterLoop("for")
      /\ Emits(<<Place("init", here, "init"), Place("bound", here, "bound"),
               Ins("set", LimitOf(forLimitDepth)), Op("block"), Op("loop"),
               Ins("get", LimitOf(forLimitDepth)), Place("beyond", here, "test"), BrIf(1), Op("block")>>)
  BY Zenon DEF For, Statement, SpaceFor
<1>room. forLimitDepth < MaxFor
  BY <1>1, Zenon
<1>3. PICK j \in Nat : j = here
  BY ParseFrom
<1>a. PICK a \in Instrs : a = Place("init", j, "init") /\ a.op = "init"
  BY PlaceIs, NamesAre, <1>3
<1>b. PICK b \in Instrs : b = Place("bound", j, "bound") /\ b.op = "bound"
  BY PlaceIs, NamesAre, <1>3
<1>c. PICK c \in Instrs : c = Ins("set", LimitOf(forLimitDepth)) /\ c.op = "set"
  BY ParseFrom, InsIs DEF OpNames, LimitOf, LimitLocal
<1>d. PICK d \in Instrs : d = Op("block") /\ d.op = "block"
  BY InsIs DEF Op, OpNames
<1>f. PICK f \in Instrs : f = Op("loop") /\ f.op = "loop"
  BY InsIs DEF Op, OpNames
<1>g. PICK g \in Instrs : g = Ins("get", LimitOf(forLimitDepth)) /\ g.op = "get"
  BY ParseFrom, InsIs DEF OpNames, LimitOf, LimitLocal
<1>h. PICK h \in Instrs : h = Place("beyond", j, "test") /\ h.op = "beyond"
  BY PlaceIs, NamesAre, <1>3
<1>i. PICK i \in Instrs : i = BrIf(1) /\ i.op = "brif"
  BY InsIs DEF BrIf, OpNames
<1>delta. /\ Delta("init") = 0 /\ Delta("bound") = 0 /\ Delta("set") = 0 /\ Delta("block") = 1
          /\ Delta("loop") = 1 /\ Delta("get") = 0 /\ Delta("beyond") = 0 /\ Delta("brif") = 0
  BY DeltaIs DEF OpNames
<1>code. PICK s : s = <<a, b, c, d, f, g, h, i, d>> /\ Emits(s)
  BY <1>1, <1>3, <1>a, <1>b, <1>c, <1>d, <1>f, <1>g, <1>h, <1>i
<1>net. NetIs(s, 3)
  <2>1. NetIs(<<a, b, c, d>>, 0 + 0 + 0 + 1)
    BY <1>a, <1>b, <1>c, <1>d, <1>delta, NetFour
  <2>2. NetIs(<<f, g, h, i>>, 1 + 0 + 0 + 0)
    BY <1>f, <1>g, <1>h, <1>i, <1>delta, NetFour
  <2>3. NetIs(<<d>>, 1)
    BY <1>d, <1>delta, NetOne
  <2>4. PICK t : t = <<f, g, h, i>> \o <<d>>
    OBVIOUS
  <2>5. NetIs(t, (1 + 0 + 0 + 0) + 1)
    BY <2>2, <2>3, <2>4, NetBoth
  <2>6. s = <<a, b, c, d>> \o t
    BY <1>code, <2>4
  <2>7. NetIs(s, (0 + 0 + 0 + 1) + ((1 + 0 + 0 + 0) + 1))
    BY <2>1, <2>5, <2>6, NetBoth
  <2>8. QED
    BY <2>7
<1>deep. Deeper(3)
  <2>1. Deeper(LoopDepths("for")[3])
    BY <1>1, <1>room, OpensLoop
  <2>2. QED
    BY <2>1, DepthOfLoops
<1>words. "for" \in TokenKinds /\ "" \in AnyShape
  BY WordsAre
<1>tidy. Tidy(s, here)
  <2>1. PICK l \in Int : l = LimitOf(forLimitDepth)
    BY ParseFrom DEF LimitOf, LimitLocal
  <2>2. Tidy(<<Place("init", j, "init"), Place("bound", j, "bound"), Ins("set", l), Op("block"), Op("loop"),
               Ins("get", l), Place("beyond", j, "test"), BrIf(1), Op("block")>>, j)
    BY ForKnown
  <2>3. QED
    BY <1>3, <1>a, <1>b, <1>c, <1>d, <1>f, <1>g, <1>h, <1>i, <1>code, <2>1, <2>2
<1>qed. QED
  BY <1>1, <1>code, <1>net, <1>deep, <1>words, <1>tidy, ParsingKeeps

(* A repeat opens a block and a loop.                                       *)
LEMMA RepeatKeeps ==
  ASSUME BodyInv, Repeat
  PROVE  BodyInv'
<1>1. /\ phase = "parse" /\ Parsing /\ Token("repeat", "")
      /\ Opens("repeat") /\ EnterLoop("repeat")
      /\ Emits(<<Op("block"), Op("loop")>>)
  BY Zenon DEF Repeat, Statement, SpaceFor
<1>b. PICK b \in Instrs : b = Op("block") /\ b.op = "block"
  BY InsIs DEF Op, OpNames
<1>l. PICK l \in Instrs : l = Op("loop") /\ l.op = "loop"
  BY InsIs DEF Op, OpNames
<1>delta. Delta("block") = 1 /\ Delta("loop") = 1
  BY DeltaIs DEF OpNames
<1>code. PICK s : s = <<b, l>> /\ Emits(s)
  BY <1>1, <1>b, <1>l
<1>net. NetIs(s, 2)
  <2>1. NetIs(s, 1 + 1)
    BY <1>b, <1>l, <1>delta, <1>code, NetTwo
  <2>2. QED
    BY <2>1
<1>deep. Deeper(2)
  <2>1. Deeper(LoopDepths("repeat")[3])
    BY <1>1, OpensLoop
  <2>2. QED
    BY <2>1, DepthOfLoops
<1>words. "repeat" \in TokenKinds /\ "" \in AnyShape
  BY WordsAre
<1>tidy. Tidy(s, here)
  <2>1. Bare(s)
    BY <1>b, <1>l, <1>code, CodeCalm, BareIs
  <2>2. QED
    BY <2>1, BareTidy
<1>qed. QED
  BY <1>1, <1>code, <1>net, <1>deep, <1>words, <1>tidy, ParsingKeeps

(* A case opens nothing before its first label.                             *)
LEMMA CaseKeeps ==
  ASSUME BodyInv, Case
  PROVE  BodyInv'
<1>1. /\ phase = "parse" /\ Parsing /\ Token("case", "")
      /\ Opens("case") /\ UNCHANGED depths
      /\ Emits(<<Place("select", here, "select"), Ins("set", CaseTemp)>>)
  BY Zenon DEF Case, Statement, SpaceFor
<1>3. PICK j \in Nat : j = here
  BY ParseFrom
<1>a. PICK a \in Instrs : a = Place("select", j, "select") /\ a.op = "select"
  BY PlaceIs, NamesAre, <1>3
<1>b. PICK b \in Instrs : b = Ins("set", CaseTemp) /\ b.op = "set"
  BY InsIs DEF OpNames, CaseTemp
<1>delta. Delta("select") = 0 /\ Delta("set") = 0
  BY DeltaIs DEF OpNames
<1>code. PICK s : s = <<a, b>> /\ Emits(s)
  BY <1>1, <1>3, <1>a, <1>b
<1>net. NetIs(s, 0)
  <2>1. NetIs(s, 0 + 0)
    BY <1>a, <1>b, <1>delta, <1>code, NetTwo
  <2>2. QED
    BY <2>1
<1>deep. Deeper(0)
  <2>1. Opens("case") /\ Deepen(0)
    BY <1>1, StaysDeep
  <2>2. QED
    BY <2>1, OpensIf
<1>words. "case" \in TokenKinds /\ "" \in AnyShape
  BY WordsAre
<1>tidy. Tidy(s, here)
  <2>1. a.at = j /\ a.part = "select" /\ a.op \notin {"br", "brif"}
    BY <1>a, PlaceCalm
  <2>2. Known(<<>>, j, {})
    BY NoneKnown
  <2>3. <<a>> = Append(<<>>, a) /\ {"select"} = {} \cup {a.part} /\ a.part \notin {}
    BY <2>1
  <2>4. Known(<<a>>, j, {"select"})
    BY ONLY <2>1, <2>2, <2>3, KnownPlace, a \in Instrs
  <2>5. Bare(<<b>>)
    BY <1>b, CodeCalm, BareIs DEF CaseTemp
  <2>6. Tidy(<<a>> \o <<b>>, j)
    BY <2>4, <2>5, TidyBare DEF Known
  <2>7. <<a, b>> = <<a>> \o <<b>>
    OBVIOUS
  <2>8. QED
    BY <1>3, <1>code, <2>6, <2>7
<1>qed. QED
  BY <1>1, <1>code, <1>net, <1>deep, <1>words, <1>tidy, ParsingKeeps

(* The else stands in the block of the if.                                  *)
LEMMA ElseKeeps ==
  ASSUME BodyInv, Else
  PROVE  BodyInv'
<1>1. /\ phase = "parse" /\ Parsing /\ Token("else", "")
      /\ Within("if") /\ nest' = Append(inner, [current EXCEPT !.last = TRUE]) /\ UNCHANGED depths
      /\ Emits(<<Op("else")>>)
  BY Zenon DEF Else, SpaceFor
<1>last. current \in Construct /\ current.kind = "if" /\ Within("if")
  BY <1>1, LastOne
<1>a. PICK a \in Instrs : a = Op("else") /\ a.op = "else"
  BY InsIs DEF Op, OpNames
<1>delta. Delta("else") = 0
  BY DeltaIs DEF OpNames
<1>code. PICK s : s = <<a>> /\ Emits(s)
  BY <1>1, <1>a
<1>net. NetIs(s, 0)
  BY <1>a, <1>delta, <1>code, NetOne
<1>d. PICK d : d = [current EXCEPT !.last = TRUE]
  OBVIOUS
<1>new. d \in Construct /\ d.at = current.at /\ d.kind = current.kind /\ d.break = current.break
        /\ d.continue = current.continue /\ d.arms = current.arms + 0 /\ nest' = Append(inner, d)
  <2>1. nest' = Append(inner, d)
    BY <1>1, <1>d
  <2>2. QED
    BY <1>last, <1>d, <2>1, LastSet
<1>deepen. Deepen(0)
  BY <1>1, StaysDeep
<1>deep. Deeper(0)
  BY <1>last, <1>new, <1>deepen, GoesOn
<1>words. "else" \in TokenKinds /\ "" \in AnyShape
  BY WordsAre
<1>tidy. Tidy(s, here)
  <2>1. Bare(s)
    BY <1>a, <1>code, CodeCalm, BareIs
  <2>2. QED
    BY <2>1, BareTidy
<1>qed. QED
  BY <1>1, <1>code, <1>net, <1>deep, <1>words, <1>tidy, ParsingKeeps

(* The else of a case stands in the block of its last label.                *)
LEMMA CaseElseKeeps ==
  ASSUME BodyInv, CaseElse
  PROVE  BodyInv'
<1>1. /\ phase = "parse" /\ Parsing /\ Token("otherwise", "")
      /\ Within("case") /\ nest' = Append(inner, [current EXCEPT !.last = TRUE]) /\ UNCHANGED depths
      /\ Emits(Elses(current.arms))
  BY Zenon DEF CaseElse, SpaceFor
<1>last. current \in Construct /\ current.kind = "case" /\ Within("case")
  BY <1>1, LastOne
<1>code. PICK s : s = Elses(current.arms) /\ Emits(s)
  BY <1>1
<1>net. NetIs(s, 0)
  <2>1. current.arms \in Nat
    BY <1>last DEF Construct
  <2>2. QED
    BY <1>code, <2>1, ElsesNet
<1>d. PICK d : d = [current EXCEPT !.last = TRUE]
  OBVIOUS
<1>new. d \in Construct /\ d.at = current.at /\ d.kind = current.kind /\ d.break = current.break
        /\ d.continue = current.continue /\ d.arms = current.arms + 0 /\ nest' = Append(inner, d)
  <2>1. nest' = Append(inner, d)
    BY <1>1, <1>d
  <2>2. QED
    BY <1>last, <1>d, <2>1, LastSet
<1>deepen. Deepen(0)
  BY <1>1, StaysDeep
<1>deep. Deeper(0)
  BY <1>last, <1>new, <1>deepen, GoesOn
<1>words. "otherwise" \in TokenKinds /\ "" \in AnyShape
  BY WordsAre
<1>tidy. Tidy(s, here)
  <2>1. current.arms \in Nat
    BY <1>last DEF Construct
  <2>2. Bare(s)
    BY <1>code, <2>1, EndsBare
  <2>3. QED
    BY <2>2, BareTidy
<1>qed. QED
  BY <1>1, <1>code, <1>net, <1>deep, <1>words, <1>tidy, ParsingKeeps

(* A label of a case opens an if in the else of the one before.             *)
LEMMA ArmKeeps ==
  ASSUME BodyInv, Arm
  PROVE  BodyInv'
<1>1. /\ phase = "parse" /\ Parsing /\ Token("arm", "")
      /\ Within("case") /\ nest' = Append(inner, [current EXCEPT !.arms = @ + 1]) /\ Deepen(1)
      /\ Emits(Elses(current.arms) \o <<Ins("get", CaseTemp), Place("equal", here, "label"), Op("if")>>)
  BY Zenon DEF Arm, SpaceFor
<1>last. current \in Construct /\ current.kind = "case" /\ Within("case")
  BY <1>1, LastOne
<1>3. PICK j \in Nat : j = here
  BY ParseFrom
<1>a. PICK a \in Instrs : a = Ins("get", CaseTemp) /\ a.op = "get"
  BY InsIs DEF OpNames, CaseTemp
<1>b. PICK b \in Instrs : b = Place("equal", j, "label") /\ b.op = "equal"
  BY PlaceIs, NamesAre, <1>3
<1>c. PICK c \in Instrs : c = Op("if") /\ c.op = "if"
  BY InsIs DEF Op, OpNames
<1>delta. Delta("get") = 0 /\ Delta("equal") = 0 /\ Delta("if") = 1
  BY DeltaIs DEF OpNames
<1>code. PICK s : s = Elses(current.arms) \o <<a, b, c>> /\ Emits(s)
  BY <1>1, <1>3, <1>a, <1>b, <1>c
<1>net. NetIs(s, 1)
  <2>1. current.arms \in Nat
    BY <1>last DEF Construct
  <2>2. NetIs(Elses(current.arms), 0)
    BY <2>1, ElsesNet
  <2>3. NetIs(<<a, b, c>>, 0 + 0 + 1)
    BY <1>a, <1>b, <1>c, <1>delta, NetThree
  <2>4. NetIs(s, 0 + (0 + 0 + 1))
    BY <1>code, <2>2, <2>3, NetBoth
  <2>5. QED
    BY <2>4
<1>d. PICK d : d = [current EXCEPT !.arms = @ + 1]
  OBVIOUS
<1>new. d \in Construct /\ d.at = current.at /\ d.kind = current.kind /\ d.break = current.break
        /\ d.continue = current.continue /\ d.arms = current.arms + 1 /\ nest' = Append(inner, d)
  <2>1. nest' = Append(inner, d)
    BY <1>1, <1>d
  <2>2. QED
    BY <1>last, <1>d, <2>1 DEF Construct
<1>deepen. Deepen(1)
  BY <1>1, Zenon
<1>deep. Deeper(1)
  BY <1>last, <1>new, <1>deepen, GoesOn
<1>words. "arm" \in TokenKinds /\ "" \in AnyShape
  BY WordsAre
<1>tidy. Tidy(s, here)
  <2>1. current.arms \in Nat
    BY <1>last DEF Construct
  <2>2. Bare(Elses(current.arms))
    BY <2>1, EndsBare
  <2>3. Calm(b)
    <3>1. "equal" \in Answering /\ "label" \in PartNames \ TakeParts
      BY DEF Answering, PartNames, TakeParts
    <3>2. QED
      BY <1>b, <3>1, PlaceCalm
  <2>4. Calm(a) /\ Calm(c)
    BY <1>a, <1>c, CodeCalm DEF CaseTemp
  <2>5. Bare(<<a, b, c>>)
    BY <2>3, <2>4, BareIs
  <2>6. Bare(s)
    BY <1>code, <2>2, <2>5, BareBoth
  <2>7. QED
    BY <2>6, BareTidy
<1>qed. QED
  BY <1>1, <1>code, <1>net, <1>deep, <1>words, <1>tidy, ParsingKeeps

(* An if closes its block.                                                  *)
LEMMA EndIfKeeps ==
  ASSUME BodyInv, EndIf
  PROVE  BodyInv'
<1>1. /\ phase = "parse" /\ Parsing /\ Token("end", "")
      /\ Within("if") /\ nest' = inner /\ Deepen(-1)
      /\ Emits(<<Op("end")>>)
  BY Zenon DEF EndIf, Closes, Within
<1>a. PICK a \in Instrs : a = Op("end") /\ a.op = "end"
  BY InsIs DEF Op, OpNames
<1>delta. Delta("end") = -1
  BY DeltaIs DEF OpNames
<1>code. PICK s : s = <<a>> /\ Emits(s)
  BY <1>1, <1>a
<1>net. NetIs(s, -1)
  BY <1>a, <1>delta, <1>code, NetOne
<1>deep. Deeper(-1)
  <2>1. Within("if") /\ nest' = inner /\ Deepen(-1)
    BY <1>1, Zenon
  <2>2. QED
    BY <2>1, ClosesIf
<1>words. "end" \in TokenKinds /\ "" \in AnyShape
  BY WordsAre
<1>tidy. Tidy(s, here)
  <2>1. Bare(s)
    BY <1>a, <1>code, CodeCalm, BareIs
  <2>2. QED
    BY <2>1, BareTidy
<1>qed. QED
  BY <1>1, <1>code, <1>net, <1>deep, <1>words, <1>tidy, ParsingKeeps

(* A case closes an if for each of its labels.                              *)
LEMMA EndCaseKeeps ==
  ASSUME BodyInv, EndCase
  PROVE  BodyInv'
<1>1. /\ phase = "parse" /\ Parsing /\ Token("end", "")
      /\ Within("case") /\ nest' = inner /\ Deepen(-current.arms)
      /\ Emits([i \in 1..current.arms |-> Op("end")])
  BY Zenon DEF EndCase, Closes, Within
<1>last. current \in Construct
  BY <1>1, LastOne
<1>code. PICK s : s = [i \in 1..current.arms |-> Op("end")] /\ Emits(s)
  BY <1>1
<1>net. NetIs(s, -current.arms)
  <2>1. current.arms \in Nat
    BY <1>last DEF Construct
  <2>2. QED
    BY <1>code, <2>1, EndsNet
<1>deep. Deeper(-current.arms)
  <2>1. Within("case") /\ nest' = inner /\ Deepen(-current.arms)
    BY <1>1, Zenon
  <2>2. QED
    BY <2>1, ClosesIf
<1>words. "end" \in TokenKinds /\ "" \in AnyShape
  BY WordsAre
<1>tidy. Tidy(s, here)
  <2>1. current.arms \in Nat
    BY <1>last DEF Construct
  <2>2. Bare(s)
    BY <1>code, <2>1, EndsBare
  <2>3. QED
    BY <2>2, BareTidy
<1>qed. QED
  BY <1>1, <1>code, <1>net, <1>deep, <1>words, <1>tidy, ParsingKeeps

(* A while closes its loop and its block.                                   *)
LEMMA EndWhileKeeps ==
  ASSUME BodyInv, EndWhile
  PROVE  BodyInv'
<1>1. /\ phase = "parse" /\ Parsing /\ Token("end", "")
      /\ Within("while") /\ nest' = inner /\ LeaveLoop("while")
      /\ Emits(Again \o <<Op("end"), Op("end")>>)
  BY Zenon DEF EndWhile, Closes, Within
<1>a. PICK a \in Instrs : a = Op("release") /\ a.op = "release"
  BY InsIs DEF Op, OpNames
<1>b. PICK b \in Instrs : b = Br(0) /\ b.op = "br"
  BY InsIs DEF Br, OpNames
<1>c. PICK c \in Instrs : c = Op("end") /\ c.op = "end"
  BY InsIs DEF Op, OpNames
<1>delta. Delta("release") = 0 /\ Delta("br") = 0 /\ Delta("end") = -1
  BY DeltaIs DEF OpNames
<1>code. PICK s : s = <<a, b>> \o <<c, c>> /\ Emits(s)
  BY <1>1, <1>a, <1>b, <1>c DEF Again
<1>net. NetIs(s, -2)
  <2>1. NetIs(<<a, b>>, 0 + 0) /\ NetIs(<<c, c>>, -1 + -1)
    BY <1>a, <1>b, <1>c, <1>delta, NetTwo
  <2>2. NetIs(s, (0 + 0) + (-1 + -1))
    BY <1>code, <2>1, NetBoth
  <2>3. QED
    BY <2>2
<1>deep. Deeper(-2)
  <2>1. Within("while") /\ nest' = inner /\ LeaveLoop("while")
    BY <1>1, Zenon
  <2>2. Deeper(-LoopDepths("while")[3])
    BY <2>1, ClosesLoop
  <2>3. QED
    BY <2>2, DepthOfLoops
<1>words. "end" \in TokenKinds /\ "" \in AnyShape
  BY WordsAre
<1>tidy. Tidy(s, here)
  <2>1. Calm(a) /\ Calm(c)
    BY <1>a, <1>c, CodeCalm
  <2>2. b.part \notin TakeParts
    BY <1>b, InsCalm
  <2>3. Bare(<<a, b>>) /\ Bare(<<c, c>>)
    BY <1>a, <2>1, <2>2, BareIs
  <2>4. Bare(s)
    BY <1>code, <2>3, BareBoth
  <2>5. QED
    BY <2>4, BareTidy
<1>qed. QED
  BY <1>1, <1>code, <1>net, <1>deep, <1>words, <1>tidy, ParsingKeeps

(* A for closes the block that continue leaves, its loop and its block.     *)
LEMMA EndForKeeps ==
  ASSUME BodyInv, EndFor
  PROVE  BodyInv'
<1>1. /\ phase = "parse" /\ Parsing /\ Token("end", "")
      /\ Within("for") /\ nest' = inner /\ LeaveLoop("for")
      /\ Emits(<<Op("end"), Op("release"), Place("step", current.at, "step"), Br(0), Op("end"), Op("end")>>)
  BY Zenon DEF EndFor, Closes, Within
<1>last. current \in Construct
  BY <1>1, LastOne
<1>a. PICK a \in Instrs : a = Op("release") /\ a.op = "release"
  BY InsIs DEF Op, OpNames
<1>b. PICK b \in Instrs : b = Br(0) /\ b.op = "br"
  BY InsIs DEF Br, OpNames
<1>c. PICK c \in Instrs : c = Op("end") /\ c.op = "end"
  BY InsIs DEF Op, OpNames
<1>d. PICK d \in Instrs : d = Place("step", current.at, "step") /\ d.op = "step"
  <2>1. PICK n \in Nat : n = current.at
    BY <1>last DEF Construct
  <2>2. QED
    BY <2>1, PlaceIs
<1>delta. Delta("release") = 0 /\ Delta("br") = 0 /\ Delta("end") = -1 /\ Delta("step") = 0
  BY DeltaIs DEF OpNames
<1>code. PICK s : s = <<c, a, d, b, c, c>> /\ Emits(s)
  BY <1>1, <1>a, <1>b, <1>c, <1>d
<1>net. NetIs(s, -3)
  <2>1. NetIs(<<c, a, d, b>>, -1 + 0 + 0 + 0) /\ NetIs(<<c, c>>, -1 + -1)
    BY <1>a, <1>b, <1>c, <1>d, <1>delta, NetTwo, NetFour
  <2>2. <<c, a, d, b, c, c>> = <<c, a, d, b>> \o <<c, c>>
    OBVIOUS
  <2>3. NetIs(s, (-1 + 0 + 0 + 0) + (-1 + -1))
    BY <1>code, <2>1, <2>2, NetBoth
  <2>4. QED
    BY <2>3
<1>deep. Deeper(-3)
  <2>1. Within("for") /\ nest' = inner /\ LeaveLoop("for")
    BY <1>1, Zenon
  <2>2. Deeper(-LoopDepths("for")[3])
    BY <2>1, ClosesLoop
  <2>3. QED
    BY <2>2, DepthOfLoops
<1>words. "end" \in TokenKinds /\ "" \in AnyShape
  BY WordsAre
<1>tidy. Tidy(s, here)
  <2>1. Calm(a) /\ Calm(c)
    BY <1>a, <1>c, CodeCalm
  <2>2. b.part \notin TakeParts
    BY <1>b, InsCalm
  <2>3. d.part \notin TakeParts
    BY <1>d, PlaceCalm DEF TakeParts
  <2>4. PICK t \in Seq(Instrs) : t = <<a, d, b>> /\ Len(t) = 3 /\ t[1] = a /\ t[2] = d /\ t[3] = b
    <3>1. <<a, d, b>> \in Seq(Instrs)
      OBVIOUS
    <3>2. Len(<<a, d, b>>) = 3 /\ <<a, d, b>>[1] = a /\ <<a, d, b>>[2] = d /\ <<a, d, b>>[3] = b
      OBVIOUS
    <3>3. QED
      BY <3>1, <3>2
  <2>5. Freed(t, 3)
    BY <1>a, <1>d, <2>4 DEF Freed
  <2>6. Bare(t)
    BY <1>a, <1>d, <2>1, <2>2, <2>3, <2>4, <2>5 DEF Bare, Calm
  <2>7. Bare(<<c>>) /\ Bare(<<c, c>>)
    BY <2>1, BareIs
  <2>8. Bare(<<c>> \o (t \o <<c, c>>))
    BY <2>6, <2>7, BareBoth
  <2>9. <<c, a, d, b, c, c>> = <<c>> \o (t \o <<c, c>>)
    BY <2>4
  <2>10. QED
    BY <1>code, <2>8, <2>9, BareTidy
<1>qed. QED
  BY <1>1, <1>code, <1>net, <1>deep, <1>words, <1>tidy, ParsingKeeps

(* A repeat closes its loop and its block.                                  *)
LEMMA UntilKeeps ==
  ASSUME BodyInv, NEW shape \in Shapes, Until(shape)
  PROVE  BodyInv'
<1>1. /\ phase = "parse" /\ Parsing /\ Token("end", shape)
      /\ Within("repeat") /\ nest' = inner /\ LeaveLoop("repeat")
      /\ Emits(Condition(shape, here) \o <<Op("eqz"), Op("release"), BrIf(0), Op("end"), Op("end")>>)
  BY Zenon DEF Until, Closes, Within
<1>3. PICK j \in Nat : j = here
  BY ParseFrom
<1>a. PICK a \in Instrs : a = Op("eqz") /\ a.op = "eqz"
  BY InsIs DEF Op, OpNames
<1>b. PICK b \in Instrs : b = Op("release") /\ b.op = "release"
  BY InsIs DEF Op, OpNames
<1>c. PICK c \in Instrs : c = BrIf(0) /\ c.op = "brif"
  BY InsIs DEF BrIf, OpNames
<1>d. PICK d \in Instrs : d = Op("end") /\ d.op = "end"
  BY InsIs DEF Op, OpNames
<1>delta. Delta("eqz") = 0 /\ Delta("release") = 0 /\ Delta("brif") = 0 /\ Delta("end") = -1
  BY DeltaIs DEF OpNames
<1>code. PICK s : s = Condition(shape, j) \o <<a, b, c, d, d>> /\ Emits(s)
  BY <1>1, <1>3, <1>a, <1>b, <1>c, <1>d
<1>net. NetIs(s, -2)
  <2>1. NetIs(Condition(shape, j), 0)
    BY ConditionNet
  <2>2. NetIs(<<a, b, c>>, 0 + 0 + 0) /\ NetIs(<<d, d>>, -1 + -1)
    BY <1>a, <1>b, <1>c, <1>d, <1>delta, NetTwo, NetThree
  <2>3. <<a, b, c, d, d>> = <<a, b, c>> \o <<d, d>>
    OBVIOUS
  <2>4. NetIs(<<a, b, c, d, d>>, (0 + 0 + 0) + (-1 + -1))
    BY <2>2, <2>3, NetBoth
  <2>5. NetIs(s, 0 + ((0 + 0 + 0) + (-1 + -1)))
    BY <1>code, <2>1, <2>4, NetBoth
  <2>6. QED
    BY <2>5
<1>deep. Deeper(-2)
  <2>1. Within("repeat") /\ nest' = inner /\ LeaveLoop("repeat")
    BY <1>1, Zenon
  <2>2. Deeper(-LoopDepths("repeat")[3])
    BY <2>1, ClosesLoop
  <2>3. QED
    BY <2>2, DepthOfLoops
<1>words. "end" \in TokenKinds /\ shape \in AnyShape
  BY WordsAre
<1>tidy. Tidy(s, here)
  <2>1. Calm(a) /\ Calm(b) /\ Calm(d)
    BY <1>a, <1>b, <1>d, CodeCalm
  <2>2. c.part \notin TakeParts
    BY <1>c, InsCalm
  <2>3. Bare(<<a>>) /\ Bare(<<b, c>>) /\ Bare(<<d, d>>)
    BY <1>b, <2>1, <2>2, BareIs
  <2>4. Bare(<<a>> \o (<<b, c>> \o <<d, d>>))
    BY <2>3, BareBoth
  <2>5. <<a, b, c, d, d>> = <<a>> \o (<<b, c>> \o <<d, d>>)
    OBVIOUS
  <2>6. Tidy(Condition(shape, j), j)
    BY ConditionKnown
  <2>7. QED
    BY <1>3, <1>code, <2>4, <2>5, <2>6, TidyBare
<1>qed. QED
  BY <1>1, <1>code, <1>net, <1>deep, <1>words, <1>tidy, ParsingKeeps

(* exit, break and continue open nothing and close nothing.                 *)
LEMMA LeaveKeeps ==
  ASSUME BodyInv, NEW kind \in {"exit", "break", "continue"}, NEW depth \in Int, Leave(kind, depth)
  PROVE  BodyInv'
<1>1. /\ phase = "parse" /\ Parsing /\ Token(kind, "")
      /\ UNCHANGED <<depths, nest>>
      /\ Emits(<<Op("release"), Br(depth)>>)
  BY Zenon DEF Leave, Statement, SpaceFor
<1>a. PICK a \in Instrs : a = Op("release") /\ a.op = "release"
  BY InsIs DEF Op, OpNames
<1>b. PICK b \in Instrs : b = Br(depth) /\ b.op = "br"
  BY InsIs DEF Br, OpNames
<1>delta. Delta("release") = 0 /\ Delta("br") = 0
  BY DeltaIs DEF OpNames
<1>code. PICK s : s = <<a, b>> /\ Emits(s)
  BY <1>1, <1>a, <1>b
<1>net. NetIs(s, 0)
  <2>1. NetIs(s, 0 + 0)
    BY <1>a, <1>b, <1>delta, <1>code, NetTwo
  <2>2. QED
    BY <2>1
<1>deep. Deeper(0)
  <2>1. UNCHANGED depths /\ nest' = nest
    BY <1>1, Zenon
  <2>2. QED
    BY <2>1, StaysDeep
<1>words. kind \in TokenKinds /\ "" \in AnyShape
  BY WordsAre
<1>tidy. Tidy(s, here)
  <2>1. Calm(a)
    BY <1>a, CodeCalm
  <2>2. b.part \notin TakeParts
    BY <1>b, InsCalm
  <2>3. Bare(s)
    BY <1>a, <1>code, <2>1, <2>2, BareIs
  <2>4. QED
    BY <2>3, BareTidy
<1>qed. QED
  BY <1>1, <1>code, <1>net, <1>deep, <1>words, <1>tidy, ParsingKeeps

(* The end, or else, that closes a construct comes behind it, or there is   *)
(* none: a jump behind it goes forward.                                     *)
LEMMA ClosingIs ==
  ASSUME NEW code, NEW n \in Nat, n = Len(code), NEW i \in 1..n, NEW named \in SUBSET {"end", "else"}, NEW l
  PROVE  LET t == Closing(code, named, l, i) + 1 IN t \in 1..n + 1 /\ t > i /\ Lands(code, t)
<1>1. PICK S : S = {k \in i + 1..n : code[k].op \in named /\ Level(code, k) = l} \cup {n}
  OBVIOUS
<1>2. S \in SUBSET Nat /\ S # {}
  BY <1>1
<1>3. PICK k \in S : k = Closing(code, named, l, i)
  BY <1>1, <1>2, MinIs DEF Closing
<1>4. k \in 1..n /\ k >= i /\ (k # n => code[k].op \in named)
  BY <1>1, <1>3
<1>5. PICK t \in Nat : t = k + 1
  BY <1>4
<1>6. t \in 1..n + 1 /\ t > i /\ t - 1 = k
  BY <1>4, <1>5
<1>7. Lands(code, t)
  <2>1. ASSUME t <= n PROVE t > 1 /\ code[t - 1].op \in {"loop", "end", "else"}
    <3>1. k # n /\ t > 1
      BY <1>4, <1>5, <2>1
    <3>2. code[k].op \in {"end", "else"}
      BY <1>4, <3>1
    <3>3. QED
      BY <1>6, <3>1, <3>2
  <2>2. QED
    BY <2>1 DEF Lands
<1>8. QED
  BY <1>3, <1>5, <1>6, <1>7

(* The opener that a branch of depth n leaves to, at level l.               *)
OpenerAt(code, i, m) == Max({k \in 1..i - 1 : code[k].op \in Openers /\ Level(code, k) = m} \cup {1})

(* A branch of depth one in the head of a loop leaves the block of it.      *)
LEMMA HeadLeaves ==
  ASSUME NEW code \in Seq(Instrs), NEW n \in Nat, n = Len(code), NEW i \in 1..n, InHead(code, i, 0),
         NEW m, m = Level(code, i) - 1 - 1
  PROVE  code[OpenerAt(code, i, m)].op = "block"
<1>1. PICK q \in 2..i - 1 :
        /\ code[q - 1].op = "block" /\ code[q].op = "loop" /\ Level(code, i) = Level(code, q) + 1 + 0
        /\ \A k \in q + 1..i - 1 : code[k].op \in Openers => Level(code, k) > Level(code, q)
  BY Zenon DEF InHead
<1>2. PICK p \in 1..n : p = q - 1 /\ p + 1 = q
  OBVIOUS
<1>3. Level(code, p) \in Int /\ Level(code, q) \in Int /\ Level(code, q) = Level(code, p) + 1
  <2>1. p \in 1..n + 1 /\ q \in 1..n + 1
    BY <1>2
  <2>2. Level(code, p + 1) = Level(code, p) + Delta(code[p].op) /\ Level(code, p) \in Int /\ Level(code, q) \in Int
    BY <1>2, <2>1, LevelIs
  <2>3. Delta(code[p].op) = 1
    BY <1>1, <1>2, DeltaIs
  <2>4. QED
    BY <1>2, <2>2, <2>3
<1>4. m = Level(code, p) /\ Level(code, q) # m /\ Level(code, q) > m
  BY <1>1, <1>3
<1>5. PICK S : S = {k \in 1..i - 1 : code[k].op \in Openers /\ Level(code, k) = m} \cup {1}
  OBVIOUS
<1>6. p \in S
  BY <1>1, <1>2, <1>4, <1>5 DEF Openers
<1>7. S \in SUBSET (0..n) /\ S # {}
  BY <1>5
<1>8. PICK o \in S : o = OpenerAt(code, i, m) /\ o >= p
  BY <1>5, <1>6, <1>7, MaxIs DEF OpenerAt
<1>9. o = p
  <2> SUFFICES ASSUME o # p PROVE FALSE
    OBVIOUS
  <2>1. o \in q..i - 1 /\ code[o].op \in Openers /\ Level(code, o) = m
    BY <1>2, <1>5, <1>7, <1>8
  <2>2. o \in q + 1..i - 1
    BY <1>4, <2>1
  <2>3. Level(code, o) > Level(code, q)
    BY <1>1, <2>1, <2>2
  <2>4. QED
    BY <1>3, <1>4, <2>1, <2>3
<1>10. QED
  BY <1>1, <1>2, <1>8, <1>9

(* A jump goes behind a loop, an end or an else, and forward unless bytes   *)
(* were released before it.                                                 *)
LEMMA TargetIs ==
  ASSUME NEW code \in Seq(Instrs), NEW n \in Nat, n = Len(code), NEW i \in 1..n, code[i].op \in Jumps, BackAt(code, i)
  PROVE  /\ Target(code, i) \in 1..n + 1 /\ Lands(code, Target(code, i))
         /\ Target(code, i) > i \/ Freed(code, i)
<1>1. PICK l : l = Level(code, i)
  OBVIOUS
<1>2. PICK open : open = OpenerAt(code, i, l - 1 - code[i].n)
  OBVIOUS
<1>3. {"end"} \in SUBSET {"end", "else"} /\ {"else", "end"} \in SUBSET {"end", "else"}
  OBVIOUS
<1>4. CASE code[i].op \in {"br", "brif"}
  <2>1. Target(code, i) = IF code[open].op = "loop" THEN open + 1
                          ELSE Closing(code, {"end"}, l - code[i].n, i) + 1
    BY <1>1, <1>2, <1>4 DEF Target, OpenerAt
  <2>2. CASE code[open].op = "loop"
    <3>1. open \in 1..n
      <4>1. PICK S : S = {k \in 1..i - 1 : code[k].op \in Openers /\ Level(code, k) = l - 1 - code[i].n} \cup {1}
        OBVIOUS
      <4>2. S \in SUBSET (1..n) /\ S \in SUBSET (0..n) /\ S # {}
        BY <4>1
      <4>3. Max(S) \in S
        BY <4>2, MaxIs
      <4>4. QED
        BY <1>2, <4>1, <4>2, <4>3 DEF OpenerAt
    <3>2. PICK t \in Nat : t = open + 1 /\ t > 1 /\ t - 1 = open
      BY <3>1
    <3>3. Target(code, i) = t
      BY <2>1, <2>2, <3>2
    <3>4. Lands(code, t)
      BY <2>2, <3>2 DEF Lands
    <3>5. Freed(code, i)
      <4>1. CASE code[i].op = "brif" /\ code[i].n = 1 /\ InHead(code, i, 0)
        <5>1. open = OpenerAt(code, i, Level(code, i) - 1 - 1)
          BY <1>1, <1>2, <4>1
        <5>2. code[open].op = "block"
          BY <4>1, <5>1, HeadLeaves
        <5>3. QED
          BY <2>2, <5>2
      <4>2. QED
        BY <1>4, <4>1 DEF BackAt
    <3>6. QED
      BY <3>1, <3>2, <3>3, <3>4, <3>5
  <2>3. CASE code[open].op # "loop"
    <3>1. Target(code, i) = Closing(code, {"end"}, l - code[i].n, i) + 1
      BY <2>1, <2>3
    <3>2. QED
      BY <1>3, <3>1, ClosingIs
  <2>4. QED
    BY <2>2, <2>3
<1>5. CASE code[i].op = "if"
  <2>1. Target(code, i) = Closing(code, {"else", "end"}, l + 1, i) + 1
    BY <1>1, <1>5 DEF Target
  <2>2. QED
    BY <1>3, <2>1, ClosingIs
<1>6. CASE code[i].op = "else"
  <2>1. Target(code, i) = Closing(code, {"end"}, l, i) + 1
    BY <1>1, <1>6 DEF Target
  <2>2. QED
    BY <1>3, <2>1, ClosingIs
<1>7. QED
  BY <1>4, <1>5, <1>6 DEF Jumps

(* Once the body is complete its jumps lead into its code, or to its end;   *)
(* nothing else changes.                                                    *)
LEMMA ResolvedIs ==
  ASSUME NEW code \in Seq(Instrs), NEW n \in Nat, n = Len(code), Backs(code), Once(code),
         NEW r, r = Resolved(code)
  PROVE  /\ r \in Seq(Instrs) /\ Len(r) = n /\ Once(r)
         /\ \A i \in 1..n : r[i].op \in Jumps =>
              r[i].n \in 1..n + 1 /\ Lands(r, r[i].n) /\ (r[i].n > i \/ Freed(r, i))
<1>1. \A i \in 1..n : code[i].op \in Jumps =>
        /\ Target(code, i) \in 1..n + 1 /\ Lands(code, Target(code, i))
        /\ Target(code, i) > i \/ Freed(code, i)
  BY TargetIs DEF Backs
<1>2. r = [i \in 1..n |-> [code[i] EXCEPT !.n = Target(code, i)]]
  BY DEF Resolved
<1>3. ASSUME NEW i \in 1..n
      PROVE  /\ r[i] \in Instrs /\ r[i].op = code[i].op /\ r[i].n = Target(code, i)
             /\ r[i].at = code[i].at /\ r[i].part = code[i].part
  <2>1. code[i] \in Instrs
    OBVIOUS
  <2>2. Target(code, i) \in Int
    <3>1. CASE code[i].op \in Jumps
      BY <1>1, <3>1
    <3>2. CASE code[i].op \notin Jumps
      <4>1. Target(code, i) = code[i].n
        BY <3>2 DEF Target, Jumps
      <4>2. QED
        BY <2>1, <4>1 DEF Instrs
    <3>3. QED
      BY <3>1, <3>2
  <2>3. PICK t \in Int : t = Target(code, i)
    BY <2>2
  <2>4. r[i] = [code[i] EXCEPT !.n = t]
    BY <1>2, <2>3
  <2>5. QED
    BY <2>1, <2>3, <2>4 DEF Instrs, Fits
<1>4. r \in Seq(Instrs) /\ Len(r) = n
  <2>1. \A i \in 1..n : r[i] \in Instrs
    BY <1>3
  <2>2. DOMAIN r = 1..n /\ r = [i \in 1..n |-> r[i]]
    BY <1>2
  <2>3. r \in [1..n -> Instrs]
    BY <2>1, <2>2
  <2>4. QED
    BY <2>3
<1>5. Once(r)
  BY <1>3, <1>4 DEF Once, Marked
<1>6. \A i \in 1..n : Freed(code, i) => Freed(r, i)
  <2> TAKE i \in 1..n
  <2>1. LikeUpTo(code, r, n)
    BY <1>3, <1>4 DEF LikeUpTo
  <2>2. i \in 1..n + 1
    OBVIOUS
  <2>3. QED
    BY <1>4, <2>1, <2>2, HeadAlike
<1>7. ASSUME NEW t \in 1..n + 1, Lands(code, t) PROVE Lands(r, t)
  <2>1. t <= n => t - 1 \in 1..n
    BY <1>7 DEF Lands
  <2>2. QED
    BY <1>3, <1>4, <1>7, <2>1 DEF Lands
<1>8. QED
  BY <1>1, <1>3, <1>4, <1>5, <1>6, <1>7

(* The start: one block is open, around no construct.                       *)
LEMMA BodyInitInv == BodyInit => BodyInv
<1> SUFFICES ASSUME BodyInit PROVE BodyInv
  OBVIOUS
<1>1. /\ src = <<>> /\ nest = <<>> /\ buf = Emit(NoCode, Op("block")) /\ phase = "parse" /\ pc = 1
      /\ breakDepth = -1 /\ continueDepth = -1 /\ exitDepth = 0 /\ forLimitDepth = 0
  BY DEF BodyInit
<1>2. PICK i \in Instrs : i = Op("block") /\ i.op = "block" /\ i.part \notin TakeParts
  BY CodeCalm DEF Calm
<1>3. Buffer(NoCode) /\ OpenBlocks(NoCode.code) = 0
  <2>1. NoCode.code = <<>> /\ <<>> \in Seq(Instrs) /\ Len(<<>>) = 0
    BY DEF NoCode
  <2>2. Buffer(NoCode)
    BY <2>1 DEF NoCode, Buffer
  <2>3. \A named : Count(<<>>, named, 0 + 1) = 0
    <3> TAKE named
    <3>1. {k \in 1..0 : <<>>[k].op \in named} = {}
      OBVIOUS
    <3>2. Count(<<>>, named, 0 + 1) = Cardinality({k \in 1..0 : <<>>[k].op \in named})
      BY <2>1, CountIs
    <3>3. QED
      BY <3>1, <3>2, FS_EmptySet
  <2>4. OpenBlocks(<<>>) = Count(<<>>, Openers, 0 + 1) - Count(<<>>, {"end"}, 0 + 1)
    BY <2>1, OpenBlocksAre
  <2>5. QED
    BY <2>1, <2>2, <2>3, <2>4
<1>4. Buffer(buf) /\ OpenBlocks(buf.code) = 0 + 1
  BY <1>1, <1>2, <1>3, EmitDoes, DeltaIs
<1>5. Inside(<<>>, 0, -1, -1, 0)
  <2>1. <<>> \in Seq(Construct) /\ Len(<<>>) = 0
    OBVIOUS
  <2>2. Outer(<<>>)[0] = 0 /\ Fors(<<>>)[0] = 0
    BY <2>1, OuterIs, ForsIs
  <2>3. Nearest(<<>>, 0, LoopIn(<<>>, 0))
    BY LoopInIs
  <2>4. LoopIn(<<>>, 0) = 0
    BY <2>3 DEF Nearest
  <2>5. BreakIn(<<>>, 0) = -1 /\ ContinueIn(<<>>, 0) = -1
    BY <2>4 DEF BreakIn, ContinueIn
  <2>6. QED
    BY <2>1, <2>2, <2>5 DEF Inside
<1>6. TokenInv
  <2>1. src \in Seq(Tokens) /\ Len(src) = 0 /\ Len(nest) = 0
    BY <1>1
  <2>2. QED
    BY <2>1 DEF TokenInv
<1>7. DepthInv
  BY <1>1, <1>4, <1>5, BodyConstants DEF DepthInv
<1>8. CodeInv
  <2>1. Len(buf.code) \in Nat
    BY <1>4 DEF Buffer
  <2>2. QED
    BY <1>1, <1>4, <2>1 DEF CodeInv
<1>9. ReleaseInv
  <2>1. PICK code \in Seq(Instrs) : code = NoCode.code /\ Len(code) = 0
    BY <1>3 DEF NoCode, Buffer
  <2>2. Extended(code, i, buf.code)
    <3>1. Extended(code, i, buf.code) \/ Teed(code, i, buf.code) \/ Dropped(code, i, buf.code)
      BY <1>1, <1>2, <1>3, <2>1, EmitIs
    <3>2. ~Teed(code, i, buf.code) /\ ~Dropped(code, i, buf.code)
      BY <2>1 DEF Teed, Dropped
    <3>3. QED
      BY <3>1, <3>2
  <2>3. Len(buf.code) = 1 /\ buf.code[1] = i
    BY <2>1, <2>2 DEF Extended
  <2>4. \A k \in 1..1 : k = 1
    OBVIOUS
  <2>5. Once(buf.code) /\ UpTo(buf.code, 0)
    BY <1>2, <2>3, <2>4 DEF Once, UpTo, Marked
  <2>6. Backs(buf.code)
    BY <1>2, <2>3, <2>4 DEF Backs, BackAt
  <2>7. taken = {} /\ Len(src) = 0
    BY <1>1 DEF BodyInit
  <2>8. QED
    BY <1>1, <2>5, <2>6, <2>7 DEF ReleaseInv
<1>10. QED
  BY <1>6, <1>7, <1>8, <1>9 DEF BodyInv

(* The code is resolved: every instruction stays where it is.               *)
LEMMA FinishKeeps ==
  ASSUME BodyInv, Finish
  PROVE  BodyInv'
<1>1. /\ phase = "parse" /\ buf' = [code |-> Resolved(Emit(buf, Op("end")).code), last |-> 0] /\ phase' = "run"
      /\ UNCHANGED <<src, depths, nest, pc, reg, locals, taken>>
  BY DEF Finish
<1>2. /\ Buffer(buf) /\ pc = 1 /\ pc' = 1 /\ Once(buf.code) /\ Backs(buf.code) /\ UpTo(buf.code, Len(src))
      /\ taken' = {} /\ Len(src) \in Nat
  BY <1>1 DEF BodyInv, CodeInv, ReleaseInv, TokenInv
<1>3. PICK i \in Instrs : i = Op("end") /\ i.op = "end" /\ Calm(i)
  BY CodeCalm DEF Calm
<1>4. Buffer(Emit(buf, i))
  BY <1>2, EmitDoes
<1>5. PICK code \in Seq(Instrs) : code = Emit(buf, i).code
  BY <1>4 DEF Buffer
<1>6. PICK n \in Nat : n = Len(code)
  OBVIOUS
<1>7. Backs(code) /\ Once(code)
  <2>1. PICK s \in Seq(Instrs) : s = <<i>> /\ Len(s) = 1 /\ s[1] = i
    <3>1. <<i>> \in Seq(Instrs)
      OBVIOUS
    <3>2. Len(<<i>>) = 1 /\ <<i>>[1] = i
      OBVIOUS
    <3>3. QED
      BY <3>1, <3>2
  <2>2. Tidy(s, Len(src) + 1)
    BY <1>3, <2>1, BareIs, BareTidy
  <2>3. PICK g : Emitted(buf, s, g)
    BY <1>2, EmitAllRuns
  <2>4. EmitAll(buf, s) = Emit(buf, i)
    <3>1. 1 \in 1..1 /\ 1 - 1 = 0
      OBVIOUS
    <3>2. g[1] = Emit(g[0], s[1]) /\ g[0] = buf /\ g[1] = EmitAll(buf, s)
      BY <2>1, <2>3, <3>1 DEF Emitted
    <3>3. QED
      BY <2>1, <3>2
  <2>5. QED
    BY <1>2, <1>5, <2>2, <2>4, EmitAllTidy
<1>8. PICK r : r = Resolved(code)
  OBVIOUS
<1>9. /\ r \in Seq(Instrs) /\ Len(r) = n /\ Once(r)
      /\ \A k \in 1..n : r[k].op \in Jumps =>
           r[k].n \in 1..n + 1 /\ Lands(r, r[k].n) /\ (r[k].n > k \/ Freed(r, k))
  BY <1>6, <1>7, <1>8, ResolvedIs
<1>10. buf' = [code |-> r, last |-> 0] /\ buf'.code = r
  BY <1>1, <1>3, <1>5, <1>8
<1>11. CodeInv'
  <2>1. Buffer(buf')
    BY <1>9, <1>10 DEF Buffer
  <2>2. pc' \in 1..n + 1
    BY <1>2
  <2>3. QED
    BY <1>1, <1>9, <1>10, <2>1, <2>2 DEF CodeInv
<1>12. DepthInv'
  BY <1>1 DEF BodyInv, DepthInv, depths
<1>13. TokenInv'
  BY <1>1 DEF BodyInv, TokenInv
<1>14. ReleaseInv'
  BY <1>1, <1>2, <1>9, <1>10 DEF ReleaseInv
<1>15. QED
  BY <1>11, <1>12, <1>13, <1>14 DEF BodyInv

(* A statement is refused: nothing else changes.                            *)
LEMMA ErrorKeeps ==
  ASSUME BodyInv, Error
  PROVE  BodyInv'
<1>1. phase = "parse" /\ phase' = "error" /\ UNCHANGED <<src, buf, depths, nest, machine>>
  BY DEF Error, Statement, SpaceFor
<1>2. TokenInv'
  BY <1>1 DEF BodyInv, TokenInv
<1>3. DepthInv'
  BY <1>1 DEF BodyInv, DepthInv, depths
<1>4. CodeInv'
  BY <1>1 DEF BodyInv, CodeInv, machine
<1>5. ReleaseInv'
  BY <1>1 DEF BodyInv, ReleaseInv, machine
<1>6. QED
  BY <1>2, <1>3, <1>4, <1>5 DEF BodyInv

(* What the instruction that runs does to the bytes taken.                  *)
LEMMA ExecTakes ==
  ASSUME BodyInv, Exec
  PROVE  /\ phase = "run" /\ pc \in 1..Len(buf.code) /\ UNCHANGED <<src, buf, depths, nest, phase>>
         /\ pc' = pc + 1 \/ (instr.op \in Jumps /\ pc' = instr.n /\ taken' = taken)
         /\ instr.op = "release" => taken' = {}
         /\ taken' = {} \/ taken' = taken \/ (Takes /\ taken' = taken \cup {place})
<1>1. phase = "run" /\ pc <= Len(buf.code) /\ UNCHANGED <<src, buf, depths, nest, phase>>
  BY Zenon DEF Exec, Moves, Answers, Running, Compiled
<1>2. pc \in 1..Len(buf.code) /\ Len(buf.code) \in Nat
  BY <1>1 DEF BodyInv, CodeInv, Buffer
<1>3. instr \in Instrs
  BY <1>2 DEF BodyInv, CodeInv, Buffer, instr
<1>4. instr.op = "release" => instr.part = Nowhere
  BY <1>3 DEF Instrs, Fits
<1>5. CASE Answers
  <2>1. pc' = pc + 1 /\ instr.part # Nowhere /\ taken' = IF Takes THEN taken \cup {place} ELSE taken
    BY <1>5, Zenon DEF Answers, Nowhere
  <2>2. QED
    BY <1>1, <1>2, <1>4, <2>1
<1>6. CASE Moves
  <2>1. /\ pc' = CASE instr.op \in {"br", "else"} -> instr.n
                   [] instr.op = "brif" -> IF reg # 0 THEN instr.n ELSE pc + 1
                   [] instr.op = "if" -> IF reg = 0 THEN instr.n ELSE pc + 1
                   [] OTHER -> pc + 1
        /\ taken' = IF instr.op = "release" THEN {} ELSE taken
    BY <1>6, Zenon DEF Moves
  <2>2. (pc' = instr.n /\ instr.op \in Jumps) \/ pc' = pc + 1
    BY <2>1 DEF Jumps
  <2>3. instr.op \in Jumps => instr.op # "release"
    BY DEF Jumps
  <2>4. QED
    BY <1>1, <1>2, <2>1, <2>2, <2>3
<1>7. QED
  BY <1>5, <1>6 DEF Exec

(* The code runs: the next instruction is one of it, or its end is reached; *)
(* a branch back finds everything released.                                 *)
LEMMA ExecKeeps ==
  ASSUME BodyInv, Exec
  PROVE  BodyInv'
<1>1. /\ phase = "run" /\ pc \in 1..Len(buf.code) /\ UNCHANGED <<src, buf, depths, nest, phase>>
      /\ pc' = pc + 1 \/ (instr.op \in Jumps /\ pc' = instr.n /\ taken' = taken)
      /\ instr.op = "release" => taken' = {}
      /\ taken' = {} \/ taken' = taken \/ (Takes /\ taken' = taken \cup {place})
  BY ExecTakes
<1>2. PICK code \in Seq(Instrs) : code = buf.code /\ Once(code)
  BY DEF BodyInv, CodeInv, Buffer, ReleaseInv
<1>3. PICK n \in Nat : n = Len(code) /\ pc \in 1..n
  BY <1>1, <1>2
<1>4. instr = code[pc] /\ instr \in Instrs
  BY <1>2, <1>3 DEF instr
<1>5. /\ \A i \in 1..n : code[i].op \in Jumps =>
           code[i].n \in 1..n + 1 /\ Lands(code, code[i].n) /\ (code[i].n > i \/ Freed(code, i))
      /\ Freed(code, pc) => taken = {}
      /\ \A p \in taken : \E i \in 1..pc - 1 : Marked(code, i) /\ p = <<code[i].at, code[i].part>>
  BY <1>1, <1>2, <1>3 DEF BodyInv, CodeInv, ReleaseInv
<1>6. pc' \in 1..n + 1
  BY <1>1, <1>3, <1>4, <1>5
<1>7. TokenInv'
  BY <1>1 DEF BodyInv, TokenInv
<1>8. DepthInv'
  BY <1>1 DEF BodyInv, DepthInv, depths
<1>9. CodeInv'
  BY <1>1, <1>2, <1>3, <1>6 DEF BodyInv, CodeInv
<1>10. ASSUME pc' <= n, Freed(code, pc') PROVE taken' = {}
  <2>1. CASE pc' = pc + 1
    <3>1. (pc + 1) - 1 = pc /\ (pc + 1) - 2 = pc - 1 /\ (pc + 1 > 2 <=> pc > 1)
      BY <1>3
    <3>2. CASE code[pc].op = "release"
      BY <1>1, <1>4, <3>2
    <3>3. CASE pc > 1 /\ code[pc].op = "step" /\ code[pc - 1].op = "release"
      <4>1. taken = {}
        BY <1>5, <3>3 DEF Freed
      <4>2. ~Takes
        BY <1>4, <3>3 DEF Takes, Instrs, Fits
      <4>3. QED
        BY <1>1, <4>1, <4>2
    <3>4. QED
      BY <1>10, <2>1, <3>1, <3>2, <3>3 DEF Freed
  <2>2. CASE instr.op \in Jumps /\ pc' = instr.n
    <3>1. Lands(code, pc')
      BY <1>3, <1>4, <1>5, <2>2
    <3>2. code[pc' - 1].op \in {"loop", "end", "else"}
      BY <1>3, <1>10, <3>1 DEF Lands
    <3>3. QED
      BY <1>10, <3>2 DEF Freed
  <2>3. QED
    BY <1>1, <2>1, <2>2
<1>11. ASSUME NEW p \in taken' PROVE \E i \in 1..pc' - 1 : Marked(code, i) /\ p = <<code[i].at, code[i].part>>
  <2>1. CASE p \in taken
    <3>1. PICK i \in 1..pc - 1 : Marked(code, i) /\ p = <<code[i].at, code[i].part>>
      BY <1>5, <2>1
    <3>2. pc' > pc
      <4>1. CASE pc' = pc + 1
        BY <1>3, <4>1
      <4>2. CASE instr.op \in Jumps /\ pc' = instr.n
        BY <1>3, <1>4, <1>5, <2>1, <4>2
      <4>3. QED
        BY <1>1, <4>1, <4>2
    <3>3. i \in 1..pc' - 1
      <4>1. PICK a \in Nat : a = pc
        BY <1>3
      <4>2. PICK b \in Nat : b = pc'
        BY <1>6
      <4>3. i \in 1..a - 1 /\ b > a
        BY <3>2, <4>1, <4>2
      <4>4. i \in 1..b - 1
        BY <4>3
      <4>5. QED
        BY <4>2, <4>4
    <3>4. QED
      BY <3>1, <3>3
  <2>2. CASE p \notin taken
    <3>1. Takes /\ p = place /\ taken' # taken
      BY <1>1, <1>11, <2>2
    <3>2. pc' = pc + 1 /\ pc \in 1..pc' - 1
      BY <1>1, <1>3, <3>1
    <3>3. Marked(code, pc) /\ p = <<code[pc].at, code[pc].part>>
      BY <1>4, <3>1 DEF Marked, Takes, place
    <3>4. QED
      BY <3>2, <3>3
  <2>3. QED
    BY <2>1, <2>2
<1>12. ReleaseInv'
  <2>1. phase' = "run" /\ buf'.code = code /\ Len(buf'.code) = n
    BY <1>1, <1>2, <1>3
  <2>2. QED
    BY <1>2, <1>5, <1>10, <1>11, <2>1 DEF ReleaseInv
<1>13. QED
  BY <1>7, <1>8, <1>9, <1>12 DEF BodyInv

(* A stuttering step.                                                       *)
LEMMA BodyUnchanged ==
  ASSUME BodyInv, UNCHANGED bodyVars
  PROVE  BodyInv'
<1>1. UNCHANGED <<src, buf, breakDepth, continueDepth, exitDepth, forLimitDepth, nest, phase, pc, taken>>
  BY DEF bodyVars, depths, machine
<1>2. TokenInv'
  BY <1>1 DEF BodyInv, TokenInv
<1>3. DepthInv'
  BY <1>1 DEF BodyInv, DepthInv
<1>4. CodeInv'
  BY <1>1 DEF BodyInv, CodeInv
<1>5. ReleaseInv'
  BY <1>1 DEF BodyInv, ReleaseInv
<1>6. QED
  BY <1>2, <1>3, <1>4, <1>5 DEF BodyInv

(* The inductive step: one action after another.                            *)
LEMMA BodyNextInv == BodyInv /\ [BodyNext]_bodyVars => BodyInv'
<1> SUFFICES ASSUME BodyInv, [BodyNext]_bodyVars PROVE BodyInv'
  OBVIOUS
<1>1. CASE \E s \in Simples : Simple(s)
  BY <1>1, SimpleKeeps
<1>2. CASE \E s \in Shapes : If(s) \/ While(s) \/ Until(s)
  BY <1>2, IfKeeps, WhileKeeps, UntilKeeps
<1>3. CASE For \/ Repeat \/ Case
  BY <1>3, ForKeeps, RepeatKeeps, CaseKeeps
<1>4. CASE Else \/ Arm \/ CaseElse
  BY <1>4, ElseKeeps, ArmKeeps, CaseElseKeeps
<1>5. CASE EndIf \/ EndCase \/ EndWhile \/ EndFor
  BY <1>5, EndIfKeeps, EndCaseKeeps, EndWhileKeeps, EndForKeeps
<1>6. CASE Exit \/ Break \/ Continue
  <2>1. exitDepth \in Int /\ breakDepth \in Int /\ continueDepth \in Int
    BY ParseFrom
  <2>2. PICK x \in Int : x = exitDepth
    BY <2>1
  <2>3. PICK b \in Int : b = breakDepth
    BY <2>1
  <2>4. PICK c \in Int : c = continueDepth
    BY <2>1
  <2>5. CASE Exit
    <3>1. Leave("exit", x)
      BY <2>2, <2>5 DEF Exit
    <3>2. QED
      BY <3>1, LeaveKeeps
  <2>6. CASE Break
    <3>1. Leave("break", b)
      BY <2>3, <2>6 DEF Break
    <3>2. QED
      BY <3>1, LeaveKeeps
  <2>7. CASE Continue
    <3>1. Leave("continue", c)
      BY <2>4, <2>7 DEF Continue
    <3>2. QED
      BY <3>1, LeaveKeeps
  <2>8. QED
    BY <1>6, <2>5, <2>6, <2>7
<1>7. CASE Error \/ Finish \/ Exec
  BY <1>7, ErrorKeeps, FinishKeeps, ExecKeeps
<1>8. CASE Stop \/ UNCHANGED bodyVars
  BY <1>8, BodyUnchanged DEF Stop
<1>9. QED
  BY <1>1, <1>2, <1>3, <1>4, <1>5, <1>6, <1>7, <1>8, Zenon DEF BodyNext, Parse

(* What DepthsTrue says of the depths is what BodyInv says of them.         *)
LEMMA BodyInvIsTrue == BodyInv => DepthsTrue
<1> SUFFICES ASSUME BodyInv PROVE DepthsTrue
  OBVIOUS
<1>1. \A j \in 1..Len(src) : src[j].kind \in TokenKinds /\ src[j].up \in 0..j - 1
  <2> TAKE j \in 1..Len(src)
  <2>1. src \in Seq(Tokens) /\ src[j].up < j
    BY DEF BodyInv, TokenInv
  <2>2. src[j] \in Tokens
    BY <2>1
  <2>3. src[j].kind \in TokenKinds /\ src[j].up \in Nat
    BY <2>2 DEF Tokens
  <2>4. QED
    BY <2>1, <2>3
<1>2. /\ phase \in {"parse", "error", "run"} /\ pc \in 1..Len(buf.code) + 1
      /\ buf.last \in {0, Len(buf.code)}
  BY DEF BodyInv, CodeInv, Buffer
<1>3. exitDepth \in Nat /\ forLimitDepth \in 0..MaxFor
  BY ParseFrom, BodyConstants
<1>4. phase # "run" => Level(buf.code, Len(buf.code) + 1) = exitDepth + 1
  BY DEF BodyInv, DepthInv, OpenBlocks
<1>5. /\ exitDepth = Outer(nest)[Len(nest)] /\ breakDepth = BreakIn(nest, Len(nest))
      /\ continueDepth = ContinueIn(nest, Len(nest))
  BY DEF BodyInv, DepthInv, Inside
<1>6. NearestLoop = LoopIn(nest, Len(nest))
  BY DEF NearestLoop, LoopIn
<1>7. /\ breakDepth = IF NearestLoop = 0 THEN -1 ELSE exitDepth - Outer(nest)[NearestLoop - 1] - 1
      /\ continueDepth = IF NearestLoop = 0 THEN -1 ELSE exitDepth - Outer(nest)[NearestLoop]
  BY <1>5, <1>6 DEF BreakIn, ContinueIn
<1>8. QED
  BY <1>1, <1>2, <1>3, <1>4, <1>5, <1>7 DEF DepthsTrue

(* Of any body, with any number of tokens and of nested for loops, whatever *)
(* forms its conditions and calls have and whether code is rewritten or not *)
(* (ParseStatement, cpas.pas:8172): BodyInv holds at every step.            *)
THEOREM BodyInvariant == BodySpec => []BodyInv
<1>1. BodyInit => BodyInv
  BY BodyInitInv
<1>2. BodyInv /\ [BodyNext]_bodyVars => BodyInv'
  BY BodyNextInv
<1>3. QED
  BY <1>1, <1>2, PTL DEF BodySpec

(* The depths that break, continue and exit are compiled to are those of    *)
(* the blocks that are open in the code emitted, whatever the peephole pass *)
(* rewrote (cpas.pas:9188..9510, 2687..2764).                               *)
THEOREM DepthsAlwaysTrue == BodySpec => []DepthsTrue
<1>1. BodyInv => DepthsTrue
  BY BodyInvIsTrue
<1>2. QED
  BY <1>1, BodyInvariant, PTL

(* What a place took is recorded for where it stands, before the code that  *)
(* runs: so it is not the place that comes next.                            *)
LEMMA BodyInvReleases == BodyInv => LoopsRelease
<1> SUFFICES ASSUME BodyInv, Running, Takes, place \in taken PROVE FALSE
  BY DEF LoopsRelease
<1>1. PICK i \in 1..pc - 1 : Marked(buf.code, i) /\ place = <<buf.code[i].at, buf.code[i].part>>
  BY DEF BodyInv, ReleaseInv, Running
<1>2. Once(buf.code) /\ pc \in 1..Len(buf.code) /\ Len(buf.code) \in Nat
  BY DEF BodyInv, ReleaseInv, CodeInv, Running, Buffer
<1>3. i \in 1..Len(buf.code) /\ i # pc
  BY <1>2
<1>4. buf.code[i].at = buf.code[pc].at /\ buf.code[i].part = buf.code[pc].part
  BY <1>1 DEF place, instr
<1>5. QED
  BY <1>1, <1>2, <1>3, <1>4 DEF Once

(* No loop walks the statement arena up one buffer at a time                *)
(* (cpas.pas:9229): whatever the nesting of loops, break, continue and      *)
(* exit, no place takes bytes twice before they are released.               *)
THEOREM LoopsAlwaysRelease == BodySpec => []LoopsRelease
<1>1. BodyInv => LoopsRelease
  BY BodyInvReleases
<1>2. QED
  BY <1>1, BodyInvariant, PTL
=============================================================================
