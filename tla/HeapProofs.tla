----------------------------- MODULE HeapProofs -----------------------------
(***************************************************************************)
(* That IInv of HeapSafe is inductive, and what follows from it, for every *)
(* memory size, data segment, set of type and frame sizes, and program.    *)
(* What the heap promises a program follows: that it implements            *)
(* MemorySpec, that memory disposed of is used again by first fit before   *)
(* the heap grows, and that the stack asked for is there.                  *)
(***************************************************************************)
EXTENDS HeapSafe, FiniteSetTheorems, SequenceTheorems, TLAPS

(* A sum below the modulus is not changed by it. *)
LEMMA NoReduction == \A x \in 0 .. Word - 1 : x % Word = x
  BY HeapConstants, SMT

(* A block is larger than its header and the payload asked for.             *)
LEMMA BlockSizeBounds ==
  ASSUME NEW n \in Sizes
  PROVE  /\ BlockSize(n) \in Nat
         /\ n + 8 <= BlockSize(n) /\ BlockSize(n) <= n + 15
<1>1. n \in Nat \ {0} /\ MemoryTop \in Nat /\ MemoryTop + n + 15 < Word
  BY HeapConstants, NoWrap DEF MemoryTop, InitialPages, CeilDiv
<1>2. (n + 15) % Word = n + 15
  BY <1>1, NoReduction, HeapConstants
<1>3. QED
  BY <1>1, <1>2 DEF BlockSize

(* Enough pages are asked for to hold the data and the stack. *)
LEMMA LayoutBounds ==
  /\ MemoryTop \in Nat
  /\ DataEnd + StackSize <= MemoryTop
<1> DEFINE bytes == DataEnd + StackSize
           need == CeilDiv(bytes, PageSize)
<1>1. /\ need \in Nat
      /\ bytes <= need * PageSize
  <2>1. bytes + PageSize - 1 \in Nat /\ PageSize \in Nat \ {0}
    BY HeapConstants
  <2>2. \A x \in Nat : x \div PageSize \in Nat /\ x % PageSize \in 0 .. PageSize - 1
                       /\ x = PageSize * (x \div PageSize) + (x % PageSize)
    BY <2>1, SMT
  <2>3. /\ need \in Nat
        /\ bytes + PageSize - 1 < PageSize * need + PageSize
    BY <2>1, <2>2 DEF CeilDiv
  <2>4. PageSize * need = need * PageSize
    BY <2>1, <2>3
  <2>5. QED
    BY <2>1, <2>3, <2>4, HeapConstants
<1>2. InitialPages \in Nat /\ need <= InitialPages
  BY <1>1, HeapConstants DEF InitialPages
<1>3. need * PageSize <= InitialPages * PageSize
  BY <1>1, <1>2, HeapConstants
<1>4. QED
  BY <1>1, <1>2, <1>3, HeapConstants DEF MemoryTop

-----------------------------------------------------------------------------
(* The invariant holds initially. *)
LEMMA InitIInv == Init => IInv
<1> SUFFICES ASSUME Init PROVE IInv
  OBVIOUS
<1>1. sp = MemoryTop
  BY MemoryFits, LayoutBounds, NoReduction, HeapConstants DEF Init
<1>2. DataEnd \in Addr /\ 0 \in Addr /\ sp \in Addr /\ DataEnd <= sp
  BY <1>1, MemoryFits, LayoutBounds, HeapConstants DEF Addr
<1>3. Blocks = {} /\ DOMAIN live = {} /\ Len(free) = 0 /\ FreeBlocks = {}
  BY DEF Init, Blocks, FreeBlocks
<1>4. TypeOK
  BY <1>2, <1>3 DEF Init, TypeOK, Blocks
<1>5. AddressOrder
  BY <1>1, <1>2, HeapConstants DEF Init, AddressOrder, Addr
<1>6. HeapStructure
  BY <1>3 DEF Init, HeapStructure, BlocksTileHeap, BlocksNotEmpty,
              BlocksAccounted, LiveBlocksFit, FreeListIntact
<1>7. WalkPosition
  BY DEF Init, WalkPosition
<1>8. QED
  BY <1>4, <1>5, <1>6, <1>7 DEF IInv

(* A step that leaves the blocks, their headers and the two ends alone      *)
(* leaves the structure of the heap alone.                                  *)
LEMMA SameStructure ==
  ASSUME HeapStructure, UNCHANGED <<heapEnd, hdr, live, free, freeHead>>
  PROVE  HeapStructure'
<1>1. Blocks' = Blocks /\ FreeBlocks' = FreeBlocks
  BY DEF Blocks, FreeBlocks
<1>2. BlocksTileHeap' /\ BlocksNotEmpty'
  BY <1>1 DEF HeapStructure, BlocksTileHeap, BlocksNotEmpty
<1>3. BlocksAccounted'
  BY <1>1 DEF HeapStructure, BlocksAccounted, BlockOf
<1>4. LiveBlocksFit' /\ FreeListIntact'
  BY <1>1 DEF HeapStructure, LiveBlocksFit, FreeListIntact, BlockOf
<1>5. QED
  BY <1>2, <1>3, <1>4 DEF HeapStructure

(* 0, the nil pointer and the end of the free list, is a word.              *)
LEMMA ZeroIsAddr == 0 \in Addr
  BY HeapConstants DEF Addr

(* new(p) starts the walk at the head of the free list.                     *)
LEMMA NewStep ==
  ASSUME IInv, NEW p \in Ptrs, NEW n \in Sizes, New(p, n)
  PROVE  IInv'
<1>1. TypeOK'
  BY ZeroIsAddr DEF IInv, TypeOK, New, Blocks, program, history
<1>2. AddressOrder'
  BY DEF IInv, AddressOrder, New, program
<1>3. HeapStructure'
  BY SameStructure DEF IInv, New, history
<1>4. WalkPosition'
  <2>1. cur' = IF 1 = Len(free) + 1 THEN 0 ELSE free[1]
    BY DEF IInv, TypeOK, HeapStructure, FreeListIntact, New
  <2>2. 1 \in 1 .. Len(free') + 1 /\ free' = free
    BY DEF IInv, TypeOK, New, history
  <2>3. prev' = 0
    BY DEF New
  <2>4. QED
    BY <2>1, <2>2, <2>3 DEF WalkPosition, New
<1>5. QED
  BY <1>1, <1>2, <1>3, <1>4 DEF IInv

(* One turn of the walk keeps prev one behind cur. *)
LEMMA WalkOnStep ==
  ASSUME IInv, WalkOn
  PROVE  IInv'
<1>1. PICK i \in 1 .. Len(free) + 1 :
        /\ cur = IF i = Len(free) + 1 THEN 0 ELSE free[i]
        /\ prev = IF i = 1 THEN 0 ELSE free[i - 1]
        /\ \A j \in 1 .. i - 1 : hdr[free[j]].size < total
  BY DEF IInv, WalkPosition, WalkOn
<1>2. i \in 1 .. Len(free) /\ cur = free[i] /\ Len(free) \in Nat
  BY <1>1 DEF IInv, TypeOK, WalkOn
<1>3. cur' = IF i + 1 = Len(free) + 1 THEN 0 ELSE free[i + 1]
  BY <1>2 DEF WalkOn, IInv, HeapStructure, FreeListIntact
<1>4. TypeOK'
  <2>1. cur' \in Addr
    BY <1>2, <1>3, ZeroIsAddr DEF IInv, TypeOK
  <2>2. prev' \in Addr
    BY DEF IInv, TypeOK, WalkOn
  <2>3. QED
    BY <2>1, <2>2 DEF IInv, TypeOK, WalkOn, Blocks, program, history
<1>5. AddressOrder'
  BY DEF IInv, AddressOrder, WalkOn, program
<1>6. HeapStructure'
  BY SameStructure DEF IInv, WalkOn, history
<1>7. WalkPosition'
  <2>1. /\ i + 1 \in 1 .. Len(free') + 1
        /\ prev' = IF i + 1 = 1 THEN 0 ELSE free'[(i + 1) - 1]
        /\ cur' = IF i + 1 = Len(free') + 1 THEN 0 ELSE free'[i + 1]
    BY <1>2, <1>3 DEF WalkOn, history
  <2>2. total' = total /\ hdr' = hdr /\ free' = free
    BY DEF WalkOn, total, history
  <2>3. \A j \in 1 .. (i + 1) - 1 : hdr'[free'[j]].size < total'
    <3>1. cur \in Blocks
      BY <1>2 DEF IInv, HeapStructure, FreeListIntact
    <3> hdr[cur].size \in Nat
      BY <3>1, HeapConstants DEF IInv, TypeOK, Header, Addr
    <3>2. total \in Nat
      BY <1>2, BlockSizeBounds DEF total, IInv, WalkPosition, WalkOn
    <3>3. hdr[cur].size < total
      BY <3>2 DEF WalkOn, LargeEnough
    <3>4. QED
      BY <1>1, <1>2, <2>2, <3>3
  <2>4. target' \in Ptrs /\ size' \in Sizes
    BY DEF IInv, WalkPosition, WalkOn
  <2>5. QED
    BY <2>1, <2>3, <2>4 DEF WalkPosition
<1>8. QED
  BY <1>4, <1>5, <1>6, <1>7 DEF IInv

(* Steps that trap, or do nothing once trapped. *)
LEMMA TrapStep ==
  ASSUME IInv,
         \/ OutOfHeap
         \/ \E p \in Ptrs : DisposeNil(p)
         \/ \E f \in FrameSizes : Overflow(f)
         \/ Trapped
  PROVE  IInv'
<1>1. /\ UNCHANGED <<heapEnd, freeHead, hdr, program, locals, history>>
      /\ pc' \in Traps
  BY DEF OutOfHeap, DisposeNil, Overflow, Trapped, vars, program, locals,
         history, Traps
<1>2. TypeOK'
  BY <1>1 DEF IInv, TypeOK, Blocks, program, locals, history
<1>3. AddressOrder'
  BY <1>1 DEF IInv, AddressOrder, program
<1>4. HeapStructure'
  BY <1>1, SameStructure DEF IInv, history
<1>5. WalkPosition'
  BY <1>1 DEF WalkPosition, Traps
<1>6. QED
  BY <1>2, <1>3, <1>4, <1>5 DEF IInv

(* p := q touches the pointer variables only. *)
LEMMA CopyStep ==
  ASSUME IInv, NEW p \in Ptrs, NEW q \in Ptrs, Copy(p, q)
  PROVE  IInv'
<1>1. TypeOK'
  BY DEF IInv, TypeOK, Copy, Blocks, locals, history
<1>2. AddressOrder'
  BY DEF IInv, AddressOrder, Copy
<1>3. HeapStructure'
  BY SameStructure DEF IInv, Copy, history
<1>4. WalkPosition'
  BY DEF WalkPosition, Copy
<1>5. QED
  BY <1>1, <1>2, <1>3, <1>4 DEF IInv

(* A call that passes the guard leaves the stack above the heap; because    *)
(* the guard is evaluated before the subtraction, nothing wraps.            *)
LEMMA CallStep ==
  ASSUME IInv, NEW f \in FrameSizes, Call(f)
  PROVE  IInv'
<1>1. /\ heapEnd \in Nat /\ sp \in Nat /\ heapEnd <= MemoryTop /\ f \in Nat
      /\ MemoryTop \in Nat /\ MemoryTop + f + 15 < Word /\ Word \in Nat
  BY SMTT(30), HeapConstants, NoWrap, LayoutBounds DEF IInv, TypeOK, AddressOrder, Addr
<1>2. (heapEnd + f) % Word = heapEnd + f
  BY <1>1, NoReduction
<1>3. heapEnd + f <= sp
  BY <1>1, <1>2 DEF Call, StackGuard
<1>4. sp' = sp - f /\ sp' \in Addr
  <2>1. sp \in Addr
    BY DEF IInv, TypeOK
  <2>2. sp - f \in 0 .. Word - 1
    BY <1>1, <1>3, <2>1 DEF Addr
  <2>3. QED
    BY <2>2, NoReduction DEF Call, Addr
<1>5. TypeOK'
  <2>1. sp' \in Addr
    BY <1>4
  <2>2. frames' \in Seq(Addr)
    BY DEF IInv, TypeOK, Call
  <2>3. QED
    BY <2>1, <2>2 DEF IInv, TypeOK, Call, Blocks, locals, history
<1>6. AddressOrder'
  <2>1. DataEnd <= heapEnd' /\ heapEnd' <= sp' /\ sp' <= MemoryTop
    BY <1>1, <1>3, <1>4, HeapConstants DEF IInv, AddressOrder, Call
  <2>2. frames \in Seq(Addr) /\ frames' = Append(frames, sp)
    BY DEF IInv, TypeOK, Call
  <2>3. /\ Len(frames') = Len(frames) + 1 /\ frames'[Len(frames) + 1] = sp
        /\ \A i \in 1 .. Len(frames) : frames'[i] = frames[i]
    BY <2>2
  <2>4. ASSUME NEW i \in 1 .. Len(frames')
        PROVE  /\ sp' <= frames'[i] /\ frames'[i] <= MemoryTop
               /\ \A j \in i .. Len(frames') : frames'[j] <= frames'[i]
    <3>1. CASE i = Len(frames) + 1
      BY <1>1, <1>4, <2>2, <2>3, <3>1 DEF IInv, AddressOrder
    <3>2. CASE i \in 1 .. Len(frames)
      <4>1. /\ frames[i] \in Nat /\ sp <= frames[i]
            /\ frames[i] <= MemoryTop
            /\ \A j \in i .. Len(frames) : frames[j] <= frames[i]
        <5>1. frames[i] \in Addr
          BY <2>2, <3>2
        <5>2. QED
          BY <5>1, <3>2, HeapConstants DEF IInv, AddressOrder, Addr
      <4>2. QED
        BY SMTT(30), <1>1, <1>4, <2>2, <2>3, <3>2, <4>1
    <3>3. QED
      BY <2>2, <2>3, <3>1, <3>2
  <2>5. QED
    BY <2>1, <2>4 DEF AddressOrder
<1>7. HeapStructure'
  BY SameStructure DEF IInv, Call, history
<1>8. WalkPosition'
  BY DEF WalkPosition, Call
<1>9. QED
  BY <1>5, <1>6, <1>7, <1>8 DEF IInv

(* A return goes back to the $sp its call was entered with. *)
LEMMA ReturnStep ==
  ASSUME IInv, Return
  PROVE  IInv'
<1>1. /\ frames \in Seq(Addr) /\ Len(frames) \in Nat \ {0}
      /\ sp' = frames[Len(frames)]
      /\ Len(frames') = Len(frames) - 1
      /\ frames' \in Seq(Addr)
      /\ \A i \in 1 .. Len(frames) - 1 : frames'[i] = frames[i]
  <2>1. frames \in Seq(Addr) /\ frames # <<>>
    BY DEF IInv, TypeOK, Return
  <2>2. Len(frames) \in Nat \ {0} /\ frames' = SubSeq(frames, 1, Len(frames) - 1)
    BY <2>1 DEF Return
  <2>3. sp' = frames[Len(frames)]
    BY DEF Return
  <2>4. /\ frames' \in Seq(Addr)
        /\ Len(frames') = Len(frames) - 1
        /\ \A i \in 1 .. Len(frames) - 1 : frames'[i] = frames[i]
    <3> DEFINE n == Len(frames) - 1
    <3>1. 1 \in Int /\ n \in Int /\ \A i \in 1 .. n : frames[i] \in Addr
      BY <2>1, <2>2
    <3>2. /\ SubSeq(frames, 1, n) \in Seq(Addr)
          /\ Len(SubSeq(frames, 1, n)) = IF 1 <= n THEN n - 1 + 1 ELSE 0
          /\ \A i \in 1 .. n - 1 + 1 : SubSeq(frames, 1, n)[i] = frames[1 + i - 1]
      BY <3>1, SubSeqProperties
    <3>3. n \in Nat /\ n - 1 + 1 = n /\ \A i \in 1 .. n : 1 + i - 1 = i
      BY <2>2
    <3>4. frames' \in Seq(Addr) /\ Len(frames') = n
      BY <2>2, <3>2, <3>3
    <3>5. ASSUME NEW i \in 1 .. n PROVE frames'[i] = frames[i]
      BY <2>2, <3>2, <3>3
    <3>6. QED
      BY <3>4, <3>5
  <2>5. QED
    BY <2>1, <2>2, <2>3, <2>4
<1>2. TypeOK'
  BY <1>1 DEF IInv, TypeOK, Return, Blocks, locals, history
<1>3. AddressOrder'
  <2>1. /\ sp <= sp' /\ sp' <= MemoryTop
        /\ \A i \in 1 .. Len(frames) - 1 : sp' <= frames[i]
    BY <1>1 DEF IInv, AddressOrder
  <2>2. DataEnd <= heapEnd' /\ heapEnd' <= sp'
    BY SMTT(30), <2>1, <1>1, HeapConstants DEF IInv, TypeOK, AddressOrder, Return, Addr
  <2>3. QED
    BY <1>1, <2>1, <2>2 DEF IInv, AddressOrder
<1>4. HeapStructure'
  BY SameStructure DEF IInv, Return, history
<1>5. WalkPosition'
  BY DEF WalkPosition, Return
<1>6. QED
  BY <1>2, <1>3, <1>4, <1>5 DEF IInv

-----------------------------------------------------------------------------
(* Sets of addresses are finite, so the high-water mark is a number.        *)
LEMMA AddrSetsFinite ==
  ASSUME NEW S \in SUBSET Addr
  PROVE  IsFiniteSet(S) /\ Cardinality(S) \in Nat
<1>1. IsFiniteSet(Addr)
  BY FS_Interval, HeapConstants DEF Addr
<1>2. IsFiniteSet(S)
  BY <1>1, FS_Subset
<1>3. QED
  BY <1>2, FS_CardinalityType

(* What a grant of block b does, whether b was carved or taken.             *)
LEMMA GrantEffect ==
  ASSUME IInv, pc = "walk", NEW b \in Addr, b + 8 \in Addr, Grant(b)
  PROVE  /\ ptr' \in [Ptrs -> Addr]
         /\ ptr'[target] = b + 8
         /\ size \in Sizes /\ target \in Ptrs
         /\ DOMAIN live' = DOMAIN live \cup {b + 8}
         /\ live'[b + 8] = size
         /\ \A a \in DOMAIN live : a # b + 8 => live'[a] = live[a]
         /\ live' \in [DOMAIN live' -> Sizes]
         /\ peak' \in Nat
         /\ pc' = "run"
         /\ target' = NoPtr /\ size' = 0 /\ prev' = 0 /\ cur' = 0
<1>1. (b + 8) % Word = b + 8
  BY NoReduction DEF Addr
<1>2. size \in Sizes /\ target \in Ptrs
  BY DEF IInv, WalkPosition
<1>3. ptr' = [ptr EXCEPT ![target] = b + 8]
  BY <1>1 DEF Grant
<1>4. ptr' \in [Ptrs -> Addr] /\ ptr'[target] = b + 8
  BY <1>2, <1>3 DEF IInv, TypeOK
<1>5. live' = [a \in DOMAIN live \cup {b + 8} |->
                 IF a = b + 8 THEN size ELSE live[a]]
  BY <1>1 DEF Grant
<1>6. /\ DOMAIN live' = DOMAIN live \cup {b + 8}
      /\ live'[b + 8] = size
      /\ \A a \in DOMAIN live : a # b + 8 => live'[a] = live[a]
  BY <1>5
<1>7. live' \in [DOMAIN live' -> Sizes]
  BY <1>2, <1>5 DEF IInv, TypeOK
<1>8. peak' \in Nat
  <2>1. DOMAIN live' \in SUBSET Addr
    BY <1>6 DEF IInv, TypeOK
  <2>2. Cardinality(DOMAIN live') \in Nat
    BY <2>1, AddrSetsFinite
  <2>3. peak' = IF Cardinality(DOMAIN live') > peak
                  THEN Cardinality(DOMAIN live') ELSE peak
    BY DEF Grant
  <2>4. QED
    BY <2>2, <2>3 DEF IInv, TypeOK
<1>9. QED
  BY <1>2, <1>4, <1>6, <1>7, <1>8 DEF Grant

(* The numbers of a carve: the guard's sum does not wrap, so passing it     *)
(* means that the block ends at or below $sp.                               *)
LEMMA CarveBounds ==
  ASSUME IInv, Carve
  PROVE  /\ heapEnd \in Nat \ {0} /\ sp \in Nat /\ total \in Nat
         /\ heapEnd' = heapEnd + total
         /\ size \in Sizes /\ size \in Nat /\ size + 8 <= total /\ 8 < total
         /\ heapEnd' <= sp /\ sp <= MemoryTop /\ MemoryTop < Word
<1>1. size \in Sizes
  BY DEF IInv, WalkPosition, Carve
<1>2. size \in Nat \ {0} /\ MemoryTop + size + 15 < Word /\ Word \in Nat
  BY <1>1, HeapConstants, NoWrap
<1>3. total \in Nat /\ size + 8 <= total /\ total <= size + 15
  BY <1>1, BlockSizeBounds DEF total
<1>4. /\ heapEnd \in Nat \ {0} /\ sp \in Nat
      /\ heapEnd <= sp /\ sp <= MemoryTop /\ MemoryTop \in Nat
  BY SMTT(30), LayoutBounds, HeapConstants DEF IInv, TypeOK, AddressOrder, Addr
<1>5. (heapEnd + total) % Word = heapEnd + total
  BY <1>2, <1>3, <1>4, NoReduction
<1>6. heapEnd' = heapEnd + total /\ heapEnd' <= sp
  BY <1>3, <1>4, <1>5 DEF Carve, HeapGuard
<1>7. QED
  BY <1>1, <1>2, <1>3, <1>4, <1>6

(* Carving adds one block at the old end of the heap. *)
LEMMA CarveStep ==
  ASSUME IInv, Carve
  PROVE  IInv'
<1> DEFINE blk == heapEnd
<1>1. /\ blk \in Addr /\ blk + 8 \in Addr /\ blk # 0
      /\ total \in Addr /\ heapEnd' \in Addr
  <2>1. /\ heapEnd \in Nat \ {0} /\ sp \in Nat /\ total \in Nat
        /\ heapEnd' = heapEnd + total /\ 8 < total
        /\ heapEnd' <= sp /\ sp <= MemoryTop /\ MemoryTop < Word
        /\ MemoryTop \in Nat /\ Word \in Nat
    BY CarveBounds, LayoutBounds, HeapConstants
  <2>2. QED
    BY <2>1 DEF Addr
<1>2. blk \notin Blocks
  <2>1. Blocks \subseteq Addr /\ \A b \in Blocks : hdr[b].size \in Addr
    BY DEF IInv, TypeOK, Header
  <2>2. \A b \in Blocks : b + hdr[b].size <= heapEnd /\ 8 < hdr[b].size
    BY DEF IInv, HeapStructure, BlocksTileHeap, BlocksNotEmpty
  <2>3. QED
    BY <2>1, <2>2, <1>1, HeapConstants DEF Addr
<1>3. blk + 8 \notin DOMAIN live
  <2>1. \A a \in DOMAIN live : a \in Addr /\ a - 8 \in Blocks
    BY DEF IInv, TypeOK, HeapStructure, LiveBlocksFit, BlockOf
  <2>2. (blk + 8) - 8 = blk
    BY <1>1 DEF Addr
  <2>3. QED
    BY <1>2, <2>1, <2>2
<1>4. /\ Blocks' = Blocks \cup {blk}
      /\ hdr'[blk] = [size |-> total, next |-> Unwritten]
      /\ \A b \in Blocks : hdr'[b] = hdr[b]
      /\ hdr' = [b \in Blocks' |-> hdr'[b]]
  <2>1. hdr' = [b \in Blocks \cup {blk} |->
                  IF b = blk THEN [size |-> total, next |-> Unwritten]
                             ELSE hdr[b]]
    BY DEF Carve
  <2>2. QED
    BY <1>2, <2>1 DEF Blocks
<1>5. Grant(blk) /\ pc = "walk"
  BY DEF Carve
<1>6. /\ DOMAIN live' = DOMAIN live \cup {blk + 8}
      /\ live'[blk + 8] = size
      /\ \A a \in DOMAIN live : live'[a] = live[a]
  BY <1>1, <1>3, <1>5, GrantEffect
<1>7. free' = free /\ freeHead' = freeHead /\ FreeBlocks' = FreeBlocks
  BY DEF Carve, FreeBlocks
<1>8. TypeOK'
  <2>1. hdr' \in [Blocks' -> Header]
    <3>1. [size |-> total, next |-> Unwritten] \in Header
      BY <1>1 DEF Header
    <3>2. \A b \in Blocks : hdr[b] \in Header
      BY DEF IInv, TypeOK
    <3>3. QED
      BY <1>4, <3>1, <3>2
  <2>2. Blocks' \subseteq Addr
    BY <1>1, <1>4 DEF IInv, TypeOK
  <2>3. free' \in Seq(Blocks')
    BY <1>4, <1>7 DEF IInv, TypeOK
  <2>4. DOMAIN live' \subseteq Addr
    BY <1>1, <1>6 DEF IInv, TypeOK
  <2>5. /\ live' \in [DOMAIN live' -> Sizes] /\ ptr' \in [Ptrs -> Addr]
        /\ peak' \in Nat /\ pc' = "run"
        /\ target' = NoPtr /\ size' = 0 /\ prev' = 0 /\ cur' = 0
    BY <1>1, <1>5, GrantEffect
  <2>6. /\ sp' \in Addr /\ frames' \in Seq(Addr) /\ freeHead' \in Addr
    BY <1>7 DEF IInv, TypeOK, Carve
  <2>7. QED
    BY <1>1, <2>1, <2>2, <2>3, <2>4, <2>5, <2>6, ZeroIsAddr DEF TypeOK
<1>9. AddressOrder'
  <2>1. DataEnd <= heapEnd
    BY DEF IInv, AddressOrder
  <2>2. DataEnd <= heapEnd' /\ heapEnd' <= sp
    BY <2>1, CarveBounds, HeapConstants
  <2>3. sp' = sp /\ frames' = frames
    BY DEF Carve
  <2>4. QED
    BY <2>2, <2>3 DEF IInv, AddressOrder
<1>10. HeapStructure'
  <2>1. \A b \in Blocks : /\ b \in Nat /\ hdr[b].size \in Nat
                          /\ DataEnd <= b /\ b + hdr[b].size <= heapEnd
                          /\ b + hdr[b].size \in Blocks \cup {heapEnd}
                          /\ 8 < hdr[b].size
    BY SMTT(30), HeapConstants
       DEF IInv, TypeOK, HeapStructure, BlocksTileHeap, BlocksNotEmpty,
           Header, Addr
  <2>2. BlocksTileHeap'
    <3>1. heapEnd' # DataEnd => DataEnd \in Blocks'
      BY <1>4 DEF IInv, HeapStructure, BlocksTileHeap
    <3>2. ASSUME NEW b \in Blocks'
          PROVE  /\ DataEnd <= b /\ b + hdr'[b].size <= heapEnd'
                 /\ b + hdr'[b].size \in Blocks' \cup {heapEnd'}
                 /\ \A c \in Blocks' : b < c => b + hdr'[b].size <= c
      <4>1. CASE b = blk
        <5>1. hdr'[b].size = total /\ DataEnd <= b
          BY <1>4, <4>1 DEF IInv, AddressOrder
        <5>2. b + hdr'[b].size = heapEnd'
          BY <4>1, <5>1, CarveBounds
        <5>3. \A c \in Blocks' : ~(b < c)
          BY <1>4, <2>1, <4>1, CarveBounds
        <5>4. QED
          BY <5>1, <5>2, <5>3, CarveBounds
      <4>2. CASE b \in Blocks
        <5>1. hdr'[b].size = hdr[b].size
          BY <1>4, <4>2
        <5>2. b + hdr[b].size <= heapEnd'
          BY <2>1, <4>2, CarveBounds
        <5>3. \A c \in Blocks : b < c => b + hdr[b].size <= c
          BY <4>2 DEF IInv, HeapStructure, BlocksTileHeap
        <5>4. QED
          BY <1>4, <2>1, <4>2, <5>1, <5>2, <5>3
      <4>3. QED
        BY <1>4, <4>1, <4>2
    <3>3. QED
      BY <3>1, <3>2 DEF BlocksTileHeap
  <2>3. BlocksNotEmpty'
    BY <1>4, <2>1, CarveBounds DEF BlocksNotEmpty
  <2>4. BlocksAccounted'
    <3>1. \A i \in 1 .. Len(free) : free[i] \in Blocks
      BY DEF IInv, TypeOK
    <3>2. {a - 8 : a \in DOMAIN live'} = {a - 8 : a \in DOMAIN live} \cup {blk}
      <4>1. (blk + 8) - 8 = blk
        BY <1>1 DEF Addr
      <4>2. QED
        BY <1>6, <4>1
    <3>3. Blocks' = FreeBlocks' \cup {a - 8 : a \in DOMAIN live'}
      BY <1>4, <1>7, <3>2 DEF IInv, HeapStructure, BlocksAccounted, BlockOf
    <3>4. ASSUME NEW i \in 1 .. Len(free)
          PROVE  free[i] + 8 # blk + 8
      <4>1. free[i] \in Nat /\ free[i] # blk
        BY <3>1, <1>2, <2>1
      <4>2. blk \in Nat
        BY <1>1 DEF Addr
      <4>3. QED
        BY <4>1, <4>2
    <3>5. QED
      BY <1>6, <1>7, <3>3, <3>4
         DEF IInv, HeapStructure, BlocksAccounted, BlockOf
  <2>5. LiveBlocksFit'
    <3>1. (blk + 8) - 8 = blk
      BY <1>1 DEF Addr
    <3>2. QED
      BY <1>4, <1>6, <3>1, CarveBounds
         DEF IInv, HeapStructure, LiveBlocksFit, BlockOf
  <2>6. FreeListIntact'
    BY <1>4, <1>7 DEF IInv, HeapStructure, FreeListIntact
  <2>7. QED
    BY <2>2, <2>3, <2>4, <2>5, <2>6 DEF HeapStructure
<1>11. WalkPosition'
  BY <1>1, <1>5, GrantEffect DEF WalkPosition
<1>12. QED
  BY <1>8, <1>9, <1>10, <1>11 DEF IInv

-----------------------------------------------------------------------------
(* What removing an element of a sequence returns. *)
LEMMA SeqWithoutIsSeq ==
  ASSUME NEW S, NEW s \in Seq(S), NEW i \in 1 .. Len(s)
  PROVE  /\ SeqWithout(s, i) \in Seq(S)
         /\ Len(SeqWithout(s, i)) = Len(s) - 1
         /\ \A j \in 1 .. Len(s) - 1 :
              SeqWithout(s, i)[j] = IF j < i THEN s[j] ELSE s[j + 1]
<1>1. Len(s) \in Nat \ {0} /\ \A j \in 1 .. Len(s) : s[j] \in S
  OBVIOUS
<1>2. \A j \in 1 .. Len(s) - 1 : (IF j < i THEN s[j] ELSE s[j + 1]) \in S
  BY <1>1
<1>3. QED
  BY <1>1, <1>2 DEF SeqWithout

(* A step that only rewrites next fields leaves the tiling alone.           *)
LEMMA SameSizes ==
  ASSUME BlocksTileHeap, BlocksNotEmpty, heapEnd' = heapEnd, Blocks' = Blocks,
         \A b \in Blocks : hdr'[b].size = hdr[b].size
  PROVE  BlocksTileHeap' /\ BlocksNotEmpty'
<1>1. BlocksNotEmpty'
  BY DEF BlocksNotEmpty
<1>2. BlocksTileHeap'
  BY DEF BlocksTileHeap
<1>3. QED
  BY <1>1, <1>2

(* Where the walk stands when it takes a block, and what it removes. *)
LEMMA TakePosition ==
  ASSUME IInv, TakeFree
  PROVE  \E i \in 1 .. Len(free) :
           /\ cur = free[i]
           /\ prev = IF i = 1 THEN 0 ELSE free[i - 1]
           /\ \A j \in 1 .. i - 1 : hdr[free[j]].size < total
           /\ free' = SeqWithout(free, i)
<1>1. PICK i \in 1 .. Len(free) + 1 :
        /\ cur = IF i = Len(free) + 1 THEN 0 ELSE free[i]
        /\ prev = IF i = 1 THEN 0 ELSE free[i - 1]
        /\ \A j \in 1 .. i - 1 : hdr[free[j]].size < total
  BY DEF IInv, WalkPosition, TakeFree
<1>2. Len(free) \in Nat
  BY DEF IInv, TypeOK
<1>3. i \in 1 .. Len(free) /\ cur = free[i]
  BY <1>1, <1>2 DEF TakeFree
<1>4. \A j \in 1 .. Len(free) : free[j] = cur => j = i
  BY <1>3 DEF IInv, HeapStructure, BlocksAccounted
<1>5. i = CHOOSE j \in 1 .. Len(free) : free[j] = cur
  BY <1>3, <1>4
<1>6. free' = SeqWithout(free, CHOOSE j \in 1 .. Len(free) : free[j] = cur)
  BY DEF TakeFree
<1>7. QED
  BY <1>1, <1>3, <1>5, <1>6

(* Unlinking a block at the head, in the middle or at the end of the list.  *)
LEMMA TakeFreeStep ==
  ASSUME IInv, TakeFree
  PROVE  IInv'
<1>1. PICK i \in 1 .. Len(free) :
        /\ cur = free[i]
        /\ prev = IF i = 1 THEN 0 ELSE free[i - 1]
        /\ free' = SeqWithout(free, i)
  BY TakePosition
<1> DEFINE n == Len(free)
<1>2. /\ n \in Nat \ {0} /\ free \in Seq(Blocks) /\ Blocks \subseteq Addr
      /\ \A j \in 1 .. n : free[j] \in Blocks
  BY DEF IInv, TypeOK
<1>3. /\ free' \in Seq(Blocks) /\ Len(free') = n - 1
      /\ \A j \in 1 .. n - 1 : free'[j] = IF j < i THEN free[j] ELSE free[j + 1]
  BY <1>1, <1>2, SeqWithoutIsSeq
<1>4. \A b \in Blocks : /\ b \in Nat \ {0} /\ hdr[b] \in Header
                        /\ b + 8 \in Addr
  <2>1. ASSUME NEW b \in Blocks
        PROVE  /\ b \in Nat \ {0} /\ hdr[b] \in Header /\ b + 8 \in Addr
    <3>1. /\ b \in Addr /\ hdr[b] \in Header /\ hdr[b].size \in Addr
          /\ heapEnd \in Addr
      BY DEF IInv, TypeOK, Header
    <3>2. DataEnd <= b /\ b + hdr[b].size <= heapEnd /\ 8 < hdr[b].size
      BY DEF IInv, HeapStructure, BlocksTileHeap, BlocksNotEmpty
    <3>3. QED
      BY <3>1, <3>2, HeapConstants DEF Addr
  <2>2. QED
    BY <2>1
<1>5. \A j, k \in 1 .. n : free[j] = free[k] => j = k
  BY DEF IInv, HeapStructure, BlocksAccounted
<1>6. \A j \in 1 .. n : hdr[free[j]].next = IF j = n THEN 0 ELSE free[j + 1]
  BY DEF IInv, HeapStructure, FreeListIntact
<1>7. prev = 0 <=> i = 1
  BY <1>1, <1>2, <1>4
<1>8. hdr[cur].next \in Addr
  BY <1>1, <1>2, <1>6, ZeroIsAddr
<1>9. /\ Blocks' = Blocks
      /\ hdr' \in [Blocks -> Header]
      /\ \A b \in Blocks : hdr'[b].size = hdr[b].size
      /\ \A b \in Blocks : b # prev => hdr'[b].next = hdr[b].next
      /\ i # 1 => hdr'[prev].next = hdr[cur].next
  <2>1. CASE i = 1
    <3>1. hdr' = hdr
      BY <1>7, <2>1 DEF TakeFree
    <3>2. QED
      BY <3>1, <2>1 DEF IInv, TypeOK, Blocks
  <2>2. CASE i # 1
    <3>1. hdr' = [hdr EXCEPT ![prev].next = hdr[cur].next]
      BY <1>7, <2>2 DEF TakeFree
    <3>2. prev \in Blocks
      BY <1>1, <1>2, <2>2
    <3>3. hdr \in [Blocks -> Header]
      BY DEF IInv, TypeOK
    <3>4. hdr[prev] \in Header
      BY <3>2, <3>3
    <3>5. DEFINE h == [hdr[prev] EXCEPT !.next = hdr[cur].next]
    <3>6. h \in Header /\ h.size = hdr[prev].size /\ h.next = hdr[cur].next
      BY <1>8, <3>4 DEF Header
    <3>7. hdr' = [hdr EXCEPT ![prev] = h]
      BY <3>1
    <3>8. Blocks' = Blocks
      BY <3>1 DEF Blocks
    <3>9. QED
      <4> HIDE DEF h
      <4>1. hdr' \in [Blocks -> Header]
        BY <3>3, <3>6, <3>7
      <4>2. hdr'[prev] = h /\ \A b \in Blocks : b # prev => hdr'[b] = hdr[b]
        BY <3>2, <3>3, <3>7
      <4>3. QED
        BY <3>6, <3>8, <4>1, <4>2
  <2>3. QED
    BY <2>1, <2>2
<1>10. cur \in Blocks /\ cur + 8 \in Addr /\ cur \in Addr
  BY <1>1, <1>2, <1>4
<1>11. pc = "walk" /\ Grant(cur)
  BY DEF TakeFree
<1>12. /\ DOMAIN live' = DOMAIN live \cup {cur + 8}
       /\ live'[cur + 8] = size
       /\ \A a \in DOMAIN live : a # cur + 8 => live'[a] = live[a]
       /\ size \in Sizes /\ live' \in [DOMAIN live' -> Sizes]
  BY <1>10, <1>11, GrantEffect
<1>13. freeHead' = IF free' = <<>> THEN 0 ELSE free'[1]
  <2>1. freeHead = free[1]
    BY <1>2 DEF IInv, HeapStructure, FreeListIntact
  <2>2. free' = <<>> <=> n = 1
    BY <1>2, <1>3
  <2>3. CASE i = 1
    <3>1. freeHead' = IF n = 1 THEN 0 ELSE free[2]
      <4>1. freeHead' = hdr[free[1]].next
        BY <1>1, <1>7, <2>3 DEF TakeFree
      <4>2. 1 \in 1 .. n /\ 1 + 1 = 2
        BY <1>2
      <4>3. QED
        BY <1>6, <4>1, <4>2
    <3>2. QED
      BY <1>2, <1>3, <2>2, <2>3, <3>1
  <2>4. CASE i # 1
    <3>1. freeHead' = free[1]
      BY <1>7, <2>1, <2>4 DEF TakeFree
    <3>2. QED
      BY <1>2, <1>3, <2>2, <2>4, <3>1
  <2>5. QED
    BY <2>3, <2>4
<1>14. /\ \A j \in 1 .. n : free[j] + 8 \notin DOMAIN live
       /\ \A j \in 1 .. n - 1 : free'[j] # cur /\ free'[j] \in Blocks
       /\ \A j, k \in 1 .. n - 1 : free'[j] = free'[k] => j = k
  <2>1. \A j \in 1 .. n : free[j] + 8 \notin DOMAIN live
    BY DEF IInv, HeapStructure, BlocksAccounted
  <2>2. ASSUME NEW j \in 1 .. n - 1
        PROVE  free'[j] # cur /\ free'[j] \in Blocks
    BY <1>1, <1>2, <1>3, <1>5
  <2>3. ASSUME NEW j \in 1 .. n - 1, NEW k \in 1 .. n - 1, free'[j] = free'[k]
        PROVE  j = k
    BY SMTT(30), <1>2, <1>3, <1>5, <2>3
  <2>4. QED
    BY <2>1, <2>2, <2>3
<1>15. TypeOK'
  <2>1. freeHead' \in Addr
    BY <1>2, <1>3, <1>13, <1>14, ZeroIsAddr
  <2>2. DOMAIN live' \subseteq Addr
    BY <1>10, <1>12 DEF IInv, TypeOK
  <2>3. /\ ptr' \in [Ptrs -> Addr]
        /\ peak' \in Nat /\ pc' = "run"
        /\ target' = NoPtr /\ size' = 0 /\ prev' = 0 /\ cur' = 0
    BY <1>10, <1>11, GrantEffect
  <2>4. sp' \in Addr /\ frames' \in Seq(Addr) /\ heapEnd' \in Addr
    BY DEF IInv, TypeOK, TakeFree
  <2>5. Blocks' \subseteq Addr /\ hdr' \in [Blocks' -> Header] /\ free' \in Seq(Blocks')
    BY <1>2, <1>3, <1>9
  <2>6. QED
    BY <1>12, <2>1, <2>2, <2>3, <2>4, <2>5, ZeroIsAddr DEF TypeOK
<1>16. AddressOrder'
  BY DEF IInv, AddressOrder, TakeFree
<1>17. HeapStructure'
  <2>1. BlocksTileHeap' /\ BlocksNotEmpty'
    BY <1>9, SameSizes DEF IInv, HeapStructure, TakeFree
  <2>2. FreeBlocks' = FreeBlocks \ {cur}
    <3>1. ASSUME NEW b \in FreeBlocks'
          PROVE  b \in FreeBlocks \ {cur}
      <4>1. PICK j \in 1 .. n - 1 : b = free'[j]
        BY <1>3 DEF FreeBlocks
      <4>2. b # cur /\ b = IF j < i THEN free[j] ELSE free[j + 1]
        BY <1>3, <1>14, <4>1
      <4>3. j \in 1 .. n /\ j + 1 \in 1 .. n
        BY <1>2
      <4>4. QED
        BY <4>2, <4>3 DEF FreeBlocks
    <3>2. ASSUME NEW b \in FreeBlocks \ {cur}
          PROVE  b \in FreeBlocks'
      <4>1. PICK j \in 1 .. n : b = free[j]
        BY DEF FreeBlocks
      <4>2. j # i
        BY <1>1, <4>1
      <4>3. CASE j < i
        <5>1. j \in 1 .. n - 1 /\ free'[j] = b
          BY <1>2, <1>3, <4>1, <4>3
        <5>2. QED
          BY <1>3, <5>1 DEF FreeBlocks
      <4>4. CASE i < j
        <5>1. j - 1 \in 1 .. n - 1 /\ free'[j - 1] = b
          BY <1>2, <1>3, <4>1, <4>4
        <5>2. QED
          BY <1>3, <5>1 DEF FreeBlocks
      <4>5. QED
        BY <4>2, <4>3, <4>4
    <3>3. QED
      BY <3>1, <3>2
  <2>3. BlocksAccounted'
    <3>1. (cur + 8) - 8 = cur /\ \A j \in 1 .. n - 1 : free'[j] + 8 # cur + 8
      BY <1>4, <1>10, <1>14
    <3>2. {a - 8 : a \in DOMAIN live'} = {a - 8 : a \in DOMAIN live} \cup {cur}
      BY <1>12, <3>1
    <3>3. Blocks = FreeBlocks \cup {a - 8 : a \in DOMAIN live}
      BY DEF IInv, HeapStructure, BlocksAccounted, BlockOf
    <3>4. Blocks' = FreeBlocks' \cup {a - 8 : a \in DOMAIN live'}
      BY <1>9, <1>10, <2>2, <3>2, <3>3
    <3>5. \A j \in 1 .. n - 1 : free'[j] + 8 \notin DOMAIN live
      BY <1>2, <1>3, <1>14
    <3>6. QED
      BY <1>3, <1>12, <1>14, <3>1, <3>4, <3>5 DEF BlocksAccounted, BlockOf
  <2>4. LiveBlocksFit'
    <3>1. size + 8 <= hdr[cur].size
      <4>1. /\ total \in Nat /\ size + 8 <= total /\ size \in Nat
        BY <1>12, BlockSizeBounds, HeapConstants DEF total
      <4>2. hdr[cur].size >= total /\ hdr[cur].size \in Nat
        BY <1>4, <1>10, HeapConstants DEF TakeFree, LargeEnough, Header, Addr
      <4>3. QED
        BY <4>1, <4>2
    <3>2. (cur + 8) - 8 = cur
      BY <1>4, <1>10
    <3>3. QED
      BY <1>9, <1>10, <1>12, <3>1, <3>2
         DEF IInv, HeapStructure, LiveBlocksFit, BlockOf
  <2>5. FreeListIntact'
    <3>1. ASSUME NEW j \in 1 .. n - 1
          PROVE  hdr'[free'[j]].next = IF j = n - 1 THEN 0 ELSE free'[j + 1]
      <4>1. CASE j < i - 1
        <5>1. free'[j] = free[j] /\ free'[j + 1] = free[j + 1] /\ j + 1 < n
          BY <1>2, <1>3, <4>1
        <5>2. free[j] # prev
          BY <1>1, <1>2, <1>5, <4>1
        <5>3. hdr[free[j]].next = free[j + 1]
          BY <1>2, <1>6, <5>1
        <5>4. QED
          BY <1>2, <1>9, <5>1, <5>2, <5>3
      <4>2. CASE j = i - 1
        <5>1. free'[j] = prev /\ i # 1
          BY <1>1, <1>2, <1>3, <4>2
        <5>2. hdr'[prev].next = IF i = n THEN 0 ELSE free[i + 1]
          BY <1>1, <1>2, <1>6, <1>9, <5>1
        <5>3. i # n => free'[j + 1] = free[i + 1]
          BY <1>2, <1>3, <4>2
        <5>4. QED
          BY <1>2, <4>2, <5>1, <5>2, <5>3
      <4>3. CASE i - 1 < j
        <5>1. free'[j] = free[j + 1] /\ j + 1 \in 1 .. n /\ j \in 1 .. n
          BY <1>2, <1>3, <4>3
        <5>2. free[j + 1] # prev
          BY SMTT(30), <1>1, <1>2, <1>4, <1>5, <4>3, <5>1
        <5>3. hdr[free[j + 1]].next = IF j + 1 = n THEN 0 ELSE free[(j + 1) + 1]
          BY <1>6, <5>1
        <5>4. j + 1 # n => free'[j + 1] = free[(j + 1) + 1]
          BY <1>2, <1>3, <4>3
        <5>5. QED
          BY <1>2, <1>9, <5>1, <5>2, <5>3, <5>4
      <4>4. QED
        BY <4>1, <4>2, <4>3
    <3>2. QED
      BY <1>3, <1>9, <1>13, <1>14, <3>1 DEF FreeListIntact
  <2>6. QED
    BY <2>1, <2>3, <2>4, <2>5 DEF HeapStructure
<1>18. WalkPosition'
  BY <1>10, <1>11, GrantEffect DEF WalkPosition
<1>19. QED
  BY <1>15, <1>16, <1>17, <1>18 DEF IInv

(* Pushing a block on the front of the list. *)
LEMMA DisposeStep ==
  ASSUME IInv, NEW p \in Ptrs, Dispose(p)
  PROVE  IInv'
<1> DEFINE n == Len(free)
           blk == ptr[p] - 8
<1>1. /\ n \in Nat /\ free \in Seq(Blocks) /\ Blocks \subseteq Addr
      /\ \A j \in 1 .. n : free[j] \in Blocks
      /\ hdr \in [Blocks -> Header] /\ freeHead \in Addr
  BY DEF IInv, TypeOK
<1>2. ptr[p] \in DOMAIN live /\ ptr[p] \in Addr
  BY DEF IInv, TypeOK, Dispose, LegalDispose
<1>3. blk \in Blocks /\ blk \in Addr /\ blk + 8 = ptr[p]
  <2>1. blk \in Blocks
    BY <1>2 DEF IInv, HeapStructure, LiveBlocksFit, BlockOf
  <2>2. QED
    BY <1>1, <1>2, <2>1 DEF Addr
<1>4. /\ free' = <<blk>> \o free
      /\ free' \in Seq(Blocks) /\ Len(free') = n + 1 /\ free'[1] = blk
      /\ \A j \in 2 .. n + 1 : free'[j] = free[j - 1]
  <2>1. free' = <<blk>> \o free
    BY DEF Dispose, BlockOf
  <2>2. <<blk>> \in Seq(Blocks) /\ Len(<<blk>>) = 1 /\ <<blk>>[1] = blk
    BY <1>3
  <2>3. QED
    BY <1>1, <2>1, <2>2
<1>5. freeHead' = blk /\ heapEnd' = heapEnd
  BY DEF Dispose, BlockOf
<1>6. /\ Blocks' = Blocks /\ hdr' \in [Blocks -> Header]
      /\ hdr'[blk].next = freeHead
      /\ \A b \in Blocks : b # blk => hdr'[b] = hdr[b]
      /\ \A b \in Blocks : hdr'[b].size = hdr[b].size
  <2> DEFINE h == [hdr[blk] EXCEPT !.next = freeHead]
  <2>1. hdr' = [hdr EXCEPT ![blk] = h]
    BY DEF Dispose, BlockOf
  <2>2. hdr[blk] \in Header
    BY <1>1, <1>3
  <2>3. h \in Header /\ h.size = hdr[blk].size /\ h.next = freeHead
    BY <1>1, <2>2 DEF Header
  <2>4. Blocks' = Blocks
    BY <2>1 DEF Blocks
  <2>5. QED
    <3> HIDE DEF h
    <3>1. /\ hdr' \in [Blocks -> Header] /\ hdr'[blk] = h
          /\ \A b \in Blocks : b # blk => hdr'[b] = hdr[b]
      BY <1>1, <1>3, <2>1, <2>3
    <3>2. QED
      BY <2>3, <2>4, <3>1
<1>7. /\ DOMAIN live' = DOMAIN live \ {blk + 8}
      /\ \A a \in DOMAIN live' : live'[a] = live[a]
      /\ live' = [a \in DOMAIN live' |-> live'[a]]
  <2>1. live' = [a \in DOMAIN live \ {ptr[p]} |-> live[a]]
    BY DEF Dispose
  <2>2. QED
    BY <1>3, <2>1
<1>8. TypeOK'
  <2>1. DOMAIN live' \subseteq Addr /\ live' \in [DOMAIN live' -> Sizes]
    BY <1>7 DEF IInv, TypeOK
  <2>2. ptr' \in [Ptrs -> Addr]
    BY ZeroIsAddr DEF IInv, TypeOK, Dispose
  <2>3. Blocks' \subseteq Addr /\ hdr' \in [Blocks' -> Header]
        /\ free' \in Seq(Blocks') /\ freeHead' \in Addr
    BY <1>1, <1>3, <1>4, <1>5, <1>6
  <2>4. QED
    BY <2>1, <2>2, <2>3 DEF IInv, TypeOK, Dispose, locals
<1>9. AddressOrder'
  BY DEF IInv, AddressOrder, Dispose
<1>10. HeapStructure'
  <2>1. BlocksTileHeap' /\ BlocksNotEmpty'
    BY <1>5, <1>6, SameSizes DEF IInv, HeapStructure
  <2>2. /\ Blocks = FreeBlocks \cup {a - 8 : a \in DOMAIN live}
        /\ \A j \in 1 .. n : free[j] + 8 \notin DOMAIN live
        /\ \A j, k \in 1 .. n : free[j] = free[k] => j = k
    BY DEF IInv, HeapStructure, BlocksAccounted, BlockOf
  <2>3. \A j \in 1 .. n : free[j] # blk
    BY <1>2, <1>3, <2>2
  <2>4. BlocksAccounted'
    <3>1. FreeBlocks' = FreeBlocks \cup {blk}
      <4>1. ASSUME NEW b \in FreeBlocks' PROVE b \in FreeBlocks \cup {blk}
        <5>1. PICK j \in 1 .. n + 1 : b = free'[j]
          BY <1>4 DEF FreeBlocks
        <5>2. CASE j = 1
          BY <1>4, <5>1, <5>2
        <5>3. CASE j # 1
          <6>1. j \in 2 .. n + 1 /\ j - 1 \in 1 .. n
            BY <1>1, <5>3
          <6>2. QED
            BY <1>4, <5>1, <6>1 DEF FreeBlocks
        <5>4. QED
          BY <5>2, <5>3
      <4>2. ASSUME NEW b \in FreeBlocks PROVE b \in FreeBlocks'
        <5>1. PICK j \in 1 .. n : b = free[j]
          BY DEF FreeBlocks
        <5>2. j + 1 \in 2 .. n + 1 /\ (j + 1) - 1 = j /\ j + 1 \in 1 .. n + 1
          BY <1>1
        <5>3. free'[j + 1] = b
          BY <1>4, <5>1, <5>2
        <5>4. QED
          BY <1>4, <5>2, <5>3 DEF FreeBlocks
      <4>3. blk \in FreeBlocks'
        <5>1. 1 \in 1 .. n + 1
          BY <1>1
        <5>2. QED
          BY <1>4, <5>1 DEF FreeBlocks
      <4>4. QED
        BY <4>1, <4>2, <4>3
    <3>2. \A a \in DOMAIN live : a \in Nat
      BY HeapConstants DEF IInv, TypeOK, Addr
    <3>3. {a - 8 : a \in DOMAIN live'} \cup {blk} = {a - 8 : a \in DOMAIN live}
      BY <1>2, <1>3, <1>7, <3>2
    <3>4. Blocks' = FreeBlocks' \cup {a - 8 : a \in DOMAIN live'}
      BY <1>6, <2>2, <3>1, <3>3
    <3> DEFINE old(j) == j = 1 \/ (j - 1 \in 1 .. n /\ free'[j] = free[j - 1])
    <3>5a. \A j \in 1 .. n + 1 : old(j)
      BY <1>1, <1>4
    <3>5. ASSUME NEW j \in 1 .. n + 1
          PROVE  free'[j] + 8 \notin DOMAIN live'
      <4>1. CASE j = 1
        BY <1>4, <1>7, <4>1
      <4>2. CASE j # 1
        BY <1>7, <2>2, <3>5a, <4>2
      <4>3. QED
        BY <4>1, <4>2
    <3>6. ASSUME NEW j \in 1 .. n + 1, NEW k \in 1 .. n + 1, free'[j] = free'[k]
          PROVE  j = k
      <4>1. CASE j = 1 \/ k = 1
        BY <1>4, <2>3, <3>5a, <3>6, <4>1
      <4>2. CASE j # 1 /\ k # 1
        <5>1. j - 1 = k - 1
          BY <2>2, <3>5a, <3>6, <4>2
        <5>2. QED
          BY <5>1
      <4>3. QED
        BY <4>1, <4>2
    <3>7. QED
      BY <1>4, <3>4, <3>5, <3>6 DEF BlocksAccounted, BlockOf
  <2>5. LiveBlocksFit'
    BY <1>6, <1>7 DEF IInv, HeapStructure, LiveBlocksFit, BlockOf
  <2>6. FreeListIntact'
    <3>1. freeHead' = IF free' = <<>> THEN 0 ELSE free'[1]
      BY <1>1, <1>4, <1>5
    <3>2. freeHead = IF n = 0 THEN 0 ELSE free[1]
      BY <1>1 DEF IInv, HeapStructure, FreeListIntact
    <3>3. ASSUME NEW j \in 1 .. n + 1
          PROVE  /\ free'[j] \in Blocks'
                 /\ hdr'[free'[j]].next = IF j = n + 1 THEN 0 ELSE free'[j + 1]
      <4>1. CASE j = 1
        <5>1. n # 0 => free'[2] = free[1]
          BY <1>1, <1>4
        <5>2. QED
          BY <1>1, <1>3, <1>4, <1>6, <3>2, <4>1, <5>1
      <4>2. CASE j # 1
        <5>1. /\ j - 1 \in 1 .. n /\ free'[j] = free[j - 1]
              /\ j # n + 1 => free'[j + 1] = free[(j - 1) + 1]
          BY <1>1, <1>4, <4>2
        <5>2. hdr[free[j - 1]].next = IF j - 1 = n THEN 0 ELSE free[(j - 1) + 1]
          BY <5>1 DEF IInv, HeapStructure, FreeListIntact
        <5>3. free[j - 1] \in Blocks /\ free[j - 1] # blk
          BY <1>1, <2>3, <5>1
        <5>4. QED
          BY <1>1, <1>6, <5>1, <5>2, <5>3
      <4>3. QED
        BY <4>1, <4>2
    <3>4. QED
      BY <1>4, <3>1, <3>3 DEF FreeListIntact
  <2>7. QED
    BY <2>1, <2>4, <2>5, <2>6 DEF HeapStructure
<1>11. WalkPosition'
  BY DEF WalkPosition, Dispose
<1>12. QED
  BY <1>8, <1>9, <1>10, <1>11 DEF IInv

-----------------------------------------------------------------------------
(* Every step of the program keeps the invariant. *)
LEMMA NextIInv == IInv /\ [Next]_vars => IInv'
<1> SUFFICES ASSUME IInv, [Next]_vars PROVE IInv'
  OBVIOUS
<1>1. ASSUME NEW p \in Ptrs, NEW n \in Sizes, New(p, n) PROVE IInv'
  BY <1>1, NewStep
<1>2. CASE TakeFree
  BY <1>2, TakeFreeStep
<1>3. CASE WalkOn
  BY <1>3, WalkOnStep
<1>4. CASE Carve
  BY <1>4, CarveStep
<1>5. ASSUME NEW p \in Ptrs, Dispose(p) PROVE IInv'
  BY <1>5, DisposeStep
<1>6. ASSUME NEW p \in Ptrs, NEW q \in Ptrs, Copy(p, q) PROVE IInv'
  BY <1>6, CopyStep
<1>7. ASSUME NEW f \in FrameSizes, Call(f) PROVE IInv'
  BY <1>7, CallStep
<1>8. CASE Return
  BY <1>8, ReturnStep
<1>9. CASE OutOfHeap
  BY <1>9, TrapStep
<1>10. ASSUME NEW p \in Ptrs, DisposeNil(p) PROVE IInv'
  BY <1>10, TrapStep
<1>11. ASSUME NEW f \in FrameSizes, Overflow(f) PROVE IInv'
  BY <1>11, TrapStep
<1>12. CASE Trapped
  BY <1>12, TrapStep
<1>13. CASE UNCHANGED vars
  <2>1. UNCHANGED <<heapEnd, freeHead, hdr, program, locals, history, pc>>
    BY <1>13 DEF vars, program, locals, history
  <2>2. TypeOK'
    BY <2>1 DEF IInv, TypeOK, Blocks, program, locals, history
  <2>3. AddressOrder'
    BY <2>1 DEF IInv, AddressOrder, program
  <2>4. HeapStructure'
    BY <2>1, SameStructure DEF IInv, history
  <2>5. WalkPosition'
    BY <2>1 DEF IInv, WalkPosition, total, locals, history
  <2>6. QED
    BY <2>2, <2>3, <2>4, <2>5 DEF IInv
<1>14. QED
  BY <1>1, <1>2, <1>3, <1>4, <1>5, <1>6, <1>7, <1>8, <1>9, <1>10, <1>11,
     <1>12, <1>13 DEF Next, Alloc

(* The inductive invariant holds always: everything below rests on it. *)
THEOREM HeapInvariant == Spec => []IInv
<1>1. Init => IInv
  BY InitIInv
<1>2. IInv /\ [Next]_vars => IInv'
  BY NextIInv
<1>3. QED
  BY <1>1, <1>2, PTL DEF Spec

(* Every word of the allocator's state is a u32, and a next field is read   *)
(* only after it was written.                                               *)
THEOREM HeapTypeCorrect == Spec => []TypeOK
<1>1. IInv => TypeOK
  BY DEF IInv
<1>2. QED
  BY <1>1, HeapInvariant, PTL

(* The heap never grows over the stack pointer and the stack pointer never  *)
(* drops below the heap (__heap_alloc's guard and the frame prologue's).    *)
THEOREM HeapNeverMeetsStack == Spec => []HeapBelowStack
<1>1. IInv => HeapBelowStack
  BY DEF IInv, AddressOrder, HeapBelowStack
<1>2. QED
  BY <1>1, HeapInvariant, PTL

(* Two live results of new() never share a byte, payload or header. *)
LEMMA IInvLiveApart == IInv => LiveBlocksApart
<1> SUFFICES ASSUME IInv, NEW a \in DOMAIN live
             PROVE  /\ DataEnd + 8 <= a /\ a + live[a] <= heapEnd
                    /\ \A b \in DOMAIN live : a < b => a + live[a] + 8 <= b
  BY DEF LiveBlocksApart
<1>1. \A b \in DOMAIN live : b \in Nat /\ b - 8 \in Blocks
  BY HeapConstants
     DEF IInv, TypeOK, HeapStructure, LiveBlocksFit, BlockOf, Addr
<1>2. /\ live[a] \in Nat /\ live[a] + 8 <= hdr[a - 8].size
      /\ hdr[a - 8].size \in Nat /\ heapEnd \in Nat /\ a - 8 \in Nat
  <2>1. live[a] \in Sizes /\ hdr[a - 8] \in Header /\ a - 8 \in Addr
        /\ heapEnd \in Addr
    BY <1>1 DEF IInv, TypeOK
  <2>2. live[a] + 8 <= hdr[a - 8].size
    BY DEF IInv, HeapStructure, LiveBlocksFit, BlockOf
  <2>3. hdr[a - 8].size \in Addr
    BY <2>1 DEF Header
  <2>4. Sizes \subseteq Nat /\ Addr \subseteq Nat
    BY HeapConstants DEF Addr
  <2>5. QED
    BY <2>1, <2>2, <2>3, <2>4
<1>3. /\ DataEnd <= a - 8 /\ (a - 8) + hdr[a - 8].size <= heapEnd
      /\ \A c \in Blocks : a - 8 < c => (a - 8) + hdr[a - 8].size <= c
  BY <1>1 DEF IInv, HeapStructure, BlocksTileHeap
<1>4. ASSUME NEW b \in DOMAIN live, a < b PROVE a + live[a] + 8 <= b
  <2>1. b - 8 \in Blocks /\ b \in Nat /\ a \in Nat /\ a - 8 < b - 8
    BY <1>1, <1>4
  <2>2. (a - 8) + hdr[a - 8].size <= b - 8
    BY <1>3, <2>1
  <2>3. QED
    BY <1>2, <2>1, <2>2
<1>5. QED
  BY <1>1, <1>2, <1>3, <1>4, HeapConstants

(* The same, of every state of every program. *)
THEOREM StorageApart == Spec => []LiveBlocksApart
  BY IInvLiveApart, HeapInvariant, PTL

(* No block is ever lost, duplicated or left on the list while in use, and  *)
(* the links spell the free list.                                           *)
THEOREM FreeListCorrect == Spec => []FreeListExact
<1>1. IInv => FreeListExact
  BY DEF IInv, HeapStructure, FreeListExact
<1>2. QED
  BY <1>1, HeapInvariant, PTL

(* The blocks tile the heap: none overlap, and there is no gap. *)
THEOREM HeapTiled == Spec => []BlocksTileHeap
<1>1. IInv => BlocksTileHeap
  BY DEF IInv, HeapStructure
<1>2. QED
  BY <1>1, HeapInvariant, PTL

-----------------------------------------------------------------------------
(* What the heap promises a program.                                        *)

(* The block that a grant gives away is storage of nobody. *)
LEMMA GrantObtains ==
  ASSUME IInv, IInv', pc = "walk", NEW b \in Addr, b + 8 \in Addr,
         b + 8 \notin DOMAIN live, Grant(b), sp' = sp
  PROVE  Memory!Obtain
<1> DEFINE a == b + 8
<1>1. /\ size \in Sizes /\ DOMAIN live' = DOMAIN live \cup {a} /\ pc' = "run"
      /\ live'[a] = size /\ \A c \in DOMAIN live : live'[c] = live[c]
  BY GrantEffect
<1>2. live' = [c \in DOMAIN live \cup {a} |-> IF c = a THEN size ELSE live[c]]
  <2>1. a % Word = a
    BY NoReduction DEF Addr
  <2>2. QED
    BY <2>1 DEF Grant
<1>3. \A c \in DOMAIN live' : /\ DataEnd + 8 <= c /\ c + live'[c] <= heapEnd'
                              /\ \A d \in DOMAIN live' : c < d => c + live'[c] + 8 <= d
  <2>1. (IInv => LiveBlocksApart)'
    BY IInvLiveApart, PTL
  <2>2. QED
    BY <2>1 DEF LiveBlocksApart
<1>4. /\ size \in Nat /\ a \in Nat /\ heapEnd' \in Nat /\ sp \in Nat /\ heapEnd' <= sp
      /\ \A c \in DOMAIN live : c \in Nat /\ live[c] \in Nat
  <2>1. /\ heapEnd' \in Addr /\ sp \in Addr /\ heapEnd' <= sp'
        /\ \A c \in DOMAIN live : c \in Addr /\ live[c] \in Sizes
    BY DEF IInv, TypeOK, AddressOrder
  <2>2. Addr \subseteq Nat /\ Sizes \subseteq Nat
    BY HeapConstants DEF Addr
  <2>3. QED
    BY <1>1, <2>1, <2>2
<1>5. DataEnd + 8 <= a /\ a + size <= heapEnd'
  BY <1>1, <1>3
<1>6. \A c \in DOMAIN live : a + size <= c \/ c + live[c] <= a
  <2> TAKE c \in DOMAIN live
  <2>1. c # a /\ c \in DOMAIN live' /\ a \in DOMAIN live'
    BY <1>1
  <2>2. CASE a < c
    BY <1>1, <1>3, <1>4, <2>1, <2>2
  <2>3. CASE c < a
    BY <1>1, <1>3, <1>4, <2>1, <2>3
  <2>4. QED
    BY <1>4, <2>1, <2>2, <2>3
<1>7. a \in DataEnd .. sp /\ a + size <= sp
  BY <1>4, <1>5, HeapConstants
<1>8. QED
  <2>1. Memory!Vacant(a, size, sp)
    BY <1>4, <1>5, <1>6, <1>7, HeapConstants DEF Memory!Vacant
  <2>2. pc \notin Traps /\ pc' \notin Traps
    BY <1>1 DEF Traps
  <2>3. QED
    BY <1>1, <1>2, <1>7, <2>1, <2>2 DEF Memory!Obtain

(* A block that is carved starts where no block in use is. *)
LEMMA CarvedIsNew ==
  ASSUME IInv, Carve
  PROVE  heapEnd \notin Blocks /\ heapEnd \in Addr /\ heapEnd + 8 \in Addr /\ heapEnd + 8 \notin DOMAIN live
<1>1. /\ heapEnd \in Nat \ {0} /\ total \in Nat /\ heapEnd' = heapEnd + total /\ 8 < total
      /\ heapEnd' <= sp /\ sp \in Nat /\ sp <= MemoryTop /\ MemoryTop < Word
      /\ MemoryTop \in Nat /\ Word \in Nat
  BY CarveBounds, LayoutBounds, HeapConstants
<1>2. heapEnd \in Addr /\ heapEnd + 8 \in Addr
  BY <1>1 DEF Addr
<1>3. heapEnd \notin Blocks
  <2>1. \A b \in Blocks : b \in Nat /\ hdr[b].size \in Nat
    BY HeapConstants DEF IInv, TypeOK, Header, Addr
  <2>2. \A b \in Blocks : b + hdr[b].size <= heapEnd /\ 8 < hdr[b].size
    BY DEF IInv, HeapStructure, BlocksTileHeap, BlocksNotEmpty
  <2>3. QED
    BY <1>1, <2>1, <2>2
<1>4. heapEnd + 8 \notin DOMAIN live
  <2>1. \A a \in DOMAIN live : a - 8 \in Blocks
    BY DEF IInv, HeapStructure, LiveBlocksFit, BlockOf
  <2>2. (heapEnd + 8) - 8 = heapEnd
    BY <1>1
  <2>3. QED
    BY <1>3, <2>1, <2>2
<1>5. QED
  BY <1>2, <1>3, <1>4

(* A block that is taken from the list is in nobody's use. *)
LEMMA TakenIsFree ==
  ASSUME IInv, TakeFree
  PROVE  cur \in Blocks /\ cur \in Addr /\ cur + 8 \in Addr /\ cur + 8 \notin DOMAIN live
<1>1. PICK i \in 1 .. Len(free) : cur = free[i]
  BY TakePosition
<1>2. cur \in Blocks /\ cur + 8 \notin DOMAIN live
  BY <1>1 DEF IInv, TypeOK, HeapStructure, BlocksAccounted
<1>3. cur \in Addr /\ hdr[cur].size \in Addr /\ heapEnd \in Addr
  BY <1>2 DEF IInv, TypeOK, Header
<1>4. cur + hdr[cur].size <= heapEnd /\ 8 < hdr[cur].size
  BY <1>2 DEF IInv, HeapStructure, BlocksTileHeap, BlocksNotEmpty
<1>5. QED
  BY <1>2, <1>3, <1>4, HeapConstants DEF Addr

(* Every step of the heap is a step of MemorySpec or none.                  *)
LEMMA StepKeepsMemory == IInv /\ IInv' /\ [Next]_vars => [Memory!MNext]_(Memory!mvars)
<1> SUFFICES ASSUME IInv, IInv', [Next]_vars
             PROVE  Memory!MNext \/ UNCHANGED Memory!mvars
  OBVIOUS
<1> USE DEF Memory!MNext
<1>0. UNCHANGED <<live, sp>> /\ pc \notin Traps /\ pc' \notin Traps => UNCHANGED Memory!mvars
  BY DEF Memory!mvars
<1>1. ASSUME UNCHANGED <<live, sp>>, pc \notin Traps, pc' \in Traps
      PROVE  Memory!Stop
  BY <1>1 DEF Memory!Stop
<1>2. ASSUME NEW p \in Ptrs, NEW n \in Sizes, New(p, n) PROVE UNCHANGED Memory!mvars
  BY <1>0, <1>2 DEF New, program, history, Traps
<1>3. CASE TakeFree
  <2>1. pc = "walk" /\ Grant(cur) /\ sp' = sp
    BY <1>3 DEF TakeFree
  <2>2. QED
    BY <1>3, <2>1, TakenIsFree, GrantObtains
<1>4. CASE WalkOn
  BY <1>0, <1>4 DEF WalkOn, program, history, Traps
<1>5. CASE Carve
  <2>1. pc = "walk" /\ Grant(heapEnd) /\ sp' = sp
    BY <1>5 DEF Carve
  <2>2. QED
    BY <1>5, <2>1, CarvedIsNew, GrantObtains
<1>6. ASSUME NEW p \in Ptrs, Dispose(p) PROVE Memory!GiveBack
  <2>1. /\ ptr[p] \in DOMAIN live /\ live' = [a \in DOMAIN live \ {ptr[p]} |-> live[a]]
        /\ pc = "run" /\ UNCHANGED <<sp, pc>>
    BY <1>6 DEF Dispose, LegalDispose
  <2>2. QED
    BY <2>1 DEF Memory!GiveBack, Traps
<1>7. ASSUME NEW p \in Ptrs, NEW q \in Ptrs, Copy(p, q) PROVE UNCHANGED Memory!mvars
  BY <1>0, <1>7 DEF Copy, history, Traps
<1>8. ASSUME NEW f \in FrameSizes, Call(f) PROVE Memory!Push
  <2>1. /\ sp' <= sp /\ heapEnd <= sp' /\ sp' \in Nat /\ sp \in Nat /\ heapEnd \in Nat
    <3>1. /\ frames' = Append(frames, sp) /\ Len(frames') \in Nat \ {0} /\ frames'[Len(frames')] = sp
      BY <1>8 DEF Call, IInv, TypeOK
    <3>2. sp' <= sp
      BY <3>1 DEF IInv, AddressOrder
    <3>3. heapEnd' = heapEnd /\ heapEnd' <= sp'
      BY <1>8 DEF Call, IInv, AddressOrder
    <3>4. sp \in Addr /\ sp' \in Addr /\ heapEnd \in Addr
      BY DEF IInv, TypeOK
    <3>5. QED
      BY <3>2, <3>3, <3>4, HeapConstants DEF Addr
  <2>2. \A c \in DOMAIN live : c \in Nat /\ live[c] \in Nat /\ c + live[c] <= heapEnd
    <3>1. \A c \in DOMAIN live : c + live[c] <= heapEnd
      BY IInvLiveApart DEF LiveBlocksApart
    <3>2. QED
      BY <3>1, HeapConstants DEF IInv, TypeOK, Addr
  <2>3. DataEnd <= heapEnd
    BY DEF IInv, AddressOrder
  <2>4. sp' \in DataEnd .. sp /\ \A c \in DOMAIN live : c + live[c] <= sp'
    BY <2>1, <2>2, <2>3, HeapConstants
  <2>5. pc = "run" /\ UNCHANGED <<live, pc>>
    BY <1>8 DEF Call, history
  <2>6. QED
    BY <2>4, <2>5 DEF Memory!Push, Traps
<1>9. CASE Return
  <2>1. Len(frames) \in Nat \ {0} /\ sp' = frames[Len(frames)]
    BY <1>9 DEF Return, IInv, TypeOK
  <2>2. sp <= sp' /\ sp' <= MemoryTop
    BY <2>1 DEF IInv, AddressOrder
  <2>3. sp' \in Nat /\ sp \in Nat
    BY HeapConstants DEF IInv, TypeOK, Addr
  <2>4. pc = "run" /\ UNCHANGED <<live, pc>>
    BY <1>9 DEF Return, history
  <2>5. QED
    BY <2>2, <2>3, <2>4, LayoutBounds DEF Memory!Pop, Traps
<1>10. CASE OutOfHeap
  BY <1>1, <1>10 DEF OutOfHeap, program, history, Traps
<1>11. ASSUME NEW p \in Ptrs, DisposeNil(p) PROVE Memory!Stop
  BY <1>1, <1>11 DEF DisposeNil, program, history, Traps
<1>12. ASSUME NEW f \in FrameSizes, Overflow(f) PROVE Memory!Stop
  BY <1>1, <1>12 DEF Overflow, program, history, Traps
<1>13. CASE Trapped \/ UNCHANGED vars
  BY <1>13 DEF Trapped, vars, Memory!mvars
<1>14. QED
  BY <1>2, <1>3, <1>4, <1>5, <1>6, <1>7, <1>8, <1>9, <1>10, <1>11, <1>12, <1>13
     DEF Next, Alloc

(* Whatever a program does, its memory is storage that is nobody else's:    *)
(* heap and stack implement MemorySpec.                                     *)
THEOREM HeapKeepsMemory == Spec => KeepsMemorySpec
<1>1. Init => Memory!MInit
  <2>1. Init => sp = MemoryTop
    BY MemoryFits, LayoutBounds, NoReduction, HeapConstants DEF Init
  <2>2. QED
    BY <2>1 DEF Init, Memory!MInit, Traps
<1>2. IInv /\ IInv' /\ [Next]_vars => [Memory!MNext]_(Memory!mvars)
  BY StepKeepsMemory
<1>3. QED
  BY <1>1, <1>2, HeapInvariant, PTL DEF Spec, KeepsMemorySpec, Memory!MSpec

-----------------------------------------------------------------------------
(* The outermost call was entered with all of the stack there is.           *)
StackFromTop == IF frames = <<>> THEN sp = MemoryTop ELSE frames[1] = MemoryTop

(* The outermost call goes on to find $sp where StackFromTop says.          *)
LEMMA NextStackFromTop == IInv /\ StackFromTop /\ [Next]_vars => StackFromTop'
<1> SUFFICES ASSUME IInv, StackFromTop, [Next]_vars PROVE StackFromTop'
  OBVIOUS
<1>1. frames \in Seq(Addr) /\ Len(frames) \in Nat
  BY DEF IInv, TypeOK
<1>2. ASSUME NEW f \in FrameSizes, Call(f) PROVE StackFromTop'
  <2>1. frames' = Append(frames, sp)
    BY <1>2 DEF Call
  <2>2. frames' # <<>> /\ frames'[1] = IF frames = <<>> THEN sp ELSE frames[1]
    BY <1>1, <2>1
  <2>3. QED
    BY <2>2 DEF StackFromTop
<1>3. CASE Return
  <2>1. PICK n \in Nat : n = Len(frames)
    BY <1>1
  <2>2. frames # <<>> /\ sp' = frames[n] /\ frames' = SubSeq(frames, 1, n - 1)
    BY <1>3, <2>1 DEF Return
  <2>3. CASE n = 1
    <3>1. frames' = <<>>
      BY <2>2, <2>3
    <3>2. QED
      BY <2>2, <2>3, <3>1 DEF StackFromTop
  <2>4. CASE n # 1
    <3>1. n - 1 \in Nat \ {0} /\ Len(frames') = n - 1 /\ frames'[1] = frames[1]
      BY <1>1, <2>1, <2>2, <2>4
    <3>2. QED
      BY <2>2, <3>1 DEF StackFromTop
  <2>5. QED
    BY <2>3, <2>4
<1>4. CASE UNCHANGED <<sp, frames>>
  BY <1>4 DEF StackFromTop
<1>5. QED
  BY <1>2, <1>3, <1>4
     DEF Next, Alloc, New, TakeFree, WalkOn, Carve, OutOfHeap, Dispose, DisposeNil,
         Copy, Overflow, Trapped, program, vars

(* {$STACKSIZE n} is kept: until a block is carved, calls that need no more *)
(* than n bytes of stack together do not trap.                              *)
THEOREM StackReserved == Spec => StackSizeHonoured
<1>1. Init => StackFromTop
  BY MemoryFits, LayoutBounds, NoReduction, HeapConstants DEF Init, StackFromTop
<1>2. ASSUME IInv, StackFromTop, [Next]_vars, pc' = "stackOverflow", pc # pc', heapEnd = DataEnd
      PROVE  \E f \in FrameSizes : StackGuard(f) /\ StackUsed + f > StackSize
  <2>1. PICK f \in FrameSizes : Overflow(f)
    BY <1>2 DEF Next, Alloc, New, TakeFree, WalkOn, Carve, Grant, OutOfHeap, Dispose, DisposeNil,
                Copy, Call, Return, Trapped, vars
  <2>2. /\ sp \in Nat /\ MemoryTop \in Nat /\ f \in Nat /\ DataEnd \in Nat /\ StackSize \in Nat
        /\ DataEnd + StackSize <= MemoryTop /\ MemoryTop + f + 15 < Word /\ Word \in Nat
    BY <1>2, LayoutBounds, NoWrap, HeapConstants DEF IInv, TypeOK, Addr
  <2>3. sp < (DataEnd + f) % Word
    BY <1>2, <2>1 DEF Overflow, StackGuard
  <2>4. (DataEnd + f) % Word = DataEnd + f
    BY <2>2, NoReduction
  <2>5. StackUsed = MemoryTop - sp
    BY <1>2, <2>2 DEF StackUsed, StackFromTop
  <2>6. StackUsed + f > StackSize
    BY <2>2, <2>3, <2>4, <2>5
  <2>7. QED
    BY <2>1, <2>6 DEF Overflow
<1>3. IInv /\ StackFromTop /\ [Next]_vars
      => [pc' = "stackOverflow" /\ pc # pc' /\ heapEnd = DataEnd
          => \E f \in FrameSizes : StackGuard(f) /\ StackUsed + f > StackSize]_vars
  BY <1>2
<1>4. QED
  BY <1>1, <1>3, NextStackFromTop, HeapInvariant, PTL DEF Spec, StackSizeHonoured

-----------------------------------------------------------------------------
(* No block starts at the nil pointer, and sizes are numbers.               *)
LEMMA BlocksTyped == IInv => \A b \in Blocks : b \in Nat \ {0} /\ hdr[b].size \in Nat
<1>1. IInv => \A b \in Blocks : b \in Addr /\ DataEnd <= b /\ hdr[b].size \in Addr
  BY DEF IInv, TypeOK, HeapStructure, BlocksTileHeap, Header
<1>2. QED
  BY <1>1, HeapConstants DEF Addr

(* The walk that finds nothing has passed every block of the free list.     *)
LEMMA WalkEnds ==
  ASSUME IInv, pc = "walk", cur = 0
  PROVE  \A j \in 1 .. Len(free) : ~Fits(j)
<1>1. PICK i \in 1 .. Len(free) + 1 :
        /\ cur = IF i = Len(free) + 1 THEN 0 ELSE free[i]
        /\ \A j \in 1 .. i - 1 : hdr[free[j]].size < total
  BY DEF IInv, WalkPosition
<1>2. Len(free) \in Nat /\ \A j \in 1 .. Len(free) : free[j] \in Blocks
  BY DEF IInv, TypeOK
<1>3. \A b \in Blocks : b # 0 /\ hdr[b].size \in Nat
  BY BlocksTyped
<1>4. i = Len(free) + 1
  BY <1>1, <1>2, <1>3
<1>5. total \in Nat
  BY BlockSizeBounds DEF total, IInv, WalkPosition
<1>6. QED
  BY <1>1, <1>2, <1>3, <1>4, <1>5 DEF Fits, total

(* new() ends at the first block that fits, or finds none. *)
LEMMA StepTakesFirst ==
  ASSUME IInv, [Next]_vars, pc = "walk", pc' # "walk"
  PROVE  TakesFirst
<1> DEFINE fit == {i \in 1 .. Len(free) : Fits(i)}
<1>1. Len(free) \in Nat /\ \A j \in 1 .. Len(free) : free[j] \in Blocks /\ hdr[free[j]].size \in Nat
  BY BlocksTyped DEF IInv, TypeOK
<1>2. CASE TakeFree
  <2>1. PICK i \in 1 .. Len(free) :
          cur = free[i] /\ \A j \in 1 .. i - 1 : hdr[free[j]].size < total
    BY <1>2, TakePosition
  <2>2. total \in Nat
    BY BlockSizeBounds DEF total, IInv, WalkPosition
  <2>3. i \in fit
    BY <1>2, <2>1 DEF TakeFree, LargeEnough, Fits, total
  <2>4. \A j \in fit : i <= j
    BY <1>1, <2>1, <2>2 DEF Fits, total
  <2>5. i = CHOOSE j \in fit : \A k \in fit : j <= k
    BY <2>3, <2>4
  <2>6. pc' = "run" /\ heapEnd' = heapEnd /\ ptr'[target] = cur + 8
    BY <1>2, TakenIsFree, GrantEffect DEF TakeFree
  <2>7. QED
    BY <2>1, <2>3, <2>5, <2>6 DEF TakesFirst
<1>3. CASE Carve
  <2>1. fit = {}
    BY <1>3, WalkEnds DEF Carve
  <2>2. heapEnd \in DOMAIN hdr' /\ heapEnd \notin DOMAIN hdr
    BY <1>3, CarvedIsNew DEF Carve, Blocks
  <2>3. QED
    BY <2>1, <2>2 DEF TakesFirst
<1>4. CASE OutOfHeap
  BY <1>4, WalkEnds DEF OutOfHeap, TakesFirst
<1>5. QED
  BY <1>2, <1>3, <1>4
     DEF Next, Alloc, New, WalkOn, Dispose, DisposeNil, Copy, Call, Overflow, Return,
         Trapped, Traps, vars

-----------------------------------------------------------------------------
(* A step that takes from the list, or gives back, changes no size.         *)
LEMMA SizesStay ==
  ASSUME IInv, TakeFree \/ \E p \in Ptrs : Dispose(p)
  PROVE  Blocks' = Blocks /\ \A b \in Blocks : hdr'[b].size = hdr[b].size
<1>1. hdr \in [Blocks -> Header]
  BY DEF IInv, TypeOK
<1>2. ASSUME NEW c \in Blocks, NEW v, hdr' = [hdr EXCEPT ![c].next = v]
      PROVE  Blocks' = Blocks /\ \A b \in Blocks : hdr'[b].size = hdr[b].size
  <2>1. DOMAIN hdr' = DOMAIN hdr /\ \A b \in Blocks : b # c => hdr'[b] = hdr[b]
    BY <1>1, <1>2 DEF Blocks
  <2>2. hdr[c] \in Header
    BY <1>1, <1>2
  <2>3. [hdr[c] EXCEPT !.next = v].size = hdr[c].size
    BY <2>2 DEF Header
  <2>4. hdr'[c] = [hdr[c] EXCEPT !.next = v]
    BY <1>1, <1>2
  <2>5. QED
    BY <2>1, <2>3, <2>4 DEF Blocks
<1>3. CASE TakeFree
  <2>1. PICK i \in 1 .. Len(free) : prev = IF i = 1 THEN 0 ELSE free[i - 1]
    BY <1>3, TakePosition
  <2>2. CASE prev = 0
    BY <1>3, <2>2 DEF TakeFree, Blocks
  <2>3. CASE prev # 0
    <3>1. Len(free) \in Nat /\ \A j \in 1 .. Len(free) : free[j] \in Blocks
      BY DEF IInv, TypeOK
    <3>2. prev \in Blocks
      BY <2>1, <2>3, <3>1
    <3>3. hdr' = [hdr EXCEPT ![prev].next = hdr[cur].next]
      BY <1>3, <2>3 DEF TakeFree
    <3>4. QED
      BY <1>2, <3>2, <3>3
  <2>4. QED
    BY <2>2, <2>3
<1>4. ASSUME NEW p \in Ptrs, Dispose(p)
      PROVE  Blocks' = Blocks /\ \A b \in Blocks : hdr'[b].size = hdr[b].size
  <2>1. BlockOf(ptr[p]) \in Blocks
    BY <1>4 DEF Dispose, LegalDispose, IInv, HeapStructure, LiveBlocksFit
  <2>2. hdr' = [hdr EXCEPT ![BlockOf(ptr[p])].next = freeHead]
    BY <1>4 DEF Dispose
  <2>3. QED
    BY <1>2, <2>1, <2>2
<1>5. QED
  BY <1>3, <1>4

(* The high-water mark never falls. *)
LEMMA PeakStays ==
  ASSUME IInv, [Next]_vars
  PROVE  peak \in Nat /\ peak' \in Nat /\ peak <= peak'
<1>1. peak \in Nat
  BY DEF IInv, TypeOK
<1>2. ASSUME NEW b, Grant(b), pc = "walk", b \in Addr, b + 8 \in Addr
      PROVE  peak' \in Nat /\ peak <= peak'
  <2>1. peak' \in Nat
    BY <1>2, GrantEffect
  <2>2. peak' = IF Cardinality(DOMAIN live') > peak THEN Cardinality(DOMAIN live') ELSE peak
    BY <1>2 DEF Grant
  <2>3. QED
    BY <1>1, <2>1, <2>2
<1>3. CASE TakeFree
  BY <1>1, <1>2, <1>3, TakenIsFree DEF TakeFree
<1>4. CASE Carve
  BY <1>1, <1>2, <1>4, CarvedIsNew DEF Carve
<1>5. CASE UNCHANGED peak
  BY <1>1, <1>5
<1>6. QED
  BY <1>3, <1>4, <1>5
     DEF Next, Alloc, New, WalkOn, OutOfHeap, Dispose, DisposeNil, Copy, Call, Overflow, Return,
         Trapped, history, vars

(* Blocks of one size. *)
OfSize(c) == {b \in Blocks : hdr[b].size = c}

(* When a block is carved, every block of its size is in use.               *)
LEMMA CarveCounts ==
  ASSUME IInv, IInv', Carve, NEW c \in Nat, Cardinality(OfSize(c)) <= peak
  PROVE  Cardinality(OfSize(c)') <= peak'
<1>1. /\ heapEnd \notin Blocks /\ heapEnd \in Addr /\ heapEnd + 8 \in Addr
      /\ Blocks' = Blocks \cup {heapEnd}
      /\ hdr'[heapEnd].size = total /\ \A b \in Blocks : hdr'[b] = hdr[b]
  <2>1. heapEnd \notin Blocks /\ heapEnd \in Addr /\ heapEnd + 8 \in Addr
    BY CarvedIsNew
  <2>2. hdr' = [b \in Blocks \cup {heapEnd} |->
                  IF b = heapEnd THEN [size |-> total, next |-> Unwritten] ELSE hdr[b]]
    BY DEF Carve
  <2>3. QED
    BY <2>1, <2>2 DEF Blocks
<1>2. CASE c # total
  <2>1. OfSize(c)' = OfSize(c)
    BY <1>1, <1>2 DEF OfSize
  <2>2. OfSize(c) \in SUBSET Addr
    BY DEF OfSize, IInv, TypeOK
  <2>3. Cardinality(OfSize(c)) \in Nat
    BY <2>2, AddrSetsFinite
  <2>4. [Next]_vars
    BY DEF Next, Alloc
  <2>5. QED
    BY <2>1, <2>3, <2>4, PeakStays
<1>3. CASE c = total
  <2> DEFINE used == DOMAIN live'
             f == [b \in OfSize(c)' |-> b + 8]
  <2>1. \A b \in OfSize(c)' : b + 8 \in used
    <3>1. DOMAIN live' = DOMAIN live \cup {heapEnd + 8}
      BY <1>1, GrantEffect DEF Carve
    <3> TAKE b \in OfSize(c)'
    <3>2. CASE b = heapEnd
      BY <3>1, <3>2
    <3>3. CASE b # heapEnd
      <4>1. b \in Blocks /\ hdr[b].size = total /\ b \in Nat
        BY <1>1, <1>3, <3>3, BlocksTyped DEF OfSize
      <4>2. \A j \in 1 .. Len(free) : hdr[free[j]].size # total
        <5>1. \A j \in 1 .. Len(free) : free[j] \in Blocks
          BY DEF IInv, TypeOK
        <5>2. total \in Nat
          BY BlockSizeBounds DEF total, IInv, WalkPosition, Carve
        <5>3. QED
          BY <5>1, <5>2, WalkEnds, BlocksTyped DEF Carve, Fits, total
      <4>3. b \notin FreeBlocks
        BY <4>1, <4>2 DEF FreeBlocks
      <4>4. PICK a \in DOMAIN live : b = a - 8
        BY <4>1, <4>3 DEF IInv, HeapStructure, BlocksAccounted, BlockOf
      <4>5. a \in Nat
        BY HeapConstants DEF IInv, TypeOK, Addr
      <4>6. b + 8 = a
        BY <4>1, <4>4, <4>5
      <4>7. QED
        BY <3>1, <4>6
    <3>4. QED
      BY <3>2, <3>3
  <2>2. f \in Injection(OfSize(c)', used)
    <3>1. \A b \in OfSize(c)' : b \in Nat
      <4>1. Blocks' \subseteq Addr
        BY DEF IInv, TypeOK
      <4>2. QED
        BY <4>1, HeapConstants DEF OfSize, Addr
    <3>2. f \in [OfSize(c)' -> used]
      BY <2>1
    <3>3. \A a, b \in OfSize(c)' : f[a] = f[b] => a = b
      BY <3>1
    <3>4. QED
      BY <3>2, <3>3 DEF Injection, IsInjective
  <2>3. IsFiniteSet(used) /\ Cardinality(used) \in Nat
    BY AddrSetsFinite DEF IInv, TypeOK
  <2>4. Cardinality(OfSize(c)') <= Cardinality(used)
    BY <2>2, <2>3, FS_Injection
  <2>5. OfSize(c)' \in SUBSET Addr
    BY DEF OfSize, IInv, TypeOK
  <2>6. Cardinality(OfSize(c)') \in Nat
    BY <2>5, AddrSetsFinite
  <2>7. Cardinality(used) <= peak' /\ peak' \in Nat
    <3>1. peak' = IF Cardinality(used) > peak THEN Cardinality(used) ELSE peak
      BY DEF Carve, Grant
    <3>2. QED
      BY <2>3, <3>1 DEF IInv, TypeOK
  <2>8. QED
    BY <2>3, <2>4, <2>6, <2>7
<1>4. QED
  BY <1>2, <1>3

(* ReuseBound is kept: only a carved block adds to what it counts.          *)
LEMMA NextReuseBound == IInv /\ IInv' /\ ReuseBound /\ [Next]_vars => ReuseBound'
<1> SUFFICES ASSUME IInv, IInv', ReuseBound, [Next]_vars, NEW n \in Sizes
             PROVE  Cardinality(OfSize(BlockSize(n))') <= peak'
  BY DEF ReuseBound, OfSize
<1>1. BlockSize(n) \in Nat /\ Cardinality(OfSize(BlockSize(n))) <= peak
  BY BlockSizeBounds DEF ReuseBound, OfSize
<1>2. CASE Carve
  BY <1>1, <1>2, CarveCounts
<1>3. ASSUME Blocks' = Blocks, \A b \in Blocks : hdr'[b].size = hdr[b].size
      PROVE  Cardinality(OfSize(BlockSize(n))') <= peak'
  <2>1. OfSize(BlockSize(n))' = OfSize(BlockSize(n))
    BY <1>3 DEF OfSize
  <2>2. OfSize(BlockSize(n)) \in SUBSET Addr
    BY DEF OfSize, IInv, TypeOK
  <2>3. Cardinality(OfSize(BlockSize(n))) \in Nat
    BY <2>2, AddrSetsFinite
  <2>4. QED
    BY <1>1, <2>1, <2>3, PeakStays
<1>4. CASE TakeFree \/ \E p \in Ptrs : Dispose(p)
  BY <1>3, <1>4, SizesStay
<1>5. CASE UNCHANGED hdr
  BY <1>3, <1>5 DEF Blocks
<1>6. QED
  BY <1>2, <1>4, <1>5
     DEF Next, Alloc, New, WalkOn, OutOfHeap, DisposeNil, Copy, Call, Overflow, Return,
         Trapped, vars

(* A program that frees what it allocates does not grow: no more blocks of  *)
(* a size exist than were ever in use at once, and new() takes the first    *)
(* that fits.                                                               *)
THEOREM MemoryReused == Spec => ReusesMemory
<1>1. Init => ReuseBound
  <2> SUFFICES ASSUME Init, NEW c \in {BlockSize(n) : n \in Sizes}
               PROVE  Cardinality({b \in Blocks : hdr[b].size = c}) <= peak
    BY DEF ReuseBound
  <2>1. {b \in Blocks : hdr[b].size = c} = {} /\ peak = 0
    BY DEF Init, Blocks
  <2>2. QED
    BY <2>1, FS_EmptySet
<1>2. IInv /\ [Next]_vars => [FirstFit]_vars
  BY StepTakesFirst DEF FirstFit
<1>3. Spec => []ReuseBound
  BY <1>1, NextReuseBound, HeapInvariant, PTL DEF Spec
<1>4. ReuseBound' /\ [FirstFit]_vars => [ReuseBound' /\ FirstFit]_vars
  OBVIOUS
<1>5. QED
  BY <1>2, <1>3, <1>4, HeapInvariant, PTL DEF Spec, ReusesMemory
=============================================================================
