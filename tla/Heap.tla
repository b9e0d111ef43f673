-------------------------------- MODULE Heap --------------------------------
(***************************************************************************)
(* The run-time memory of a compiled program: the heap that grows up from  *)
(* the data segment, the stack that grows down from the top of memory, and *)
(* the single boundary they share.                                         *)
(*                                                                         *)
(* The code is generated: BuildHeapAllocHelper and BuildHeapFreeHelper     *)
(* emit __heap_alloc and __heap_free, ParseBlock emits the frame prologue  *)
(* and epilogue, AssembleMemorySection and AssembleGlobalSection choose    *)
(* the initial memory, $sp and $__heap_end (all compiler/cpas.pas).  What  *)
(* is modelled is what that generated code does when it runs, under {$S+}, *)
(* the default.  Addresses and sizes are unsigned words modulo Word (2^32  *)
(* in the program, smaller in TLC's instances).                            *)
(*                                                                         *)
(* A program owns pointer variables and does nothing else that matters     *)
(* here: new(p), dispose(p), p := q, procedure call, procedure return.     *)
(* new(p) takes several steps, one per turn of the free-list walk.         *)
(***************************************************************************)
EXTENDS Integers, Sequences, FiniteSets

CONSTANTS
  Word,        \* the number of values of an i32: arithmetic is modulo this
  PageSize,    \* bytes in a page of linear memory
  MemPages,    \* {$MEMORY n}: pages asked for
  StackSize,   \* {$STACKSIZE n}: bytes of stack asked for
  DataEnd,     \* dataPos when the data segment is complete
  Sizes,       \* sizes of the types that new() is applied to
  FrameSizes,  \* frame sizes of the program's routines
  Ptrs,        \* the program's pointer variables
  NoPtr        \* stands for no pointer variable

ASSUME HeapConstants ==
  /\ Word \in Nat \ {0} /\ PageSize \in Nat \ {0}
  /\ MemPages \in Nat \ {0} /\ StackSize \in Nat
  /\ DataEnd \in Nat \ {0}                \* the nil guard is below the data
  /\ Sizes \subseteq Nat \ {0}            \* "pointer target type has no size"
  /\ FrameSizes \subseteq Nat \ {0}       \* a frame of 0 has no prologue code
  /\ NoPtr \notin Ptrs

VARIABLES
  heapEnd,   \* global $__heap_end
  sp,        \* global $sp
  freeHead,  \* the word at addrHeapFree: first free block, 0 if none
  hdr,       \* header words of every block carved so far, by block address
  frames,    \* $sp at the entry of each active call, outermost first
  ptr,       \* the pointer variables' values, 0 for nil
  pc,        \* where control is
  target,    \* the variable the pending new() will store to, or NoPtr
  size,      \* __heap_alloc's parameter, local 0
  prev,      \* __heap_alloc's local 2
  cur,       \* __heap_alloc's local 3
  live,      \* history: payload address -> size asked for, of blocks in use
  free,      \* history: blocks given back and not reused, latest first
  peak       \* history: the most blocks that were ever in use at once

vars == <<heapEnd, sp, freeHead, hdr, frames, ptr, pc, target, size, prev,
          cur, live, free, peak>>
program == <<sp, frames, ptr>>
locals == <<target, size, prev, cur>>
history == <<live, free, peak>>

Addr == 0 .. Word - 1

-----------------------------------------------------------------------------
(* The layout the compiler chooses. *)

(* Mutant of CeilDiv: rounds down. *)
FloorDiv(a, b) == a \div b

CeilDiv(a, b) == (a + b - 1) \div b

InitialPages == LET need == CeilDiv(DataEnd + StackSize, PageSize)
                IN IF need > MemPages THEN need ELSE MemPages

MemoryTop == InitialPages * PageSize

(* Both words of a header, in a block whose next field was never written.   *)
(* Word itself is no u32, so a read of it would show as a type error.       *)
Unwritten == Word

Header == [size : Addr, next : Addr \cup {Unwritten}]

(* Mutant of BlockSize: no room for the header. *)
BlockSizeNoHeader(n) == (((n + 7) % Word) \div 8) * 8

(* (n + 15) and not 7: payload n plus the header, rounded up to 8 *)
BlockSize(n) == (((n + 15) % Word) \div 8) * 8

(* __heap_alloc's local 1 *)
total == BlockSize(size)

Traps == {"outOfHeap", "stackOverflow", "nilTrap"}

(* SeqWithout(s, i): s with its i-th element removed. *)
SeqWithout(s, i) == [j \in 1 .. Len(s) - 1 |-> IF j < i THEN s[j] ELSE s[j + 1]]

Blocks == DOMAIN hdr
BlockOf(addr) == addr - 8       \* of a payload address
FreeBlocks == {free[i] : i \in 1 .. Len(free)}

-----------------------------------------------------------------------------

Init ==
  /\ heapEnd = DataEnd
  /\ sp = MemoryTop % Word
  /\ freeHead = 0
  /\ hdr = [b \in {} |-> [size |-> 0, next |-> 0]]
  /\ frames = <<>>
  /\ ptr = [p \in Ptrs |-> 0]
  /\ pc = "run"
  /\ target = NoPtr
  /\ size = 0 /\ prev = 0 /\ cur = 0
  /\ live = [a \in {} |-> 0]
  /\ free = <<>>
  /\ peak = 0

(* Mutant of New: the walk starts behind the first block. *)
NewSkipsFirst(p, n) ==
  /\ pc = "run"
  /\ target' = p /\ size' = n /\ pc' = "walk"
  /\ prev' = freeHead
  /\ cur' = IF freeHead = 0 THEN 0 ELSE hdr[freeHead].next
  /\ UNCHANGED <<heapEnd, freeHead, hdr, program, history>>

(***************************************************************************)
(* new(p), p : ^T with sizeof(T) = n, up to the head of __heap_alloc's     *)
(* loop.                                                                   *)
(***************************************************************************)
New(p, n) ==
  /\ pc = "run"
  /\ target' = p
  /\ size' = n
  /\ prev' = 0
  /\ cur' = freeHead
  /\ pc' = "walk"
  /\ UNCHANGED <<heapEnd, freeHead, hdr, program, history>>

(* __heap_alloc returns the payload of block b, its locals die, and new()   *)
(* stores the address in the variable that asked.                          *)
Grant(b) ==
  /\ ptr' = [ptr EXCEPT ![target] = (b + 8) % Word]
  /\ pc' = "run"
  /\ live' = [a \in DOMAIN live \cup {(b + 8) % Word} |->
                IF a = (b + 8) % Word THEN size ELSE live[a]]
  /\ peak' = LET c == Cardinality(DOMAIN live')
             IN IF c > peak THEN c ELSE peak
  /\ target' = NoPtr /\ size' = 0 /\ prev' = 0 /\ cur' = 0

(* Mutant of LargeEnough: i32.gt_u for i32.ge_u. *)
LargerOnly == hdr[cur].size > total

(* The walk stands at a block that is large enough. *)
LargeEnough == hdr[cur].size >= total

(* The walk met a block that is large enough: unlink it and return it. *)
TakeFree ==
  /\ pc = "walk"
  /\ cur # 0
  /\ LargeEnough
  /\ IF prev = 0
       THEN /\ freeHead' = hdr[cur].next
            /\ hdr' = hdr
       ELSE /\ hdr' = [hdr EXCEPT ![prev].next = hdr[cur].next]
            /\ freeHead' = freeHead
  /\ Grant(cur)
  /\ free' = LET i == CHOOSE j \in 1 .. Len(free) : free[j] = cur
             IN SeqWithout(free, i)
  /\ UNCHANGED <<heapEnd, sp, frames>>

(* Mutant of WalkOn: cur stays. *)
WalkOnStays ==
  /\ pc = "walk"
  /\ cur # 0
  /\ ~LargeEnough
  /\ prev' = cur
  /\ UNCHANGED <<cur, heapEnd, freeHead, hdr, program, pc, target, size, history>>

(* prev = cur; cur = cur^.next *)
WalkOn ==
  /\ pc = "walk"
  /\ cur # 0
  /\ ~LargeEnough
  /\ prev' = cur
  /\ cur' = hdr[cur].next
  /\ UNCHANGED <<heapEnd, freeHead, hdr, program, pc, target, size, history>>

(* Mutant of HeapGuard: compares before it adds. *)
HeapGuardEarly == heapEnd > sp

(* The list is exhausted and the gap is large enough: carve a new block. *)
HeapGuard == (heapEnd + total) % Word > sp

(* Mutant of Carve: raises the heap by the payload and header, unrounded. *)
CarveUnrounded ==
  /\ pc = "walk"
  /\ cur = 0
  /\ ~HeapGuard
  /\ heapEnd' = (heapEnd + size + 8) % Word
  /\ hdr' = [b \in Blocks \cup {heapEnd} |->
               IF b = heapEnd THEN [size |-> total, next |-> Unwritten]
                              ELSE hdr[b]]
  /\ Grant(heapEnd)
  /\ UNCHANGED <<freeHead, sp, frames, free>>

Carve ==
  /\ pc = "walk"
  /\ cur = 0
  /\ ~HeapGuard
  /\ heapEnd' = (heapEnd + total) % Word
  /\ hdr' = [b \in Blocks \cup {heapEnd} |->
               IF b = heapEnd THEN [size |-> total, next |-> Unwritten]
                              ELSE hdr[b]]
  /\ Grant(heapEnd)
  /\ UNCHANGED <<freeHead, sp, frames, free>>

OutOfHeap ==
  /\ pc = "walk"
  /\ cur = 0
  /\ HeapGuard
  /\ pc' = "outOfHeap"
  /\ UNCHANGED <<heapEnd, freeHead, hdr, program, locals,
                 history>>

(***************************************************************************)
(* dispose(p).  Giving back a block twice through another pointer to it,   *)
(* or a pointer that no new() returned, is undefined (language reference,  *)
(* "Defined and Undefined Behavior", Pointers): the program does not do it.*)
(***************************************************************************)
LegalDispose(p) == ptr[p] \in DOMAIN live

(* Mutants of Dispose.  GiveBack(p, blk, link): blk goes to the front of    *)
(* the list, with link in its next field.                                   *)
GiveBack(p, blk, link) ==
  /\ pc = "run"
  /\ ptr[p] # 0
  /\ LegalDispose(p)
  /\ hdr' = [hdr EXCEPT ![blk].next = link]
  /\ freeHead' = blk
  /\ free' = <<blk>> \o free
  /\ live' = [a \in DOMAIN live \ {ptr[p]} |-> live[a]]
  /\ ptr' = [ptr EXCEPT ![p] = 0]
  /\ UNCHANGED <<heapEnd, sp, frames, pc, locals, peak>>

DisposeSwapped(p) == GiveBack(p, BlockOf(ptr[p]), BlockOf(ptr[p]))
DisposePayload(p) == GiveBack(p, ptr[p], freeHead)
DisposeNoLink(p) == GiveBack(p, BlockOf(ptr[p]),
                             IF freeHead = 0 THEN hdr[BlockOf(ptr[p])].next
                                             ELSE freeHead)

Dispose(p) ==
  /\ pc = "run"
  /\ ptr[p] # 0
  /\ LegalDispose(p)
  /\ LET blk == BlockOf(ptr[p])
     IN /\ hdr' = [hdr EXCEPT ![blk].next = freeHead]
        /\ freeHead' = blk
        /\ free' = <<blk>> \o free
  /\ live' = [a \in DOMAIN live \ {ptr[p]} |-> live[a]]
  /\ ptr' = [ptr EXCEPT ![p] = 0]
  /\ UNCHANGED <<heapEnd, sp, frames, pc, locals, peak>>

DisposeNil(p) ==
  /\ pc = "run"
  /\ ptr[p] = 0
  /\ pc' = "nilTrap"
  /\ UNCHANGED <<heapEnd, freeHead, hdr, program, locals,
                 history>>

(* p := q *)
Copy(p, q) ==
  /\ pc = "run"
  /\ ptr' = [ptr EXCEPT ![p] = ptr[q]]
  /\ UNCHANGED <<heapEnd, sp, freeHead, hdr, frames, pc, locals, history>>

-----------------------------------------------------------------------------
(* The stack.  A prologue compares before it subtracts; an epilogue goes   *)
(* back to the recorded frame base plus the frame size.                    *)

(* Mutant of StackGuard: does not count the frame. *)
StackGuardBare(f) == sp < heapEnd

StackGuard(f) == sp < (heapEnd + f) % Word

Call(f) ==
  /\ pc = "run"
  /\ ~StackGuard(f)
  /\ sp' = (sp - f) % Word
  /\ frames' = Append(frames, sp)
  /\ UNCHANGED <<heapEnd, freeHead, hdr, ptr, pc, locals,
                 history>>

Overflow(f) ==
  /\ pc = "run"
  /\ StackGuard(f)
  /\ pc' = "stackOverflow"
  /\ UNCHANGED <<heapEnd, freeHead, hdr, program, locals,
                 history>>

Return ==
  /\ pc = "run"
  /\ frames # <<>>
  /\ sp' = frames[Len(frames)]
  /\ frames' = SubSeq(frames, 1, Len(frames) - 1)
  /\ UNCHANGED <<heapEnd, freeHead, hdr, ptr, pc, locals,
                 history>>

(* A trap ends the program: nothing happens any more. *)
Trapped == pc \in Traps /\ UNCHANGED vars

-----------------------------------------------------------------------------

Alloc == TakeFree \/ WalkOn \/ Carve \/ OutOfHeap

Next ==
  \/ \E p \in Ptrs, n \in Sizes : New(p, n)
  \/ Alloc
  \/ \E p \in Ptrs : Dispose(p) \/ DisposeNil(p)
  \/ \E p, q \in Ptrs : Copy(p, q)
  \/ \E f \in FrameSizes : Call(f) \/ Overflow(f)
  \/ Return
  \/ Trapped

Spec == Init /\ [][Next]_vars

(* Once called, the allocator runs: the instance executes its code. *)
FairSpec == Spec /\ WF_vars(Alloc)
-----------------------------------------------------------------------------
(* Properties. *)

(* The types.  All words are u32; a block's next field is written before it *)
(* is read (Unwritten never gets into freeHead or cur).                     *)
TypeOK ==
  /\ heapEnd \in Addr /\ sp \in Addr /\ freeHead \in Addr
  /\ Blocks \subseteq Addr /\ hdr \in [Blocks -> Header]
  /\ frames \in Seq(Addr)
  /\ ptr \in [Ptrs -> Addr]
  /\ pc \in {"run", "walk"} \cup Traps
  /\ target \in Ptrs \cup {NoPtr} /\ size \in Sizes \cup {0}
  /\ prev \in Addr /\ cur \in Addr
  /\ DOMAIN live \subseteq Addr /\ live \in [DOMAIN live -> Sizes]
  /\ free \in Seq(Blocks)
  /\ peak \in Nat

(* The heap and the stack share one boundary and neither ever crosses it:   *)
(* __heap_alloc's compare against $sp and the prologue's compare against    *)
(* $__heap_end are each other's other half.                                 *)
HeapBelowStack == heapEnd <= sp

(* Every block in use is inside the heap, is as long as was asked for, and  *)
(* no part of it, nor its header, belongs to another block in use.          *)
LiveBlocksApart ==
  \A a \in DOMAIN live :
    /\ DataEnd + 8 <= a /\ a + live[a] <= heapEnd
    /\ \A b \in DOMAIN live : a < b => a + live[a] + 8 <= b

(* The links from freeHead spell exactly the blocks that were disposed of   *)
(* and not reused, the latest first: unlinking at the head, in the middle   *)
(* and at the end, and pushing at the head, lose no block, make no cycle    *)
(* and leave no link to a block in use.                                     *)
FreeListIntact ==
  /\ freeHead = IF free = <<>> THEN 0 ELSE free[1]
  /\ \A i \in 1 .. Len(free) :
       /\ free[i] \in Blocks
       /\ hdr[free[i]].next = IF i = Len(free) THEN 0 ELSE free[i + 1]

(* A carved block is in use or on the free list, never both, and on the     *)
(* list once.                                                               *)
BlocksAccounted ==
  /\ Blocks = FreeBlocks \cup {BlockOf(a) : a \in DOMAIN live}
  /\ \A i \in 1 .. Len(free) :
       /\ free[i] + 8 \notin DOMAIN live
       /\ \A j \in 1 .. Len(free) : free[i] = free[j] => i = j

(* The free list is exactly the blocks that were disposed of and not used   *)
(* again: no order of disposals and reuses loses one or gives it out twice. *)
FreeListExact == FreeListIntact /\ BlocksAccounted

(* The carved blocks tile the heap from the end of the data segment to      *)
(* $__heap_end: no gap, no overlap, so no byte of the heap is lost.         *)
BlocksTileHeap ==
  /\ heapEnd # DataEnd => DataEnd \in Blocks
  /\ \A b \in Blocks :
       /\ DataEnd <= b /\ b + hdr[b].size <= heapEnd
       /\ b + hdr[b].size \in Blocks \cup {heapEnd}
       /\ \A c \in Blocks : b < c => b + hdr[b].size <= c

(* "A program that allocates and frees the same shapes reuses its memory    *)
(* exactly": of each block size no more blocks exist than the program ever  *)
(* had in use at once, whatever it allocated and disposed of in between.    *)
ReuseBound ==
  \A c \in {BlockSize(n) : n \in Sizes} :
    Cardinality({b \in Blocks : hdr[b].size = c}) <= peak

(* new() takes the first block on the list that is large enough, and        *)
(* raises the heap (or gives up) only when there is none.                   *)
Fits(i) == hdr[free[i]].size >= BlockSize(size)

TakesFirst ==
  LET fit == {i \in 1 .. Len(free) : Fits(i)}
  IN IF fit = {}
       THEN hdr' # hdr \/ pc' = "outOfHeap"
       ELSE LET i == CHOOSE j \in fit : \A k \in fit : j <= k
            IN pc' = "run" /\ heapEnd' = heapEnd /\ ptr'[target] = free[i] + 8

FirstFit == pc = "walk" /\ pc' # "walk" => TakesFirst

(* Memory that was disposed of is used again before the heap grows: no step *)
(* leaves more blocks of a size than were ever in use at once, and new()    *)
(* takes the first that fits.                                               *)
ReusesMemory == [][ReuseBound' /\ FirstFit]_vars

(* The bytes the frames of the active calls take. *)
StackUsed == IF frames = <<>> THEN 0 ELSE frames[1] - sp

(* {$STACKSIZE n} is kept: while nothing was carved, a call whose frame,    *)
(* with the frames of the active calls, needs at most n bytes of stack does *)
(* not trap.                                                                *)
StackSizeHonoured ==
  [][ /\ pc' = "stackOverflow" /\ pc # pc' /\ heapEnd = DataEnd
      => \E f \in FrameSizes :
           StackGuard(f) /\ StackUsed + f > StackSize ]_vars

(* The walk ends: new() returns or traps. *)
NewReturns == (pc = "walk") ~> (pc # "walk")

(* Heap implements MemorySpec: blocks in use are the storage owned. *)
Memory == INSTANCE MemorySpec
            WITH Bottom <- DataEnd, Top <- MemoryTop, Demands <- Sizes,
                 owned <- live, stack <- sp, stopped <- pc \in Traps
KeepsMemorySpec == Memory!MSpec
=============================================================================
