----------------------------- MODULE MemorySpec -----------------------------
(***************************************************************************)
(* What a program may rely on of its memory, and nothing of how it is      *)
(* done: new() yields storage that belongs to nobody else until it is      *)
(* disposed of, the stack never grows into storage, and a demand that      *)
(* cannot be met stops the program instead of corrupting it.  The promise  *)
(* is that of the language reference (Memory Layout, The Heap, Stack);     *)
(* module Heap is shown to keep it.                                        *)
(***************************************************************************)
EXTENDS Integers

CONSTANTS Bottom,   \* the first address after the program's static data
          Top,      \* the end of memory
          Demands   \* the amounts of storage a program asks for

VARIABLES owned,    \* storage in use: first address -> length
          stack,    \* the lowest address of the stack
          stopped   \* the program was stopped

mvars == <<owned, stack, stopped>>

(* The n bytes from a on are above the static data, below the stack's end  *)
(* s, and nobody's.                                                        *)
Vacant(a, n, s) ==
  /\ Bottom <= a /\ a + n <= s
  /\ \A b \in DOMAIN owned : a + n <= b \/ b + owned[b] <= a

MInit ==
  /\ owned = [a \in {} |-> 0]
  /\ stack = Top
  /\ stopped = FALSE

Obtain ==
  /\ ~stopped
  /\ \E a \in Bottom .. stack, n \in Demands :
       /\ Vacant(a, n, stack)
       /\ owned' = [b \in DOMAIN owned \cup {a} |->
                      IF b = a THEN n ELSE owned[b]]
  /\ UNCHANGED <<stack, stopped>>

GiveBack ==
  /\ ~stopped
  /\ \E a \in DOMAIN owned : owned' = [b \in DOMAIN owned \ {a} |-> owned[b]]
  /\ UNCHANGED <<stack, stopped>>

(* A call takes stack that holds no storage, a return gives stack back. *)
Push ==
  /\ ~stopped
  /\ stack' \in Bottom .. stack
  /\ \A b \in DOMAIN owned : b + owned[b] <= stack'
  /\ UNCHANGED <<owned, stopped>>

Pop ==
  /\ ~stopped
  /\ stack' \in stack .. Top
  /\ UNCHANGED <<owned, stopped>>

Stop ==
  /\ ~stopped
  /\ stopped' = TRUE
  /\ UNCHANGED <<owned, stack>>

MNext == Obtain \/ GiveBack \/ Push \/ Pop \/ Stop

MSpec == MInit /\ [][MNext]_mvars
=============================================================================
