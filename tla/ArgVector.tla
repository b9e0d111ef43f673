-------------------------------- MODULE ArgVector ------------------------------
(***************************************************************************)
(* How a program's arguments reach it: the host's args_get (wasi.rs) lays  *)
(* pointers and strings into the guest's memory without asking how much    *)
(* room there is, and the start-up code the compiler emits                 *)
(* (EnsureArgsInit) copies each into a slot of its own.  The three areas   *)
(* lie one behind the other.  A cell holds a byte; a pointer takes one     *)
(* cell, and read as a character is some byte of its own.                  *)
(***************************************************************************)
EXTENDS Naturals, Sequences, SequencesExt
CONSTANTS MaxArgs,      \* pointers and slots the guest has
          ArgBufCap,    \* cells of the guest's string area
          SlotSize      \* cells of a slot: a length and its characters
ASSUME SizesAssumption ==
  /\ MaxArgs \in {1, 2, 4, 8, 16} /\ ArgBufCap \in Nat \ {0} /\ SlotSize \in Nat \ {0}

VARIABLES args,      \* the host's vector
          area,      \* addresses 0 .. : pointers, strings, slots
          bufAt,     \* where args_get writes next
          step       \* arguments handled: by args_get, then by the copy loop
argVars == <<args, area, bufAt, step>>

Nul == 0
Pointer(addr) == 100 + addr
addrArgv == 0
addrArgBuf == MaxArgs
addrArgSlots == MaxArgs + ArgBufCap
AreaEnd == addrArgSlots + MaxArgs * SlotSize
Slot(i) == addrArgSlots + i * SlotSize
Poke(m, addr, cells) ==
  [a \in DOMAIN m |-> IF a \in addr..(addr + Len(cells) - 1) THEN cells[a - addr + 1] ELSE m[a]]

ArgsInit(vector) ==
  /\ args = vector /\ bufAt = addrArgBuf /\ step = 0
  /\ area = [a \in 0..(AreaEnd - 1) |-> 0]
(* Mutant of CString: the NUL is left out.                                  *)
CStringOpen(arg) == arg
CString(arg) == Append(arg, Nul)
\* One turn of args_get's loop: the pointer, then the string with its NUL.
\* Only the end of linear memory stops it, far behind the slots.
PutArg ==
  /\ step < Len(args)
  /\ LET bytes == CString(args[step + 1])
     IN /\ area' = Poke(Poke(area, addrArgv + step, <<Pointer(bufAt)>>), bufAt, bytes)
        /\ bufAt' = bufAt + Len(bytes)
        /\ step' = step + 1
        /\ UNCHANGED args
\* The start-up loop handles the first MaxArgs arguments.
Copied == IF Len(args) < MaxArgs THEN Len(args) ELSE MaxArgs
\* The characters from addr up to a NUL, of which what lies behind the slots
\* is taken to begin with one; at most a slot's worth is kept.
EndsAt(addr, n) == addr + n >= AreaEnd \/ area[addr + n] = Nul
StrLen(addr) == CHOOSE n \in 0..AreaEnd : EndsAt(addr, n) /\ \A k \in 0..(n - 1) : ~EndsAt(addr, k)
(* Mutant of CopyLen: the length is not cut to what a slot holds.           *)
CopyLenWhole(addr) == StrLen(addr)
CopyLen(addr) == IF StrLen(addr) > SlotSize - 1 THEN SlotSize - 1 ELSE StrLen(addr)
CopyArg(i) ==
  LET cstr == area[addrArgv + i] - 100
      measured == Poke(area, Slot(i), <<CopyLen(cstr)>>)
  IN /\ area' = Poke(measured, Slot(i) + 1, [k \in 1..CopyLen(cstr) |-> measured[cstr + k - 1]])
     /\ UNCHANGED <<args, bufAt>>
\* The two intrinsics.  argc is not clamped; an index is masked.
ParamCount == Len(args) - 1
ParamStr(i) == LET at == Slot(i % MaxArgs) IN [k \in 1..area[at] |-> area[at + k]]
=============================================================================
