------------------------------- MODULE Embedding -------------------------------
(***************************************************************************)
(* A compiled program inside a host: InstanceBuilder and Instance          *)
(* (src/rust/instance.rs), and what is left in the instance between one    *)
(* call of the host and the next - memory, $sp, the display and fuel - by  *)
(* the prologues and epilogues that ParseBlock emits.                      *)
(*                                                                         *)
(* The guest has one routine at level 0, the program, whose frame holds    *)
(* the global variables; the others are exported and at level 1.  The heap *)
(* is not used: its end stands still.                                      *)
(***************************************************************************)
EXTENDS Integers, Sequences
CONSTANTS
  Main,          \* the program, exported as "_start"
  Routines,      \* Main and the routines with {$EXPORT}
  Names,         \* names the host may call
  Arity, Frame,  \* parameters, bytes of frame
  Functions,     \* the routines with a result
  Imports,       \* imports the module declares: <<parameters, has result>>
  Offered,       \* what a host may register: <<name, signature>>
  Top,           \* bytes of memory, and $sp at the start
  HeapEnd,       \* $__heap_end
  Values, Statuses,
  MaxString,     \* the most bytes of a string, 255
  Strings,       \* strings the host has
  Addresses,     \* where it writes them
  AllLimits,     \* the limits it may set
  MaxCalls, MaxDepth   \* bounds: calls and writes of the host; activations

None == -1
ASSUME EmbeddingConstants ==
  /\ Main \in Routines /\ Functions \subseteq Routines \ {Main}
  /\ Arity \in [Routines -> Nat] /\ Arity[Main] = 0
  /\ Frame \in [Routines -> Nat] /\ Frame[Main] > 0
  /\ HeapEnd \in Nat \ {0} /\ Top \in Nat /\ HeapEnd <= Top
  /\ Values \subseteq Nat /\ Statuses \subseteq Nat /\ 0 \in Values
  /\ MaxString \in Nat /\ Strings \subseteq Seq(Nat) /\ Addresses \subseteq Nat
  /\ \A l \in AllLimits : l.fuel \in Nat \cup {None} /\ l.memory \in Nat \cup {None}
  /\ MaxCalls \in Nat /\ MaxDepth \in Nat \ {0}

VARIABLES
  limits, registered,       \* InstanceBuilder
  phase,                    \* "builder", "host", "guest" or "refused"
  fuel, ram, sp, display,   \* the store: what outlives a call
  acts,                     \* activations, outermost first
  pending,                  \* what the host called: routine and form
  result,                   \* what the host got
  calls,
  steps, ended, found, global, owns, sent   \* history: see the properties
builder == <<limits, registered>>
store == <<ram, sp, display>>
globals == <<global, owns>>   \* the value of the first one; whether its frame is on the stack
history == <<found, globals, sent>>
vars == <<builder, phase, fuel, store, acts, pending, result, calls, steps, ended, history>>

\* Limits: None for no ceiling.
Ceilings(fuelUnits, bytes) == [fuel |-> fuelUnits, memory |-> bytes]
Level(q) == IF q = Main THEN 0 ELSE 1
top == acts[Len(acts)]
NoString == [addr |-> None, bytes |-> <<>>]
NoCall == [proc |-> Main, form |-> "call"]

Init ==
  /\ limits \in AllLimits /\ registered = {} /\ phase = "builder"
  /\ fuel = None /\ ram = [a \in 0 .. Top - 1 |-> 0]
  /\ sp = Top /\ display = <<0, 0>> /\ acts = <<>>
  /\ pending = NoCall /\ result = <<"none">> /\ calls = 0
  /\ steps = 0 /\ ended = <<"never">> /\ found = [sp |-> Top, inner |-> 0]
  /\ global = 0 /\ owns = FALSE /\ sent = NoString

-----------------------------------------------------------------------------
(* Before there is an instance. *)
Known(name) == \E r \in registered : r[1] = name
\* register_import: a name twice is an error, the builder stays as it was.
Register ==
  /\ phase = "builder"
  /\ \E r \in Offered :
       /\ registered' = IF Known(r[1]) THEN registered ELSE registered \cup {r}
       /\ result' = IF Known(r[1]) THEN <<"Instantiation">> ELSE <<"Ok">>
  /\ UNCHANGED <<limits, phase, fuel, store, acts, pending, calls, steps, ended, history>>

\* instantiate_and_start: every import is there under its signature, and
\* the memory the module starts with is allowed.
(* Mutant of Links: a signature is not compared. *)
LinksByName(offers) == \A n \in DOMAIN Imports : \E r \in offers : r[1] = n
Links(offers) == \A n \in DOMAIN Imports : <<n, Imports[n]>> \in offers
Made(offers, ceiling) == Links(offers) /\ (ceiling = None \/ Top <= ceiling)
Instantiate(offers, ceiling, budget) ==
  /\ phase = "builder"
  /\ phase' = IF Made(offers, ceiling) THEN "host" ELSE "refused"
  /\ result' = IF Made(offers, ceiling) THEN <<"Ok">> ELSE <<"Instantiation">>
  /\ fuel' = budget
  /\ UNCHANGED <<builder, store, acts, pending, calls, steps, ended, history>>
(* Mutant of Build: metering is not switched on. *)
BuildUnmetered == Instantiate(registered, limits.memory, None)
Build == Instantiate(registered, limits.memory, limits.fuel)
\* Instance::new: WASI and nothing else, no limits.
New == limits = Ceilings(None, None) /\ Instantiate({}, None, None)

-----------------------------------------------------------------------------
(* call, call_args, run. *)
(* Mutant of Classify: any exit is a failure.                              *)
ClassifyExit(how) == IF how[1] = "halt" THEN <<"Exit", how[2]>> ELSE <<"Trapped">>
Classify(how) ==
  IF how = <<"halt", 0>> THEN <<"Ok">>
  ELSE IF how[1] = "halt" THEN <<"Exit", how[2]>> ELSE <<"Trapped">>
\* call_args has its results ready, zeroes, before the call.
Answer(form, q, how) ==
  LET r == IF how[1] = "returned" THEN <<"Ok">> ELSE Classify(how)
  IN IF r = <<"Ok">> /\ form = "call_args" /\ q \in Functions
     THEN <<"Ok", IF how[1] = "returned" THEN how[2] ELSE 0>>
     ELSE r

Ask == phase = "host" /\ calls < MaxCalls /\ calls' = calls + 1
Fits(q, form, n) == n = Arity[q] /\ (form = "call" => n = 0 /\ q \notin Functions)
NotRun(answer) ==
  /\ result' = answer /\ ended' = <<"never">>
  /\ UNCHANGED <<builder, phase, fuel, store, acts, pending, steps, history>>
CallUnknown == Ask /\ Names \ Routines # {} /\ NotRun(<<"FunctionNotFound">>)
\* The engine compares the types first.
CallUnfit ==
  /\ Ask /\ \E q \in Routines \cap Names, form \in {"call", "call_args"}, n \in 0..1 : ~Fits(q, form, n)
  /\ NotRun(<<"Trapped">>)
\* Fuel is set when the instance is made and by nothing after.
(* Mutant of FuelOfCall: every call has all of it. *)
FuelRefilled == limits.fuel
FuelOfCall == fuel
Call ==
  /\ Ask /\ \E q \in Routines \cap Names, form \in {"call", "call_args"} :
       /\ Fits(q, form, IF form = "call" THEN 0 ELSE Arity[q])
       /\ pending' = [proc |-> q, form |-> form]
  /\ phase' = "guest" /\ fuel' = FuelOfCall
  /\ found' = [sp |-> sp, inner |-> display[2]]
  /\ UNCHANGED <<builder, store, acts, result, steps, ended, globals, sent>>

\* The end of a call: whatever is on the stack and in the display stays.
Finish(how) ==
  /\ phase' = "host" /\ acts' = <<>> /\ ended' = how
  /\ result' = Answer(pending.form, pending.proc, how)
  /\ UNCHANGED <<builder, pending, calls, found>>
Go(next) == acts' = next /\ UNCHANGED <<builder, phase, pending, result, calls, ended, found>>

-----------------------------------------------------------------------------
(* The guest.  A metered step costs fuel; the store was given fuel once.   *)
Burn ==
  /\ phase = "guest" /\ fuel # 0
  /\ IF fuel = None THEN UNCHANGED <<fuel, steps>> ELSE fuel' = fuel - 1 /\ steps' = steps + 1
Running == Burn /\ acts # <<>>
OutOfFuel ==
  /\ phase = "guest" /\ fuel = 0 /\ Finish(<<"trap">>)
  /\ UNCHANGED <<fuel, steps, store, globals, sent>>

\* The prologue of a routine: guard, $sp, display.
Enters(q) == IF acts = <<>> THEN q = pending.proc ELSE q # Main /\ Len(acts) < MaxDepth
(* Mutant of Overflows: the frame is not counted. *)
OverflowsBare(q) == Frame[q] > 0 /\ sp < HeapEnd
Overflows(q) == Frame[q] > 0 /\ sp < HeapEnd + Frame[q]
Enter(q) ==
  /\ Burn /\ Enters(q) /\ ~Overflows(q)
  /\ sp' = sp - Frame[q]
  /\ display' = [display EXCEPT ![Level(q) + 1] = sp']
  /\ Go(Append(acts, [proc |-> q, saved |-> display[Level(q) + 1]]))
  /\ IF q = Main THEN global' = ram[sp'] /\ owns' = TRUE ELSE UNCHANGED globals
  /\ UNCHANGED <<ram, sent>>
Overflow(q) ==
  /\ Burn /\ Enters(q) /\ Overflows(q) /\ Finish(<<"trap">>)
  /\ UNCHANGED <<store, globals, sent>>

\* The epilogue.  Only a routine has a local that its level's entry of the
\* display is restored from; the program's stays.
(* Mutant of Restored: nothing is restored. *)
RestoredNot == display
Restored == IF top.proc = Main THEN display ELSE [display EXCEPT ![2] = top.saved]
Return ==
  /\ Running
  /\ sp' = IF Frame[top.proc] > 0 THEN display[Level(top.proc) + 1] + Frame[top.proc] ELSE sp
  /\ display' = Restored
  /\ \E v \in Values :
       /\ top.proc \notin Functions => v = 0
       /\ IF Len(acts) > 1 THEN Go(SubSeq(acts, 1, Len(acts) - 1)) ELSE Finish(<<"returned", v>>)
  /\ owns' = (owns /\ top.proc # Main)
  /\ UNCHANGED <<ram, global, sent>>

Overlaps(a) == a >= sent.addr /\ a <= sent.addr + Len(sent.bytes)
Store(a, v) ==
  /\ ram' = [ram EXCEPT ![a] = v]
  /\ sent' = IF Overlaps(a) THEN NoString ELSE sent
  /\ UNCHANGED <<sp, display>>
\* A global variable is at an offset of the frame display[0] points to, a
\* local one at an offset of $sp.
(* Mutant of GlobalAt: reached by $sp, the current frame. *)
GlobalAtTop == IF sp < Top THEN sp ELSE display[1]
GlobalAt == display[1]
AssignGlobal == Running /\ Go(acts) /\ \E v \in Values : Store(GlobalAt, v) /\ global' = v /\ UNCHANGED owns
HasLocals == Frame[top.proc] > 0 /\ top.proc # Main
AssignLocal ==
  /\ Running /\ HasLocals /\ Go(acts) /\ UNCHANGED globals
  /\ \E o \in 0 .. Frame[top.proc] - 1, v \in Values : Store(sp + o, v)
\* A callback gives Some(v) or None; without a result it is not looked at.
CallImport ==
  /\ Running /\ HasLocals /\ Go(acts) /\ UNCHANGED globals
  /\ \E n \in DOMAIN Imports, given \in Values \cup {None} :
       IF Imports[n][2] THEN Store(sp, IF given = None THEN 0 ELSE given)
       ELSE UNCHANGED <<store, sent>>
Halt == Running /\ (\E n \in Statuses : Finish(<<"halt", n>>)) /\ UNCHANGED <<store, globals, sent>>
\* A check fires, or a loop that does not end goes round once more.
Fail == Running /\ Finish(<<"trap">>) /\ UNCHANGED <<store, globals, sent>>
Spin == Running /\ Go(acts) /\ UNCHANGED <<store, globals, sent>>

-----------------------------------------------------------------------------
(* Strings across the boundary. *)
(* Mutant of Fault: the length is not looked at. *)
FaultLong(addr, s) == addr + 1 + Len(s) > Top
Fault(addr, s) == Len(s) > MaxString \/ addr + 1 + Len(s) > Top
LengthByte(n) == n % (MaxString + 1)
WriteString ==
  /\ Ask /\ \E addr \in Addresses, s \in Strings :
       IF Fault(addr, s) THEN result' = <<"Memory">> /\ UNCHANGED <<ram, global, sent>>
       ELSE /\ ram' = [a \in DOMAIN ram |->
                         IF a = addr THEN LengthByte(Len(s))
                         ELSE IF a > addr /\ a <= addr + Len(s) THEN s[a - addr] ELSE ram[a]]
            /\ result' = <<"Ok", 1 + Len(s)>>
            /\ sent' = [addr |-> addr, bytes |-> s]
            /\ global' = ram'[GlobalAt]      \* the host may mean a global
  /\ ended' = <<"never">>
  /\ UNCHANGED <<builder, phase, fuel, sp, display, acts, pending, steps, found, owns>>
ReadBytes(addr) ==
  IF addr >= Top \/ addr + 1 + ram[addr] > Top THEN <<"Memory">>
  ELSE <<"Ok", SubSeq([i \in 1 .. ram[addr] |-> ram[addr + i]], 1, ram[addr])>>

Host == Register \/ Build \/ New \/ CallUnknown \/ CallUnfit \/ Call \/ WriteString
Guest ==
  \/ OutOfFuel \/ (\E q \in Routines : Enter(q) \/ Overflow(q)) \/ Return
  \/ AssignGlobal \/ AssignLocal \/ CallImport \/ Halt \/ Fail \/ Spin
Next == Host \/ Guest
Spec == Init /\ [][Next]_vars
\* The engine goes on with the guest; nobody makes the host call.
FairSpec == Spec /\ WF_vars(Guest)

-----------------------------------------------------------------------------
(* Types; the stack pointer stays between the heap and the top of memory   *)
(* whatever calls were broken off.                                         *)
TypeOK ==
  /\ limits \in AllLimits /\ phase \in {"builder", "host", "guest", "refused"}
  /\ fuel \in Nat \cup {None} /\ ram \in [0 .. Top - 1 -> Nat]
  /\ sp \in HeapEnd .. Top /\ display \in [1 .. 2 -> 0 .. Top]
  /\ Len(acts) <= MaxDepth /\ calls \in 0 .. MaxCalls /\ sent.addr + Len(sent.bytes) < Top

(* The guide: a missing or mismatched import "fails at instantiation", and  *)
(* so does too little memory; what runs has all it may call and the host's *)
(* ceilings.  The answer of a call is true to how it ended: a value is the *)
(* one returned, or zero after halt(0); Exit has the status of halt; and a *)
(* call that cannot be made has run nothing.                               *)
OutcomeTrue ==
  /\ phase \in {"host", "guest"} =>
       \A n \in DOMAIN Imports : Known(n) /\ (\A r \in registered : r[1] = n => r[2] = Imports[n])
  /\ phase = "host" /\ ended[1] \in {"halt", "returned", "trap"} =>
       CASE ended[1] = "trap" -> result = <<"Trapped">>
         [] ended[1] = "halt" /\ ended[2] # 0 -> result = <<"Exit", ended[2]>>
         [] OTHER -> /\ result[1] = "Ok"
                     /\ Len(result) > 1 => result[2] = (IF ended[1] = "halt" THEN 0 ELSE ended[2])

(* Fuel is the instance's, not a call's: over all its calls together the    *)
(* guest takes no more steps than the host allowed, and a metered instance *)
(* is one the host asked to have metered.                                  *)
FuelBounds == phase \in {"host", "guest"} /\ limits.fuel # None => fuel + steps = limits.fuel

(* A call that returns leaves $sp and the display of routines as it found   *)
(* them, also after calls that were broken off in the middle and left both *)
(* where they were.                                                        *)
CallsBalanced ==
  phase = "host" /\ ended[1] = "returned" => sp = found.sp /\ display[2] = found.inner

(* As long as the program's frame is not released - while it runs, and      *)
(* after it stopped by halt or by a trap - its global variables keep their *)
(* value, whatever exported routines are called.                           *)
GlobalsOwned == owns => display[1] >= sp /\ ram[display[1]] = global

(* What a call is given of the stack it gives back, and nothing else.       *)
StackKept == CallsBalanced /\ GlobalsOwned

(* What the host wrote it reads back, as long as the guest does not write   *)
(* there: nothing is cut off, no length wraps, and a string that does not  *)
(* fit changes nothing.                                                    *)
RoundTrip == sent.addr # None => ReadBytes(sent.addr) = <<"Ok", sent.bytes>>

(* Limits: with fuel, every call comes back to the host, loops or not.      *)
CallsEnd == limits.fuel # None => (phase = "guest" ~> phase = "host")

(* compact-pascal-ref.md has the global variables in the data segment: what *)
(* one holds is what was last assigned to it, in every exported routine    *)
(* the host calls before, during or after the program's run.               *)
GlobalsKept == phase \in {"host", "guest"} => ram[GlobalAt] = global
=============================================================================
