------------------------------ MODULE CompileSafe ------------------------------
(***************************************************************************)
(* What holds at every step of a compilation: where each argument lies     *)
(* while it is on its way, what the snapshot knows after the first of      *)
(* them, and that each line on stderr reads back as what it reports.       *)
(***************************************************************************)
EXTENDS CompileHost

Vectors == Seq(Seq(Nat))
Areas == [0..(AreaEnd - 1) -> Nat]
AreaTypes ==
  args \in Vectors /\ area \in Areas /\ bufAt \in Nat /\ addrArgBuf <= bufAt /\ step \in Nat
(* Pointers are pointers, whatever strings were written behind them.        *)
Pointers(n) == \A i \in 0..(MaxArgs - 1) : i < n => area[i] >= 100
(* No slot has a length it has not room for.                                *)
Measured(n) == \A i \in 0..(n - 1) : area[Slot(i)] < SlotSize

(* Of a vector that fits: its strings stand one behind the other, each with *)
(* its NUL and the pointer to it; and then each in its slot.                *)
StringAt(i) == addrArgBuf + CellsOf(args)[i]
LaidArg(i) ==
  /\ area[i] = Pointer(StringAt(i))
  /\ \A k \in 0..(Len(args[i + 1]) - 1) : area[StringAt(i) + k] = args[i + 1][k + 1]
  /\ area[StringAt(i) + Len(args[i + 1])] = Nul
Laid(n) == \A i \in 0..(n - 1) : LaidArg(i)
InSlot(i) ==
  /\ area[Slot(i)] = Len(args[i + 1])
  /\ \A k \in 1..Len(args[i + 1]) : area[Slot(i) + k] = args[i + 1][k]
InSlots(n) == \A i \in 0..(n - 1) : InSlot(i)

(* What of the options the first p arguments tell.                          *)
Ones(on) == IF on THEN 1 ELSE 0
BeforeVerbose == 3
BeforeInclude(o) == BeforeVerbose + Ones(o.verbose)
BeforeDefines(o) == BeforeInclude(o) + Ones(o.include # NoDir)
BeforeObjects(o) == BeforeDefines(o) + Len(o.defines)
Told(o, p) == {o.defines[i] : i \in {j \in DOMAIN o.defines : BeforeDefines(o) + j <= p}}
GuestAfter(o, p) ==
  [range |-> p >= 2 /\ o.range, stack |-> p < 3 \/ o.stack, verbose |-> p > BeforeVerbose /\ o.verbose,
   includes |-> p > BeforeInclude(o) /\ o.include # NoDir,
   defines |-> {CPAS} \cup Told(o, p), objects |-> SubSeq(o.objects, 1, p - BeforeObjects(o))]

Started == stage \in {"args", "copy", "parse", "work", "ended"}
StageInv ==
  /\ options \in OptionSets /\ AreaTypes
  /\ Started \/ stage \in {"host", "over"}
  /\ Started => args = ToArgs(options) /\ \A i \in DOMAIN options.objects : options.objects[i] # <<>>
  /\ stage \in {"host", "args", "copy"} => guest = Defaults
  /\ stage \in {"host", "args", "copy", "parse"} => said = <<>>

(* Whatever the vector is.                                                  *)
AreaInv ==
  /\ stage = "host" => step = 0 /\ bufAt = addrArgBuf
  /\ stage = "args" => step <= Len(args) /\ Pointers(step)
  /\ stage = "copy" => step <= Copied /\ Pointers(Copied) /\ Measured(step)
  /\ stage \in {"parse", "work"} => Measured(Copied)
(* Of one that fits.                                                        *)
ArrivalInv ==
  Plain(options) /\ FitsAreas(args) =>
    /\ stage = "args" => Laid(step) /\ bufAt = StringAt(step)
    /\ stage = "copy" => Laid(Len(args)) /\ InSlots(step)
    /\ stage = "parse" => InSlots(Len(args)) /\ step \in 1..Len(args) /\ guest = GuestAfter(options, step)
    /\ Arrived

(* A report and the line made of it tell the same: without a position, its  *)
(* words do not begin like one.                                             *)
Phrases ==
  {"too many conditional symbols", "too many objects on the command line", "unknown option", ": ", "s"}
ReportType ==
  [severity : {"Error", "Warning", "Info"}, line : Numerals \cup {""}, col : Numerals \cup {""},
   message : Seq(Words \cup Phrases)]
Worded(r) ==
  /\ r \in ReportType
  /\ IF r.line = "" THEN r.col = "" /\ SplitPosition(r.message) = <<"", "", r.message>> ELSE r.col # ""
ReportInv ==
  /\ said \in Seq(ReportType) /\ \A i \in DOMAIN said : Worded(said[i])
  /\ stderr = [i \in DOMAIN said |-> Format(said[i])]
  /\ stopped \in {"running", "returned", "exit 0", "exit 1", "trap"}
  /\ stage \notin {"ended", "over"} => stopped = "running"
  /\ stage = "ended" => stopped # "running"
  /\ stopped = "running" => outcome \in {"none", "Instantiation"}
  /\ stopped = "exit 1" => said # <<>> /\ said[Len(said)].severity = "Error"
  /\ \A i \in DOMAIN said : said[i].severity = "Error" => i = Len(said) /\ stopped = "exit 1"
  /\ stage = "over" /\ stopped # "running" => outcome = ResultOf

CompileInv == StageInv /\ AreaInv /\ ArrivalInv /\ ReportInv
=============================================================================
