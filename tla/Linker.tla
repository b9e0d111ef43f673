------------------------------- MODULE Linker --------------------------------
(***************************************************************************)
(* Separate compilation: what one run of the compiler keeps while it reads *)
(* a unit or a program, the object it writes for a unit, and the linker    *)
(* that a program's run ends with (compiler/cpas.pas).                     *)
(*                                                                         *)
(* Code is the sequence of its immediates that name something: the index   *)
(* of a function that is called, an address in the data segment, a slot of *)
(* the function table.  Beside the number in the code a site keeps what    *)
(* the source meant by it, which no step of the compiler reads; that the   *)
(* two agree in the finished module is what the linker is for.             *)
(*                                                                         *)
(* A module's function indices are its host imports, then the helpers the  *)
(* compiler supplies (32 slots in the program, HelperSlots here, slot 0    *)
(* being _start), then routines in the order their headings were read,     *)
(* then those of the objects in the order they were placed.                *)
(***************************************************************************)
EXTENDS Integers, Sequences, SequencesExt, FiniteSets

CONSTANTS
  Units, Program,    \* the files that are compiled
  Routines, Sigs,    \* names of routines, 1, 2, ..., and their headings
  Hosts,             \* host functions declared with {$IMPORT}
  HelperSlots, ExternFuncBase,
  MaxFuncs,          \* entries of funcs: host functions, externs, routines
  DataSizes, Aligns,
  Plan,              \* the order files are compiled in, a unit again at times
  MaxNest,           \* bound: depth of nested routines
  MaxWork,           \* bound: headings, sites and added imports in all files
  Constructs         \* what files are written with, see below

(* What the compiler accepts and Constructs may leave out:                  *)
(*   ownImports       a program declares host functions its units do not    *)
(*   lateImports      imports added after a heading was read                *)
(*   addressElsewhere @R of a routine that another file or the host defines *)
(*   undefinedForward a heading whose body never comes                      *)
AllConstructs ==
  {"ownImports", "lateImports", "addressElsewhere", "undefinedForward"}

(* One host function stands for the five of every file, one for the three   *)
(* that uses Files adds.                                                    *)
WasiImports == <<"fd_write">>
FileImports == <<"path_open">>

ASSUME LinkerConstants ==
  /\ IsFiniteSet(Units)
  /\ HelperSlots \in Nat \ {0} /\ MaxFuncs \in Nat
  /\ ExternFuncBase \in Nat /\ ExternFuncBase > HelperSlots + 2 * (MaxFuncs + 1)
  /\ DataSizes \subseteq Nat \ {0} /\ Aligns \subseteq {1, 4}
  /\ {MaxNest, MaxWork} \subseteq Nat
  /\ Program \notin Units /\ Plan \in Seq(Units \cup {Program})
  /\ Constructs \subseteq AllConstructs

VARIABLES
  phase,     \* what the compiler does: idle, compile, link, patch, ...
  c,         \* what it keeps of the file it reads
  l,         \* what it keeps of the objects it links
  objects,   \* the objects written so far
  builds,    \* files compiled
  work       \* headings, sites and imports of all of them

vars == <<phase, c, l, objects, builds, work>>

(* The elements of s at the positions in I, in their order.                 *)
Pick(s, I) ==
  LET picked[n \in 0 .. Len(s)] == IF n = 0 THEN <<>>
                                   ELSE IF n \in I THEN Append(picked[n - 1], s[n])
                                   ELSE picked[n - 1]
  IN picked[Len(s)]
(* How many of the numbers in I come before i.                              *)
Ordinal(I, i) == Cardinality({k \in I : k < i})

-----------------------------------------------------------------------------
(* State of a compilation.  A function is [unit, name, sig, mark, index,    *)
(* level, iface, code]; its mark is bodyStart: host (-2), extern (-3),      *)
(* forward (-1) or body.  Data starts at address 4.                         *)

NoObject == [imports |-> <<>>]
Compiled == {u \in Units : objects[u] # NoObject}

DataPos(s) == 4 + Len(s.data)
FirstUser(s) == Len(s.imports) + HelperSlots
Own(s) == {i \in DOMAIN s.funcs : s.funcs[i].unit = s.unit}
InBody(s) == IF s.open = <<>> THEN 0 ELSE Last(s.open)     \* curFuncIdx
CodeOf(s, i) == IF i = 0 THEN s.start ELSE s.funcs[i].code
Settled == c.slots = HelperSlots

(* The externs of a file that uses the units us. *)
ExternsOf(us) ==
  FlattenSeq([k \in DOMAIN us |->
    [i \in DOMAIN objects[us[k]].exports |->
       [unit |-> us[k], name |-> objects[us[k]].exports[i].name,
        sig |-> objects[us[k]].exports[i].sig,
        body |-> objects[us[k]].exports[i].body]]])

DeclareImportedRoutines(externs) ==
  [k \in DOMAIN externs |->
     [unit |-> externs[k].unit, name |-> externs[k].name,
      sig |-> externs[k].sig, mark |-> "extern",
      index |-> ExternFuncBase + k - 1, level |-> 0, iface |-> FALSE,
      code |-> <<>>]]

NewFile(f, us, files) ==
  [unit |-> f, uses |-> us,
   imports |-> WasiImports \o IF files THEN FileImports ELSE <<>>,
   funcs |-> DeclareImportedRoutines(ExternsOf(us)),
   externs |-> ExternsOf(us),
   slots |-> HelperSlots,          \* numDefinedFuncs
   open |-> <<>>,                  \* the routines whose bodies are read
   start |-> <<>>,                 \* startCode of the statement part
   data |-> <<>>, table |-> <<>>, relocs |-> <<>>,
   relocatable |-> f \in Units \/ us # <<>>]

NoLink == [args |-> <<>>, linked |-> {}, placed |-> <<>>,
           base |-> [u \in Units |-> 0], externs |-> [u \in Units |-> <<>>],
           syms |-> <<>>, relocs |-> <<>>]

Exited == NewFile(Program, <<>>, FALSE)   \* nothing outlives a run

Init == /\ phase = "idle"
        /\ c = Exited
        /\ l = NoLink
        /\ objects = [u \in Units |-> NoObject]
        /\ builds = 0 /\ work = 0

-----------------------------------------------------------------------------
(* Reading a file.                                                          *)

Working == work < MaxWork /\ work' = work + 1

(* The header, and the uses clause with it: which units, and Files or not.  *)
Start(f, us, files) ==
  /\ builds < Len(Plan) /\ f = Plan[builds + 1]
  /\ IF files THEN Working ELSE UNCHANGED work
  /\ f \notin Range(us) /\ Range(us) \subseteq Compiled
  /\ Len(ExternsOf(us)) <= MaxFuncs
  /\ phase' = "compile"
  /\ c' = NewFile(f, us, files)
  /\ builds' = builds + 1
  /\ UNCHANGED <<l, objects>>

(* A program's command line names objects, in any order, used or not. *)
StartProgram(as, us, files) ==
  /\ builds < Len(Plan) /\ Plan[builds + 1] = Program
  /\ IF files THEN Working ELSE UNCHANGED work
  /\ Range(us) \subseteq Range(as) /\ Range(as) \subseteq Compiled
  /\ Len(ExternsOf(us)) <= MaxFuncs
  /\ phase' = "compile"
  /\ c' = NewFile(Program, us, files)
  /\ l' = [NoLink EXCEPT !.args = as, !.linked = Range(us)]
  /\ builds' = builds + 1
  /\ UNCHANGED objects

Reading == phase = "compile" /\ UNCHANGED <<phase, l, objects, builds>>

Declaring == Reading /\ c.start = <<>>
HasRoom == Len(c.funcs) < MaxFuncs

AddImport(h) == IF Contains(c.imports, h) THEN c.imports ELSE Append(c.imports, h)

External(h) ==
  /\ Declaring /\ Working /\ c.open = <<>> /\ HasRoom
  /\ Settled \/ "lateImports" \in Constructs
  /\ \A i \in Own(c) : c.funcs[i].name # h
  /\ c' = [c EXCEPT !.imports = AddImport(h),
             !.funcs = Append(@,
                [unit |-> c.unit, name |-> h, sig |-> "host", mark |-> "host",
                 index |-> CHOOSE k \in 0 .. Len(AddImport(h)) - 1 :
                             AddImport(h)[k + 1] = h,
                 level |-> 0, iface |-> FALSE, code |-> <<>>])]

(* A heading that takes the next slot: forward, or in an interface section, *)
(* or with its body right behind it.                                        *)
Heading(r, sig, mark, iface) ==
  [c EXCEPT !.slots = @ + 1,
     !.funcs = Append(@,
        [unit |-> c.unit, name |-> r, sig |-> sig, mark |-> mark,
         index |-> Len(c.imports) + c.slots, level |-> Len(c.open),
         iface |-> iface, code |-> <<>>])]

(* Names are numbers; which names a first version has makes no difference,  *)
(* so it counts up, and only a file compiled again chooses.                 *)
Fresh(r) == /\ c.unit \in Compiled \/ r = 1 + c.slots - HelperSlots
            /\ \A i \in Own(c) : c.funcs[i].name # r
            /\ HasRoom /\ Working

InInterface == c.unit \in Units /\ \A i \in Own(c) : c.funcs[i].mark # "body"

Declare(r, sig) ==
  /\ Declaring /\ c.open = <<>> /\ Fresh(r)
  /\ c.unit \in Units => InInterface
  /\ c' = Heading(r, sig, "forward", InInterface)

Define(r, sig) ==
  /\ Declaring /\ Len(c.open) < MaxNest /\ Fresh(r)
  /\ LET s == Heading(r, sig, "body", FALSE)
     IN c' = [s EXCEPT !.open = Append(@, Len(s.funcs))]

DefineForward(i) ==
  /\ Declaring /\ c.open = <<>>
  /\ i \in Own(c) /\ c.funcs[i].mark = "forward"
  /\ UNCHANGED work
  /\ c' = [c EXCEPT !.funcs[i].mark = "body", !.open = <<i>>]

EndBody ==
  /\ Declaring /\ c.open # <<>>
  /\ c' = [c EXCEPT !.open = Front(@)]
  /\ UNCHANGED work

-----------------------------------------------------------------------------
(* Code.  A site goes to the body that is read, or to the statement part.   *)

(* Mutant of AddReloc: the function counter, not the routine compiled. *)
AddRelocLast(s, kind, symbol) ==
  IF s.relocatable
  THEN Append(s.relocs, [kind |-> kind, in |-> Len(s.funcs),
                         at |-> Len(CodeOf(s, InBody(s))) + 1, symbol |-> symbol])
  ELSE s.relocs

AddReloc(s, kind, symbol) ==
  IF s.relocatable
  THEN Append(s.relocs, [kind |-> kind, in |-> InBody(s),
                         at |-> Len(CodeOf(s, InBody(s))) + 1, symbol |-> symbol])
  ELSE s.relocs

Emit(s, kind, symbol, site) ==
  LET i == InBody(s)
      t == [s EXCEPT !.relocs = AddReloc(s, kind, symbol)]
  IN IF i = 0 THEN [t EXCEPT !.start = Append(@, site)]
              ELSE [t EXCEPT !.funcs[i].code = Append(@, site)]

EmitCall(s, index, means, sig) ==
  LET extern == index >= ExternFuncBase
  IN Emit(s, IF extern THEN "extern" ELSE "func",
             IF extern THEN index - ExternFuncBase ELSE index,
          [kind |-> "func", value |-> index, means |-> means, sig |-> sig])

Writing == /\ Reading /\ Working
           /\ c.unit = Program \/ c.open # <<>>

(* A nested routine is known until the end of the one around it. *)
Visible(i) == \A n \in 1 .. c.funcs[i].level :
                n <= Len(c.open) /\ i > c.open[n]

Call(i) ==
  /\ Writing /\ Visible(i)
  /\ LET g == c.funcs[i]
     IN c' = EmitCall(c, g.index,
                      IF g.mark = "host" THEN <<"host", g.name>>
                                         ELSE <<g.unit, g.name>>, g.sig)

CallHelper(k) ==
  /\ Writing
  /\ c' = EmitCall(c, Len(c.imports) + k, <<"helper", k>>, "helper")

(* ProcRefIndex: slots count from 1, and a routine gets one slot. *)
ProcRefIndex(s, index) ==
  IF Contains(s.table, index)
  THEN [table |-> s.table, slot |-> SelectInSeq(s.table, LAMBDA v : v = index)]
  ELSE [table |-> Append(s.table, index), slot |-> Len(s.table) + 1]

TakeAddress(i) ==
  /\ Writing /\ c.funcs[i].level = 0
  /\ c.funcs[i].mark \in {"forward", "body"} \/ "addressElsewhere" \in Constructs
  /\ LET g == c.funcs[i]
         ref == ProcRefIndex(c, g.index)
     IN c' = Emit([c EXCEPT !.table = ref.table], "table", ref.slot,
                  [kind |-> "slot", value |-> ref.slot,
                   means |-> <<g.unit, g.name>>, sig |-> g.sig])

(* AllocData and AllocDataAligned: n bytes, at a multiple of align. *)
Zeros(s, align) == (0 - DataPos(s)) % align

Literal(n, align) ==
  /\ Writing
  /\ LET addr == DataPos(c) + Zeros(c, align)
         bytes == [k \in 1 .. Zeros(c, align) + n |->
                     <<c.unit, DataPos(c) + k - 1>>]
     IN c' = Emit([c EXCEPT !.data = @ \o bytes], "data", addr,
                  [kind |-> "data", value |-> addr,
                   means |-> <<c.unit, addr>>, sig |-> "data"])

-----------------------------------------------------------------------------
(* The end of a unit: its object.  Only routines with a body are written,   *)
(* so exports and relocations name bodies by their number among those.      *)

HasBody(g) == g.mark = "body"
Bodied == {i \in DOMAIN c.funcs : HasBody(c.funcs[i])}
BodyOrd(i) == IF i \in Bodied THEN Ordinal(Bodied, i) ELSE -1

AllDefined == \A i \in Own(c) : c.funcs[i].mark # "forward"
Finished == /\ phase = "compile" /\ c.open = <<>>
            /\ AllDefined \/ "undefinedForward" \in Constructs

Exported == Pick([i \in DOMAIN c.funcs |-> i], {i \in Own(c) : c.funcs[i].iface})

WriteObject ==
  /\ Finished /\ c.unit \in Units
  /\ objects' = [objects EXCEPT ![c.unit] =
       [imports |-> c.imports,
        exports |-> [k \in DOMAIN Exported |->
                       [name |-> c.funcs[Exported[k]].name,
                        sig |-> c.funcs[Exported[k]].sig,
                        body |-> BodyOrd(Exported[k])]],
        bodies |-> Pick(c.funcs, Bodied),
        data |-> c.data, table |-> c.table,
        externs |-> [k \in DOMAIN c.externs |->
                       [unit |-> c.externs[k].unit, name |-> c.externs[k].name]],
        relocs |-> [k \in DOMAIN c.relocs |->
                      [c.relocs[k] EXCEPT !.in = BodyOrd(@)]]]]
  /\ phase' = "idle" /\ c' = Exited
  /\ UNCHANGED <<l, builds, work>>

-----------------------------------------------------------------------------
(* The end of a program: the linker.                                        *)

SameImports == \A u \in Range(l.args) : Len(objects[u].imports) >= Len(c.imports)

BeginLink ==
  /\ Finished /\ c.unit = Program
  /\ SameImports \/ "ownImports" \in Constructs
  /\ phase' = "link"
  /\ UNCHANGED <<c, l, objects, builds, work>>

Waiting == {k \in DOMAIN l.args : l.args[k] \in l.linked \ Range(l.placed)}

(* Mutant of FuncBase: adds the helper slots a second time. *)
FuncBaseTwice == Len(c.imports) + HelperSlots + c.slots

FuncBase == Len(c.imports) + c.slots
Rebased(index) == FuncBase + (index - FirstUser(c))

(* Mutant of DataPadding: data goes where the last object's ended. *)
NoPadding == <<>>

(* The bytes that bring the end of the data to a multiple of 4. *)
DataPadding == [k \in 1 .. Zeros(c, 4) |-> <<"padding", 0>>]

(* Mutant of Relocated: a table slot is a number like any other. *)
RelocatedNoSlot(kind, symbol) ==
  CASE kind = "func"   -> Rebased(symbol)
    [] kind = "data"   -> DataPos(c) + Len(DataPadding) + symbol - 4
    [] kind \in {"table", "extern"} -> symbol

(* What a relocation of object u writes; for an extern, which one it is. *)
Relocated(kind, symbol) ==
  CASE kind = "func"   -> Rebased(symbol)
    [] kind = "data"   -> DataPos(c) + Len(DataPadding) + symbol - 4
    [] kind = "table"  -> Len(c.table) + symbol
    [] kind = "extern" -> symbol

NotShared(r) == ~(r.kind = "func" /\ r.symbol < FirstUser(c))

Place(u) ==
  LET o == objects[u]
      moved == Pick(o.relocs, {k \in DOMAIN o.relocs : NotShared(o.relocs[k])})
  IN
  /\ l' = [l EXCEPT
       !.placed = Append(@, u),
       !.base[u] = FuncBase,
       !.externs[u] = o.externs,
       !.syms = @ \o [k \in DOMAIN o.exports |->
                        [unit |-> u, name |-> o.exports[k].name,
                         index |-> FuncBase + o.exports[k].body]],
       !.relocs = @ \o [k \in DOMAIN moved |->
                          [kind |-> moved[k].kind, obj |-> u,
                           in |-> Len(c.funcs) + moved[k].in + 1,
                           at |-> moved[k].at,
                           value |-> Relocated(moved[k].kind, moved[k].symbol)]]]
  /\ c' = [c EXCEPT
       !.funcs = @ \o [k \in DOMAIN o.bodies |->
                         [o.bodies[k] EXCEPT !.index = FuncBase + k - 1]],
       !.slots = @ + Len(o.bodies),
       !.data = @ \o DataPadding \o o.data,
       !.table = @ \o [k \in DOMAIN o.table |-> Rebased(o.table[k])]]

(* "needs host import", "too many functions after linking" *)
LinkObject ==
  /\ phase = "link" /\ Waiting # {}
  /\ LET u == l.args[Min(Waiting)]
     IN IF /\ IsPrefix(objects[u].imports, c.imports)
           /\ Len(c.funcs) + Len(objects[u].bodies) <= MaxFuncs
        THEN Place(u) /\ UNCHANGED phase
        ELSE phase' = "error" /\ UNCHANGED <<c, l>>
  /\ UNCHANGED <<objects, builds, work>>

(* Mutants of Needed: only what the program uses is linked; a unit that is   *)
(* linked already counts as progress.                                       *)
NeededNone == {}
NeededAgain == {u \in Range(l.args) :
                  \E v \in Range(l.placed) :
                    \E k \in DOMAIN l.externs[v] : l.externs[v][k].unit = u}

(* The units that placed objects call into and no pass has linked yet. *)
Needed == {u \in Range(l.args) \ l.linked :
             \E v \in Range(l.placed) :
               \E k \in DOMAIN l.externs[v] : l.externs[v][k].unit = u}

LinkNeeded ==
  /\ phase = "link" /\ Waiting = {}
  /\ IF Needed # {}
     THEN l' = [l EXCEPT !.linked = @ \cup Needed] /\ UNCHANGED phase
     ELSE phase' = "patch" /\ UNCHANGED l
  /\ UNCHANGED <<c, objects, builds, work>>

Extern(r) == l.externs[r.obj][r.value + 1]
(* Mutant of SymsOf: resolved against what the program has in scope. *)
SymsOfProgram(r) == {k \in DOMAIN l.syms : /\ l.syms[k].unit = Extern(r).unit
                                           /\ l.syms[k].name = Extern(r).name
                                           /\ l.syms[k].unit \in Range(c.uses)}

SymsOf(r) == {k \in DOMAIN l.syms : /\ l.syms[k].unit = Extern(r).unit
                                    /\ l.syms[k].name = Extern(r).name}
Resolves(r) == r.kind = "extern" => SymsOf(r) # {}
FinalValue(r) == IF r.kind = "extern"
                 THEN l.syms[CHOOSE k \in SymsOf(r) :
                               \A j \in SymsOf(r) : k <= j].index
                 ELSE r.value

PatchPadded(s, i, at, value) ==
  IF i = 0 THEN [s EXCEPT !.start[at].value = value]
           ELSE [s EXCEPT !.funcs[i].code[at].value = value]

ApplyLinkRelocations(s) ==
  LET patched[k \in 0 .. Len(l.relocs)] ==
        IF k = 0 THEN s
        ELSE LET r == l.relocs[k]
             IN PatchPadded(patched[k - 1], r.in, r.at, FinalValue(r))
  IN patched[Len(l.relocs)]

(* The program's own calls into units. *)
ImportedIndex(r) == LET e == c.externs[r.symbol + 1]
                    IN l.base[e.unit] + e.body

PatchProgram(s) ==
  LET patched[k \in 0 .. Len(c.relocs)] ==
        IF k = 0 THEN s
        ELSE LET r == c.relocs[k]
             IN IF r.kind = "extern"
                THEN PatchPadded(patched[k - 1], r.in, r.at, ImportedIndex(r))
                ELSE patched[k - 1]
  IN patched[Len(c.relocs)]

Patch ==
  /\ phase = "patch"
  /\ IF \A k \in DOMAIN l.relocs : Resolves(l.relocs[k])
     THEN phase' = "done" /\ c' = PatchProgram(ApplyLinkRelocations(c))
     ELSE phase' = "error" /\ UNCHANGED c
  /\ UNCHANGED <<l, objects, builds, work>>

-----------------------------------------------------------------------------
Begin ==
  /\ phase = "idle"
  /\ \E files \in BOOLEAN :
       \/ \E f \in Units, us \in SetToAllKPermutations(Compiled) : Start(f, us, files)
       \/ \E as \in SetToAllKPermutations(Compiled) :
            \E us \in SetToAllKPermutations(Range(as)) : StartProgram(as, us, files)

Compile ==
  \/ \E h \in Hosts : External(h)
  \/ \E r \in Routines, sig \in Sigs : Declare(r, sig)
  \/ \E r \in Routines, sig \in Sigs : Define(r, sig)
  \/ \E i \in DOMAIN c.funcs : DefineForward(i)
  \/ EndBody
  \/ \E i \in DOMAIN c.funcs : Call(i)
  \/ \E k \in 1 .. HelperSlots - 1 : CallHelper(k)
  \/ \E i \in DOMAIN c.funcs : TakeAddress(i)
  \/ \E n \in DataSizes, align \in Aligns : Literal(n, align)
  \/ WriteObject

Link == LinkObject \/ LinkNeeded \/ Patch

Next == Begin \/ Compile \/ BeginLink \/ Link

(* Once begun, linking is one sequential loop that nothing waits in. *)
Spec == Init /\ [][Next]_vars /\ WF_vars(Link)

-----------------------------------------------------------------------------
(* The finished module, and what its numbers name.                          *)

InModule == Pick(c.funcs, {i \in DOMAIN c.funcs : c.funcs[i].mark \in {"forward", "body"}})

RoutineAt(i) == IF i - FirstUser(c) + 1 \in DOMAIN InModule
                THEN InModule[i - FirstUser(c) + 1]
                ELSE [unit |-> "none", name |-> i, sig |-> "none"]

FunctionAt(i) ==
  IF i < Len(c.imports) THEN <<"host", c.imports[i + 1]>>
  ELSE IF i < FirstUser(c) THEN <<"helper", i - Len(c.imports)>>
  ELSE <<RoutineAt(i).unit, RoutineAt(i).name>>

Bodies == {0} \cup Bodied
Sites(kind) == UNION {{s \in Range(CodeOf(c, i)) : s.kind = kind} : i \in Bodies}

-----------------------------------------------------------------------------
(* Type correctness: slots, indices and addresses stay within what they     *)
(* count, and a relocation names a site there is.                           *)
SlotInUse(n) == n \in 1 .. Len(c.table)
IndexInUse(n) == n < ExternFuncBase /\ n < Len(c.imports) + c.slots

TypeOK ==
  /\ phase \in {"idle", "compile", "link", "patch", "done", "error"}
  /\ c.slots = HelperSlots + Len(InModule)
  /\ \A s \in Sites("slot") : phase # "done" => s.value \in Nat \ {0}
  /\ \A k \in DOMAIN c.table : IndexInUse(c.table[k])
  /\ phase # "done" => \A r \in Range(c.relocs) : r.at \in DOMAIN CodeOf(c, r.in)
  /\ \A r \in Range(l.relocs) :
       /\ r.at \in DOMAIN c.funcs[r.in].code
       /\ c.funcs[r.in].code[r.at].kind =
            CASE r.kind \in {"func", "extern"} -> "func"
              [] r.kind = "data" -> "data"
              [] r.kind = "table" -> "slot"

(* Every call in a finished module, in the program or in any object it was  *)
(* linked with, reaches the routine, the helper or the host function that   *)
(* the source names.                                                        *)
CallsLand == phase = "done" => \A s \in Sites("func") : FunctionAt(s.value) = s.means

(* Every address in its code is where the bytes meant are, and as aligned   *)
(* as it was in the file that was compiled.                                 *)
AddressesLand ==
  phase = "done" => \A s \in Sites("data") :
    /\ s.value - 3 \in DOMAIN c.data
    /\ c.data[s.value - 3] = s.means
    /\ s.value % 4 = s.means[2] % 4

(* Every procedural value is the slot of the routine whose address it is.   *)
SlotsLand ==
  phase = "done" => \A s \in Sites("slot") :
    SlotInUse(s.value) /\ FunctionAt(c.table[s.value]) = s.means

(* Every number in a finished module means what the source meant.           *)
NumbersLand == TypeOK /\ CallsLand /\ AddressesLand /\ SlotsLand

(* A routine is called under the heading its caller was compiled with, also *)
(* when its unit was compiled again since.                                  *)
HeadingsAgree ==
  phase = "done" => \A s \in Sites("func") :
    s.value >= FirstUser(c) => RoutineAt(s.value).sig = s.sig

(* Exactly the objects the program needs are in the module, each once:      *)
(* those it uses, and those that these use, and so on.                      *)
UsesOf(us) == us \cup {u \in Range(l.args) :
                         \E v \in us : \E e \in Range(objects[v].externs) : e.unit = u}
Reached[n \in 0 .. Cardinality(Units)] ==
  IF n = 0 THEN Range(c.uses) ELSE UsesOf(Reached[n - 1])

PlacedAsNeeded ==
  phase \in {"patch", "done"} =>
    /\ Range(l.placed) = Reached[Cardinality(Units)]
    /\ Len(l.placed) = Cardinality(Range(l.placed))

(* A link fails only for a reason a reader of the files would give: a unit  *)
(* in it has a host function the program has not, or calls a routine that   *)
(* none of the objects given exports, or there is no room for its routines. *)
ErrorsJust ==
  phase = "error" => \E u \in Reached[Cardinality(Units)] :
    \/ ~ IsPrefix(objects[u].imports, c.imports)
    \/ Len(c.funcs) + Len(objects[u].bodies) > MaxFuncs
    \/ \E g \in Range(objects[u].bodies) : \E s \in Range(g.code) :
         /\ s.kind = "func" /\ s.means[1] \in Units \ {u}
         /\ \/ s.means[1] \notin Range(l.args)
            \/ \A e \in Range(objects[s.means[1]].exports) : e.name # s.means[2]

(* What is linked, and what is refused, follows from the files alone.       *)
ObjectsJust == PlacedAsNeeded /\ ErrorsJust

(* Linking ends, also when units use each other in a circle. *)
LinkEnds == phase = "link" ~> phase \in {"done", "error"}

=============================================================================
