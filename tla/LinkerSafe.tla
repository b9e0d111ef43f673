------------------------------ MODULE LinkerSafe ------------------------------
(***************************************************************************)
(* Why every number in a linked module means what the source meant: the    *)
(* invariant that LinkerProofs proves inductive, for files that leave out  *)
(* the Constructs.                                                         *)
(*                                                                         *)
(* A file while it is compiled, an object and a program while it is linked *)
(* are the same kind of thing: imports, routines that are numbered, data   *)
(* and a table.  A number lands in it if what it names there is what is    *)
(* meant, and goes on doing so while the thing grows.                      *)
(***************************************************************************)
EXTENDS Linker

Files == Units \cup {Program}
Names == Routines \cup Hosts
Words == {"host", "helper", "padding"} \cup Files \cup Names \cup Nat
Meanings == Words \X Words
Headings == Sigs \cup {"host", "helper", "data"}
Imported == Hosts \cup {"fd_write", "path_open"}
Marks == {"host", "extern", "forward", "body"}

SiteSet == [kind : {"func", "data", "slot"}, value : Nat, means : Meanings, sig : Headings]
FuncSet == [unit : Files, name : Names, sig : Headings, mark : Marks, index : Nat,
            level : Nat, iface : BOOLEAN, code : Seq(SiteSet)]
RelocSet == [kind : {"func", "extern", "data", "table"}, in : Int, at : Nat, symbol : Nat]
ExternSet == [unit : Units, name : Names, sig : Headings, body : Nat]
FileSet ==
  [unit : Files, uses : Seq(Units), imports : Seq(Imported), funcs : Seq(FuncSet),
   externs : Seq(ExternSet), slots : Nat, open : Seq(Nat), start : Seq(SiteSet),
   data : Seq(Meanings), table : Seq(Nat), relocs : Seq(RelocSet), relocatable : BOOLEAN]
ExportSet == [name : Names, sig : Headings, body : Nat]
SymbolSet == [unit : Units, name : Names]
ObjectSet ==
  [imports : Seq(Imported), exports : Seq(ExportSet), bodies : Seq(FuncSet),
   data : Seq(Meanings), table : Seq(Nat), externs : Seq(SymbolSet), relocs : Seq(RelocSet)]
MoveSet ==
  [kind : {"func", "extern", "data", "table"}, obj : Units, in : Nat, at : Nat, value : Nat]
LinkSet ==
  [args : Seq(Units), linked : SUBSET Units, placed : Seq(Units), base : [Units -> Nat],
   externs : [Units -> Seq(SymbolSet)],
   syms : Seq([unit : Units, name : Names, index : Nat]), relocs : Seq(MoveSet)]

-----------------------------------------------------------------------------
(* Routines are numbered in the order of their headings.                    *)
InMod(fs) == {i \in DOMAIN fs : fs[i].mark \in {"forward", "body"}}

Numbered(s) ==
  /\ s.slots = HelperSlots + Cardinality(InMod(s.funcs))
  /\ \A i \in InMod(s.funcs) :
       s.funcs[i].index = FirstUser(s) + Ordinal(InMod(s.funcs), i)

WithinLimits(s) == Len(s.funcs) <= MaxFuncs /\ Len(s.imports) <= 2 + Len(s.funcs)

(* Where a number of the kind lands that means m.                           *)
Routine(fs, v, m) ==
  \E g \in InMod(fs) : fs[g].index = v /\ m = <<fs[g].unit, fs[g].name>>

FuncLands(s, v, m) ==
  /\ v < ExternFuncBase
  /\ \/ v < Len(s.imports) /\ m = <<"host", s.imports[v + 1]>>
     \/ v - Len(s.imports) \in 1 .. HelperSlots - 1 /\ m = <<"helper", v - Len(s.imports)>>
     \/ Routine(s.funcs, v, m)

DataLands(s, v, m) ==
  v - 3 \in DOMAIN s.data /\ s.data[v - 3] = m /\ v % 4 = m[2] % 4

SlotLands(s, v, m) == v \in DOMAIN s.table /\ Routine(s.funcs, s.table[v], m)

Lands(s, kind, v, m) ==
  CASE kind = "func" -> FuncLands(s, v, m)
    [] kind = "data" -> DataLands(s, v, m)
    [] kind = "slot" -> SlotLands(s, v, m)

TableFilled(s) ==
  \A k \in DOMAIN s.table : \E g \in InMod(s.funcs) : s.funcs[g].index = s.table[k]

(* A call of a routine that another file defines has only its place in the  *)
(* list of these, es.                                                       *)
Unresolved(site) == site.kind = "func" /\ site.value >= ExternFuncBase
ExternMeans(es, v, m) == v \in DOMAIN es /\ m = <<es[v].unit, es[v].name>>

SiteRight(s, es, site) ==
  IF Unresolved(site) THEN ExternMeans(es, site.value - ExternFuncBase + 1, site.means)
  ELSE Lands(s, site.kind, site.value, site.means)

(* What the linker is told of a site.                                       *)
RelocFor(r, site) ==
  /\ r.kind = IF Unresolved(site) THEN "extern"
              ELSE IF site.kind = "slot" THEN "table" ELSE site.kind
  /\ r.symbol = IF Unresolved(site) THEN site.value - ExternFuncBase ELSE site.value

-----------------------------------------------------------------------------
(* A file that is compiled.                                                 *)
Within(s) == {0} \cup {i \in DOMAIN s.funcs : s.funcs[i].mark = "body"}

FuncRight(s, i) ==
  LET g == s.funcs[i]
  IN /\ g.mark = "host" => /\ g.index < Len(s.imports) /\ s.imports[g.index + 1] = g.name
                           /\ g.unit = s.unit
     /\ g.mark = "extern" =>
          /\ g.index >= ExternFuncBase
          /\ ExternMeans(s.externs, g.index - ExternFuncBase + 1, <<g.unit, g.name>>)
     /\ i \in InMod(s.funcs) => g.unit = s.unit
     /\ g.iface => i \in InMod(s.funcs)
     /\ g.code # <<>> => g.mark = "body"

(* An extern is an export of the object its unit has now.                   *)
ExternRight(s, e) ==
  /\ e.unit # s.unit /\ e.unit \in Range(s.uses) /\ objects[e.unit] # NoObject
  /\ \E m \in DOMAIN objects[e.unit].exports :
       /\ objects[e.unit].exports[m].name = e.name
       /\ objects[e.unit].exports[m].body = e.body

SitesRight(s) ==
  \A i \in Within(s) : \A p \in DOMAIN CodeOf(s, i) : SiteRight(s, s.externs, CodeOf(s, i)[p])

Recorded(s) ==
  /\ \A k \in DOMAIN s.relocs :
       LET r == s.relocs[k]
       IN r.in \in Within(s) /\ r.at \in DOMAIN CodeOf(s, r.in)
          /\ RelocFor(r, CodeOf(s, r.in)[r.at])
  /\ \A i \in Within(s) : \A p \in DOMAIN CodeOf(s, i) :
       s.relocatable \/ Unresolved(CodeOf(s, i)[p]) =>
         \E k \in DOMAIN s.relocs : s.relocs[k].in = i /\ s.relocs[k].at = p

FileOK(s) ==
  /\ s \in FileSet
  /\ Numbered(s) /\ WithinLimits(s) /\ TableFilled(s)
  /\ \A i \in DOMAIN s.funcs : FuncRight(s, i)
  /\ \A n \in DOMAIN s.open : s.open[n] \in Within(s) \ {0}
  /\ SitesRight(s) /\ Recorded(s)
  /\ s.relocatable \/ s.externs = <<>>
  /\ s.unit \in Units => s.relocatable /\ s.start = <<>>
  /\ \A k \in DOMAIN s.externs : ExternRight(s, s.externs[k])

-----------------------------------------------------------------------------
(* An object.                                                               *)
AsFile(o) == [imports |-> o.imports, funcs |-> o.bodies, data |-> o.data, table |-> o.table]

ObjectOK(u, o) ==
  /\ o \in ObjectSet
  /\ \A j \in DOMAIN o.bodies :
       /\ o.bodies[j].unit = u /\ o.bodies[j].mark = "body"
       /\ o.bodies[j].index = FirstUser(o) + j - 1
       /\ \A p \in DOMAIN o.bodies[j].code :
            /\ SiteRight(AsFile(o), o.externs, o.bodies[j].code[p])
            /\ \E k \in DOMAIN o.relocs : o.relocs[k].in = j - 1 /\ o.relocs[k].at = p
  /\ TableFilled(AsFile(o))
  /\ \A k \in DOMAIN o.relocs :
       LET r == o.relocs[k]
       IN /\ r.in + 1 \in DOMAIN o.bodies /\ r.at \in DOMAIN o.bodies[r.in + 1].code
          /\ RelocFor(r, o.bodies[r.in + 1].code[r.at])
  /\ \A k \in DOMAIN o.exports :
       /\ o.exports[k].body + 1 \in DOMAIN o.bodies
       /\ o.bodies[o.exports[k].body + 1].name = o.exports[k].name
  /\ \A k \in DOMAIN o.externs : o.externs[k].unit # u

ObjectsRight ==
  /\ DOMAIN objects = Units
  /\ \A u \in Units : objects[u] = NoObject \/ ObjectOK(u, objects[u])

-----------------------------------------------------------------------------
(* A program s that is linked, with what the linker keeps, m.               *)
OwnPlaces(s) == {i \in Within(s) : i = 0 \/ s.funcs[i].unit = Program}
PlacedFuncs(s) == {i \in Within(s) \ {0} : s.funcs[i].unit \in Units}

OwnRight(s) ==
  /\ \A i \in OwnPlaces(s) : \A p \in DOMAIN CodeOf(s, i) :
       /\ SiteRight(s, s.externs, CodeOf(s, i)[p])
       /\ Unresolved(CodeOf(s, i)[p]) =>
            \E k \in DOMAIN s.relocs : s.relocs[k].in = i /\ s.relocs[k].at = p
  /\ \A k \in DOMAIN s.relocs :
       LET r == s.relocs[k]
       IN r.in \in OwnPlaces(s) /\ r.at \in DOMAIN CodeOf(s, r.in)
          /\ RelocFor(r, CodeOf(s, r.in)[r.at])

(* What the linker is going to write at a site it moved.                    *)
MoveRight(s, m, r, site) ==
  IF r.kind = "extern"
  THEN site.kind = "func" /\ ExternMeans(m.externs[r.obj], r.value + 1, site.means)
  ELSE /\ site.kind = IF r.kind = "table" THEN "slot" ELSE r.kind
       /\ Lands(s, site.kind, r.value, site.means)

PlacedRight(s, m) ==
  /\ \A i \in PlacedFuncs(s) :
       LET g == s.funcs[i]
       IN /\ g.unit \in Range(m.placed)
          /\ \E j \in DOMAIN objects[g.unit].bodies : g.code = objects[g.unit].bodies[j].code
          /\ \A p \in DOMAIN g.code :
               \/ \E k \in DOMAIN m.relocs : m.relocs[k].in = i /\ m.relocs[k].at = p
               \/ Lands(s, g.code[p].kind, g.code[p].value, g.code[p].means)
  /\ \A k \in DOMAIN m.relocs :
       LET r == m.relocs[k]
       IN /\ r.in \in PlacedFuncs(s) /\ s.funcs[r.in].unit = r.obj
          /\ r.at \in DOMAIN s.funcs[r.in].code
          /\ MoveRight(s, m, r, s.funcs[r.in].code[r.at])

UnitsRight(s, m) ==
  /\ \A u \in Range(m.placed) :
       /\ m.externs[u] = objects[u].externs
       /\ \A j \in DOMAIN objects[u].bodies :
            Routine(s.funcs, m.base[u] + j - 1, <<u, objects[u].bodies[j].name>>)
       /\ \A k \in DOMAIN objects[u].exports :
            \E x \in DOMAIN m.syms :
              m.syms[x].unit = u /\ m.syms[x].name = objects[u].exports[k].name
  /\ \A x \in DOMAIN m.syms :
       Routine(s.funcs, m.syms[x].index, <<m.syms[x].unit, m.syms[x].name>>)
  /\ Range(m.placed) \subseteq m.linked /\ m.linked \subseteq Range(m.args)
  /\ \A j, k \in DOMAIN m.placed : m.placed[j] = m.placed[k] => j = k

GivenRight(s, m) ==
  /\ Range(s.uses) \subseteq m.linked
  /\ \A u \in Range(m.args) :
       objects[u] # NoObject /\ Len(objects[u].imports) >= Len(s.imports)

LinkOK(s, m) ==
  /\ s \in FileSet /\ m \in LinkSet /\ s.unit = Program
  /\ Numbered(s) /\ WithinLimits(s) /\ TableFilled(s)
  /\ \A i \in InMod(s.funcs) : s.funcs[i].mark = "body"
  /\ OwnRight(s) /\ PlacedRight(s, m) /\ UnitsRight(s, m) /\ GivenRight(s, m)
  /\ \A k \in DOMAIN s.externs : ExternRight(s, s.externs[k])

BeforeLink(s, m) ==
  IF s.unit = Program
  THEN \E args \in Seq(Units) :
         /\ m = [NoLink EXCEPT !.args = args, !.linked = Range(s.uses)]
         /\ Range(s.uses) \subseteq Range(args) /\ Range(args) \subseteq Compiled
  ELSE m = NoLink

OnlyNeeded == l.linked \subseteq Reached[Cardinality(Units)]

IInv ==
  /\ phase \in {"idle", "compile", "link", "patch", "done", "error"}
  /\ ObjectsRight
  /\ phase = "idle" => c = Exited /\ l = NoLink
  /\ phase = "compile" => FileOK(c) /\ BeforeLink(c, l)
  /\ phase \in {"link", "patch"} => LinkOK(c, l) /\ OnlyNeeded
  /\ phase = "patch" => Waiting = {} /\ Needed = {}
  /\ phase \in {"done", "error"} => NumbersLand /\ ObjectsJust
=============================================================================
