------------------------------ MODULE IncludeSafe ------------------------------
(***************************************************************************)
(* What holds of the two routes at every step: the inductive invariant     *)
(* from which TypeOK, PositionsTrue and ActiveText follow.                 *)
(***************************************************************************)
EXTENDS IncludeRoutes

(* The texts in hand are made of cells, and no file brings a mark of its    *)
(* own: only the compiler's stack of includes has them.                     *)
Unread(text) == text \in Seq(Cell) /\ \A i \in DOMAIN text : text[i].s \notin {"none", "EOF"}

FramesSafe ==
  /\ frames \in Seq([text : Seq(Cell), pos : Nat])
  /\ \A i \in DOMAIN frames : Unread(frames[i].text)
  /\ Unread(buffer)
  /\ outcome = "running" => frames # <<>>

ScanSafe ==
  /\ rest \in Seq(Cell)
  /\ ifdefActive \in Seq(BOOLEAN)
  /\ definedSyms \in SUBSET (Symbol \ {"none", "rbrace"})
  /\ tokens \in Seq(Cell)
  /\ status = "skipping" => ifdefActive # <<>>
  /\ phase = "expand" => rest = <<>>
  /\ phase \in {"compile", "direct"} => optIncludes = (phase = "direct")

TypeInv == disk \in Disks /\ TypeOK /\ FramesSafe /\ ScanSafe

(* With -I every cell still to be read stands on the line that reading the  *)
(* one before it leaves, and a mark holds the line to go back to.           *)
Laid(text) ==
  \A i \in 2..Len(text) : ~IsMark(text[i]) => text[i].l = ReadCell(text[i - 1].l, text[i - 1])
LinesInv ==
  phase = "direct" => Laid(rest) /\ (rest # <<>> => srcLine = ReadCell(Head(rest).l, Head(rest)))

(* Without -I the compiler stands somewhere in the text it was handed, and  *)
(* what the pass over the cells has found up to there is what the compiler  *)
(* knows: its symbols, what it gave the parser, and its conditionals.  Of   *)
(* each it keeps whether the first branch was taken, the pass whether this  *)
(* branch is on and whether it is the second.                               *)
Behind == Len(buffer) - Len(rest)
Agrees(m) ==
  LET k == Len(ifdefActive)
  IN /\ m.mode = "code" \/ (m.mode = "line" /\ status = "scanning" /\ Ch = "nl")
     /\ ~m.bad /\ m.out = tokens /\ m.syms = definedSyms
     /\ Len(m.conds) = IF status = "skipping" THEN k + skipDepth ELSE k
     /\ \A i \in 1..k : /\ m.conds[i].on <=> (i < k \/ status = "scanning")
                        /\ m.conds[i].on <=> (ifdefActive[i] <=> ~m.conds[i].elsed)
(* At the end a directive may be left unfinished.                           *)
AgreesAtEnd(m) ==
  IF status = "scanning" THEN ~m.bad /\ m.out = tokens ELSE m.conds # <<>> \/ m.mode # "code"
TextInv ==
  phase = "compile" =>
    /\ Behind \in 0..Len(buffer)
    /\ rest = SubSeq(buffer, Behind + 1, Len(buffer))
    /\ LET m == Meanings(buffer)[Behind]
       IN m.odd \/ Stopped \/ IF rest = <<>> THEN AgreesAtEnd(m) ELSE Agrees(m)
    /\ ActiveText

IInv == TypeInv /\ LinesInv /\ TextInv
=============================================================================
