------------------------------ MODULE SourceFiles ------------------------------
(***************************************************************************)
(* The text both readers of a program work on: the Rust crate's            *)
(* expand_includes (include.rs) and the compiler's scanner (cpas.pas).  A  *)
(* text is a sequence of cells.  A cell's symbol "s" is what the two tell  *)
(* apart: a quote, an end of a comment, a blank, the word of a directive   *)
(* or any other word; "f" and "l" say the file and the line it stands in.  *)
(* Braces and the space are called lbrace, rbrace and blank.               *)
(***************************************************************************)
EXTENDS Naturals, Sequences, FiniteSets, SequencesExt

VARIABLE disk      \* the files a route may open: name -> text

Blanks == {"blank", "tab", "nl"}
\* A directive's word, and the name the compiler gives it (upper case).
DirectiveName ==
  [d \in {"$I", "$i", "$INCLUDE", "$include", "$Include", "$IFDEF", "$IFNDEF", "$ELSE", "$ENDIF", "$DEFINE", "$UNDEF"} |->
    CASE d \in {"$I", "$i"} -> "INCLUDE"
      [] d \in {"$INCLUDE", "$include", "$Include"} -> "INCLUDE"
      [] d = "$IFDEF" -> "IFDEF" [] d = "$IFNDEF" -> "IFNDEF"
      [] d = "$ELSE" -> "ELSE"   [] d = "$ENDIF" -> "ENDIF"
      [] d = "$DEFINE" -> "DEFINE" [] d = "$UNDEF" -> "UNDEF"]
\* Where a cell of S first stands in text, from p on; behind the end when
\* none does.  FirstNot: a cell that is not in S.
First(text, p, S) ==
  CHOOSE i \in p..(Len(text) + 1) : (i > Len(text) \/ text[i].s \in S) /\ \A j \in p..(i - 1) : text[j].s \notin S
FirstNot(text, p, S) ==
  CHOOSE i \in p..(Len(text) + 1) : (i > Len(text) \/ text[i].s \notin S) /\ \A j \in p..(i - 1) : text[j].s \in S
\* The quote that ends the string opened at p: two quotes together stand for
\* one and do not end it.  Behind the end when the string is never closed.
StringEnd(text, p) ==
  LET Quote(i) == i <= Len(text) /\ text[i].s = text[p].s
      Ends(i) == Quote(i) /\ ~Quote(i + 1) /\ Cardinality({j \in (p + 1)..i : Quote(j)}) % 2 = 1
  IN CHOOSE i \in (p + 1)..(Len(text) + 1) : (i > Len(text) \/ Ends(i)) /\ \A j \in (p + 1)..(i - 1) : ~Ends(j)
=============================================================================
