------------------------------- MODULE SourceText ------------------------------
(***************************************************************************)
(* The compiler's reading of its source: comments, strings, conditional    *)
(* compilation and, under -I, the includes it opens itself.  "rest" is     *)
(* what is still to be read, its head the character in "ch"; where an      *)
(* included file ends stands a mark with the line to go back to, so the    *)
(* marks in rest are the files that are open.                              *)
(***************************************************************************)
EXTENDS SourceFiles
CONSTANTS MaxIncludeDepth, MaxIfdefDepth
ASSUME LimitAssumption == MaxIncludeDepth \in Nat /\ MaxIfdefDepth \in Nat

VARIABLES rest, srcLine,
          optIncludes,   \* -I was given
          definedSyms,
          ifdefActive,   \* for every open conditional, whether its first branch was taken
          skipDepth,     \* conditionals open inside an inactive block
          tokens,        \* the cells handed to the parser
          status,        \* "scanning", "skipping", "end" or the error
          passedBy       \* an include stood in an inactive block (history)
scanVars == <<rest, srcLine, optIncludes, definedSyms, ifdefActive, skipDepth, tokens, status, passedBy>>

IsMark(c) == c.s = "EOF"
OpenNames == {rest[i].f : i \in {j \in DOMAIN rest : IsMark(rest[j])}}
IncDepth == Cardinality({j \in DOMAIN rest : IsMark(rest[j])})
\* srcLine after ReadCh has passed c: a newline counts when it is read, and
\* the end of an include brings back the line of the file that included it.
(* Mutant of PopInclude: the line of the included file is kept.             *)
PopIncludeKeeps(line, c) == line
PopInclude(line, c) == c.l
ReadCell(line, c) == IF IsMark(c) THEN PopInclude(line, c) ELSE IF c.s = "nl" THEN line + 1 ELSE line
\* The line after a number of cells.
LineAfter(line, cells) ==
  LET at[i \in 0..Len(cells)] == IF i = 0 THEN line ELSE ReadCell(at[i - 1], cells[i])
  IN at[Len(cells)]
\* The text whose head is ch once ReadCh has stepped over ended files.
Unmarked(text) == SubSeq(text, FirstNot(text, 1, {"EOF"}), Len(text))
\* k calls of ReadCh.  The head was counted when it was read itself.
ReadCh(k) ==
  \E tail \in {Unmarked(SubSeq(rest, k + 1, Len(rest)))} :
    /\ rest' = tail
    /\ srcLine' = LineAfter(srcLine, SubSeq(rest, 2, Len(rest) - Len(tail) + (IF tail = <<>> THEN 0 ELSE 1)))

ScanInit(text, includes) ==
  /\ rest = text
  /\ srcLine = IF text = <<>> THEN 1 ELSE ReadCell(1, Head(text))
  /\ optIncludes = includes
  /\ definedSyms = {} /\ ifdefActive = <<>> /\ skipDepth = 0
  /\ tokens = <<>> /\ status = "scanning" /\ passedBy = FALSE

Ch == Head(rest).s
Reading == status = "scanning" /\ rest # <<>>
Directive == IF Len(rest) > 1 /\ rest[2].s \in DOMAIN DirectiveName THEN DirectiveName[rest[2].s] ELSE "none"
Error(why) == status' = why /\ UNCHANGED <<rest, srcLine, optIncludes, definedSyms, ifdefActive, skipDepth, tokens, passedBy>>
Keep == UNCHANGED <<optIncludes, passedBy>>
Skip(e) == ReadCh(e) /\ UNCHANGED <<optIncludes, definedSyms, ifdefActive, skipDepth, tokens, status, passedBy>>
\* Read through the first cell of S, or report the comment unterminated.
Through(S) == \E e \in {First(rest, 2, S)} : IF e > Len(rest) THEN Error("unterminated") ELSE Skip(e)
To(S) == LET e == First(rest, 2, S) IN IF e > Len(rest) THEN Len(rest) ELSE e
\* The closing brace of the directive, and the word that follows its name.
Close == First(rest, 2, {"rbrace"})
Word == LET p == FirstNot(rest, 3, Blanks) IN IF p > Len(rest) \/ rest[p].s = "rbrace" THEN "none" ELSE rest[p].s
\* ... or the brace that must stand right behind the name.
Closed == Len(rest) > 2 /\ rest[3].s = "rbrace"

Whitespace == Reading /\ Ch \in Blanks /\ Skip(1)
BraceComment == Reading /\ Ch = "lbrace" /\ Directive = "none" /\ Through({"rbrace"})
ParenComment == Reading /\ Ch = "(*" /\ Through({"*)"})
LineComment ==
  /\ Reading /\ Ch = "//"
  /\ \E e \in {First(rest, 2, {"nl"})} : Skip(e - 1)
Cells(k) ==
  LET read[i \in 0..k] ==
        IF i = 0 THEN <<>> ELSE IF IsMark(rest[i]) THEN read[i - 1] ELSE Append(read[i - 1], rest[i])
  IN read[k]
Deliver(k) ==
  /\ ReadCh(k) /\ tokens' = tokens \o Cells(k)
  /\ UNCHANGED <<optIncludes, definedSyms, ifdefActive, skipDepth, status, passedBy>>
\* ScanString: the literal may run on over the end of an include.
StringToken ==
  /\ Reading /\ Ch = "'"
  /\ \E e \in {StringEnd(rest, 1)} : IF e > Len(rest) THEN Error("unterminated-string") ELSE Deliver(e)
Token == Reading /\ Ch \notin Blanks \cup {"lbrace", "(*", "//", "'"} /\ Deliver(1)

\* The first character of an included file, or of what follows when the
\* file is empty.
Enter(text) ==
  \E tail \in {Unmarked(text)} :
    /\ rest' = tail
    /\ srcLine' = LineAfter(1, SubSeq(text, 1, Len(text) - Len(tail) + (IF tail = <<>> THEN 0 ELSE 1)))
\* {$I 'name'}.  The name must be quoted.  Without -I the directive is
\* skipped; with it the rest of the directive is read from the file that is
\* left, and the next character comes from the new one.
Quoted(p) == p <= Len(rest) /\ rest[p].s = "'" /\ First(rest, p + 1, {"'"}) <= Len(rest)
OpenInclude ==
  /\ Reading /\ Ch = "lbrace" /\ Directive = "INCLUDE"
  /\ LET p == FirstNot(rest, 3, Blanks)
         z == First(rest, p + 1, {"'"})
         name == rest[p + 1].s
         close == First(rest, z + 1, {"rbrace"})
     IN IF ~Quoted(p) THEN Error("bad-directive")
        ELSE IF close > Len(rest) THEN Error("unterminated")
        ELSE IF ~optIncludes THEN Skip(close)
        ELSE IF IncDepth >= MaxIncludeDepth THEN Error("too-deep")
        ELSE IF name \in OpenNames THEN Error("cycle")
        ELSE IF name \notin DOMAIN disk THEN Error("not-found")
        ELSE \E mark \in {[s |-> "EOF", f |-> name, l |-> LineAfter(srcLine, SubSeq(rest, 2, close))]} :
             \E behind \in {disk[name] \o <<mark>> \o SubSeq(rest, close + 1, Len(rest))} :
               /\ Enter(behind)
               /\ UNCHANGED <<optIncludes, definedSyms, ifdefActive, skipDepth, tokens, status, passedBy>>

Define ==
  /\ Reading /\ Ch = "lbrace" /\ Directive \in {"DEFINE", "UNDEF"}
  /\ IF Word = "none" THEN Error("no-name")
     ELSE IF Close > Len(rest) THEN Error("unterminated")
     ELSE /\ definedSyms' = IF Directive = "DEFINE" THEN definedSyms \cup {Word} ELSE definedSyms \ {Word}
          /\ ReadCh(Close)
          /\ UNCHANGED <<optIncludes, ifdefActive, skipDepth, tokens, status, passedBy>>
\* A condition that fails leaves its first branch to SkipInactiveBlock.
IfDef ==
  /\ Reading /\ Ch = "lbrace" /\ Directive \in {"IFDEF", "IFNDEF"}
  /\ IF Len(ifdefActive) >= MaxIfdefDepth THEN Error("too-many-nested")
     ELSE LET condTrue == (Word \in definedSyms) <=> (Directive = "IFDEF")
          IN /\ ifdefActive' = Append(ifdefActive, condTrue)
             /\ ReadCh(To({"rbrace"}))
             /\ status' = IF condTrue THEN "scanning" ELSE "skipping"
             /\ skipDepth' = 0
             /\ Keep /\ UNCHANGED <<definedSyms, tokens>>
\* Reached in the text that is compiled: its first branch was taken, so the
\* other one is skipped; or this is a second {$ELSE}, which goes unnoticed.
Else ==
  /\ Reading /\ Ch = "lbrace" /\ Directive = "ELSE"
  /\ IF ifdefActive = <<>> THEN Error("else-without-ifdef")
     ELSE IF Last(ifdefActive)
       THEN /\ status' = "skipping" /\ skipDepth' = 0
            /\ ReadCh(To({"rbrace"}))
            /\ Keep /\ UNCHANGED <<definedSyms, ifdefActive, tokens>>
       ELSE IF Closed THEN Skip(3) ELSE Error("unterminated")
EndIf ==
  /\ Reading /\ Ch = "lbrace" /\ Directive = "ENDIF"
  /\ IF ifdefActive = <<>> THEN Error("endif-without-ifdef")
     ELSE IF ~Closed THEN Error("unterminated")
     ELSE /\ ifdefActive' = Front(ifdefActive)
          /\ ReadCh(3)
          /\ Keep /\ UNCHANGED <<definedSyms, skipDepth, tokens, status>>
EndOfSource == status = "scanning" /\ rest = <<>> /\ Error("end")

\* SkipInactiveBlock.  One step is one turn of its loop; it looks for an
\* {$ELSE} or an {$ENDIF} of its own level, through strings and comments.
Skipping == status = "skipping" /\ rest # <<>>
Pass(e) ==
  /\ ReadCh(e)
  /\ passedBy' = (passedBy \/ \E i \in 1..e : i < Len(rest) /\ rest[i].s = "lbrace"
                      /\ rest[i + 1].s \in {"$I", "$i", "$INCLUDE", "$include", "$Include"})
Conditional == Ch = "lbrace" /\ Directive \in {"IFDEF", "IFNDEF", "ELSE", "ENDIF"}
(* Mutant of EndsBlock: an {$ELSE} of a nested block is taken for its own.  *)
EndsBlockAnyElse == Conditional /\ (Directive = "ELSE" \/ (skipDepth = 0 /\ Directive = "ENDIF"))
EndsBlock == Conditional /\ skipDepth = 0 /\ Directive \in {"ELSE", "ENDIF"}
SkipText ==
  /\ Skipping /\ ~Conditional
  /\ Pass(CASE Ch = "lbrace" -> To({"rbrace"}) [] Ch = "(*" -> To({"*)"}) [] Ch = "'" -> To({"'"}) [] OTHER -> 1)
  /\ UNCHANGED <<optIncludes, definedSyms, ifdefActive, skipDepth, tokens, status>>
SkipNested ==
  /\ Skipping /\ Conditional /\ ~EndsBlock
  /\ skipDepth' = CASE Directive = "ENDIF" -> skipDepth - 1 [] Directive = "ELSE" -> skipDepth [] OTHER -> skipDepth + 1
  /\ Pass(To({"rbrace"}))
  /\ UNCHANGED <<optIncludes, definedSyms, ifdefActive, tokens, status>>
\* The end of the block.  After a first branch an {$ELSE} opens the second
\* one; after a second branch it is an error.
SkipEnds ==
  /\ Skipping /\ EndsBlock
  /\ IF Directive = "ELSE" /\ Last(ifdefActive) THEN Error("duplicate-else")
     ELSE /\ ReadCh(To({"rbrace"}))
          /\ ifdefActive' = IF Directive = "ELSE" THEN ifdefActive ELSE Front(ifdefActive)
          /\ status' = "scanning"
          /\ Keep /\ UNCHANGED <<definedSyms, skipDepth, tokens>>
(* Mutant of SkipUnterminated: the loop goes on at the end of the source.   *)
SkipUnterminatedNot == status = "skipping" /\ rest = <<>> /\ Pass(0) /\ UNCHANGED <<optIncludes, definedSyms, ifdefActive, skipDepth, tokens, status>>
SkipUnterminated == status = "skipping" /\ rest = <<>> /\ Error("unterminated-ifdef")

ScanNext ==
  \/ Whitespace \/ BraceComment \/ ParenComment \/ LineComment \/ StringToken \/ Token
  \/ OpenInclude \/ Define \/ IfDef \/ Else \/ EndIf \/ EndOfSource
  \/ SkipText \/ SkipNested \/ SkipEnds \/ SkipUnterminated
=============================================================================
