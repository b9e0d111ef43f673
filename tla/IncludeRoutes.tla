----------------------------- MODULE IncludeRoutes -----------------------------
(***************************************************************************)
(* The two ways a program with includes reaches the parser, one after the  *)
(* other on the same files: expanded by the host and compiled without -I   *)
(* (compile_with_includes), and compiled with -I (Options::include_dir).   *)
(* The reference manual offers them as two ways to the same program.       *)
(***************************************************************************)
EXTENDS IncludeExpand, SourceText
CONSTANTS Disks,    \* the trees of files to try, each with a "main"
          Main
\* The cells of files, and marks.  A file's cells stand where they are found:
\* the first on line 1, the others on the line that was reached before them.
Symbol == STRING \cup {"EOF"}
Cell == [s : Symbol, f : Symbol, l : Nat \ {0}]
IsFile(text) ==
  /\ text \in Seq(Cell)
  /\ \A i \in DOMAIN text : text[i].s \notin {"none", "EOF"}
  /\ text # <<>> => text[1].l = 1
  /\ \A i \in 2..Len(text) : text[i].l = ReadCell(text[i - 1].l, text[i - 1])
ASSUME DisksAssumption == \A d \in Disks : Main \in DOMAIN d /\ \A n \in DOMAIN d : IsFile(d[n])

VARIABLES phase,    \* "expand", "compile", "direct", "finished"
          hosted    \* what the host's route gave the parser, and how it ended
vars == <<disk, expandVars, scanVars, phase, hosted>>

Init ==
  /\ disk \in Disks
  /\ phase = "expand" /\ hosted = [tokens |-> <<>>, status |-> "none"]
  /\ ExpandInit(disk[Main])
  /\ ScanInit(<<>>, FALSE)

Read(text, includes) ==
  /\ rest' = text /\ srcLine' = IF text = <<>> THEN 1 ELSE ReadCell(1, Head(text))
  /\ optIncludes' = includes
  /\ definedSyms' = {} /\ ifdefActive' = <<>> /\ skipDepth' = 0
  /\ tokens' = <<>> /\ status' = "scanning" /\ passedBy' = FALSE
Expand == phase = "expand" /\ ExpandNext /\ UNCHANGED <<disk, scanVars, phase, hosted>>
\* compile_with_includes: what was expanded is compiled without -I.
HandOver ==
  /\ phase = "expand" /\ outcome # "running"
  /\ phase' = IF outcome = "done" THEN "compile" ELSE "direct"
  /\ hosted' = [hosted EXCEPT !.status = outcome]
  /\ IF outcome = "done" THEN Read(buffer, FALSE) ELSE Read(disk[Main], TRUE)
  /\ UNCHANGED <<disk, expandVars>>
Scan == phase \in {"compile", "direct"} /\ ScanNext /\ UNCHANGED <<disk, expandVars, phase, hosted>>
Stopped == status \notin {"scanning", "skipping"}
\* Options::include_dir: the compiler is given the source as it stands.
Again ==
  /\ phase = "compile" /\ Stopped
  /\ phase' = "direct" /\ hosted' = [tokens |-> tokens, status |-> status]
  /\ Read(disk[Main], TRUE)
  /\ UNCHANGED <<disk, expandVars>>
Finish == phase = "direct" /\ Stopped /\ phase' = "finished" /\ UNCHANGED <<disk, expandVars, scanVars, hosted>>
Next == Expand \/ HandOver \/ Scan \/ Again \/ Finish
Spec == Init /\ [][Next]_vars
FairSpec == Spec /\ WF_vars(Next)
-----------------------------------------------------------------------------
(* What the manual says is compiled, as one pass over the cells of a text:  *)
(* a stack of conditionals, each with whether this branch is on and whether *)
(* its {$ELSE} has come.  Nothing is skipped over.  A text is bad that the  *)
(* compiler need not accept, and odd where it departs from the manual: with *)
(* two {$ELSE}s, or with // in a branch that is off.                        *)
Blank ==
  [mode |-> "code", conds |-> <<>>, syms |-> {}, out |-> <<>>, bad |-> FALSE, odd |-> FALSE]
Live(st) == \A i \in DOMAIN st.conds : st.conds[i].on
Collect(st, c) == IF Live(st) THEN [st EXCEPT !.out = Append(@, c)] ELSE st
Mode(st, m) == [st EXCEPT !.mode = m]
Bad(st, m) == [st EXCEPT !.mode = m, !.bad = TRUE]
\* {$ELSE} turns the innermost conditional, {$ENDIF} ends it.
Turned(conds) == [conds EXCEPT ![Len(conds)] = [on |-> ~conds[Len(conds)].on, elsed |-> TRUE]]
OnElse(st) == [st EXCEPT !.mode = "brace", !.conds = Turned(@), !.odd = @ \/ Last(st.conds).elsed]
OnEndIf(st) == [st EXCEPT !.mode = IF Live(st) THEN "closing" ELSE "brace", !.conds = Front(@)]
OnDirective(st, d) ==
  CASE d \in {"ELSE", "ENDIF"} /\ st.conds = <<>> -> Bad(st, "brace")
    [] d = "ELSE" /\ st.conds # <<>> -> OnElse(st)
    [] d = "ENDIF" /\ st.conds # <<>> -> OnEndIf(st)
    [] d \notin {"ELSE", "ENDIF"} /\ (d \in {"IFDEF", "IFNDEF"} \/ Live(st)) -> Mode(st, d)
    [] OTHER -> Mode(st, "brace")
\* The word behind a directive; without one it names nothing.
Opens(st, m, on) == [st EXCEPT !.mode = m, !.conds = Append(@, [on |-> on, elsed |-> FALSE])]
Defines(st, m, w) == [st EXCEPT !.mode = m, !.syms = IF st.mode = "DEFINE" THEN @ \cup {w} ELSE @ \ {w}]
OnName(st, w) ==
  LET next == IF w = "rbrace" THEN "code" ELSE "brace"
  IN CASE st.mode = "IFDEF" -> Opens(st, next, w \in st.syms)
       [] st.mode = "IFNDEF" -> Opens(st, next, w \notin st.syms)
       [] st.mode = "INCLUDE" -> IF w = "'" THEN Mode(st, "name") ELSE Bad(st, next)
       [] OTHER -> IF w = "rbrace" THEN Bad(st, next) ELSE Defines(st, next, w)
OnCode(st, c) ==
  CASE c.s = "lbrace" -> Mode(st, "open") [] c.s = "(*" -> Mode(st, "paren")
    [] c.s = "//" -> IF Live(st) THEN Mode(st, "line") ELSE [st EXCEPT !.odd = TRUE]
    [] c.s = "'" -> Mode(Collect(st, c), "string")
    [] c.s \in Blanks -> st
    [] OTHER -> Collect(st, c)
MeaningStep(st, c) ==
  CASE st.mode = "code" -> OnCode(st, c)
    [] st.mode = "string" -> Mode(Collect(st, c), IF c.s = "'" THEN "code" ELSE "string")
    [] st.mode = "line" -> Mode(st, IF c.s = "nl" THEN "code" ELSE "line")
    [] st.mode = "paren" -> Mode(st, IF c.s = "*)" THEN "code" ELSE "paren")
    [] st.mode = "brace" -> Mode(st, IF c.s = "rbrace" THEN "code" ELSE "brace")
    [] st.mode = "name" -> Mode(st, IF c.s = "'" THEN "brace" ELSE "name")
    [] st.mode = "closing" -> IF c.s = "rbrace" THEN Mode(st, "code") ELSE Bad(st, "brace")
    [] st.mode = "open" -> IF c.s \in DOMAIN DirectiveName THEN OnDirective(st, DirectiveName[c.s])
                           ELSE Mode(st, IF c.s = "rbrace" THEN "code" ELSE "brace")
    [] OTHER -> IF c.s \in Blanks THEN st ELSE OnName(st, c.s)
\* After each of the cells; the meaning of the text is what holds at its end.
Meanings(text) ==
  LET after[i \in 0..Len(text)] == IF i = 0 THEN Blank ELSE MeaningStep(after[i - 1], text[i])
  IN after
Meaning(text) == Meanings(text)[Len(text)]
-----------------------------------------------------------------------------
\* Each reader is in one of its states: positions lie in their text, marks
\* and conditionals within their limits.
TypeOK ==
  /\ phase \in {"expand", "compile", "direct", "finished"}
  /\ outcome \in {"running", "done", "unterminated", "too-deep", "not-found"}
  /\ Len(frames) <= MaxExpandDepth + 1 /\ \A i \in DOMAIN frames : frames[i].pos \in 1..(Len(frames[i].text) + 1)
  /\ srcLine \in Nat \ {0} /\ IncDepth <= MaxIncludeDepth /\ Len(ifdefActive) <= MaxIfdefDepth /\ skipDepth \in Nat
  /\ rest # <<>> => ~IsMark(Head(rest))

\* Whichever route a program with includes takes, the parser is given the
\* same words, and what the compiler takes with -I the host's expansion takes
\* as well.  The host knows no conditionals, so an include that stands in a
\* block that is not compiled is set apart: the host opens it all the same,
\* and fails if it is missing or cyclic; but when it finds it, what it pastes
\* changes nothing, unless it opens or closes conditionals itself.
ConditionalsInMain ==
  \A n \in DOMAIN disk \ {Main} : \A i \in DOMAIN disk[n] : disk[n][i].s \notin {"$IFDEF", "$IFNDEF", "$ELSE", "$ENDIF"}
RoutesAgree ==
  phase = "finished" /\ status = "end" =>
    /\ ~passedBy => hosted = [tokens |-> tokens, status |-> "end"]
    /\ hosted.status = "end" /\ ConditionalsInMain => hosted.tokens = tokens

\* Of what the host hands over, the parser is given exactly what the
\* conditionals around each word select: skipping forward to the end of a
\* block, over nested blocks, strings and comments, comes to what evaluating
\* every directive gives.  A source whose conditionals are all closed, whose
\* comments end and whose directives have what they need is accepted, unless
\* its conditionals nest too deep.  (Of an odd text nothing is said: see
\* ElseUnreached and CommentsSkipped.)
ActiveText ==
  phase = "compile" /\ Stopped =>
    LET m == Meaning(buffer)
    IN m.odd \/ IF status = "end" THEN tokens = m.out /\ ~m.bad
                 ELSE status = "too-many-nested" \/ m.bad \/ m.conds # <<>> \/ m.mode # "code"

\* While the compiler reads with -I, the line it would report is the line of
\* the character it has read, in whichever file that stands: through opened,
\* nested, empty and ended includes and through skipped blocks.
PositionsTrue ==
  phase = "direct" /\ rest # <<>> => srcLine = Head(rest).l + (IF Ch = "nl" THEN 1 ELSE 0)

\* A file that includes itself, directly or through others, or only inside a
\* conditional, ends both routes and never loops.
RoutesEnd == <>(phase = "finished")

\* The expander fails on no source the compiler accepts for want of a quote:
\* "Non-matching {...} braces are passed through verbatim".
NoFalseQuote == phase = "finished" /\ status = "end" => hosted.status # "unterminated"
\* The comment at the end of the {$ELSE} handler: a branch that was skipped
\* never meets its {$ELSE} there.
ElseUnreached == Reading /\ Ch = "lbrace" /\ Directive = "ELSE" /\ ifdefActive # <<>> => Last(ifdefActive)
\* "Line comments (//) extend to the end of the line": a block is not left
\* from inside of one.
CommentsSkipped == Skipping => Ch # "//"
=============================================================================
