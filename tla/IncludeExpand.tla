----------------------------- MODULE IncludeExpand -----------------------------
(***************************************************************************)
(* The Rust crate's expand_includes: the host's way to serve includes.  It *)
(* knows nothing of the language but strings and paren comments, and       *)
(* copies every file in place of the directive that names it.  One frame   *)
(* is one call of expand_includes_impl; one action, one arm of its match.  *)
(***************************************************************************)
EXTENDS SourceFiles
CONSTANTS MaxExpandDepth,   \* MAX_INCLUDE_DEPTH of include.rs
          Components        \* the components of a name, as std::path sees them
ASSUME DepthAssumption == MaxExpandDepth \in Nat

VARIABLES frames,   \* calls in progress: the text and the next position
          buffer,   \* ExpandState.buffer
          outcome   \* "running", "done" or the error returned
expandVars == <<frames, buffer, outcome>>

ExpandInit(text) == frames = <<[text |-> text, pos |-> 1]>> /\ buffer = <<>> /\ outcome = "running"

Text == Last(frames).text
Pos == Last(frames).pos
Here == Text[Pos].s
Scanning == outcome = "running" /\ frames # <<>> /\ Pos <= Len(Text)
\* Copy the cells from Pos up to, not including, position p.
CopyTo(p) ==
  \E to \in {p} :
    /\ buffer' = buffer \o SubSeq(Text, Pos, to - 1)
    /\ frames' = [frames EXCEPT ![Len(frames)].pos = to]
    /\ UNCHANGED outcome
Fail(why) == outcome' = why /\ UNCHANGED <<frames, buffer>>

Quotes == {"'", "dquote"}
\* A literal runs to its closing quote, over lines and braces; without one
\* the whole expansion fails.
StringLiteral ==
  /\ Scanning /\ Here \in Quotes
  /\ LET e == StringEnd(Text, Pos) IN IF e > Len(Text) THEN Fail("unterminated") ELSE CopyTo(e + 1)
\* A paren comment is copied whole; without an end it takes the file's rest.
ParenCopy ==
  /\ Scanning /\ Here = "(*"
  /\ LET e == First(Text, Pos + 1, {"*)"}) IN CopyTo(IF e > Len(Text) THEN e ELSE e + 1)

(* Mutant of IncludeWord: the short word in capitals only.                  *)
IncludeWordShouted(text, p) ==
  /\ p + 2 <= Len(text)
  /\ \/ text[p + 1].s = "$I" /\ text[p + 2].s \in {"blank"} \cup Quotes
     \/ text[p + 1].s \in {"$INCLUDE", "$include"} /\ text[p + 2].s \in {"blank", "tab"}
\* The directive at p, if it is one the expander knows: the two spellings of
\* each word, and the characters that may follow.
IncludeWord(text, p) ==
  /\ p + 2 <= Len(text)
  /\ \/ text[p + 1].s \in {"$I", "$i"} /\ text[p + 2].s \in {"blank"} \cup Quotes
     \/ text[p + 1].s \in {"$INCLUDE", "$include"} /\ text[p + 2].s \in {"blank", "tab"}
\* Where the name stands: quoted, or bare up to the brace.  The directive is
\* malformed when its closing brace lies behind the end.
NameStart(text, p) == FirstNot(text, p + 2, {"blank", "tab"})
IsQuoted(text, a) == a <= Len(text) /\ text[a].s \in Quotes
NameEnd(text, a) ==
  IF a > Len(text) THEN a ELSE IF IsQuoted(text, a) THEN First(text, a + 1, {text[a].s}) ELSE First(text, a, {"rbrace"})
NameOf(text, a) ==
  IF IsQuoted(text, a) THEN SubSeq(text, a + 1, NameEnd(text, a) - 1)
  ELSE SelectSeq(SubSeq(text, a, NameEnd(text, a) - 1), LAMBDA c : c.s \notin Blanks)
CloseOf(text, p) ==
  \* an unquoted name ends at the brace itself
  LET z == NameEnd(text, NameStart(text, p)) IN IF z > Len(text) THEN z ELSE First(text, z, {"rbrace"})
IsInclude(text, p) == IncludeWord(text, p) /\ CloseOf(text, p) <= Len(text)

\* build_path: nothing empty, nothing that climbs, nothing absolute.
Confined(name) == name # <<>> /\ \A i \in DOMAIN Components[name[1].s] : Components[name[1].s][i] = "normal"
(* Mutant of TooDeep: one level more.                                       *)
TooDeepLate == Len(frames) - 1 > MaxExpandDepth
\* The depth is checked before the file is read.
TooDeep == Len(frames) - 1 >= MaxExpandDepth
\* The directive is replaced by the named file, itself expanded: a call one
\* deeper, after which this one goes on behind the closing brace.
ExpandInclude ==
  /\ Scanning /\ Here = "lbrace" /\ IsInclude(Text, Pos)
  /\ \E name \in {NameOf(Text, NameStart(Text, Pos))} :
       IF TooDeep THEN Fail("too-deep")
       ELSE IF ~Confined(name) \/ name[1].s \notin DOMAIN disk THEN Fail("not-found")
       ELSE /\ frames' = Append([frames EXCEPT ![Len(frames)].pos = CloseOf(Text, Pos) + 1],
                                [text |-> disk[name[1].s], pos |-> 1])
            /\ UNCHANGED <<buffer, outcome>>
\* Any other brace is copied alone, and what follows it is scanned as text.
BraceCopy == Scanning /\ Here = "lbrace" /\ ~IsInclude(Text, Pos) /\ CopyTo(Pos + 1)
Plain ==
  /\ Scanning /\ Here \notin Quotes \cup {"(*", "lbrace"}
  /\ CopyTo(First(Text, Pos, Quotes \cup {"(*", "lbrace"}))
ExpandReturn ==
  /\ outcome = "running" /\ Pos > Len(Text)
  /\ frames' = Front(frames)
  /\ outcome' = IF Len(frames) = 1 THEN "done" ELSE "running"
  /\ UNCHANGED buffer

ExpandNext == StringLiteral \/ ParenCopy \/ ExpandInclude \/ BraceCopy \/ Plain \/ ExpandReturn
=============================================================================
