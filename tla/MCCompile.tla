------------------------------- MODULE MCCompile -------------------------------
\* Options up to the last argument slot and the last cell of the string area.
EXTENDS CompileSafe
CONSTANTS Many   \* TRUE: more arguments than slots
Base == [range |-> FALSE, stack |-> TRUE, verbose |-> FALSE, include |-> NoDir, unit |-> NoDir,
         defines |-> <<>>, objects |-> <<>>]
Names == {<<10>>, <<11, 12>>, <<>>, <<Dash, LetterV>>, <<13, 14, 15, 16, 17>>}
UpTo(n, S) == UNION {[1..k -> S] : k \in 0..n}
MCFew ==
  {[range |-> r, stack |-> s, verbose |-> v, include |-> i, unit |-> u, defines |-> d, objects |-> o] :
     r \in BOOLEAN, s \in BOOLEAN, v \in BOOLEAN, i \in {NoDir, "a"}, u \in {NoDir, "a", "b"},
     d \in UpTo(2, Names), o \in UpTo(2, Names \cup {<<20>>})}
MCMany == {[Base EXCEPT !.objects = [k \in 1..n |-> <<10 + k>>]] : n \in 1..8}
MCOptions == IF Many THEN MCMany ELSE MCFew
MCEscaping == {<<20>>}
Rep(s, l, c, m) == [severity |-> s, line |-> l, col |-> c, message |-> m]
MCReports ==
  {Rep("Warning", "3", "1", <<"w">>), Rep("Error", "1", "2", <<"w", ": ", "w">>),
   Rep("Error", "4", "4", <<"3", ":", "4", ": ", "w">>), Rep("Info", "", "", <<"w", ": ", "2", ":", "3">>)}
=============================================================================
