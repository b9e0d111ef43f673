------------------------------ MODULE MCEmbedding ------------------------------
\* A program with a global variable, a procedure with locals, a function without.
\* Memory: nil guard and data 0..3, stack from 10 down.
EXTENDS Embedding
MCRoutines == {"_start", "poll", "rate"}
MCNames == MCRoutines \cup {"absent"}
MCArity == [q \in MCRoutines |-> IF q = "rate" THEN 1 ELSE 0]
MCFrame == [q \in MCRoutines |-> CASE q = "rate" -> 0 [] q = "poll" -> 2 [] OTHER -> 1]
MCFunctions == {"rate"}
MCImports == [n \in {"read", "log"} |-> <<1, n = "read">>]
MCOffered == {<<"read", <<1, TRUE>>>>, <<"read", <<1, FALSE>>>>, <<"log", <<1, FALSE>>>>}
MCAddresses == {2, 7, 8}
MCStrings == {<<2, 1>>, <<1, 1, 1>>}
MCLimits ==
  {Ceilings(None, None), Ceilings(None, 9), Ceilings(0, None), Ceilings(5, 10)}
=============================================================================
