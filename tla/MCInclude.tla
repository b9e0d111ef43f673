------------------------------- MODULE MCInclude -------------------------------
\* Small trees of files: a program made of two pieces around a conditional,
\* and two files it may include.
EXTENDS IncludeSafe
CONSTANTS Tricky   \* "none", "quote", "else" or "line": a piece that departs from the manual

Incl(d, n) == <<"lbrace", d, "blank", "'", n, "'", "rbrace">>
Dir(d) == <<"lbrace", d, "rbrace">>
Cond(d, w) == <<"lbrace", d, "blank", w, "rbrace">>
W == <<"w", "nl">>
Str == <<"'", "lbrace", "$I", "blank", "f", "rbrace", "'", "'", "'", "blank">>
Note == <<"lbrace", "w", "rbrace">>
Paren == <<"(*", "lbrace", "$ENDIF", "rbrace", "'", "f", "'", "*)", "nl">>
Line == <<"//", "w", "nl">>
Block(d, x, y) == Cond(d, "D") \o x \o Dir("$ELSE") \o y \o Dir("$ENDIF")
Inner == {W, Str, Paren, Incl("$I", "f"), Block("$IFDEF", W, Str), Cond("$DEFINE", "D")}
TrickyPieces ==
  CASE Tricky = "none" -> {} [] Tricky = "quote" -> {<<"lbrace", "w", "'", "w", "rbrace">>}
    [] Tricky = "line" -> {Cond("$IFDEF", "D") \o <<"//", "lbrace", "$ENDIF", "rbrace", "nl">> \o Dir("$ENDIF")}
    [] OTHER -> {Cond("$IFDEF", "D") \o W \o Dir("$ELSE") \o W \o Dir("$ELSE") \o W \o Dir("$ENDIF")}
Before == {<<>>, Note, Line, Cond("$DEFINE", "D"), Dir("$DEFINE"), Incl("$INCLUDE", "f"), Incl("$I", "missing"), Dir("$ENDIF")} \cup TrickyPieces
After == {W, Incl("$i", "g"), Cond("$IFNDEF", "D") \o W, Cond("$IFNDEF", "D") \o Cond("$ENDIF", "w")}
MCMains == {b \o Block(d, x, y) \o a : b \in Before, d \in {"$IFDEF", "$IFNDEF"}, x \in Inner, y \in Inner, a \in After}
           \cup {W \o t \o W : t \in TrickyPieces}
G1 == <<"nl">> \o W
G2 == <<"w", "blank", "'">>
G3 == Incl("$INCLUDE", "up")
MCParts == {<<W \o Incl("$I", "g"), g>> : g \in {G1, G2, G3}}
           \cup {<<<<"nl">> \o Incl("$I", "f"), G3>>, <<<<>>, G2>>, <<Dir("$ELSE") \o <<"w">>, G1>>}
\* A text's cells: its symbols, each with its file and its line.
Lay(file, symbols) ==
  SubSeq([i \in DOMAIN symbols |->
            [s |-> symbols[i], f |-> file, l |-> 1 + Cardinality({j \in 1..(i - 1) : symbols[j] = "nl"})]],
         1, Len(symbols))
MCDisks == {[main |-> Lay("main", m), f |-> Lay("f", part[1]), g |-> Lay("g", part[2])] : m \in MCMains, part \in MCParts}
MCComponents == [n \in {"f", "g", "missing", "up"} |-> IF n = "up" THEN <<"parent", "normal">> ELSE <<"normal">>]
=============================================================================
