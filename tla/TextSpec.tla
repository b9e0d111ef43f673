------------------------------ MODULE TextSpec -------------------------------
(***************************************************************************)
(* What the language promises of text files (doc/compact-pascal-ref.md,    *)
(* Text Files): files are sequences of characters, a variable reads one    *)
(* from its start or adds to its end, and nothing is buffered, except that *)
(* a file that is not closed may lose the end of what was written to it.   *)
(***************************************************************************)
EXTENDS Integers, Sequences

CONSTANTS Files, Names, Granted, Strings, MaxLine, LossBound, Errors

VARIABLES stored, view, error, got, stopped

vars == <<stored, view, error, got, stopped>>

EndOfFile == "eof"
LF == "lf"
CR == "cr"
ErrPastEof == 200

Closed(n) == [name |-> n, mode |-> "closed", rest |-> << >>]

Init ==
  /\ stored = Granted
  /\ view = [f \in Files |-> Closed("noname")]
  /\ error = 0
  /\ got = [op |-> "none"]
  /\ stopped = FALSE

(* What is stored once f is forgotten without being closed.                 *)
Left(f) ==
  IF view[f].mode # "write" THEN {stored}
  ELSE LET n == view[f].name
       IN {[stored EXCEPT ![n] = SubSeq(@, 1, Len(@) - k)]
             : k \in 0..(IF Len(stored[n]) < LossBound THEN Len(stored[n]) ELSE LossBound)}

Assign(f, n) ==
  /\ stored' \in Left(f)
  /\ view' = [view EXCEPT ![f] = Closed(n)]
  /\ got' = [op |-> "none"]
  /\ UNCHANGED <<error, stopped>>

(* An open either fails with the error of the host, or starts the file anew *)
(* for writing, or gives all that is stored for reading.                    *)
Open(f, mode) ==
  LET n == view[f].name
  IN /\ got' = [op |-> "none"]
     /\ \E s \in Left(f) :
          \/ /\ error' \in Errors
             /\ stored' = s
             /\ view' = [view EXCEPT ![f] = Closed(n)]
             /\ stopped' \in BOOLEAN
          \/ /\ error' = 0
             /\ mode = "read" => n \in DOMAIN s
             /\ stored' = IF mode = "write"
                            THEN [m \in DOMAIN s \cup {n} |-> IF m = n THEN << >> ELSE s[m]]
                            ELSE s
             /\ view' = [view EXCEPT ![f].mode = mode,
                                     ![f].rest = IF mode = "read" THEN s[n] ELSE << >>]
             /\ UNCHANGED stopped

Close(f) ==
  /\ view' = [view EXCEPT ![f] = Closed(@.name)]
  /\ got' = [op |-> "none"]
  /\ UNCHANGED <<stored, error, stopped>>

Write(f, str) ==
  /\ stored' = IF view[f].mode = "write"
                 THEN [stored EXCEPT ![view[f].name] = @ \o str]
                 ELSE stored
  /\ got' = [op |-> "none"]
  /\ UNCHANGED <<view, error, stopped>>

(* Nothing can be read from a file that is not open for reading: rest is    *)
(* empty.                                                                   *)
ReadChar(f) ==
  LET rest == view[f].rest
  IN /\ UNCHANGED stored
     /\ IF rest = << >>
          THEN /\ got' = [op |-> "char", file |-> f, val |-> EndOfFile]
               /\ error' = ErrPastEof
               /\ stopped' \in BOOLEAN
               /\ UNCHANGED view
          ELSE /\ got' = [op |-> "char", file |-> f, val |-> Head(rest)]
               /\ view' = [view EXCEPT ![f].rest = Tail(@)]
               /\ UNCHANGED <<error, stopped>>

Eof(f) ==
  /\ got' = [op |-> "eof", file |-> f, val |-> view[f].rest = << >>]
  /\ UNCHANGED <<stored, view, error, stopped>>

(* A line is what is left up to the next line feed, which is consumed, or   *)
(* to the end.  It is given without carriage returns and cut to what the    *)
(* variable holds.                                                          *)
LineLength(rest) ==
  IF \E i \in DOMAIN rest : rest[i] = LF
    THEN (CHOOSE i \in DOMAIN rest :
            rest[i] = LF /\ \A j \in 1..i - 1 : rest[j] # LF) - 1
    ELSE Len(rest)

Kept(bytes) ==
  LET kept[i \in 0..Len(bytes)] ==
        IF i = 0 THEN << >>
        ELSE IF bytes[i] = CR THEN kept[i - 1]
        ELSE Append(kept[i - 1], bytes[i])
  IN kept[Len(bytes)]

Text(bytes) ==
  LET t == Kept(bytes)
  IN SubSeq(t, 1, IF Len(t) < MaxLine THEN Len(t) ELSE MaxLine)

ReadLine(f) ==
  LET rest == view[f].rest
      n == LineLength(rest)
  IN /\ got' = [op |-> "line", file |-> f, val |-> Text(SubSeq(rest, 1, n))]
     /\ view' = [view EXCEPT ![f].rest = SubSeq(rest, n + 2, Len(rest))]
     /\ UNCHANGED <<stored, error, stopped>>

IOResult ==
  /\ got' = [op |-> "ioresult", val |-> error]
  /\ error' = 0
  /\ UNCHANGED <<stored, view, stopped>>

(* The console beside them.                                                 *)
Console ==
  /\ got' \in {[op |-> "console"]} \cup [op : {"consoleeof"}, val : BOOLEAN]
  /\ UNCHANGED <<stored, view, error, stopped>>

(* A program that has stopped on an error does nothing more.                *)
Next ==
  /\ ~stopped
  /\ \/ \E f \in Files :
          \/ \E n \in Names : Assign(f, n)
          \/ Open(f, "read") \/ Open(f, "write")
          \/ Close(f)
          \/ \E str \in Strings : Write(f, str)
          \/ ReadChar(f) \/ Eof(f) \/ ReadLine(f)
     \/ IOResult
     \/ Console

Spec == Init /\ [][Next]_vars
=============================================================================
