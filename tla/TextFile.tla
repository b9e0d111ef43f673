------------------------------ MODULE TextFile -------------------------------
(***************************************************************************)
(* Text files: the code the compiler emits for assign, reset, rewrite,     *)
(* close, write, read, readln, eof and IOResult, and the run-time helpers  *)
(* it calls (compiler/cpas.pas, the __text_ helpers), over the host of     *)
(* WasiHost.                                                               *)
(*                                                                         *)
(* All state of a file is its variable, the control block.  The buffer is  *)
(* the sequence of its valid bytes, its length the block's len field.  The *)
(* block's eof field is written by the helpers and read by nothing; it is  *)
(* left out.  The program is any sequence of file statements.              *)
(***************************************************************************)
EXTENDS WasiHost, SequencesExt

CONSTANTS
  Files,         \* text variables, all of them global
  Strings,       \* what a write passes to __text_write_str
  MaxLine,       \* the declared length of readln's string variable
  Shared,        \* may one file be written and open elsewhere at a time?
  MaxBytes,      \* bound: length of a file
  MaxOpens       \* bound: descriptors the host gives

EndOfFile == "eof"              \* read_byte's -1

ASSUME FileAssumption ==
  /\ Shared \in BOOLEAN
  /\ MaxLine \in Nat /\ MaxBytes \in Nat /\ MaxOpens \in Nat
  /\ \A s \in Strings : s \in Seq(Chars)
  /\ EndOfFile \notin Chars

VARIABLES
  block,      \* the control blocks
  host,       \* disk and descriptors
  preopen,    \* addrPreopenFd: the directory's descriptor once looked for
  ioresult,   \* addrIOResult
  nread,      \* addrNread, 1 for any count but 0
  line,       \* the readln that is running
  got,        \* what the last statement gave the program
  trapped     \* an unreachable was executed

vars == <<block, host, preopen, ioresult, nread, line, got, trapped>>

NoName == "noname"
NoFd == -1
LF == "lf"
CR == "cr"
ErrPastEof == 200
Junk == "junk"                  \* what happened to be in a buffer

NoLine == [active |-> FALSE]
Nothing == [op |-> "none"]

(* A global is zero: descriptor 0, mode closed.                             *)
Init ==
  /\ block = [f \in Files |->
                [name |-> NoName, mode |-> "closed", fd |-> 0, pos |-> 0, buf |-> << >>]]
  /\ host = InitHost
  /\ preopen = 0
  /\ ioresult = 0
  /\ nread = 1
  /\ line = NoLine
  /\ got = Nothing
  /\ trapped = FALSE

Running == ~trapped /\ ~line.active

------------------------------------------------------------------------------
(* The helpers: from a block, a host and a count to others.                 *)

On(b, h) == [block |-> b, host |-> h, nread |-> nread]

(* Mutant of Flush: the buffer of a file that is read is written too.       *)
FlushAnyMode(s, lost) ==
  IF s.block.buf # << >>
    THEN On([s.block EXCEPT !.buf = << >>],
            FdWrite(s.host, s.block.fd, s.block.buf, Len(s.block.buf) - lost))
    ELSE s

(* fd_write's answer is dropped.                                            *)
Flush(s, lost) ==
  IF s.block.buf # << >> /\ s.block.mode = "write"
    THEN LET taken == Max({0, Len(s.block.buf) - lost})
         IN On([s.block EXCEPT !.buf = << >>],
               FdWrite(s.host, s.block.fd, s.block.buf, taken))
    ELSE s

(* Mutant of WriteByte: flushes one byte late.                              *)
WriteByteLate(s, ch, lost) ==
  LET t == IF Len(s.block.buf) > BufSize THEN Flush(s, lost) ELSE s
  IN IF s.block.mode # "write" THEN s
     ELSE [t EXCEPT !.block.buf = Append(@, ch)]

WriteByte(s, ch, lost) ==
  LET t == IF Len(s.block.buf) >= BufSize THEN Flush(s, lost) ELSE s
  IN IF s.block.mode # "write" THEN s
     ELSE [t EXCEPT !.block.buf = Append(@, ch)]

WriteStr(s, str, lost) ==
  LET at[i \in 0..Len(str)] ==
        IF i = 0 THEN s ELSE WriteByte(at[i - 1], str[i], lost)
  IN at[Len(str)]

(* fd_read's answer is dropped too, and the count is the one word that the  *)
(* console's reads use as well.  From a descriptor that is not open the     *)
(* count would be an older read's and the bytes what the buffer holds.      *)
Refills(b) ==
  IF b.fd \in DOMAIN host.open
    THEN {[block |-> [b EXCEPT !.buf = FdReadBytes(host, b.fd, n), !.pos = 0],
           host  |-> FdRead(host, b.fd, n),
           nread |-> Min({n, 1})] : n \in ReadExtents(host, b.fd)}
    ELSE {On([b EXCEPT !.buf = [i \in 1..n |-> Junk], !.pos = 0], host)
           : n \in IF nread = 0 THEN {0} ELSE 1..BufSize}

Serve(s) ==
  IF s.block.buf = << >>
    THEN [byte |-> EndOfFile, at |-> s]
    ELSE [byte |-> s.block.buf[s.block.pos + 1], at |-> [s EXCEPT !.block.pos = @ + 1]]

(* The ways __text_read_byte may end.                                       *)
ReadByte(f) ==
  LET b == block[f]
  IN IF b.mode # "read" THEN {[byte |-> EndOfFile, at |-> On(b, host)]}
     ELSE IF b.pos >= Len(b.buf) THEN {Serve(s) : s \in Refills(b)}
     ELSE {Serve(On(b, host))}

(* The walk over the descriptors from 3 to 16, once.                        *)
FindPreopen ==
  IF preopen # 0 THEN preopen
  ELSE IF Preopen \in 3..16 THEN Preopen
  ELSE 3

(* Mutant of Opened: the mode is set whether or not the host opened it.     *)
OpenedKeepsMode(b, mode, answer) ==
  LET e == [b EXCEPT !.buf = << >>, !.pos = 0, !.mode = mode]
  IN IF answer = Success THEN [e EXCEPT !.fd = host.next] ELSE [e EXCEPT !.fd = NoFd]

(* __text_open: the buffer is emptied first, whatever is in it.             *)
Opened(b, mode, answer) ==
  LET e == [b EXCEPT !.buf = << >>, !.pos = 0]
  IN IF answer = Success
       THEN [e EXCEPT !.fd = host.next, !.mode = mode]
       ELSE [e EXCEPT !.fd = NoFd, !.mode = "closed"]

------------------------------------------------------------------------------
(* The statements.                                                          *)

Become(f, s) ==
  /\ block' = [block EXCEPT ![f] = s.block]
  /\ host' = s.host
  /\ nread' = s.nread

Assign(f, n) ==
  /\ Running
  /\ block' = [block EXCEPT ![f].name = n, ![f].mode = "closed", ![f].fd = NoFd]
  /\ got' = Nothing
  /\ UNCHANGED <<host, preopen, ioresult, nread, line, trapped>>

(* What a program is assumed to do: assign before it opens, and not open a  *)
(* file that another of its variables is writing, or write one that another *)
(* has open.                                                                *)
MayOpen(f, mode) ==
  /\ block[f].name # NoName
  /\ Shared \/ \A g \in Files \ {f} :
       block[g].name = block[f].name => block[g].mode = "closed"
                                        \/ (mode = "read" /\ block[g].mode = "read")

(* EmitIOResultStore, under {$I+} if checked.                               *)
StoreIOResult(answer, checked) ==
  /\ ioresult' = answer
  /\ trapped' = (checked /\ answer # 0)

Open(f, mode, checked) ==
  LET oflags == IF mode = "write" THEN "creat|trunc" ELSE "none"
      n == block[f].name
  IN /\ Running
     /\ MayOpen(f, mode)
     /\ host.next < FirstFd + MaxOpens
     /\ preopen' = FindPreopen
     /\ \E answer \in PathOpenAnswers(host, FindPreopen, n, oflags) :
          /\ block' = [block EXCEPT ![f] = Opened(@, mode, answer)]
          /\ host' = PathOpen(host, n, oflags, answer)
          /\ StoreIOResult(answer, checked)
     /\ got' = Nothing
     /\ UNCHANGED <<nread, line>>

Reset(f, checked) == Open(f, "read", checked)
Rewrite(f, checked) == Open(f, "write", checked)

Close(f, lost) ==
  LET s == Flush(On(block[f], host), lost)
  IN /\ Running
     /\ Become(f, On([s.block EXCEPT !.fd = NoFd, !.mode = "closed"],
                     FdClose(s.host, s.block.fd)))
     /\ got' = Nothing
     /\ UNCHANGED <<preopen, ioresult, line, trapped>>

(* The bytes f's file would have.                                           *)
Size(f) ==
  Len(block[f].buf)
    + IF block[f].fd \in DOMAIN host.open THEN host.open[block[f].fd].at ELSE 0

Write(f, str, lost) ==
  /\ Running
  /\ block[f].mode = "write" => Size(f) + Len(str) <= MaxBytes
  /\ Become(f, WriteStr(On(block[f], host), str, lost))
  /\ got' = Nothing
  /\ UNCHANGED <<preopen, ioresult, line, trapped>>

(* read(f, c)                                                               *)
ReadChar(f, checked) ==
  /\ Running
  /\ \E r \in ReadByte(f) :
       /\ Become(f, r.at)
       /\ got' = [op |-> "char", file |-> f, val |-> r.byte]
       /\ IF r.byte = EndOfFile
            THEN ioresult' = ErrPastEof /\ trapped' = checked
            ELSE UNCHANGED <<ioresult, trapped>>
  /\ UNCHANGED <<preopen, line>>

(* Mutant of PutBack: eof keeps the byte it looked at.                      *)
PutBackNever(r) == r.at

(* eof(f) reads a byte and puts it back.                                    *)
PutBack(r) ==
  IF r.byte = EndOfFile THEN r.at ELSE [r.at EXCEPT !.block.pos = @ - 1]

Eof(f) ==
  /\ Running
  /\ \E r \in ReadByte(f) :
       /\ Become(f, PutBack(r))
       /\ got' = [op |-> "eof", file |-> f, val |-> r.byte = EndOfFile]
  /\ UNCHANGED <<preopen, ioresult, line, trapped>>

(* Where in its file a variable that reads is.                              *)
Position(f) ==
  IF block[f].mode = "read"
    THEN host.open[block[f].fd].at - (Len(block[f].buf) - block[f].pos)
    ELSE 0

(* readln(f, s): __text_read_line, one step for a byte of the line.  Where  *)
(* the line starts is noted for TextSafe, nothing here reads it.            *)
ReadLine(f) ==
  /\ Running
  /\ line' = [active |-> TRUE, file |-> f, text |-> << >>, from |-> Position(f)]
  /\ UNCHANGED <<block, host, preopen, ioresult, nread, got, trapped>>

(* Mutant of EndsLine: does not stop at the end of the file.                *)
EndsAtLF(byte) == byte = LF

EndsLine(byte) == byte \in {EndOfFile, LF}

Stored(byte) == byte # CR /\ Len(line.text) < MaxLine

LineByte ==
  /\ line.active
  /\ \E r \in ReadByte(line.file) :
       /\ ~EndsLine(r.byte)
       /\ Become(line.file, r.at)
       /\ line' = [line EXCEPT !.text = IF Stored(r.byte) THEN Append(@, r.byte) ELSE @]
  /\ UNCHANGED <<preopen, ioresult, got, trapped>>

LineEnd ==
  /\ line.active
  /\ \E r \in ReadByte(line.file) :
       /\ EndsLine(r.byte)
       /\ Become(line.file, r.at)
  /\ line' = NoLine
  /\ got' = [op |-> "line", file |-> line.file, val |-> line.text]
  /\ UNCHANGED <<preopen, ioresult, trapped>>

(* Reading IOResult clears it.                                              *)
IOResult ==
  /\ Running
  /\ got' = [op |-> "ioresult", val |-> ioresult]
  /\ ioresult' = 0
  /\ UNCHANGED <<block, host, preopen, nread, line, trapped>>

(* read(c) and readln from the console: the end of the input, or a byte.    *)
ReadConsole ==
  /\ Running
  /\ nread' \in {0, 1}
  /\ got' = [op |-> "console"]
  /\ UNCHANGED <<block, host, preopen, ioresult, line, trapped>>

(* eof without a file.                                                      *)
ConsoleEof ==
  /\ Running
  /\ got' = [op |-> "consoleeof", val |-> nread = 0]
  /\ UNCHANGED <<block, host, preopen, ioresult, nread, line, trapped>>

FileStatement(f) ==
  \/ \E n \in Names : Assign(f, n)
  \/ \E checked \in BOOLEAN :
       Reset(f, checked) \/ Rewrite(f, checked) \/ ReadChar(f, checked)
  \/ \E lost \in Losses :
       Close(f, lost) \/ \E str \in Strings : Write(f, str, lost)
  \/ Eof(f)
  \/ ReadLine(f)

Next ==
  \/ \E f \in Files : FileStatement(f)
  \/ LineByte
  \/ LineEnd
  \/ IOResult
  \/ ReadConsole
  \/ ConsoleEof

(* The library's own loop runs on; the program may stop anywhere.           *)
Spec == Init /\ [][Next]_vars /\ WF_vars(LineByte \/ LineEnd)
=============================================================================
