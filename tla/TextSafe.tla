------------------------------ MODULE TextSafe -------------------------------
(***************************************************************************)
(* What is checked of text files, and how their buffers implement files    *)
(* without any.                                                            *)
(***************************************************************************)
EXTENDS TextFile

Bytes == Chars \cup {Junk, Nul}

Blocks ==
  [name : Names \cup {NoName}, mode : {"closed", "read", "write"},
   fd : {NoFd, 0} \cup FirstFd..FirstFd + MaxOpens - 1,
   pos : Nat, buf : Seq(Bytes)]

(* Every buffer keeps within its 256 bytes and its position within what it  *)
(* holds: the helpers store and load at buf + len and buf + pos unchecked,  *)
(* and behind one block lies the next variable.                             *)
TypeOK ==
  /\ block \in [Files -> Blocks]
  /\ \A f \in Files : block[f].pos <= Len(block[f].buf) /\ Len(block[f].buf) <= BufSize
  /\ DOMAIN host.disk \subseteq Names
  /\ \A n \in DOMAIN host.disk : host.disk[n] \in Seq(Bytes)
  /\ DOMAIN host.open \subseteq FirstFd..host.next - 1
  /\ preopen \in {0} \cup 3..16
  /\ ioresult \in Nat
  /\ nread \in {0, 1}
  /\ line.active => Len(line.text) <= MaxLine
  /\ trapped \in BOOLEAN

(* A variable that reads or writes has a descriptor that is open on the     *)
(* file it was assigned, and no other variable has it: a close, a failed    *)
(* open or an abandoned descriptor never leaves one that a later call       *)
(* gives to another file.                                                   *)
DescriptorsOwned ==
  \A f \in Files : block[f].mode # "closed" =>
    /\ block[f].fd \in DOMAIN host.open
    /\ host.open[block[f].fd].name = block[f].name
    /\ \A g \in Files \ {f} :
         block[g].mode # "closed" => block[g].fd # block[f].fd

(* What DescriptorsOwned rests on: a file that is open is on the disk, and  *)
(* numbers are given in order; a closed variable has kept no descriptor.    *)
HostSafe(h) ==
  /\ h = [disk |-> h.disk, open |-> h.open, next |-> h.next, errno |-> h.errno]
  /\ DOMAIN h.disk \subseteq Names
  /\ \A n \in DOMAIN h.disk : h.disk[n] \in Seq(Bytes)
  /\ h.next \in FirstFd..FirstFd + MaxOpens
  /\ \A d \in DOMAIN h.open :
       /\ d \in FirstFd..h.next - 1
       /\ h.open[d] \in [name : DOMAIN h.disk, at : Nat]
  /\ h.errno \in Nat

ClosedHoldsNone ==
  \A f \in Files : block[f].mode = "closed" => block[f].fd \in {NoFd, 0}

(* The position is of readers only.  __text_flush does not reset it.        *)
WritersAtStart ==
  \A f \in Files : block[f].mode = "write" => block[f].pos = 0

LineSafe ==
  line \in {NoLine} \cup [active : {TRUE}, file : Files, text : Seq(Bytes), from : Int]

IInv ==
  /\ TypeOK
  /\ HostSafe(host)
  /\ ClosedHoldsNone
  /\ WritersAtStart
  /\ DescriptorsOwned
  /\ LineSafe

(* readln ends, whatever the file, the lengths of reads and where its       *)
(* buffers end.                                                             *)
LinesEnd == [](line.active => <>~line.active)

(* The host's refusal of an open or a write is not lost on the program: it  *)
(* stops there, or has an IOResult to ask for.  {$I+} "traps at the point   *)
(* an operation fails" (doc/compact-pascal-ref.md, Errors).                 *)
FailuresReported ==
  [][host.errno = Success /\ host'.errno # Success
       => trapped' \/ ioresult' = host'.errno]_vars

------------------------------------------------------------------------------
(* "true when the last read encountered end-of-file ... Reads from standard *)
(* input": what eof without a file answers is for a read of the console to  *)
(* change, not for one of a file.                                           *)
ConsoleEofKept == [][nread' # nread => got'.op = "console"]_vars

------------------------------------------------------------------------------
(* The refinement.  What is stored is what the host has and the buffer of   *)
(* the variable that writes it; what is left to read is what is in the      *)
(* buffer, then what the host has not given.  While a line is read, the     *)
(* bytes it has taken count as not read.                                    *)
Writers(n) == {f \in Files : block[f].mode = "write" /\ block[f].name = n}

StoredIn(n) ==
  IF Writers(n) = {} THEN host.disk[n]
  ELSE host.disk[n] \o block[CHOOSE f \in Writers(n) : TRUE].buf

Unread(f) ==
  LET b == block[f]
  IN IF b.mode # "read" THEN << >>
     ELSE SubSeq(b.buf, b.pos + 1, Len(b.buf)) \o Remaining(host, b.fd)

TakenByLine(f) ==
  IF line.active /\ line.file = f /\ block[f].mode = "read"
    THEN SubSeq(host.disk[block[f].name], line.from + 1, Position(f))
    ELSE << >>

Abstract == INSTANCE TextSpec WITH
  LossBound <- BufSize,
  Errors    <- {NotCapable, NotFound, Denied},
  stored    <- [n \in DOMAIN host.disk |-> StoredIn(n)],
  view      <- [f \in Files |-> [name |-> block[f].name, mode |-> block[f].mode,
                                 rest |-> TakenByLine(f) \o Unread(f)]],
  error     <- ioresult,
  stopped   <- trapped

(* The buffered files implement those of TextSpec: no byte is lost, kept    *)
(* twice or moved, through any sequence of statements on several variables, *)
(* but for what a file that was not closed may lose; and eof is true of a   *)
(* file exactly when nothing is left to read of it.                         *)
KeepsTextSpec == Abstract!Spec

------------------------------------------------------------------------------
(* Why they do, where no file is open for writing and open elsewhere and    *)
(* the disk takes what it is given: a writer's bytes go to the end of its   *)
(* file; a reader's buffer is what lies in its file before the host's       *)
(* offset; and a line that is read is what its variable gets of the bytes   *)
(* it has passed.                                                           *)
OneWriter ==
  \A f, g \in Files : f # g /\ block[f].mode = "write" /\ block[g].mode # "closed"
                        => block[f].name # block[g].name

Offset(f) == host.open[block[f].fd].at
Content(f) == host.disk[block[f].name]

WritesAtEnd ==
  \A f \in Files : block[f].mode = "write" => Offset(f) = Len(Content(f))

ReadsInPlace ==
  \A f \in Files : block[f].mode = "read" =>
    LET n == Len(block[f].buf)
    IN /\ n <= Offset(f) /\ Offset(f) <= Len(Content(f))
       /\ block[f].buf = SubSeq(Content(f), Offset(f) - n + 1, Offset(f))

LineSoFar ==
  line.active =>
    LET f == line.file
        passed == SubSeq(Content(f), line.from + 1, Position(f))
    IN IF block[f].mode = "read"
         THEN /\ 0 <= line.from /\ line.from <= Position(f)
              /\ \A i \in 1..Len(passed) : passed[i] # LF
              /\ line.text = Abstract!Text(passed)
         ELSE line.text = << >>

InPlace == OneWriter /\ WritesAtEnd /\ ReadsInPlace /\ LineSoFar
=============================================================================
