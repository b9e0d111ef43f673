------------------------------ MODULE WasiHost -------------------------------
(***************************************************************************)
(* The host's side of text files (src/rust/wasi.rs): what the four calls   *)
(* the run-time library makes do to the granted directory and to the table *)
(* of open files.  Operators on a value, not a state machine of its own:   *)
(* the guest waits for every call.                                         *)
(*                                                                         *)
(* A host is a record: "disk", the content of the files that exist in the  *)
(* directory; "open", for each descriptor the file and the offset behind   *)
(* it; "next", the descriptor it gives next; "errno", what it last         *)
(* answered to an open or a write.                                         *)
(***************************************************************************)
EXTENDS Integers, Sequences, FiniteSets, TLC, FiniteSetsExt

CONSTANTS
  Names, Chars,
  Granted,      \* the files of the granted directory to begin with
  Preopen,      \* the descriptor of the granted directory, 0 for none
  BufSize,      \* the most bytes one call is asked for
  Failures      \* which calls the disk may fail: "open", "write"

ASSUME HostAssumption ==
  /\ Preopen \in Nat /\ Preopen \notin {1, 2}
  /\ BufSize \in Nat \ {0}
  /\ Failures \subseteq {"open", "write"}
  /\ DOMAIN Granted \subseteq Names
  /\ Granted \in [DOMAIN Granted -> Seq(Chars)]

Nul == "nul"                    \* a byte no one wrote
Success == 0
BadF == 8
IOError == 29
NotFound == 44
Denied == 2
NotCapable == 76

FirstFd == Preopen + 1

(* The table t with v for x.                                                *)
With(t, x, v) == [y \in DOMAIN t \cup {x} |-> IF y = x THEN v ELSE t[y]]

InitHost ==
  [disk |-> Granted, open |-> << >>, next |-> FirstFd, errno |-> Success]

WritesFile(oflags) == oflags = "creat|trunc"

(* The answers an open may get.  The directory is what bounds the guest: a  *)
(* name outside it, or any name without one, is refused.                    *)
PathOpenAnswers(h, dir, n, oflags) ==
  IF Preopen = 0 \/ dir # Preopen THEN {NotCapable}
  ELSE IF ~WritesFile(oflags) /\ n \notin DOMAIN h.disk THEN {NotFound}
  ELSE {Success} \cup (IF "open" \in Failures THEN {Denied} ELSE {})

PathOpen(h, n, oflags, answer) ==
  IF answer # Success THEN [h EXCEPT !.errno = answer]
  ELSE [disk  |-> IF WritesFile(oflags) THEN With(h.disk, n, << >>) ELSE h.disk,
        open  |-> With(h.open, h.next, [name |-> n, at |-> 0]),
        next  |-> h.next + 1,
        errno |-> Success]

(* Bytes overwrite what is at the offset; a gap before it is filled.        *)
WriteAt(content, at, bytes) ==
  [i \in 1..Max({Len(content), at + Len(bytes)}) |->
     IF i \in at + 1 .. at + Len(bytes) THEN bytes[i - at]
     ELSE IF i <= Len(content) THEN content[i]
     ELSE Nul]

(* How many bytes of a write the disk may fail to take.                     *)
Losses == {0} \cup (IF "write" \in Failures THEN 1..BufSize ELSE {})

FdWrite(h, fd, bytes, taken) ==
  IF fd \notin DOMAIN h.open THEN [h EXCEPT !.errno = BadF]
  ELSE LET o == h.open[fd]
           b == SubSeq(bytes, 1, taken)
       IN [h EXCEPT !.disk[o.name] = WriteAt(@, o.at, b),
                    !.open[fd].at = @ + Len(b),
                    !.errno = IF taken < Len(bytes) THEN IOError ELSE Success]

Remaining(h, fd) ==
  LET o == h.open[fd]
  IN SubSeq(h.disk[o.name], o.at + 1, Len(h.disk[o.name]))

(* A read gives some of what is left, nothing only at the end.              *)
ReadExtents(h, fd) ==
  LET left == Min({BufSize, Len(Remaining(h, fd))})
  IN IF left <= 0 THEN {0} ELSE 1..left

FdReadBytes(h, fd, n) == SubSeq(Remaining(h, fd), 1, n)

FdRead(h, fd, n) == [h EXCEPT !.open[fd].at = @ + n]

FdClose(h, fd) ==
  [h EXCEPT !.open = [d \in DOMAIN @ \ {fd} |-> @[d]]]
=============================================================================
