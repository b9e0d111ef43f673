----------------------------- MODULE TextProofs -----------------------------
(***************************************************************************)
(* Type correctness of text files, that no descriptor is shared, and that  *)
(* text files keep TextSpec, for every set of variables, files and strings *)
(* and every buffer size: what a program writes is what a program reads,   *)
(* whatever the buffers and the host's short reads do in between.          *)
(*                                                                         *)
(* The first two are not inductive.  IInv of TextSafe adds: that           *)
(* the host gives descriptors in order, so that a new one is nobody's      *)
(* (HostSafe), that a closed variable has kept none (ClosedHoldsNone), and *)
(* that __text_flush need not reset a position (WritersAtStart).  It comes *)
(* in two halves, what the blocks and the host have (FileInv) and the rest *)
(* (RestInv).  Keeps is what a helper leaves as it was; each helper has a  *)
(* lemma that it does, whatever state a statement calls it in.             *)
(*                                                                         *)
(* IInv says which descriptor is whose, InPlace of TextSafe where the      *)
(* bytes are: a writer's go to the end of its file, and a reader's buffer  *)
(* is what lies before the host's offset.  From it every action is a step  *)
(* of TextSpec on what is stored and what is left to read, or changes      *)
(* neither.                                                                *)
(***************************************************************************)
EXTENDS TextSafe, Counting, SequenceTheorems, TLAPS

(* What __text_write_str gives is reached byte by byte: at[i] is the state  *)
(* after i calls of __text_write_byte.                                      *)
LEMMA WriteStrSteps ==
  ASSUME NEW s, NEW str, Len(str) \in Nat, NEW lost
  PROVE  \E at : /\ at[0] = s
                 /\ \A i \in 1..Len(str) : at[i] = WriteByte(at[i - 1], str[i], lost)
                 /\ WriteStr(s, str, lost) = at[Len(str)]
<1> DEFINE n == Len(str)
           Is(g, m) == g = [i \in 0..m |-> IF i = 0 THEN s
                                           ELSE WriteByte(g[i - 1], str[i], lost)]
           T == {m \in 0..n : \E g : Is(g, m)}
<1>1. 0 \in T
  <2> DEFINE g == [i \in 0..0 |-> s]
  <2>1. Is(g, 0)
    OBVIOUS
  <2> HIDE DEF g
  <2>2. QED
    BY <2>1
<1>2. ASSUME NEW m \in 0..n - 1, m \in T PROVE m + 1 \in T
  <2>1. PICK g : Is(g, m)
    BY <1>2
  <2> DEFINE h == [i \in 0..m + 1 |-> IF i = m + 1 THEN WriteByte(g[m], str[m + 1], lost)
                                      ELSE g[i]]
  <2>2. ASSUME NEW i \in 0..m + 1
        PROVE  h[i] = IF i = 0 THEN s ELSE WriteByte(h[i - 1], str[i], lost)
    <3>1. CASE i = m + 1
      <4>1. h[i] = WriteByte(g[m], str[i], lost) /\ h[i - 1] = g[m] /\ i # 0
        BY <3>1
      <4>2. QED
        BY <4>1
    <3>2. CASE i # m + 1 /\ i # 0
      <4>1. i \in 0..m /\ i - 1 \in 0..m + 1 /\ i - 1 # m + 1
        BY <3>2
      <4>2. h[i] = g[i] /\ h[i - 1] = g[i - 1]
        BY <3>2, <4>1
      <4>3. g[i] = WriteByte(g[i - 1], str[i], lost)
        BY <2>1, <3>2, <4>1
      <4>4. QED
        BY <3>2, <4>2, <4>3
    <3>3. CASE i = 0
      <4>1. h[0] = g[0] /\ g[0] = s
        BY <2>1
      <4>2. QED
        BY <3>3, <4>1
    <3>4. QED
      BY <3>1, <3>2, <3>3
  <2>3. Is(h, m + 1)
    BY <2>2
  <2> HIDE DEF h
  <2>4. QED
    BY <2>3
<1>3. \E g : Is(g, n)
  <2>1. 0..n \subseteq T
    BY <1>1, <1>2, CountUp
  <2>2. QED
    BY <2>1
<1> DEFINE at == CHOOSE g : Is(g, n)
<1>4. Is(at, n)
  BY <1>3
<1>5. WriteStr(s, str, lost) = at[n]
  BY DEF WriteStr
<1> HIDE DEF at
<1>6. at[0] = s /\ \A i \in 1..n : at[i] = WriteByte(at[i - 1], str[i], lost)
  BY <1>4
<1>7. QED
  BY <1>5, <1>6

-----------------------------------------------------------------------------
(* The host's calls keep its tables in order and rename nothing.            *)

(* The larger of two.                                                       *)
LEMMA MaxOfTwo ==
  ASSUME NEW a \in Int, NEW b \in Int
  PROVE  Max({a, b}) = IF a >= b THEN a ELSE b
<1> DEFINE m == IF a >= b THEN a ELSE b
<1>1. m \in {a, b} /\ \A y \in {a, b} : m >= y
  OBVIOUS
<1>2. \A x \in {a, b} : (\A y \in {a, b} : x >= y) => x = m
  OBVIOUS
<1> HIDE DEF m
<1>3. (CHOOSE x \in {a, b} : \A y \in {a, b} : x >= y) = m
  BY <1>1, <1>2
<1>4. QED
  BY <1>3 DEF Max, m

(* The smaller of two.                                                      *)
LEMMA MinOfTwo ==
  ASSUME NEW a \in Int, NEW b \in Int
  PROVE  Min({a, b}) = IF a <= b THEN a ELSE b
<1> DEFINE m == IF a <= b THEN a ELSE b
<1>1. m \in {a, b} /\ \A y \in {a, b} : m <= y
  OBVIOUS
<1>2. \A x \in {a, b} : (\A y \in {a, b} : x <= y) => x = m
  OBVIOUS
<1> HIDE DEF m
<1>3. (CHOOSE x \in {a, b} : \A y \in {a, b} : x <= y) = m
  BY <1>1, <1>2
<1>4. QED
  BY <1>3 DEF Min, m

SameFiles(h, k) ==
  /\ DOMAIN k.open = DOMAIN h.open
  /\ DOMAIN k.disk = DOMAIN h.disk
  /\ k.next = h.next
  /\ \A d \in DOMAIN h.open : k.open[d].name = h.open[d].name

(* Bytes written at a place of a file, byte by byte.                        *)
LEMMA WriteAtType ==
  ASSUME NEW content \in Seq(Bytes), NEW at \in Nat, NEW bytes \in Seq(Bytes)
  PROVE  /\ WriteAt(content, at, bytes) \in Seq(Bytes)
         /\ Len(WriteAt(content, at, bytes))
              = IF Len(content) >= at + Len(bytes) THEN Len(content) ELSE at + Len(bytes)
         /\ \A i \in 1..Len(WriteAt(content, at, bytes)) :
              WriteAt(content, at, bytes)[i] =
                IF i \in at + 1 .. at + Len(bytes) THEN bytes[i - at]
                ELSE IF i <= Len(content) THEN content[i]
                ELSE Nul
<1> DEFINE m == Max({Len(content), at + Len(bytes)})
           w == WriteAt(content, at, bytes)
           W(i) == IF i \in at + 1 .. at + Len(bytes) THEN bytes[i - at]
                   ELSE IF i <= Len(content) THEN content[i]
                   ELSE Nul
<1>1. m = (IF Len(content) >= at + Len(bytes) THEN Len(content) ELSE at + Len(bytes))
      /\ m \in Nat
  BY MaxOfTwo
<1>2. w = [i \in 1..m |-> W(i)]
  BY DEF WriteAt
<1> HIDE DEF m
<1>3. \A i \in 1..m : W(i) \in Bytes
  BY DEF Bytes
<1> HIDE DEF w, W
<1>4. w \in Seq(Bytes) /\ Len(w) = m
  BY <1>1, <1>2, <1>3
<1>5. \A i \in 1..Len(w) : w[i] = W(i)
  BY <1>2, <1>4
<1>6. QED
  BY <1>1, <1>4, <1>5 DEF w, W

(* fd_write changes no file but its own, and leaves the host's table right; *)
LEMMA FdWriteSafe ==
  ASSUME NEW h, HostSafe(h), NEW fd, NEW bytes \in Seq(Bytes), NEW taken \in 0..Len(bytes)
  PROVE  HostSafe(FdWrite(h, fd, bytes, taken)) /\ SameFiles(h, FdWrite(h, fd, bytes, taken))
<1> DEFINE k == FdWrite(h, fd, bytes, taken)
           o == h.open[fd]
           b == SubSeq(bytes, 1, taken)
<1>1. CASE fd \notin DOMAIN h.open
  <2>1. k = [h EXCEPT !.errno = BadF] /\ BadF \in Nat
    BY <1>1 DEF FdWrite, BadF
  <2>2. QED
    BY <2>1 DEF HostSafe, SameFiles
<1>2. CASE fd \in DOMAIN h.open
  <2>1. b \in Seq(Bytes) /\ Len(b) = taken /\ taken \in Nat
    OBVIOUS
  <2>2. o.name \in DOMAIN h.disk /\ o.at \in Nat /\ h.disk[o.name] \in Seq(Bytes)
    BY <1>2 DEF HostSafe
  <2> DEFINE errno == IF taken < Len(bytes) THEN IOError ELSE Success
             disk == [h.disk EXCEPT ![o.name] = WriteAt(@, o.at, b)]
             open == [h.open EXCEPT ![fd].at = @ + Len(b)]
  <2>3. k = [disk |-> disk, open |-> open, next |-> h.next, errno |-> errno]
    BY <1>2 DEF FdWrite, HostSafe
  <2>4. errno \in Nat
    BY DEF IOError, Success
  <2>5. WriteAt(h.disk[o.name], o.at, b) \in Seq(Bytes)
    BY <2>1, <2>2, WriteAtType
  <2>6. DOMAIN disk = DOMAIN h.disk /\ \A n \in DOMAIN disk : disk[n] \in Seq(Bytes)
    BY <2>5 DEF HostSafe
  <2>7. /\ DOMAIN open = DOMAIN h.open
        /\ \A d \in DOMAIN open :
             open[d] \in [name : DOMAIN h.disk, at : Nat] /\ open[d].name = h.open[d].name
    <3>1. \A d \in DOMAIN h.open : h.open[d] \in [name : DOMAIN h.disk, at : Nat]
      BY DEF HostSafe
    <3>2. Len(b) \in Nat
      BY <2>1
    <3> HIDE DEF b
    <3>3. QED
      BY <3>1, <3>2, <1>2
  <2> HIDE DEF k, o, b, errno, disk, open
  <2>8. k.disk = disk /\ k.open = open /\ k.next = h.next /\ k.errno = errno
    BY <2>3
  <2>9. HostSafe(k)
    BY <2>3, <2>4, <2>6, <2>7, <2>8 DEF HostSafe
  <2>10. SameFiles(h, k)
    BY <2>6, <2>7, <2>8 DEF SameFiles
  <2>11. QED
    BY <2>9, <2>10 DEF k
<1>3. QED
  BY <1>1, <1>2

(* fd_read too;                                                             *)
LEMMA FdReadSafe ==
  ASSUME NEW h, HostSafe(h), NEW fd \in DOMAIN h.open, NEW n \in Nat
  PROVE  HostSafe(FdRead(h, fd, n)) /\ SameFiles(h, FdRead(h, fd, n))
<1> DEFINE k == FdRead(h, fd, n)
           open == [h.open EXCEPT ![fd].at = @ + n]
<1>1. k = [disk |-> h.disk, open |-> open, next |-> h.next, errno |-> h.errno]
  <2>1. h = [disk |-> h.disk, open |-> h.open, next |-> h.next, errno |-> h.errno]
    BY DEF HostSafe
  <2>2. QED
    BY <2>1 DEF FdRead
<1>2. /\ DOMAIN open = DOMAIN h.open
      /\ \A d \in DOMAIN open :
           open[d] \in [name : DOMAIN h.disk, at : Nat] /\ open[d].name = h.open[d].name
  BY DEF HostSafe
<1> HIDE DEF k, open
<1>3. k.disk = h.disk /\ k.open = open /\ k.next = h.next /\ k.errno = h.errno
  BY <1>1
<1>4. HostSafe(k) /\ SameFiles(h, k)
  BY <1>1, <1>2, <1>3 DEF HostSafe, SameFiles
<1>5. QED
  BY <1>4 DEF k

(* fd_close takes one descriptor away and nothing else;                     *)
LEMMA FdCloseSafe ==
  ASSUME NEW h, HostSafe(h), NEW fd
  PROVE  /\ HostSafe(FdClose(h, fd))
         /\ DOMAIN FdClose(h, fd).open = DOMAIN h.open \ {fd}
         /\ \A d \in DOMAIN h.open \ {fd} : FdClose(h, fd).open[d] = h.open[d]
         /\ FdClose(h, fd).disk = h.disk /\ FdClose(h, fd).next = h.next
<1> DEFINE open == [d \in DOMAIN h.open \ {fd} |-> h.open[d]]
<1>1. FdClose(h, fd) = [disk |-> h.disk, open |-> open, next |-> h.next, errno |-> h.errno]
  <2>1. h = [disk |-> h.disk, open |-> h.open, next |-> h.next, errno |-> h.errno]
    BY DEF HostSafe
  <2>2. QED
    BY <2>1 DEF FdClose
<1>2. DOMAIN open = DOMAIN h.open \ {fd} /\ \A d \in DOMAIN open : open[d] = h.open[d]
  OBVIOUS
<1> HIDE DEF open
<1>3. QED
  BY <1>1, <1>2 DEF HostSafe

(* What an open changes: nothing, or a new descriptor is at the start of n. *)
OpenedAs(h, k, n, oflags, answer) ==
  /\ HostSafe(k)
  /\ answer \in Nat
  /\ answer # Success => k.open = h.open /\ k.disk = h.disk
  /\ answer = Success =>
       /\ DOMAIN k.open = DOMAIN h.open \cup {h.next}
       /\ h.next \notin DOMAIN h.open
       /\ k.open[h.next] = [name |-> n, at |-> 0]
       /\ \A d \in DOMAIN h.open : k.open[d] = h.open[d]
       /\ k.disk = IF WritesFile(oflags) THEN With(h.disk, n, << >>) ELSE h.disk

(* path_open adds at most one, which nobody has.                            *)
LEMMA PathOpenSafe ==
  ASSUME NEW h, HostSafe(h), NEW dir, NEW n \in Names, NEW oflags, h.next # FirstFd + MaxOpens,
         NEW answer \in PathOpenAnswers(h, dir, n, oflags)
  PROVE  OpenedAs(h, PathOpen(h, n, oflags, answer), n, oflags, answer)
<1> DEFINE k == PathOpen(h, n, oflags, answer)
<1>1. answer \in Nat
  BY DEF PathOpenAnswers, NotCapable, NotFound, Success, Denied
<1>2. CASE answer # Success
  <2>1. k = [h EXCEPT !.errno = answer]
    BY <1>2 DEF PathOpen
  <2> HIDE DEF k
  <2>2. k.open = h.open /\ k.disk = h.disk /\ k.next = h.next /\ HostSafe(k)
    BY <1>1, <2>1 DEF HostSafe
  <2>3. QED
    BY <1>1, <1>2, <2>2 DEF k, OpenedAs
<1>3. CASE answer = Success
  <2> DEFINE open == With(h.open, h.next, [name |-> n, at |-> 0])
             disk == IF WritesFile(oflags) THEN With(h.disk, n, << >>) ELSE h.disk
  <2>1. k = [disk |-> disk, open |-> open, next |-> h.next + 1, errno |-> Success]
    BY <1>3 DEF PathOpen
  <2>2. h.next \in Int /\ h.next \in FirstFd..FirstFd + MaxOpens /\ FirstFd \in Int /\ MaxOpens \in Nat
    BY HostAssumption, FileAssumption DEF HostSafe, FirstFd
  <2>3. h.next \notin DOMAIN h.open
    BY <2>2 DEF HostSafe
  <2>4. /\ DOMAIN open = DOMAIN h.open \cup {h.next}
        /\ open[h.next] = [name |-> n, at |-> 0]
        /\ \A d \in DOMAIN h.open : open[d] = h.open[d]
    BY <2>3 DEF With
  <2>5. /\ DOMAIN h.disk \subseteq DOMAIN disk /\ DOMAIN disk \subseteq Names
        /\ \A m \in DOMAIN disk : disk[m] \in Seq(Bytes)
    <3>1. << >> \in Seq(Bytes)
      OBVIOUS
    <3>2. CASE WritesFile(oflags)
      BY <3>1, <3>2 DEF HostSafe, With
    <3>3. CASE ~WritesFile(oflags)
      BY <3>3 DEF HostSafe
    <3>4. QED
      BY <3>2, <3>3
  <2>6. n \in DOMAIN disk
    <3>1. CASE WritesFile(oflags)
      BY <3>1 DEF With
    <3>2. CASE ~WritesFile(oflags)
      BY <1>3, <3>2 DEF PathOpenAnswers, NotFound, NotCapable, Success
    <3>3. QED
      BY <3>1, <3>2
  <2> HIDE DEF k, open, disk
  <2>7. k.open = open /\ k.disk = disk /\ k.next = h.next + 1 /\ k.errno = Success
    BY <2>1
  <2>8. \A d \in DOMAIN k.open :
          d \in FirstFd..k.next - 1 /\ k.open[d] \in [name : DOMAIN k.disk, at : Nat]
    <3>1. ASSUME NEW d \in DOMAIN h.open
          PROVE  d \in FirstFd..h.next /\ h.open[d] \in [name : DOMAIN disk, at : Nat]
      BY <2>2, <2>5 DEF HostSafe
    <3>2. [name |-> n, at |-> 0] \in [name : DOMAIN disk, at : Nat]
      BY <2>6
    <3>3. QED
      BY <2>2, <2>4, <2>7, <3>1, <3>2
  <2>9. k.next \in FirstFd..FirstFd + MaxOpens /\ k.errno \in Nat
    BY <2>2, <2>7 DEF Success
  <2>10. HostSafe(k)
    BY <2>1, <2>5, <2>7, <2>8, <2>9 DEF HostSafe
  <2>11. QED
    BY <1>1, <1>3, <2>3, <2>4, <2>7, <2>10 DEF k, disk, OpenedAs
<1>4. QED
  BY <1>2, <1>3

-----------------------------------------------------------------------------
(* The helpers keep a block and the host in order, and leave the file, mode *)
(* and descriptor of the block alone.                                       *)

BlockOK(b) ==
  /\ b \in Blocks /\ b.pos <= Len(b.buf) /\ Len(b.buf) <= BufSize
  /\ b.mode = "write" => b.pos = 0

StateOK(s) ==
  /\ s = [block |-> s.block, host |-> s.host, nread |-> s.nread]
  /\ BlockOK(s.block) /\ HostSafe(s.host) /\ s.nread \in {0, 1}

SameBlock(b, c) == c.name = b.name /\ c.mode = b.mode /\ c.fd = b.fd

Keeps(s, t) ==
  StateOK(t) /\ SameBlock(s.block, t.block) /\ SameFiles(s.host, t.host)

(* A flush loses no more than a buffer.                                     *)
LEMMA LossBound ==
  ASSUME NEW lost \in Losses
  PROVE  lost \in 0..BufSize
BY HostAssumption DEF Losses

(* What two helpers leave alone one after the other.                        *)
LEMMA KeepsKeeps ==
  ASSUME NEW s, NEW t, NEW u, Keeps(s, t), Keeps(t, u)
  PROVE  Keeps(s, u)
BY DEF Keeps, SameBlock, SameFiles

(* A control block with its buffer emptied.                                 *)
LEMMA EmptiedOK ==
  ASSUME NEW b, BlockOK(b), NEW c,
         c = [b EXCEPT !.buf = << >>, !.pos = 0] \/ (b.pos = 0 /\ c = [b EXCEPT !.buf = << >>])
  PROVE  BlockOK(c) /\ SameBlock(b, c) /\ c.buf = << >> /\ c.pos = 0
<1>1. << >> \in Seq(Bytes) /\ Len(<< >>) = 0 /\ BufSize \in Nat /\ 0 \in Nat
  BY HostAssumption
<1>2. b \in Blocks
  BY DEF BlockOK
<1>3. c \in Blocks /\ SameBlock(b, c) /\ c.buf = << >> /\ c.pos = 0
  BY <1>1, <1>2 DEF Blocks, SameBlock
<1>4. QED
  BY <1>1, <1>3 DEF BlockOK

(* __text_flush touches the variable it is given, and no other.             *)
LEMMA FlushKeeps ==
  ASSUME NEW s, StateOK(s), s.nread = nread, NEW lost \in Losses
  PROVE  LET t == Flush(s, lost)
         IN /\ Keeps(s, t) /\ t.nread = nread
            /\ IF s.block.mode = "write" THEN t.block.buf = << >> ELSE t = s
<1> DEFINE t == Flush(s, lost)
           b == s.block
<1>1. CASE b.buf # << >> /\ b.mode = "write"
  <2> DEFINE taken == Max({0, Len(b.buf) - lost})
             h == FdWrite(s.host, b.fd, b.buf, taken)
             c == [b EXCEPT !.buf = << >>]
  <2>1. t = [block |-> c, host |-> h, nread |-> nread]
    BY <1>1 DEF Flush, On
  <2>2. b \in Blocks /\ b.pos = 0 /\ b.buf \in Seq(Bytes) /\ BlockOK(b)
    BY <1>1 DEF StateOK, BlockOK, Blocks
  <2>3. taken \in 0..Len(b.buf)
    <3>1. lost \in Nat /\ Len(b.buf) \in Nat
      BY <2>2, LossBound, HostAssumption
    <3>2. QED
      BY <3>1, MaxOfTwo
  <2>4. HostSafe(h) /\ SameFiles(s.host, h)
    <3> HIDE DEF taken
    <3>1. QED
      BY <2>2, <2>3, FdWriteSafe DEF StateOK
  <2>5. BlockOK(c) /\ SameBlock(b, c) /\ c.buf = << >>
    BY ZenonT(60), <2>2, EmptiedOK
  <2> HIDE DEF t, h, c
  <2>6. t.block = c /\ t.host = h /\ t.nread = nread
    BY <2>1
  <2>7. QED
    BY <1>1, <2>1, <2>4, <2>5, <2>6 DEF Keeps, StateOK, t
<1>2. CASE ~(b.buf # << >> /\ b.mode = "write")
  <2>1. t = s
    BY <1>2 DEF Flush
  <2>2. QED
    BY <1>2, <2>1 DEF Keeps, SameBlock, SameFiles
<1>3. QED
  BY <1>1, <1>2

(* So does __text_write_byte,                                               *)
LEMMA WriteByteKeeps ==
  ASSUME NEW s, StateOK(s), s.nread = nread, NEW ch \in Bytes, NEW lost \in Losses
  PROVE  Keeps(s, WriteByte(s, ch, lost)) /\ WriteByte(s, ch, lost).nread = nread
<1> DEFINE t == IF Len(s.block.buf) >= BufSize THEN Flush(s, lost) ELSE s
           u == WriteByte(s, ch, lost)
<1>1. CASE s.block.mode # "write"
  <2>1. u = s
    BY <1>1 DEF WriteByte
  <2>2. QED
    BY <2>1 DEF Keeps, SameBlock, SameFiles
<1>2. CASE s.block.mode = "write"
  <2>1. Keeps(s, t) /\ t.nread = nread /\ Len(t.block.buf) < BufSize
    <3>1. CASE Len(s.block.buf) >= BufSize
      <4>1. Keeps(s, Flush(s, lost)) /\ Flush(s, lost).nread = nread
            /\ Flush(s, lost).block.buf = << >>
        BY <1>2, FlushKeeps
      <4>2. QED
        BY <3>1, <4>1, HostAssumption
    <3>2. CASE ~(Len(s.block.buf) >= BufSize)
      <4>1. Len(s.block.buf) \in Nat /\ BufSize \in Nat
        BY HostAssumption DEF StateOK, BlockOK, Blocks
      <4>2. QED
        BY <3>2, <4>1 DEF Keeps, SameBlock, SameFiles
    <3>3. QED
      BY <3>1, <3>2
  <2> HIDE DEF t
  <2> DEFINE c == [t.block EXCEPT !.buf = Append(@, ch)]
  <2>2. u = [t EXCEPT !.block.buf = Append(@, ch)]
    BY <1>2 DEF WriteByte, t
  <2>3. u = [block |-> c, host |-> t.host, nread |-> t.nread]
    <3>1. t = [block |-> t.block, host |-> t.host, nread |-> t.nread]
      BY <2>1 DEF Keeps, StateOK
    <3> HIDE DEF u
    <3>2. QED
      BY <2>2, <3>1
  <2>4. t.block \in Blocks /\ t.block.pos <= Len(t.block.buf) /\ t.block.mode = "write"
        /\ t.block.pos = 0
    BY <1>2, <2>1 DEF Keeps, StateOK, BlockOK, SameBlock
  <2>5. c \in Blocks /\ SameBlock(t.block, c) /\ c.pos = 0 /\ c.buf = Append(t.block.buf, ch)
    BY SMTT(30), <2>4 DEF Blocks, SameBlock
  <2>6. Len(c.buf) = Len(t.block.buf) + 1 /\ Len(c.buf) <= BufSize
    <3>1. t.block.buf \in Seq(Bytes)
      BY <2>4 DEF Blocks
    <3>2. Len(Append(t.block.buf, ch)) = Len(t.block.buf) + 1 /\ Len(t.block.buf) \in Nat
      BY <3>1
    <3> HIDE DEF c
    <3>3. QED
      BY <2>1, <2>5, <3>2, HostAssumption
  <2>7. BlockOK(c)
    <3>1. Len(c.buf) \in Nat
      BY <2>5 DEF Blocks
    <3>2. QED
      BY <2>5, <2>6, <3>1 DEF BlockOK
  <2> HIDE DEF c, u
  <2>8. u.block = c /\ u.host = t.host /\ u.nread = t.nread
    BY <2>3
  <2>9. QED
    BY <2>1, <2>3, <2>5, <2>7, <2>8 DEF Keeps, StateOK, SameBlock, SameFiles, u
<1>3. QED
  BY <1>1, <1>2

(* and a string of them.                                                    *)
LEMMA WriteStrKeeps ==
  ASSUME NEW s, StateOK(s), s.nread = nread, NEW str \in Seq(Bytes), NEW lost \in Losses
  PROVE  Keeps(s, WriteStr(s, str, lost)) /\ WriteStr(s, str, lost).nread = nread
<1>1. PICK at : /\ at[0] = s
                /\ \A i \in 1..Len(str) : at[i] = WriteByte(at[i - 1], str[i], lost)
                /\ WriteStr(s, str, lost) = at[Len(str)]
  BY WriteStrSteps
<1> DEFINE T == {i \in 0..Len(str) : Keeps(s, at[i]) /\ at[i].nread = nread}
<1>2. 0 \in T
  BY <1>1 DEF Keeps, SameBlock, SameFiles
<1>3. ASSUME NEW i \in 0..Len(str) - 1, i \in T PROVE i + 1 \in T
  <2>1. i + 1 \in 1..Len(str) /\ (i + 1) - 1 = i /\ str[i + 1] \in Bytes
    OBVIOUS
  <2>2. at[i + 1] = WriteByte(at[i], str[i + 1], lost)
    BY <1>1, <2>1
  <2>3. Keeps(at[i], at[i + 1]) /\ at[i + 1].nread = nread
    BY <1>3, <2>1, <2>2, WriteByteKeeps DEF Keeps
  <2>4. Keeps(s, at[i + 1])
    BY <1>3, <2>3, KeepsKeeps
  <2>5. QED
    BY <2>1, <2>3, <2>4
<1> HIDE DEF T
<1>4. 0..Len(str) \subseteq T
  <2>1. Len(str) \in Nat
    OBVIOUS
  <2>2. QED
    BY <2>1, <1>2, <1>3, CountUp
<1>5. QED
  <2>1. Len(str) \in 0..Len(str)
    OBVIOUS
  <2>2. Len(str) \in T
    BY <1>4, <2>1
  <2>3. QED
    BY <1>1, <2>2 DEF T

(* The invariant in two halves: files and host, and the rest.               *)
FileInv ==
  /\ block \in [Files -> Blocks]
  /\ \A f \in Files : BlockOK(block[f])
  /\ HostSafe(host)
  /\ nread \in {0, 1}
  /\ ClosedHoldsNone
  /\ DescriptorsOwned

RestInv ==
  /\ preopen \in {0} \cup 3..16
  /\ ioresult \in Nat
  /\ trapped \in BOOLEAN
  /\ LineSafe
  /\ line.active => Len(line.text) <= MaxLine

(* The invariant, in what concerns files and what does not.                 *)
LEMMA Halves == IInv <=> FileInv /\ RestInv
<1>1. IInv => FileInv /\ RestInv
  BY DEF IInv, TypeOK, FileInv, RestInv, BlockOK, WritersAtStart
<1>2. FileInv /\ RestInv => IInv
  <2>1. ASSUME FileInv PROVE DOMAIN host.open \subseteq FirstFd..host.next - 1
    BY <2>1 DEF FileInv, HostSafe
  <2>2. QED
    BY <2>1 DEF IInv, TypeOK, FileInv, RestInv, BlockOK, WritersAtStart, HostSafe
<1>3. QED
  BY <1>1, <1>2

(* The state that a helper starts from.                                     *)
LEMMA StartOK ==
  ASSUME FileInv, NEW f \in Files
  PROVE  LET s == On(block[f], host)
         IN StateOK(s) /\ s.nread = nread /\ s.block = block[f] /\ s.host = host
BY DEF FileInv, On, StateOK

(* A byte served from the buffer.                                           *)
LEMMA ServeKeeps ==
  ASSUME NEW s, StateOK(s), s.block.mode = "read",
         s.block.buf = << >> \/ s.block.pos < Len(s.block.buf)
  PROVE  LET r == Serve(s)
         IN /\ Keeps(s, r.at) /\ r.at.host = s.host
            /\ r.at.block.buf = s.block.buf
            /\ IF s.block.buf = << >>
                 THEN r.byte = EndOfFile /\ r.at = s
                 ELSE /\ r.byte = s.block.buf[s.block.pos + 1]
                      /\ r.at.block.pos = s.block.pos + 1
<1> DEFINE r == Serve(s)
<1>1. CASE s.block.buf = << >>
  <2>1. r.at = s /\ r.byte = EndOfFile
    BY <1>1 DEF Serve
  <2>2. QED
    BY <1>1, <2>1 DEF Keeps, SameBlock, SameFiles
<1>2. CASE s.block.buf # << >>
  <2> DEFINE c == [s.block EXCEPT !.pos = @ + 1]
             t == [s EXCEPT !.block.pos = @ + 1]
  <2>1. r.at = t /\ r.byte = s.block.buf[s.block.pos + 1]
    BY <1>2 DEF Serve
  <2>2. t = [block |-> c, host |-> s.host, nread |-> s.nread]
    <3>1. s = [block |-> s.block, host |-> s.host, nread |-> s.nread]
      BY DEF StateOK
    <3>2. QED
      BY <3>1
  <2>3. BlockOK(c) /\ SameBlock(s.block, c) /\ c.buf = s.block.buf /\ c.pos = s.block.pos + 1
    <3>1. s.block \in Blocks /\ s.block.pos \in Nat /\ Len(s.block.buf) \in Nat
      BY DEF StateOK, BlockOK, Blocks
    <3>2. c \in Blocks /\ SameBlock(s.block, c) /\ c.buf = s.block.buf /\ c.pos = s.block.pos + 1
      BY <3>1 DEF Blocks, SameBlock
    <3> HIDE DEF c
    <3>3. QED
      BY <1>2, <3>1, <3>2 DEF BlockOK, StateOK, SameBlock
  <2> HIDE DEF t, c
  <2>4. t.block = c /\ t.host = s.host /\ t.nread = s.nread
    BY <2>2
  <2>5. Keeps(s, t)
    BY <2>2, <2>3, <2>4 DEF Keeps, StateOK, SameFiles
  <2>6. QED
    BY <1>2, <2>1, <2>3, <2>4, <2>5
<1>3. QED
  BY <1>1, <1>2

(* How many bytes a read may give: none only at the end of the file.        *)
LEMMA ReadExtentsOK ==
  ASSUME NEW h, HostSafe(h), NEW fd \in DOMAIN h.open, NEW n \in ReadExtents(h, fd)
  PROVE  /\ Remaining(h, fd) \in Seq(Bytes)
         /\ n \in 0..BufSize /\ n <= Len(Remaining(h, fd))
         /\ n = 0 <=> Remaining(h, fd) = << >>
         /\ FdReadBytes(h, fd, n) \in Seq(Bytes) /\ Len(FdReadBytes(h, fd, n)) = n
<1> DEFINE o == h.open[fd]
           rem == Remaining(h, fd)
<1>1. o.name \in DOMAIN h.disk /\ o.at \in Nat /\ h.disk[o.name] \in Seq(Bytes)
  BY DEF HostSafe
<1>2. rem = SubSeq(h.disk[o.name], o.at + 1, Len(h.disk[o.name]))
  BY DEF Remaining
<1>3. rem \in Seq(Bytes) /\ Len(rem) \in Nat
  <2> HIDE DEF o, rem
  <2>1. QED
    BY SMTT(30), <1>1, <1>2
<1> HIDE DEF rem, o
<1>4. Min({BufSize, Len(rem)}) = IF BufSize <= Len(rem) THEN BufSize ELSE Len(rem)
  BY <1>3, MinOfTwo, HostAssumption
<1>5. n \in 0..BufSize /\ n <= Len(rem) /\ (n = 0 <=> Len(rem) = 0)
  BY <1>3, <1>4, HostAssumption DEF ReadExtents, rem
<1>6. rem = << >> <=> Len(rem) = 0
  BY <1>3
<1>7. SubSeq(rem, 1, n) \in Seq(Bytes) /\ Len(SubSeq(rem, 1, n)) = n
  BY <1>3, <1>5
<1>8. QED
  BY <1>3, <1>5, <1>6, <1>7 DEF FdReadBytes, rem

(* A refill touches the variable it is given, and no other.                 *)
LEMMA RefillsKeep ==
  ASSUME FileInv, NEW f \in Files, block[f].mode = "read", NEW s \in Refills(block[f])
  PROVE  /\ Keeps(On(block[f], host), s) /\ s.block.mode = "read" /\ s.block.pos = 0
         /\ \E n \in ReadExtents(host, block[f].fd) :
              /\ s.block.buf = FdReadBytes(host, block[f].fd, n)
              /\ s.host = FdRead(host, block[f].fd, n)
<1> DEFINE b == block[f]
<1>1. b.fd \in DOMAIN host.open /\ BlockOK(b) /\ b \in Blocks /\ HostSafe(host)
  BY DEF FileInv, DescriptorsOwned, BlockOK
<1>2. PICK n \in ReadExtents(host, b.fd) :
        s = [block |-> [b EXCEPT !.buf = FdReadBytes(host, b.fd, n), !.pos = 0],
             host |-> FdRead(host, b.fd, n), nread |-> Min({n, 1})]
  BY ZenonT(60), <1>1 DEF Refills
<1> HIDE DEF b
<1>3. /\ n \in 0..BufSize
      /\ FdReadBytes(host, b.fd, n) \in Seq(Bytes) /\ Len(FdReadBytes(host, b.fd, n)) = n
  BY <1>1, ReadExtentsOK
<1>4. HostSafe(FdRead(host, b.fd, n)) /\ SameFiles(host, FdRead(host, b.fd, n))
  BY <1>1, <1>3, FdReadSafe, HostAssumption
<1>5. Min({n, 1}) \in {0, 1}
  <2>1. n \in Nat /\ 1 \in Int
    BY <1>3, HostAssumption
  <2>2. Min({n, 1}) = IF n <= 1 THEN n ELSE 1
    BY <2>1, MinOfTwo
  <2>3. QED
    BY <2>1, <2>2
<1> DEFINE c == [b EXCEPT !.buf = FdReadBytes(host, b.fd, n), !.pos = 0]
<1>6. c \in Blocks /\ SameBlock(b, c) /\ c.pos = 0 /\ c.buf = FdReadBytes(host, b.fd, n)
  BY <1>1, <1>3 DEF Blocks, SameBlock
<1> HIDE DEF c
<1>7. BlockOK(c)
  BY <1>3, <1>6, HostAssumption DEF BlockOK
<1>8. s.block = c /\ s.host = FdRead(host, b.fd, n) /\ s.nread = Min({n, 1})
      /\ s = [block |-> s.block, host |-> s.host, nread |-> s.nread]
  BY <1>2 DEF c
<1>9. On(b, host).block = b /\ On(b, host).host = host
  BY DEF On
<1>10. QED
  BY <1>4, <1>5, <1>6, <1>7, <1>8, <1>9 DEF Keeps, StateOK, b, SameBlock

(* __text_read_byte: one byte, or the end of the file.                      *)
LEMMA ReadByteKeeps ==
  ASSUME FileInv, NEW f \in Files, NEW r \in ReadByte(f)
  PROVE  /\ Keeps(On(block[f], host), r.at)
         /\ r.byte # EndOfFile => r.at.block.pos > 0 /\ block[f].mode = "read"
         /\ r.byte \in Bytes \cup {EndOfFile}
<1> DEFINE b == block[f]
           s == On(b, host)
<1>1. StateOK(s) /\ s.nread = nread /\ s.block = b /\ s.host = host
  BY StartOK
<1>2. b \in Blocks /\ b.pos \in Nat /\ b.buf \in Seq(Bytes) /\ b.pos <= Len(b.buf)
  BY DEF FileInv, BlockOK, Blocks
<1>3. CASE b.mode # "read"
  <2>1. r.byte = EndOfFile /\ r.at = s
    BY <1>3 DEF ReadByte
  <2>2. QED
    BY <1>1, <2>1 DEF Keeps, SameBlock, SameFiles
<1>4. CASE b.mode = "read" /\ b.pos >= Len(b.buf)
  <2>1. PICK t \in Refills(b) : r = Serve(t)
    BY <1>4 DEF ReadByte
  <2>2. Keeps(s, t) /\ t.block.mode = "read" /\ t.block.pos = 0
    BY <1>4, <2>1, RefillsKeep
  <2>3. StateOK(t) /\ t.block.buf \in Seq(Bytes)
    BY <2>2 DEF Keeps, StateOK, BlockOK, Blocks
  <2>4. t.block.buf = << >> \/ t.block.pos < Len(t.block.buf)
    BY <2>2, <2>3
  <2>5. Keeps(t, r.at) /\ IF t.block.buf = << >>
                            THEN r.byte = EndOfFile
                            ELSE r.byte = t.block.buf[1] /\ r.at.block.pos = 1
    BY <2>1, <2>2, <2>3, <2>4, ServeKeeps
  <2>6. t.block.buf # << >> => t.block.buf[1] \in Bytes
    BY <2>3
  <2>7. QED
    BY <1>4, <2>2, <2>5, <2>6, KeepsKeeps
<1>5. CASE b.mode = "read" /\ ~(b.pos >= Len(b.buf))
  <2>1. r = Serve(s)
    BY <1>5 DEF ReadByte
  <2>2. b.buf # << >> /\ b.pos < Len(b.buf) /\ b.buf[b.pos + 1] \in Bytes
    BY <1>2, <1>5
  <2> HIDE DEF b, s
  <2>3. Keeps(s, r.at) /\ r.byte = b.buf[b.pos + 1] /\ r.at.block.pos = b.pos + 1
    BY <1>1, <1>5, <2>1, <2>2, ServeKeeps
  <2>4. QED
    BY <1>2, <1>5, <2>2, <2>3 DEF b, s
<1>6. QED
  BY <1>3, <1>4, <1>5

(* A byte put back moves the position back.                                 *)
LEMMA PutBackKeeps ==
  ASSUME NEW s, NEW r, Keeps(s, r.at), r.byte # EndOfFile => r.at.block.pos > 0,
         r.byte # EndOfFile => s.block.mode = "read"
  PROVE  /\ Keeps(s, PutBack(r)) /\ PutBack(r).host = r.at.host
         /\ PutBack(r).block.buf = r.at.block.buf
         /\ PutBack(r).block.pos = IF r.byte = EndOfFile THEN r.at.block.pos
                                   ELSE r.at.block.pos - 1
<1> DEFINE t == r.at
           c == [t.block EXCEPT !.pos = @ - 1]
           u == PutBack(r)
<1>1. CASE r.byte = EndOfFile
  BY <1>1 DEF PutBack
<1>2. CASE r.byte # EndOfFile
  <2>1. t = [block |-> t.block, host |-> t.host, nread |-> t.nread]
    BY DEF Keeps, StateOK
  <2>2. u = [t EXCEPT !.block.pos = @ - 1]
    BY <1>2 DEF PutBack
  <2>3. u = [block |-> c, host |-> t.host, nread |-> t.nread]
    <3> HIDE DEF t, u
    <3>1. QED
      BY <2>1, <2>2
  <2>4. t.block \in Blocks /\ t.block.pos - 1 \in Nat /\ t.block.pos - 1 <= Len(t.block.buf)
        /\ Len(t.block.buf) <= BufSize /\ t.block.mode = "read"
    <3>1. t.block \in Blocks /\ BlockOK(t.block) /\ t.block.pos > 0 /\ t.block.mode = "read"
      BY <1>2 DEF Keeps, StateOK, BlockOK, SameBlock
    <3>2. t.block.pos \in Nat /\ Len(t.block.buf) \in Nat
      BY <3>1 DEF Blocks
    <3>3. QED
      BY <3>1, <3>2 DEF BlockOK
  <2>5. BlockOK(c) /\ SameBlock(t.block, c) /\ c.buf = t.block.buf /\ c.pos = t.block.pos - 1
    <3>1. c \in Blocks /\ SameBlock(t.block, c) /\ c.buf = t.block.buf /\ c.pos = t.block.pos - 1
      BY <2>4 DEF Blocks, SameBlock
    <3> HIDE DEF c
    <3>2. QED
      BY <2>4, <3>1 DEF BlockOK, SameBlock
  <2> HIDE DEF c, u, t
  <2>6. u.block = c /\ u.host = t.host /\ u.nread = t.nread
    BY <2>3
  <2>7. Keeps(s, t)
    BY DEF t
  <2>8. Keeps(s, u)
    BY <2>3, <2>5, <2>6, <2>7 DEF Keeps, StateOK, SameBlock, SameFiles
  <2>9. QED
    BY <1>2, <2>5, <2>6, <2>8 DEF t, u
<1>3. QED
  BY <1>1, <1>2

(* A statement that keeps a file's descriptor keeps the files in order.     *)
LEMMA BecomeInv ==
  ASSUME FileInv, NEW f \in Files, NEW s, Keeps(On(block[f], host), s), Become(f, s)
  PROVE  FileInv'
<1>1. /\ BlockOK(s.block) /\ s.block \in Blocks /\ SameBlock(block[f], s.block)
      /\ HostSafe(s.host) /\ SameFiles(host, s.host) /\ s.nread \in {0, 1}
  BY DEF Keeps, StateOK, On, BlockOK
<1>2. /\ block' \in [Files -> Blocks] /\ block'[f] = s.block
      /\ \A g \in Files : SameBlock(block[g], block'[g]) /\ BlockOK(block'[g])
  BY <1>1 DEF FileInv, Become, SameBlock
<1>3. HostSafe(host)' /\ SameFiles(host, host') /\ nread' \in {0, 1}
  BY <1>1 DEF Become, HostSafe
<1>4. ClosedHoldsNone'
  BY <1>2 DEF FileInv, ClosedHoldsNone, SameBlock
<1>5. DescriptorsOwned'
  BY <1>2, <1>3 DEF FileInv, DescriptorsOwned, SameBlock, SameFiles
<1>6. \A g \in Files : BlockOK(block[g])'
  BY <1>2 DEF BlockOK, Blocks
<1>7. QED
  BY <1>2, <1>3, <1>4, <1>5, <1>6 DEF FileInv

-----------------------------------------------------------------------------
(* Each statement keeps the files in order.                                 *)

(* Every action keeps the invariant.                                        *)
LEMMA InitInv == Init => IInv
<1> SUFFICES ASSUME Init PROVE FileInv /\ RestInv
  BY Halves
<1>1. HostSafe(host)
  <2>1. host = [disk |-> Granted, open |-> << >>, next |-> FirstFd, errno |-> Success]
    BY DEF Init, InitHost
  <2>2. FirstFd \in FirstFd..FirstFd + MaxOpens
    BY HostAssumption, FileAssumption DEF FirstFd
  <2>3. \A n \in DOMAIN Granted : Granted[n] \in Seq(Bytes)
    <3>1. ASSUME NEW n \in DOMAIN Granted PROVE Granted[n] \in Seq(Bytes)
      <4>1. Granted[n] \in Seq(Chars) /\ Chars \subseteq Bytes
        BY HostAssumption DEF Bytes
      <4>2. QED
        BY <4>1
    <3>2. QED
      BY <3>1
  <2>4. DOMAIN << >> = {} /\ Success \in Nat /\ DOMAIN Granted \subseteq Names
    BY HostAssumption DEF Success
  <2>5. QED
    BY <2>1, <2>2, <2>3, <2>4 DEF HostSafe
<1>2. block \in [Files -> Blocks] /\ \A f \in Files : BlockOK(block[f])
  BY HostAssumption DEF Init, Blocks, BlockOK
<1>3. nread \in {0, 1} /\ ClosedHoldsNone /\ DescriptorsOwned
  BY DEF Init, ClosedHoldsNone, DescriptorsOwned
<1>4. RestInv
  BY DEF Init, RestInv, LineSafe, NoLine
<1>5. QED
  BY <1>1, <1>2, <1>3, <1>4 DEF FileInv

(* assign keeps what is known of files.                                     *)
LEMMA AssignInv ==
  ASSUME FileInv, NEW f \in Files, NEW n \in Names, Assign(f, n)
  PROVE  FileInv'
<1> DEFINE c == [block[f] EXCEPT !.name = n, !.mode = "closed", !.fd = NoFd]
<1>1. block' = [block EXCEPT ![f] = c] /\ host' = host /\ nread' = nread
  BY DEF Assign
<1>2. c \in Blocks /\ c.mode = "closed" /\ c.fd = NoFd
      /\ c.pos = block[f].pos /\ c.buf = block[f].buf
  BY DEF FileInv, Blocks
<1> HIDE DEF c
<1>3. BlockOK(c)
  BY <1>2 DEF FileInv, BlockOK
<1>4. \A g \in Files : block'[g] = IF g = f THEN c ELSE block[g]
  BY <1>1 DEF FileInv
<1>5. block' \in [Files -> Blocks]
  BY <1>1, <1>2 DEF FileInv
<1>6. \A g \in Files : BlockOK(block[g])'
  BY <1>3, <1>4 DEF FileInv, BlockOK, Blocks
<1>7. ClosedHoldsNone' /\ DescriptorsOwned'
  BY <1>1, <1>2, <1>4 DEF FileInv, ClosedHoldsNone, DescriptorsOwned
<1>8. HostSafe(host)' /\ nread' \in {0, 1}
  BY <1>1 DEF FileInv, HostSafe
<1>9. QED
  BY <1>5, <1>6, <1>7, <1>8 DEF FileInv

(* reset and rewrite do,                                                    *)
LEMMA OpenInv ==
  ASSUME FileInv, preopen \in {0} \cup 3..16,
         NEW f \in Files, NEW mode \in {"read", "write"}, NEW checked \in BOOLEAN,
         Open(f, mode, checked)
  PROVE  FileInv' /\ preopen' \in {0} \cup 3..16 /\ ioresult' \in Nat /\ trapped' \in BOOLEAN
<1> DEFINE oflags == IF mode = "write" THEN "creat|trunc" ELSE "none"
           n == block[f].name
<1>0. n \in Names /\ host.next < FirstFd + MaxOpens
  BY DEF Open, MayOpen, FileInv, Blocks
<1>1. PICK answer \in PathOpenAnswers(host, FindPreopen, n, oflags) :
        /\ block' = [block EXCEPT ![f] = Opened(@, mode, answer)]
        /\ host' = PathOpen(host, n, oflags, answer)
        /\ ioresult' = answer /\ trapped' = (checked /\ answer # 0)
  BY DEF Open, StoreIOResult
<1> HIDE DEF oflags
<1>2. /\ HostSafe(host')
      /\ answer \in Nat
      /\ answer # Success => host'.open = host.open /\ host'.disk = host.disk
      /\ answer = Success =>
           /\ DOMAIN host'.open = DOMAIN host.open \cup {host.next}
           /\ host.next \notin DOMAIN host.open
           /\ host'.open[host.next] = [name |-> n, at |-> 0]
           /\ \A d \in DOMAIN host.open : host'.open[d] = host.open[d]
  <2>1. HostSafe(host)
    BY DEF FileInv
  <2> HIDE DEF n
  <2> DEFINE dir == FindPreopen
  <2>2. answer \in PathOpenAnswers(host, dir, n, oflags)
    OBVIOUS
  <2> HIDE DEF dir
  <2>3. host.next # FirstFd + MaxOpens
    BY <1>0, <2>1, HostAssumption, FileAssumption DEF HostSafe, FirstFd
  <2>4. OpenedAs(host, host', n, oflags, answer)
    BY <1>0, <1>1, <2>1, <2>2, <2>3, PathOpenSafe
  <2>5. QED
    BY <2>4 DEF OpenedAs
<1> DEFINE c == Opened(block[f], mode, answer)
<1>3. host.next \in FirstFd..FirstFd + MaxOpens - 1
  BY <1>0, HostAssumption, FileAssumption DEF FileInv, HostSafe, FirstFd
<1>4. /\ c \in Blocks /\ c.name = n /\ c.pos = 0 /\ c.buf = << >>
      /\ IF answer = Success THEN c.mode = mode /\ c.fd = host.next
         ELSE c.mode = "closed" /\ c.fd = NoFd
  <2>1. block[f] \in Blocks /\ << >> \in Seq(Bytes) /\ 0 \in Nat
    BY DEF FileInv
  <2>2. CASE answer = Success
    BY <1>3, <2>1, <2>2 DEF Opened, Blocks
  <2>3. CASE answer # Success
    BY <2>1, <2>3 DEF Opened, Blocks
  <2>4. QED
    BY <2>2, <2>3
<1> HIDE DEF c, n
<1>5. BlockOK(c)
  BY <1>4, HostAssumption DEF BlockOK
<1>6. \A g \in Files : block'[g] = IF g = f THEN c ELSE block[g]
  BY <1>1 DEF FileInv, c
<1>7. block' \in [Files -> Blocks]
  BY <1>1, <1>4 DEF FileInv, c
<1>8. \A g \in Files : BlockOK(block[g])'
  BY <1>5, <1>6 DEF FileInv, BlockOK, Blocks
<1>9. ClosedHoldsNone' /\ DescriptorsOwned'
  <2>1. CASE answer = Success
    BY <2>1, <1>2, <1>4, <1>6 DEF FileInv, ClosedHoldsNone, DescriptorsOwned
  <2>2. CASE answer # Success
    BY <2>2, <1>2, <1>4, <1>6 DEF FileInv, ClosedHoldsNone, DescriptorsOwned
  <2>3. QED
    BY <2>1, <2>2
<1>10. HostSafe(host)' /\ nread' \in {0, 1}
  BY <1>2 DEF FileInv, HostSafe, Open
<1>11. preopen' \in {0} \cup 3..16
  BY DEF Open, FindPreopen
<1>12. trapped' \in BOOLEAN
  BY <1>1
<1>13. QED
  BY <1>1, <1>2, <1>7, <1>8, <1>9, <1>10, <1>11, <1>12 DEF FileInv

(* close,                                                                   *)
LEMMA CloseInv ==
  ASSUME FileInv, NEW f \in Files, NEW lost \in Losses, Close(f, lost)
  PROVE  FileInv'
<1> DEFINE t == On(block[f], host)
           s == Flush(t, lost)
           c == [s.block EXCEPT !.fd = NoFd, !.mode = "closed"]
           h == FdClose(s.host, s.block.fd)
<1>1. StateOK(t) /\ t.nread = nread /\ t.block = block[f] /\ t.host = host
  BY StartOK
<1>2. Keeps(t, s)
  BY <1>1, FlushKeeps
<1>3. block' = [block EXCEPT ![f] = c] /\ host' = h /\ nread' = nread
  BY DEF Close, Become, On
<1> HIDE DEF s, t
<1>4. /\ s.block \in Blocks /\ s.block.fd = block[f].fd /\ BlockOK(s.block)
      /\ HostSafe(s.host) /\ SameFiles(host, s.host)
  BY <1>1, <1>2 DEF Keeps, StateOK, SameBlock, BlockOK
<1>5. /\ HostSafe(h) /\ DOMAIN h.open = DOMAIN host.open \ {block[f].fd}
      /\ \A d \in DOMAIN h.open : h.open[d].name = host.open[d].name
  BY <1>4, FdCloseSafe DEF SameFiles
<1> HIDE DEF h
<1>6. c \in Blocks /\ c.mode = "closed" /\ c.fd = NoFd /\ c.pos = s.block.pos
      /\ c.buf = s.block.buf
  BY <1>4 DEF Blocks
<1> HIDE DEF c
<1>7. BlockOK(c)
  BY <1>4, <1>6 DEF BlockOK
<1>8. \A g \in Files : block'[g] = IF g = f THEN c ELSE block[g]
  BY <1>3 DEF FileInv
<1>9. block' \in [Files -> Blocks]
  BY <1>3, <1>6 DEF FileInv
<1>10. \A g \in Files : BlockOK(block[g])'
  BY <1>7, <1>8 DEF FileInv, BlockOK, Blocks
<1>11. ClosedHoldsNone'
  BY <1>6, <1>8 DEF FileInv, ClosedHoldsNone
<1>12. DescriptorsOwned'
  <2>1. ASSUME NEW g \in Files, block'[g].mode # "closed"
        PROVE  g # f /\ block'[g] = block[g] /\ block[g].fd # block[f].fd
               /\ block[g].fd \in DOMAIN host.open
    <3>1. g # f /\ block'[g] = block[g] /\ block[g].fd \in DOMAIN host.open
      BY <2>1, <1>6, <1>8 DEF FileInv, DescriptorsOwned
    <3>2. CASE block[f].mode # "closed"
      BY <2>1, <3>1, <3>2 DEF FileInv, DescriptorsOwned
    <3>3. CASE block[f].mode = "closed"
      <4>1. block[f].fd \in {NoFd, 0}
        BY <3>3 DEF FileInv, ClosedHoldsNone
      <4>2. block[g].fd \in FirstFd..host.next - 1 /\ FirstFd > 0 /\ FirstFd \in Int
        BY <3>1, HostAssumption DEF FileInv, HostSafe, FirstFd
      <4>3. QED
        BY <3>1, <4>1, <4>2, HostAssumption DEF FileInv, HostSafe, NoFd
    <3>4. QED
      BY <3>1, <3>2, <3>3
  <2>2. QED
    BY <1>3, <1>5, <2>1 DEF FileInv, DescriptorsOwned
<1>13. HostSafe(host)' /\ nread' \in {0, 1}
  BY <1>3, <1>5 DEF FileInv, HostSafe
<1>14. QED
  BY <1>9, <1>10, <1>11, <1>12, <1>13 DEF FileInv

(* write,                                                                   *)
LEMMA WriteInv ==
  ASSUME FileInv, NEW f \in Files, NEW lost \in Losses, NEW str \in Strings,
         Write(f, str, lost)
  PROVE  FileInv'
<1>1. StateOK(On(block[f], host)) /\ On(block[f], host).nread = nread
  BY StartOK
<1>2. str \in Seq(Bytes)
  <2>1. str \in Seq(Chars) /\ Chars \subseteq Bytes
    BY FileAssumption DEF Bytes
  <2>2. QED
    BY <2>1
<1>3. Keeps(On(block[f], host), WriteStr(On(block[f], host), str, lost))
  BY <1>1, <1>2, WriteStrKeeps
<1>4. QED
  BY <1>3, BecomeInv DEF Write

(* and every way of reading.                                                *)
LEMMA ReadInv ==
  ASSUME FileInv, NEW f \in Files, NEW r \in ReadByte(f),
         Become(f, r.at) \/ Become(f, PutBack(r))
  PROVE  FileInv'
<1>1. /\ Keeps(On(block[f], host), r.at)
      /\ r.byte # EndOfFile => r.at.block.pos > 0 /\ block[f].mode = "read"
  BY ReadByteKeeps
<1>2. Keeps(On(block[f], host), PutBack(r))
  <2>1. On(block[f], host).block = block[f]
    BY DEF On
  <2>2. QED
    BY <1>1, <2>1, PutBackKeeps
<1>3. QED
  BY <1>1, <1>2, BecomeInv

(* A step that leaves control blocks and host alone.                        *)
LEMMA FilesSame ==
  ASSUME FileInv, UNCHANGED <<block, host>>, nread' \in {0, 1}
  PROVE  FileInv'
<1>1. HostSafe(host)' /\ ClosedHoldsNone' /\ DescriptorsOwned'
  BY DEF FileInv, HostSafe, ClosedHoldsNone, DescriptorsOwned
<1>2. QED
  BY <1>1 DEF FileInv, BlockOK, Blocks

(* A step that leaves the line alone.                                       *)
LEMMA RestSame ==
  ASSUME RestInv, UNCHANGED line, preopen' \in {0} \cup 3..16, ioresult' \in Nat,
         trapped' \in BOOLEAN
  PROVE  RestInv'
BY DEF RestInv, LineSafe

(* A line that is read has a file and its bytes.                            *)
LEMMA LineActive ==
  ASSUME LineSafe, line.active
  PROVE  line \in [active : {TRUE}, file : Files, text : Seq(Bytes), from : Int]
<1>1. NoLine.active = FALSE
  BY DEF NoLine
<1>2. line # NoLine
  BY <1>1
<1>3. QED
  BY <1>2 DEF LineSafe

(* Every step keeps both halves.                                            *)
LEMMA NextInv == FileInv /\ RestInv /\ [Next]_vars => FileInv' /\ RestInv'
<1> SUFFICES ASSUME FileInv, RestInv, [Next]_vars PROVE FileInv' /\ RestInv'
  OBVIOUS
<1>0. /\ preopen \in {0} \cup 3..16 /\ ioresult \in Nat /\ trapped \in BOOLEAN
      /\ nread \in {0, 1}
  BY DEF RestInv, FileInv
<1>1. ASSUME NEW f \in Files, NEW n \in Names, Assign(f, n) PROVE FileInv' /\ RestInv'
  BY ZenonT(60), <1>0, <1>1, AssignInv, RestSame DEF Assign
<1>2. ASSUME NEW f \in Files, NEW checked \in BOOLEAN, Reset(f, checked) \/ Rewrite(f, checked)
      PROVE  FileInv' /\ RestInv'
  <2>1. PICK mode \in {"read", "write"} : Open(f, mode, checked)
    BY <1>2 DEF Reset, Rewrite
  <2>2. UNCHANGED line
    BY <2>1 DEF Open
  <2>3. QED
    BY <1>0, <2>1, <2>2, OpenInv, RestSame
<1>3. ASSUME NEW f \in Files, NEW lost \in Losses, Close(f, lost) PROVE FileInv' /\ RestInv'
  BY ZenonT(60), <1>0, <1>3, CloseInv, RestSame DEF Close
<1>4. ASSUME NEW f \in Files, NEW lost \in Losses, NEW str \in Strings, Write(f, str, lost)
      PROVE  FileInv' /\ RestInv'
  BY <1>0, <1>4, WriteInv, RestSame DEF Write
<1>5. ASSUME NEW f \in Files, NEW checked \in BOOLEAN, ReadChar(f, checked)
      PROVE  FileInv' /\ RestInv'
  <2>1. PICK r \in ReadByte(f) : Become(f, r.at)
    BY <1>5 DEF ReadChar
  <2>2. FileInv'
    BY <2>1, ReadInv
  <2>3. ioresult' \in Nat /\ trapped' \in BOOLEAN /\ UNCHANGED <<preopen, line>>
    BY <1>0, <1>5 DEF ReadChar, ErrPastEof
  <2>4. QED
    BY <1>0, <2>2, <2>3, RestSame
<1>6. ASSUME NEW f \in Files, Eof(f) PROVE FileInv' /\ RestInv'
  <2>1. PICK r \in ReadByte(f) : Become(f, PutBack(r))
    BY <1>6 DEF Eof
  <2>2. QED
    BY <1>0, <1>6, <2>1, ReadInv, RestSame DEF Eof
<1>7. ASSUME NEW f \in Files, ReadLine(f) PROVE FileInv' /\ RestInv'
  <2>1. FileInv'
    BY <1>0, <1>7, FilesSame DEF ReadLine
  <2>2. Position(f) \in Int
    <3>1. CASE block[f].mode = "read"
      <4>1. block[f].fd \in DOMAIN host.open
        BY <3>1 DEF FileInv, DescriptorsOwned
      <4>2. host.open[block[f].fd].at \in Nat
        BY <4>1 DEF FileInv, HostSafe
      <4>3. Len(block[f].buf) \in Nat /\ block[f].pos \in Nat
        BY DEF FileInv, Blocks
      <4>4. QED
        BY <3>1, <4>2, <4>3 DEF Position
    <3>2. QED
      BY <3>1 DEF Position
  <2>3. line'.active /\ line'.text = << >>
        /\ line' \in [active : {TRUE}, file : Files, text : Seq(Bytes), from : Int]
    BY <1>7, <2>2 DEF ReadLine
  <2>4. Len(line'.text) <= MaxLine
    BY <2>3, FileAssumption
  <2>5. QED
    BY <1>0, <1>7, <2>1, <2>3, <2>4 DEF ReadLine, RestInv, LineSafe
<1>8. ASSUME LineByte PROVE FileInv' /\ RestInv'
  <2>1. line.active /\ line \in [active : {TRUE}, file : Files, text : Seq(Bytes), from : Int]
    BY <1>8, LineActive DEF LineByte, RestInv
  <2>2. PICK r \in ReadByte(line.file) :
          /\ ~EndsLine(r.byte)
          /\ Become(line.file, r.at)
          /\ line' = [line EXCEPT !.text = IF Stored(r.byte) THEN Append(@, r.byte) ELSE @]
    BY <1>8 DEF LineByte
  <2>3. FileInv'
    BY <2>1, <2>2, ReadInv
  <2>4. r.byte \in Bytes
    BY <2>1, <2>2, ReadByteKeeps DEF EndsLine
  <2> DEFINE text == IF Stored(r.byte) THEN Append(line.text, r.byte) ELSE line.text
  <2>5. text \in Seq(Bytes) /\ Len(text) <= MaxLine
    <3>1. line.text \in Seq(Bytes) /\ Len(line.text) <= MaxLine
      BY <2>1 DEF RestInv
    <3>2. QED
      BY <2>4, <3>1, FileAssumption DEF Stored
  <2>6. line' = [line EXCEPT !.text = text]
    BY <2>2
  <2> HIDE DEF text
  <2>7. line' \in [active : {TRUE}, file : Files, text : Seq(Bytes), from : Int]
        /\ line'.text = text
    BY <2>1, <2>5, <2>6
  <2>8. QED
    BY <1>0, <1>8, <2>3, <2>5, <2>7 DEF LineByte, RestInv, LineSafe
<1>9. ASSUME LineEnd PROVE FileInv' /\ RestInv'
  <2>1. line.active /\ line.file \in Files
    BY <1>9, LineActive DEF LineEnd, RestInv
  <2>2. PICK r \in ReadByte(line.file) : Become(line.file, r.at)
    BY <1>9 DEF LineEnd
  <2>3. FileInv'
    BY <2>1, <2>2, ReadInv
  <2>4. QED
    BY <1>0, <1>9, <2>3 DEF LineEnd, RestInv, LineSafe, NoLine
<1>10. ASSUME IOResult \/ ReadConsole \/ ConsoleEof PROVE FileInv' /\ RestInv'
  <2>1. UNCHANGED <<block, host, preopen, line, trapped>> /\ nread' \in {0, 1} /\ ioresult' \in Nat
    BY <1>0, <1>10 DEF IOResult, ReadConsole, ConsoleEof
  <2>2. QED
    BY <1>0, <2>1, FilesSame, RestSame
<1>11. CASE UNCHANGED vars
  BY <1>0, <1>11, FilesSame, RestSame DEF vars
<1>12. QED
  BY <1>1, <1>2, <1>3, <1>4, <1>5, <1>6, <1>7, <1>8, <1>9, <1>10, <1>11
     DEF Next, FileStatement

(* In every state the host's descriptors, the blocks and the line being read*)
(* fit together as IInv says.                                               *)
LEMMA Invariant == Spec => []IInv
BY InitInv, NextInv, Halves, PTL DEF Spec

(* The buffers of __text_write_byte and __text_read_byte stay within their  *)
(* 256 bytes and every position within its buffer, through any sequence of  *)
(* file statements on any number of variables.                              *)
THEOREM TextTypeCorrect == Spec => []TypeOK
<1>1. IInv => TypeOK
  BY DEF IInv
<1>2. QED
  BY <1>1, Invariant, PTL

(* A variable that is open has a descriptor that is open on its own file, and*)
(* no other variable has it: what assign, reset, rewrite and close leave in *)
(* the control blocks never names a file that was opened since through      *)
(* another variable.                                                        *)
THEOREM DescriptorsNeverShared == Spec => []DescriptorsOwned
<1>1. IInv => DescriptorsOwned
  BY DEF IInv
<1>2. QED
  BY <1>1, Invariant, PTL

-----------------------------------------------------------------------------
(* The refinement of TextSpec.                                             *)

(* Sequences.                                                               *)

Suffix(s, p) == SubSeq(s, p + 1, Len(s))

(* What is left of a sequence behind p,                                     *)
LEMMA SuffixFacts ==
  ASSUME NEW S, NEW s \in Seq(S), NEW p \in 0..Len(s)
  PROVE  /\ Suffix(s, p) \in Seq(S) /\ Len(Suffix(s, p)) = Len(s) - p
         /\ \A i \in 1..Len(s) - p : Suffix(s, p)[i] = s[p + i]
         /\ Suffix(s, p) = << >> <=> p = Len(s)
         /\ p < Len(s) => Head(Suffix(s, p)) = s[p + 1] /\ Tail(Suffix(s, p)) = Suffix(s, p + 1)
<1>1. /\ Suffix(s, p) \in Seq(S) /\ Len(Suffix(s, p)) = Len(s) - p
      /\ \A i \in 1..Len(s) - p : Suffix(s, p)[i] = s[p + i]
  BY DEF Suffix
<1>2. Suffix(s, p) = << >> <=> p = Len(s)
  BY <1>1
<1>3. ASSUME p < Len(s)
      PROVE  Head(Suffix(s, p)) = s[p + 1] /\ Tail(Suffix(s, p)) = Suffix(s, p + 1)
  <2>1. p + 1 \in 1..Len(s) /\ Len(s) \in p + 1..Len(s)
    BY <1>3
  <2>2. QED
    BY <2>1, HeadTailOfSubSeq DEF Suffix
<1>4. QED
  BY <1>1, <1>2, <1>3

(* of which the first bytes are those between p and q.                      *)
LEMMA SuffixSplit ==
  ASSUME NEW S, NEW s \in Seq(S), NEW p \in 0..Len(s), NEW q \in p..Len(s)
  PROVE  SubSeq(s, p + 1, q) \o Suffix(s, q) = Suffix(s, p)
<1>1. p + 1 \in 1..Len(s) + 1 /\ q \in (p + 1) - 1..Len(s) /\ Len(s) \in q..Len(s)
  OBVIOUS
<1>2. QED
  BY <1>1, ConcatAdjacentSubSeq DEF Suffix

(* Writing at the end appends.                                              *)
LEMMA WriteAtEnd ==
  ASSUME NEW s \in Seq(Bytes), NEW t \in Seq(Bytes)
  PROVE  WriteAt(s, Len(s), t) = s \o t
<1> DEFINE w == WriteAt(s, Len(s), t)
<1>1. /\ w \in Seq(Bytes) /\ Len(w) = Len(s) + Len(t)
      /\ \A i \in 1..Len(w) : w[i] = IF i \in Len(s) + 1..Len(s) + Len(t) THEN t[i - Len(s)]
                                     ELSE IF i <= Len(s) THEN s[i] ELSE Nul
  <2>1. Len(s) \in Nat /\ Len(t) \in Nat
    OBVIOUS
  <2>2. QED
    BY <2>1, WriteAtType
<1>2. /\ s \o t \in Seq(Bytes) /\ Len(s \o t) = Len(s) + Len(t)
      /\ \A i \in 1..Len(s) + Len(t) : (s \o t)[i] = IF i <= Len(s) THEN s[i] ELSE t[i - Len(s)]
  BY ConcatProperties
<1> HIDE DEF w
<1>3. \A i \in 1..Len(w) : w[i] = (s \o t)[i]
  BY <1>1, <1>2
<1>4. w = s \o t
  BY <1>1, <1>2, <1>3, SeqEqual
<1>5. QED
  BY <1>4 DEF w

(* Text of a line, byte by byte.                                            *)

(* TextSpec's Kept, byte by byte: carriage returns are left out,            *)
LEMMA KeptSteps ==
  ASSUME NEW s, Len(s) \in Nat
  PROVE  \E at : /\ at[0] = << >>
                 /\ \A i \in 1..Len(s) : at[i] = IF s[i] = CR THEN at[i - 1]
                                                 ELSE Append(at[i - 1], s[i])
                 /\ Abstract!Kept(s) = at[Len(s)]
<1> DEFINE n == Len(s)
           Is(g, m) == g = [i \in 0..m |-> IF i = 0 THEN << >>
                                           ELSE IF s[i] = CR THEN g[i - 1]
                                           ELSE Append(g[i - 1], s[i])]
           T == {m \in 0..n : \E g : Is(g, m)}
<1>1. 0 \in T
  <2> DEFINE g == [i \in 0..0 |-> << >>]
  <2>1. Is(g, 0)
    OBVIOUS
  <2> HIDE DEF g
  <2>2. QED
    BY <2>1
<1>2. ASSUME NEW m \in 0..n - 1, m \in T PROVE m + 1 \in T
  <2>1. PICK g : Is(g, m)
    BY <1>2
  <2> DEFINE Step(x, i) == IF s[i] = CR THEN x ELSE Append(x, s[i])
             h == [i \in 0..m + 1 |-> IF i = m + 1 THEN Step(g[m], m + 1) ELSE g[i]]
  <2>2. ASSUME NEW i \in 0..m + 1
        PROVE  h[i] = IF i = 0 THEN << >> ELSE Step(h[i - 1], i)
    <3>1. CASE i = m + 1
      <4>1. h[i] = Step(g[m], i) /\ h[i - 1] = g[m] /\ i # 0
        BY <3>1
      <4>2. QED
        BY <4>1
    <3>2. CASE i # m + 1 /\ i # 0
      <4>1. i \in 0..m /\ i - 1 \in 0..m + 1 /\ i - 1 # m + 1
        BY <3>2
      <4>2. h[i] = g[i] /\ h[i - 1] = g[i - 1]
        BY <3>2, <4>1
      <4>3. g[i] = Step(g[i - 1], i)
        BY <2>1, <3>2, <4>1
      <4>4. QED
        BY <3>2, <4>2, <4>3
    <3>3. CASE i = 0
      <4>1. h[0] = g[0] /\ g[0] = << >>
        BY <2>1
      <4>2. QED
        BY <3>3, <4>1
    <3>4. QED
      BY <3>1, <3>2, <3>3
  <2>3. Is(h, m + 1)
    BY <2>2
  <2> HIDE DEF h
  <2>4. QED
    BY SMTT(30), <2>3
<1>3. \E g : Is(g, n)
  <2>1. 0..n \subseteq T
    BY <1>1, <1>2, CountUp
  <2>2. QED
    BY <2>1
<1> DEFINE at == CHOOSE g : Is(g, n)
<1>4. Is(at, n)
  BY ZenonT(60), <1>3
<1>5. Abstract!Kept(s) = at[n]
  BY DEF Abstract!Kept, Abstract!CR, CR
<1> HIDE DEF at
<1>6. at[0] = << >> /\ \A i \in 1..n : at[i] = IF s[i] = CR THEN at[i - 1]
                                               ELSE Append(at[i - 1], s[i])
  <2>1. at[0] = << >>
    BY <1>4
  <2>2. ASSUME NEW i \in 1..n
        PROVE  at[i] = IF s[i] = CR THEN at[i - 1] ELSE Append(at[i - 1], s[i])
    <3>1. i \in 0..n /\ i # 0
      OBVIOUS
    <3>2. QED
      BY <1>4, <3>1
  <2>3. QED
    BY <2>1, <2>2
<1>7. QED
  BY <1>5, <1>6

(* which leaves bytes,                                                      *)
LEMMA KeptType ==
  ASSUME NEW S, NEW s \in Seq(S)
  PROVE  Abstract!Kept(s) \in Seq(S)
<1>1. PICK at : /\ at[0] = << >>
                /\ \A i \in 1..Len(s) : at[i] = IF s[i] = CR THEN at[i - 1]
                                                ELSE Append(at[i - 1], s[i])
                /\ Abstract!Kept(s) = at[Len(s)]
  BY KeptSteps
<1> DEFINE T == {i \in 0..Len(s) : at[i] \in Seq(S)}
<1>2. 0 \in T
  <2>1. << >> \in Seq(S) /\ 0 \in 0..Len(s)
    BY EmptySeq
  <2>2. QED
    BY <1>1, <2>1
<1>3. ASSUME NEW i \in 0..Len(s) - 1, i \in T PROVE i + 1 \in T
  <2>1. i + 1 \in 0..Len(s) /\ i + 1 \in 1..Len(s) /\ (i + 1) - 1 = i /\ s[i + 1] \in S /\ at[i] \in Seq(S)
    BY <1>3
  <2>2. at[i + 1] = IF s[i + 1] = CR THEN at[i] ELSE Append(at[i], s[i + 1])
    BY <1>1, <2>1
  <2>3. Append(at[i], s[i + 1]) \in Seq(S)
    BY <2>1, AppendProperties
  <2>4. at[i + 1] \in Seq(S)
    BY <2>1, <2>2, <2>3
  <2>5. QED
    BY <2>1, <2>4
<1> HIDE DEF T
<1>4. Len(s) \in Nat /\ Len(s) \in 0..Len(s)
  OBVIOUS
<1>5. 0..Len(s) \subseteq T
  BY <1>2, <1>3, <1>4, CountUp
<1>6. Len(s) \in T
  BY <1>4, <1>5
<1>7. QED
  BY <1>1, <1>6 DEF T

(* one more or the same.                                                    *)
LEMMA KeptAppend ==
  ASSUME NEW S, NEW s \in Seq(S), NEW e \in S
  PROVE  Abstract!Kept(Append(s, e)) = IF e = CR THEN Abstract!Kept(s)
                                       ELSE Append(Abstract!Kept(s), e)
<1> DEFINE n == Len(s)
           t == Append(s, e)
<1>1. n \in Nat /\ Len(t) = n + 1 /\ t[n + 1] = e /\ \A i \in 1..n : t[i] = s[i]
  BY AppendProperties
<1> HIDE DEF t
<1>2. PICK at : /\ at[0] = << >>
                /\ \A i \in 1..n : at[i] = IF s[i] = CR THEN at[i - 1]
                                           ELSE Append(at[i - 1], s[i])
                /\ Abstract!Kept(s) = at[n]
  BY KeptSteps
<1>3. PICK bt : /\ bt[0] = << >>
                /\ \A i \in 1..Len(t) : bt[i] = IF t[i] = CR THEN bt[i - 1]
                                                ELSE Append(bt[i - 1], t[i])
                /\ Abstract!Kept(t) = bt[Len(t)]
  <2>1. Len(t) \in Nat
    BY <1>1
  <2>2. QED
    BY <2>1, KeptSteps
<1> DEFINE T == {i \in 0..n : bt[i] = at[i]}
<1>4. 0 \in T
  BY <1>2, <1>3
<1>5. ASSUME NEW i \in 0..n - 1, i \in T PROVE i + 1 \in T
  <2>1. /\ i + 1 \in 1..n /\ i + 1 \in 1..Len(t) /\ (i + 1) - 1 = i
        /\ t[i + 1] = s[i + 1] /\ bt[i] = at[i] /\ i + 1 \in 0..n
    BY <1>1, <1>5
  <2>2. at[i + 1] = IF s[i + 1] = CR THEN at[i] ELSE Append(at[i], s[i + 1])
    BY <1>2, <2>1
  <2>3. bt[i + 1] = IF t[i + 1] = CR THEN bt[i] ELSE Append(bt[i], t[i + 1])
    BY <1>3, <2>1
  <2>4. QED
    BY <2>1, <2>2, <2>3
<1> HIDE DEF T
<1>6. 0..n \subseteq T
  BY <1>1, <1>4, <1>5, CountUp
<1>7. bt[n] = at[n]
  BY <1>1, <1>6 DEF T
<1>8. n + 1 \in 1..Len(t) /\ (n + 1) - 1 = n
  BY <1>1
<1>9. bt[n + 1] = IF e = CR THEN bt[n] ELSE Append(bt[n], e)
  BY <1>1, <1>3, <1>8
<1>10. QED
  BY <1>1, <1>2, <1>3, <1>7, <1>9 DEF t

(* A line of nothing is nothing,                                            *)
LEMMA TextOfNothing == Abstract!Text(<< >>) = << >>
<1>1. Abstract!Kept(<< >>) = << >>
  BY KeptSteps
<1>2. QED
  BY <1>1, FileAssumption DEF Abstract!Text

(* and each byte adds itself or nothing to it.                              *)
LEMMA TextAppend ==
  ASSUME NEW S, NEW s \in Seq(S), NEW e \in S
  PROVE  LET t == Abstract!Text(s)
         IN /\ t \in Seq(S)
            /\ Abstract!Text(Append(s, e)) = IF e # CR /\ Len(t) < MaxLine THEN Append(t, e) ELSE t
<1> DEFINE k == Abstract!Kept(s)
           l == Abstract!Kept(Append(s, e))
           Cut(x) == SubSeq(x, 1, IF Len(x) < MaxLine THEN Len(x) ELSE MaxLine)
<1>1. Abstract!Text(s) = Cut(k) /\ Abstract!Text(Append(s, e)) = Cut(l)
  BY DEF Abstract!Text
<1>2. k \in Seq(S) /\ l = IF e = CR THEN k ELSE Append(k, e)
  BY KeptType, KeptAppend
<1>3. MaxLine \in Nat
  BY FileAssumption
<1> HIDE DEF k, l
<1>4. Cut(k) \in Seq(S) /\ Len(Cut(k)) = IF Len(k) < MaxLine THEN Len(k) ELSE MaxLine
  BY <1>2, <1>3
<1>5. CASE e = CR
  BY <1>1, <1>2, <1>4, <1>5
<1>6. CASE e # CR
  <2>1. l \in Seq(S) /\ Len(l) = Len(k) + 1 /\ l = Append(k, e)
        /\ \A i \in 1..Len(k) : l[i] = k[i]
    BY <1>2, <1>6, AppendProperties
  <2>2. CASE Len(k) < MaxLine
    <3>1. Cut(k) = k
      BY <1>2, <2>2, SubSeqFull
    <3>2. Cut(l) = SubSeq(l, 1, Len(l))
      <4>1. (IF Len(l) < MaxLine THEN Len(l) ELSE MaxLine) = Len(l)
        BY <1>2, <1>3, <2>1, <2>2
      <4>2. QED
        BY <4>1
    <3>3. Cut(l) = l
      BY <2>1, <3>2, SubSeqFull
    <3>4. QED
      BY <1>1, <1>2, <1>6, <2>1, <2>2, <3>1, <3>3
  <2>3. CASE ~(Len(k) < MaxLine)
    <3>1. Cut(k) = SubSeq(k, 1, MaxLine) /\ Cut(l) = SubSeq(l, 1, MaxLine)
      BY <1>2, <1>3, <2>1, <2>3
    <3>2. SubSeq(k, 1, MaxLine) = SubSeq(l, 1, MaxLine)
      <4>1. /\ SubSeq(k, 1, MaxLine) \in Seq(S) /\ Len(SubSeq(k, 1, MaxLine)) = MaxLine
            /\ SubSeq(l, 1, MaxLine) \in Seq(S) /\ Len(SubSeq(l, 1, MaxLine)) = MaxLine
            /\ \A i \in 1..MaxLine : SubSeq(k, 1, MaxLine)[i] = k[i] /\ SubSeq(l, 1, MaxLine)[i] = l[i]
        BY <1>2, <1>3, <2>1, <2>3
      <4>2. \A i \in 1..MaxLine : k[i] = l[i]
        BY <1>2, <1>3, <2>1, <2>3
      <4>3. \A i \in 1..Len(SubSeq(k, 1, MaxLine)) : SubSeq(k, 1, MaxLine)[i] = SubSeq(l, 1, MaxLine)[i]
        BY <4>1, <4>2
      <4>4. QED
        BY <4>1, <4>3, SeqEqual
    <3>3. ~(Len(Cut(k)) < MaxLine)
      BY <1>3, <1>4, <2>3
    <3>4. QED
      BY <1>1, <1>4, <3>1, <3>2, <3>3
  <2>4. QED
    BY <2>2, <2>3
<1>7. QED
  BY <1>5, <1>6

(* A line ends before the first newline or with the file.                   *)
LEMMA LineLengthIs ==
  ASSUME NEW S, NEW s \in Seq(S), NEW p \in 0..Len(s),
         \A i \in 1..p : s[i] # LF, p < Len(s) => s[p + 1] = LF
  PROVE  Abstract!LineLength(s) = p
<1> DEFINE First(i) == s[i] = LF /\ \A j \in 1..i - 1 : s[j] # LF
<1>0. DOMAIN s = 1..Len(s) /\ Len(s) \in Nat
  OBVIOUS
<1>1. CASE p = Len(s)
  <2>1. ~(\E i \in DOMAIN s : s[i] = LF)
    BY <1>0, <1>1
  <2>2. QED
    BY <1>1, <2>1 DEF Abstract!LineLength, Abstract!LF, LF
<1>2. CASE p < Len(s)
  <2>1. p + 1 \in DOMAIN s /\ s[p + 1] = LF /\ (p + 1) - 1 = p
    BY <1>0, <1>2
  <2>2. First(p + 1)
    BY <2>1
  <2>3. ASSUME NEW i \in DOMAIN s, First(i) PROVE i = p + 1
    <3>1. i \in 1..Len(s) /\ i \notin 1..p
      BY <1>0, <2>3
    <3>2. ~(p + 1 \in 1..i - 1)
      BY <2>1, <2>3
    <3>3. QED
      BY <3>1, <3>2
  <2>4. (CHOOSE i \in DOMAIN s : First(i)) = p + 1
    <3> HIDE DEF First
    <3>1. QED
      BY <2>1, <2>2, <2>3
  <2>5. \E i \in DOMAIN s : s[i] = LF
    BY <2>1
  <2>6. Abstract!LineLength(s) = (CHOOSE i \in DOMAIN s : First(i)) - 1
    BY <2>5 DEF Abstract!LineLength, Abstract!LF, LF
  <2>7. QED
    BY <2>1, <2>4, <2>6
<1>3. QED
  BY <1>1, <1>2

-----------------------------------------------------------------------------
(* Writing adds to the end of the file and the buffer, taken together.      *)

AtEnd(s) ==
  /\ s.block.mode = "write"
  /\ s.block.fd \in DOMAIN s.host.open
  /\ s.host.open[s.block.fd].name = s.block.name
  /\ s.host.open[s.block.fd].at = Len(s.host.disk[s.block.name])

Whole(s) == s.host.disk[s.block.name] \o s.block.buf

OthersSame(s, t) ==
  /\ \A m \in DOMAIN s.host.disk \ {s.block.name} : t.host.disk[m] = s.host.disk[m]
  /\ \A d \in DOMAIN s.host.open \ {s.block.fd} : t.host.open[d] = s.host.open[d]

Adds(s, t, bytes) ==
  Keeps(s, t) /\ t.nread = s.nread /\ AtEnd(t) /\ OthersSame(s, t)
    /\ Whole(t) = Whole(s) \o bytes

(* What a writer has written, on disk and in its buffer.                    *)
LEMMA WholeTypes ==
  ASSUME NEW s, StateOK(s), AtEnd(s)
  PROVE  /\ s.block.name \in DOMAIN s.host.disk
         /\ s.host.disk[s.block.name] \in Seq(Bytes) /\ s.block.buf \in Seq(Bytes)
         /\ Whole(s) \in Seq(Bytes)
<1>1. s.block.name \in DOMAIN s.host.disk
  BY DEF StateOK, AtEnd, HostSafe
<1>2. s.host.disk[s.block.name] \in Seq(Bytes) /\ s.block.buf \in Seq(Bytes)
  BY <1>1 DEF StateOK, HostSafe, BlockOK, Blocks
<1>3. QED
  BY <1>1, <1>2, ConcatProperties DEF Whole

(* A flush moves bytes to the disk and adds none.                           *)
LEMMA FlushAdds ==
  ASSUME NEW s, StateOK(s), s.nread = nread, AtEnd(s)
  PROVE  Adds(s, Flush(s, 0), << >>) /\ Flush(s, 0).block.buf = << >>
<1> DEFINE t == Flush(s, 0)
           b == s.block
           D == s.host.disk[b.name]
<1>0. b.name \in DOMAIN s.host.disk /\ D \in Seq(Bytes) /\ b.buf \in Seq(Bytes)
      /\ Whole(s) \in Seq(Bytes)
  BY WholeTypes
<1>1. Keeps(s, t) /\ t.nread = nread /\ t.block.buf = << >>
  BY FlushKeeps DEF AtEnd, Losses
<1>2. CASE b.buf = << >>
  <2>1. t = s
    BY <1>2 DEF Flush
  <2>2. Whole(s) = Whole(s) \o << >>
    BY <1>0, ConcatEmptySeq
  <2>3. QED
    BY <1>1, <2>1, <2>2 DEF Adds, OthersSame
<1>3. CASE b.buf # << >>
  <2> DEFINE h == FdWrite(s.host, b.fd, b.buf, Len(b.buf))
  <2>1. Max({0, Len(b.buf) - 0}) = Len(b.buf)
    <3>1. Len(b.buf) \in Nat /\ Len(b.buf) - 0 = Len(b.buf)
      BY <1>0
    <3>2. QED
      BY <3>1, MaxOfTwo
  <2>2. t = [block |-> [b EXCEPT !.buf = << >>], host |-> h, nread |-> nread]
    BY SMTT(30), <1>3, <2>1 DEF Flush, On, AtEnd
  <2>3. SubSeq(b.buf, 1, Len(b.buf)) = b.buf
    BY SMTT(30), <1>0, SubSeqFull
  <2>4. /\ h.disk = [s.host.disk EXCEPT ![b.name] = WriteAt(@, Len(D), b.buf)]
        /\ h.open = [s.host.open EXCEPT ![b.fd].at = @ + Len(b.buf)]
    <3>1. s.host = [disk |-> s.host.disk, open |-> s.host.open, next |-> s.host.next,
                    errno |-> s.host.errno]
      BY DEF StateOK, HostSafe
    <3>2. QED
      BY <2>3, <3>1 DEF FdWrite, AtEnd
  <2>5. WriteAt(D, Len(D), b.buf) = D \o b.buf
    BY <1>0, WriteAtEnd
  <2> HIDE DEF h
  <2>6. t.host = h
    BY <2>2
  <2>7. /\ h.disk[b.name] = D \o b.buf
        /\ \A m \in DOMAIN s.host.disk \ {b.name} : h.disk[m] = s.host.disk[m]
    BY ZenonT(60), <1>0, <2>4, <2>5
  <2>8. /\ h.open[b.fd].at = Len(D) + Len(b.buf) /\ h.open[b.fd].name = b.name
        /\ DOMAIN h.open = DOMAIN s.host.open
        /\ \A d \in DOMAIN s.host.open \ {b.fd} : h.open[d] = s.host.open[d]
    <3>1. s.host.open[b.fd] \in [name : DOMAIN s.host.disk, at : Nat]
      BY DEF StateOK, HostSafe, AtEnd
    <3>2. Len(b.buf) \in Nat /\ b.fd \in DOMAIN s.host.open
          /\ s.host.open[b.fd].at = Len(D) /\ s.host.open[b.fd].name = b.name
      BY <1>0 DEF AtEnd
    <3> DEFINE o == s.host.open
    <3>3. h.open = [o EXCEPT ![b.fd] = [o[b.fd] EXCEPT !.at = o[b.fd].at + Len(b.buf)]]
      BY <2>4
    <3> HIDE DEF o, b, D
    <3>4. DOMAIN h.open = DOMAIN o /\ \A d \in DOMAIN o \ {b.fd} : h.open[d] = o[d]
      BY <3>3
    <3>5. h.open[b.fd] = [o[b.fd] EXCEPT !.at = o[b.fd].at + Len(b.buf)]
      BY <3>2, <3>3 DEF o
    <3>6. h.open[b.fd].at = Len(D) + Len(b.buf) /\ h.open[b.fd].name = b.name
      BY <3>1, <3>2, <3>5 DEF o
    <3>7. QED
      BY <3>4, <3>6 DEF o
  <2>9. t.block.name = b.name /\ t.block.fd = b.fd /\ t.block.mode = b.mode
    BY <1>1 DEF Keeps, SameBlock
  <2>10. Len(D \o b.buf) = Len(D) + Len(b.buf) /\ D \o b.buf \in Seq(Bytes)
    BY SMTT(30), <1>0, ConcatProperties
  <2> HIDE DEF t
  <2>11. AtEnd(t)
    BY ZenonT(60), <2>6, <2>7, <2>8, <2>9, <2>10 DEF AtEnd
  <2>12. OthersSame(s, t)
    BY ZenonT(60), <2>6, <2>7, <2>8 DEF OthersSame
  <2>13. Whole(t) = Whole(s) \o << >>
    <3>1. Whole(t) = (D \o b.buf) \o << >> /\ Whole(s) = D \o b.buf
      BY ZenonT(60), <1>1, <2>6, <2>7, <2>9 DEF Whole
    <3>2. QED
      BY ZenonT(60), <3>1
  <2>14. QED
    BY <1>1, <2>11, <2>12, <2>13 DEF Adds, t
<1>4. QED
  BY <1>2, <1>3

(* What two helpers add one after the other.                                *)
LEMMA AddsAdds ==
  ASSUME NEW s, StateOK(s), AtEnd(s), NEW t, NEW u,
         NEW x \in Seq(Bytes), NEW y \in Seq(Bytes), Adds(s, t, x), Adds(t, u, y)
  PROVE  Adds(s, u, x \o y)
<1>1. Whole(s) \in Seq(Bytes)
  BY WholeTypes
<1>2. Whole(u) = Whole(s) \o (x \o y)
  BY SMTT(30), <1>1, ConcatAssociative DEF Adds
<1>3. Keeps(s, u)
  BY KeepsKeeps DEF Adds
<1>4. OthersSame(s, u)
  BY DEF Adds, Keeps, SameBlock, SameFiles, OthersSame
<1>5. QED
  BY <1>2, <1>3, <1>4 DEF Adds

(* A byte written is added, flush or not,                                   *)
LEMMA WriteByteAdds ==
  ASSUME NEW s, StateOK(s), s.nread = nread, AtEnd(s), NEW ch \in Bytes
  PROVE  Adds(s, WriteByte(s, ch, 0), <<ch>>)
<1> DEFINE t == IF Len(s.block.buf) >= BufSize THEN Flush(s, 0) ELSE s
           u == WriteByte(s, ch, 0)
<1>1. Adds(s, t, << >>)
  <2>1. CASE Len(s.block.buf) >= BufSize
    BY <2>1, FlushAdds
  <2>2. CASE ~(Len(s.block.buf) >= BufSize)
    <3>1. Whole(s) = Whole(s) \o << >>
      BY WholeTypes, ConcatEmptySeq
    <3>2. QED
      BY <2>2, <3>1 DEF Adds, Keeps, SameBlock, SameFiles, OthersSame
  <2>3. QED
    BY <2>1, <2>2
<1>2. u = [t EXCEPT !.block.buf = Append(@, ch)]
  BY DEF WriteByte, AtEnd
<1> HIDE DEF t
<1>3. StateOK(t) /\ AtEnd(t)
  BY <1>1 DEF Adds, Keeps
<1> DEFINE c == [t.block EXCEPT !.buf = Append(@, ch)]
<1>4. u = [block |-> c, host |-> t.host, nread |-> t.nread]
  <2>1. t = [block |-> t.block, host |-> t.host, nread |-> t.nread]
    BY <1>3 DEF StateOK
  <2> HIDE DEF u
  <2>2. QED
    BY <1>2, <2>1
<1>5. c.buf = Append(t.block.buf, ch) /\ SameBlock(t.block, c)
  <2>1. t.block \in Blocks
    BY <1>3 DEF StateOK, BlockOK
  <2>2. QED
    BY <2>1 DEF Blocks, SameBlock
<1>6. Keeps(s, u) /\ u.nread = nread
  BY WriteByteKeeps DEF Losses
<1> HIDE DEF c, u
<1>7. u.block = c /\ u.host = t.host /\ u.nread = t.nread
  BY <1>4
<1>8. AtEnd(u)
  BY <1>3, <1>5, <1>7 DEF AtEnd, SameBlock
<1>9. Keeps(t, u) /\ OthersSame(t, u)
  BY <1>5, <1>6, <1>7 DEF Keeps, OthersSame, SameFiles
<1>10. Whole(u) = Whole(t) \o <<ch>>
  <2> DEFINE D == t.host.disk[t.block.name]
  <2>1. D \in Seq(Bytes) /\ t.block.buf \in Seq(Bytes) /\ <<ch>> \in Seq(Bytes)
    BY <1>3, WholeTypes
  <2>2. Whole(u) = D \o Append(t.block.buf, ch) /\ Whole(t) = D \o t.block.buf
    BY <1>5, <1>7 DEF Whole, SameBlock
  <2>3. Append(t.block.buf, ch) = t.block.buf \o <<ch>>
    BY <2>1, AppendIsConcat
  <2> DEFINE y == <<ch>>
  <2> DEFINE buf == t.block.buf
  <2>0. D \in Seq(Bytes) /\ buf \in Seq(Bytes) /\ y \in Seq(Bytes)
    BY <2>1
  <2> HIDE DEF D, y, buf
  <2>4. D \o (buf \o y) = (D \o buf) \o y
    BY SMTT(30), <2>0, ConcatAssociative
  <2>5. QED
    BY <2>2, <2>3, <2>4 DEF y, buf
<1>11. Adds(t, u, <<ch>>)
  BY <1>7, <1>8, <1>9, <1>10 DEF Adds
<1>12. Adds(s, u, << >> \o <<ch>>)
  <2> DEFINE y == <<ch>>
  <2>1. << >> \in Seq(Bytes) /\ y \in Seq(Bytes)
    OBVIOUS
  <2> HIDE DEF y
  <2>2. Adds(s, u, << >> \o y)
    BY <1>1, <1>3, <1>11, <2>1, AddsAdds DEF y
  <2>3. QED
    BY <2>2 DEF y
<1>13. << >> \o <<ch>> = <<ch>>
  OBVIOUS
<1>14. QED
  BY <1>12, <1>13 DEF u

(* and a string of them.                                                    *)
LEMMA WriteStrAdds ==
  ASSUME NEW s, StateOK(s), s.nread = nread, AtEnd(s), NEW str \in Seq(Bytes)
  PROVE  Adds(s, WriteStr(s, str, 0), str)
<1>1. PICK at : /\ at[0] = s
                /\ \A i \in 1..Len(str) : at[i] = WriteByte(at[i - 1], str[i], 0)
                /\ WriteStr(s, str, 0) = at[Len(str)]
  BY WriteStrSteps
<1> DEFINE T == {i \in 0..Len(str) : Adds(s, at[i], SubSeq(str, 1, i))}
<1>2. 0 \in T
  <2>1. SubSeq(str, 1, 0) = << >>
    BY SubSeqEmpty
  <2>2. Whole(s) = Whole(s) \o << >>
    BY WholeTypes, ConcatEmptySeq
  <2>3. Adds(s, s, << >>)
    BY <2>2 DEF Adds, Keeps, SameBlock, SameFiles, OthersSame
  <2>4. 0 \in 0..Len(str)
    OBVIOUS
  <2> DEFINE none == SubSeq(str, 1, 0)
  <2>5. none = << >>
    BY <2>1
  <2> HIDE DEF none
  <2>6. Adds(s, at[0], none)
    BY <1>1, <2>3, <2>5
  <2>7. QED
    BY <2>4, <2>6 DEF none
<1>3. ASSUME NEW i \in 0..Len(str) - 1, i \in T PROVE i + 1 \in T
  <2>1. /\ i + 1 \in 1..Len(str) /\ i + 1 \in 0..Len(str) /\ (i + 1) - 1 = i
        /\ str[i + 1] \in Bytes /\ Adds(s, at[i], SubSeq(str, 1, i))
    BY <1>3
  <2>2. at[i + 1] = WriteByte(at[i], str[i + 1], 0)
    BY <1>1, <2>1
  <2>3. Adds(at[i], at[i + 1], <<str[i + 1]>>)
    BY <2>1, <2>2, WriteByteAdds DEF Adds, Keeps
  <2>4. SubSeq(str, 1, i) \in Seq(Bytes) /\ <<str[i + 1]>> \in Seq(Bytes)
    BY <2>1
  <2>5. Adds(s, at[i + 1], SubSeq(str, 1, i) \o <<str[i + 1]>>)
    BY <2>1, <2>3, <2>4, AddsAdds
  <2>6. SubSeq(str, 1, i + 1) = SubSeq(str, 1, i) \o <<str[i + 1]>>
    <3>1. 1 \in 1..Len(str) /\ i + 1 \in 1..Len(str)
      BY <2>1
    <3>2. QED
      BY <2>1, <3>1, SubSeqRecursiveSecond
  <2>7. QED
    BY <2>1, <2>5, <2>6
<1> HIDE DEF T
<1>4. Len(str) \in Nat /\ Len(str) \in 0..Len(str)
  OBVIOUS
<1>5. 0..Len(str) \subseteq T
  BY <1>2, <1>3, <1>4, CountUp
<1>6. Adds(s, at[Len(str)], SubSeq(str, 1, Len(str)))
  BY <1>4, <1>5 DEF T
<1>7. QED
  BY <1>1, <1>6, SubSeqFull

-----------------------------------------------------------------------------
(* Reading a byte gives the one at the variable's position.                 *)

PosOf(b, h) == h.open[b.fd].at - (Len(b.buf) - b.pos)

BufferIn(b, h) ==
  LET n == Len(b.buf)
      at == h.open[b.fd].at
      D == h.disk[b.name]
  IN n <= at /\ at <= Len(D) /\ b.buf = SubSeq(D, at - n + 1, at)

(* Offset, buffer and content of an open file.                              *)
LEMMA ReaderTypes ==
  ASSUME FileInv, NEW f \in Files, block[f].mode # "closed"
  PROVE  /\ block[f].fd \in DOMAIN host.open /\ host.open[block[f].fd].name = block[f].name
         /\ Offset(f) \in Nat /\ Content(f) \in Seq(Bytes) /\ Len(Content(f)) \in Nat
         /\ block[f].name \in DOMAIN host.disk
         /\ block[f].buf \in Seq(Bytes) /\ Len(block[f].buf) \in Nat
         /\ block[f].pos \in 0..Len(block[f].buf)
         /\ block[f] \in Blocks /\ BlockOK(block[f])
<1>1. block[f].fd \in DOMAIN host.open /\ host.open[block[f].fd].name = block[f].name
  BY DEF FileInv, DescriptorsOwned
<1>2. host.open[block[f].fd].at \in Nat /\ block[f].name \in DOMAIN host.disk
  BY <1>1 DEF FileInv, HostSafe
<1>3. block[f] \in Blocks /\ BlockOK(block[f])
  BY DEF FileInv
<1>4. block[f].buf \in Seq(Bytes) /\ block[f].pos \in Nat /\ block[f].pos <= Len(block[f].buf)
  BY <1>3 DEF Blocks, BlockOK
<1>5. host.disk[block[f].name] \in Seq(Bytes)
  BY <1>2 DEF FileInv, HostSafe
<1>6. QED
  BY <1>1, <1>2, <1>3, <1>4, <1>5 DEF Offset, Content

ReadsAt(f, r, p) ==
  /\ r.at.host.disk = host.disk
  /\ \A d \in DOMAIN host.open \ {block[f].fd} : r.at.host.open[d] = host.open[d]
  /\ BufferIn(r.at.block, r.at.host)
  /\ IF p < Len(Content(f))
       THEN r.byte = Content(f)[p + 1] /\ PosOf(r.at.block, r.at.host) = p + 1
       ELSE r.byte = EndOfFile /\ PosOf(r.at.block, r.at.host) = p

(* A refill is the bytes behind the offset.                                 *)
LEMMA Refilled ==
  ASSUME NEW D \in Seq(Bytes), NEW at \in 0..Len(D), NEW m \in 0..Len(D) - at
  PROVE  /\ SubSeq(SubSeq(D, at + 1, Len(D)), 1, m) = SubSeq(D, at + 1, at + m)
         /\ SubSeq(D, at + 1, at + m) \in Seq(Bytes) /\ Len(SubSeq(D, at + 1, at + m)) = m
         /\ m # 0 => SubSeq(D, at + 1, at + m)[1] = D[at + 1]
<1> DEFINE R == SubSeq(D, at + 1, Len(D))
           x == SubSeq(D, at + 1, at + m)
           y == SubSeq(R, 1, m)
<1>1. R \in Seq(Bytes) /\ Len(R) = Len(D) - at /\ \A i \in 1..Len(D) - at : R[i] = D[at + i]
  OBVIOUS
<1>2. x \in Seq(Bytes) /\ Len(x) = m /\ \A i \in 1..m : x[i] = D[at + i]
  BY SMTT(30)
<1> HIDE DEF R, x
<1>3. y \in Seq(Bytes) /\ Len(y) = m /\ \A i \in 1..m : y[i] = R[i]
  BY <1>1
<1> HIDE DEF y
<1>4. ASSUME NEW i \in 1..m PROVE x[i] = y[i]
  <2>1. i \in 1..Len(D) - at
    OBVIOUS
  <2>2. QED
    BY <1>1, <1>2, <1>3, <2>1
<1>5. x = y
  BY <1>2, <1>3, <1>4, SeqEqual
<1>6. m # 0 => x[1] = D[at + 1]
  BY <1>2
<1>7. QED
  BY <1>2, <1>5, <1>6 DEF x, y, R

(* A byte of the buffer is the byte of the file that lies there.            *)
LEMMA InBuffer ==
  ASSUME NEW D \in Seq(Bytes), NEW at \in 0..Len(D), NEW n \in 0..at, NEW k \in 0..n - 1
  PROVE  SubSeq(D, at - n + 1, at)[k + 1] = D[at - (n - k) + 1]
<1>1. Len(D) \in Nat /\ at \in Nat /\ n \in Nat
  OBVIOUS
<1>2. k + 1 \in 1..n /\ at - n + 1 \in 1..Len(D) + 1 /\ at - (n - k) + 1 = (at - n) + (k + 1)
  BY <1>1
<1>3. \A i \in 1..n : SubSeq(D, at - n + 1, at)[i] = D[(at - n) + i]
  BY <1>1
<1>4. QED
  BY <1>2, <1>3

(* __text_read_byte gives the byte at the position, from the buffer or by a *)
(* refill.                                                                  *)
LEMMA ReadStep ==
  ASSUME FileInv, ReadsInPlace, NEW f \in Files, block[f].mode = "read", NEW r \in ReadByte(f)
  PROVE  /\ Position(f) \in 0..Len(Content(f)) /\ Position(f) = PosOf(block[f], host)
         /\ BufferIn(block[f], host)
         /\ ReadsAt(f, r, Position(f))
<1> DEFINE b == block[f]
           s == On(b, host)
<1>1. /\ b.fd \in DOMAIN host.open /\ host.open[b.fd].name = b.name /\ b.mode = "read"
      /\ Content(f) = host.disk[b.name] /\ Offset(f) = host.open[b.fd].at
      /\ Offset(f) \in Nat /\ Content(f) \in Seq(Bytes)
      /\ b.buf \in Seq(Bytes) /\ Len(b.buf) \in Nat /\ b.pos \in 0..Len(b.buf)
  BY ReaderTypes DEF Content, Offset
<1>2. /\ Len(b.buf) <= Offset(f) /\ Offset(f) <= Len(Content(f))
      /\ b.buf = SubSeq(Content(f), Offset(f) - Len(b.buf) + 1, Offset(f))
  BY DEF ReadsInPlace
<1>3. PICK D \in Seq(Bytes) : D = Content(f)
  BY <1>1
<1>4. PICK at \in 0..Len(D) : at = Offset(f)
  BY SMTT(30), <1>1, <1>2, <1>3
<1>5. PICK n \in 0..at : n = Len(b.buf)
  BY <1>1, <1>2, <1>4
<1>6. PICK k \in 0..n : k = b.pos
  BY <1>1, <1>5
<1>7. PICK p \in 0..Len(D) : p = at - (n - k)
  OBVIOUS
<1>8. b.buf = SubSeq(D, at - n + 1, at)
  BY <1>2, <1>3, <1>4, <1>5
<1>9. Position(f) = p /\ PosOf(b, host) = p /\ BufferIn(b, host)
  <2>1. host.disk[b.name] = D /\ host.open[b.fd].at = at /\ Len(b.buf) = n /\ b.pos = k
    BY <1>1, <1>3, <1>4, <1>5, <1>6
  <2>2. Position(f) = p /\ PosOf(b, host) = p
    BY <1>1, <1>7, <2>1 DEF Position, PosOf
  <2>3. n <= at /\ at <= Len(D)
    OBVIOUS
  <2>4. BufferIn(b, host)
    BY <1>8, <2>1, <2>3 DEF BufferIn
  <2>5. QED
    BY <2>2, <2>4
<1>10. StateOK(s) /\ s.nread = nread /\ s.block = b /\ s.host = host
  BY StartOK
<1>11. HostSafe(host)
  BY DEF FileInv
<1>12. D = host.disk[b.name] /\ at = host.open[b.fd].at
  BY <1>1, <1>3, <1>4
<1> HIDE DEF b, s
<1>13. CASE k = n
  <2>0. p = at
    BY <1>7, <1>13
  <2>1. PICK t \in Refills(b) : r = Serve(t)
    BY <1>1, <1>5, <1>6, <1>13 DEF ReadByte, b
  <2>2. Keeps(s, t) /\ t.block.mode = "read" /\ t.block.pos = 0
    BY <1>1, <2>1, RefillsKeep DEF b, s
  <2>3. PICK m \in ReadExtents(host, b.fd) :
          t.block.buf = FdReadBytes(host, b.fd, m) /\ t.host = FdRead(host, b.fd, m)
    BY <1>1, <2>1, RefillsKeep DEF b
  <2>4. /\ m \in Nat /\ m <= Len(Remaining(host, b.fd))
        /\ (m = 0 <=> Remaining(host, b.fd) = << >>)
    BY <1>1, <1>11, ReadExtentsOK, HostAssumption
  <2>5. Remaining(host, b.fd) = SubSeq(D, at + 1, Len(D))
    BY <1>1, <1>12 DEF Remaining
  <2>6. /\ Len(SubSeq(D, at + 1, Len(D))) = Len(D) - at
        /\ (SubSeq(D, at + 1, Len(D)) = << >>) <=> (at = Len(D))
    <3>1. Len(Suffix(D, at)) = Len(D) - at /\ ((Suffix(D, at) = << >>) <=> (at = Len(D)))
      BY SuffixFacts
    <3>2. QED
      BY <3>1 DEF Suffix
  <2>7. m \in 0..Len(D) - at /\ (m = 0 <=> at = Len(D))
    BY <2>4, <2>5, <2>6
  <2>8. t.block.buf = SubSeq(D, at + 1, at + m)
    BY <2>3, <2>5, <2>7, Refilled DEF FdReadBytes
  <2>9. t.block.buf \in Seq(Bytes) /\ Len(t.block.buf) = m /\ (m # 0 => t.block.buf[1] = D[at + 1])
    <3> DEFINE x == SubSeq(D, at + 1, at + m)
    <3>1. x \in Seq(Bytes) /\ Len(x) = m /\ (m # 0 => x[1] = D[at + 1])
      BY <2>7, Refilled
    <3>2. t.block.buf = x
      BY <2>8
    <3> HIDE DEF x
    <3>3. QED
      BY <3>1, <3>2
  <2>10. /\ t.host.disk = host.disk /\ t.host.open[b.fd].at = at + m
         /\ \A d \in DOMAIN host.open \ {b.fd} : t.host.open[d] = host.open[d]
    <3>1. host.open[b.fd] \in [name : DOMAIN host.disk, at : Nat]
      BY <1>1, <1>11 DEF HostSafe
    <3>2. host = [disk |-> host.disk, open |-> host.open, next |-> host.next, errno |-> host.errno]
      BY <1>11 DEF HostSafe
    <3> DEFINE o == [host.open EXCEPT ![b.fd] = [host.open[b.fd] EXCEPT !.at = host.open[b.fd].at + m]]
    <3>3. t.host = [disk |-> host.disk, open |-> o, next |-> host.next, errno |-> host.errno]
      BY <2>3, <3>2 DEF FdRead
    <3>4. o[b.fd].at = at + m /\ \A d \in DOMAIN host.open \ {b.fd} : o[d] = host.open[d]
      BY <1>1, <1>12, <3>1
    <3> HIDE DEF o
    <3>5. QED
      BY <3>3, <3>4
  <2>11. t.block.name = b.name /\ t.block.fd = b.fd
    BY <1>10, <2>2 DEF Keeps, SameBlock
  <2>12. BufferIn(t.block, t.host)
    <3>1. m <= at + m /\ at + m <= Len(D) /\ (at + m) - m + 1 = at + 1
      BY <2>7
    <3>2. t.host.disk[t.block.name] = D /\ t.host.open[t.block.fd].at = at + m
      BY <1>12, <2>10, <2>11
    <3>3. QED
      BY <2>8, <2>9, <3>1, <3>2 DEF BufferIn
  <2>13. StateOK(t) /\ (t.block.buf = << >> \/ t.block.pos < Len(t.block.buf))
    <3>1. StateOK(t)
      BY <2>2 DEF Keeps
    <3>2. QED
      BY <2>2, <2>7, <2>9, <3>1
  <2>14. /\ Keeps(t, r.at) /\ r.at.host = t.host
         /\ r.at.block.buf = t.block.buf
         /\ IF t.block.buf = << >>
              THEN r.byte = EndOfFile /\ r.at = t
              ELSE r.byte = t.block.buf[1] /\ r.at.block.pos = 1
    BY SMTT(30), <2>1, <2>2, <2>13, ServeKeeps
  <2>15. r.at.block.name = b.name /\ r.at.block.fd = b.fd
    BY <2>11, <2>14 DEF Keeps, SameBlock
  <2>16. BufferIn(r.at.block, r.at.host)
    BY ZenonT(60), <2>11, <2>12, <2>14, <2>15 DEF BufferIn
  <2>17. CASE m = 0
    <3>1. t.block.buf = << >> /\ ~(p < Len(D))
      BY <2>0, <2>7, <2>9, <2>17
    <3>2. r.byte = EndOfFile /\ r.at = t
      BY <2>14, <3>1
    <3>3. PosOf(t.block, t.host) = p
      BY <2>0, <2>2, <2>9, <2>10, <2>11, <2>17 DEF PosOf
    <3>4. QED
      BY <1>3, <1>9, <2>10, <2>14, <2>16, <3>1, <3>2, <3>3 DEF ReadsAt, b
  <2>18. CASE m # 0
    <3>1. t.block.buf # << >> /\ p < Len(D) /\ t.block.buf[1] = D[p + 1]
      BY <2>0, <2>7, <2>9, <2>18
    <3>2. r.byte = D[p + 1] /\ r.at.block.pos = 1
      BY <2>14, <3>1
    <3>3. r.at.host.open[r.at.block.fd].at = at + m /\ Len(r.at.block.buf) = m
      BY <2>9, <2>10, <2>14, <2>15
    <3>4. PosOf(r.at.block, r.at.host) = p + 1
      BY <2>0, <2>7, <3>2, <3>3 DEF PosOf
    <3>5. QED
      BY <1>3, <1>9, <2>10, <2>14, <2>16, <3>1, <3>2, <3>4 DEF ReadsAt, b
  <2>19. QED
    BY <2>17, <2>18
<1>14. CASE k # n
  <2>1. r = Serve(s)
    BY <1>1, <1>5, <1>6, <1>14 DEF ReadByte, b, s
  <2>2. b.buf # << >> /\ k \in 0..n - 1 /\ p < Len(D)
    <3>1. k \in 0..n - 1 /\ p < Len(D)
      BY <1>7, <1>14
    <3>2. b.buf # << >>
      BY <1>1, <1>5, <3>1
    <3>3. QED
      BY <3>1, <3>2
  <2>3. /\ Keeps(s, r.at) /\ r.at.host = host
        /\ r.at.block.buf = b.buf
        /\ r.byte = b.buf[k + 1]
        /\ r.at.block.pos = k + 1
    <3>1. s.block.buf = << >> \/ s.block.pos < Len(s.block.buf)
      BY <1>5, <1>6, <1>10, <2>2
    <3>2. s.block.mode = "read"
      BY <1>1, <1>10
    <3>3. QED
      BY <1>6, <1>10, <2>1, <2>2, <3>1, <3>2, ServeKeeps
  <2>4. r.at.block.name = b.name /\ r.at.block.fd = b.fd
    BY <1>10, <2>3 DEF Keeps, SameBlock
  <2>5. b.buf[k + 1] = D[p + 1]
    BY <1>7, <1>8, <2>2, InBuffer
  <2>6. PosOf(r.at.block, host) = p + 1
    BY SMTT(30), <1>5, <1>7, <1>12, <2>3, <2>4 DEF PosOf
  <2>7. BufferIn(r.at.block, host)
    BY <1>9, <2>3, <2>4 DEF BufferIn
  <2>8. QED
    BY <1>3, <1>9, <2>2, <2>3, <2>5, <2>6, <2>7 DEF ReadsAt, b
<1>15. QED
  BY <1>3, <1>9, <1>13, <1>14 DEF b

------------------------------------------------------------------------------
(* What is left to read, from the position of the variable or, while a line *)
(* is read, from where the line started.                                    *)
Reader(b, h) ==
  /\ b.fd \in DOMAIN h.open /\ h.open[b.fd].name = b.name
  /\ h.disk[b.name] \in Seq(Bytes) /\ h.open[b.fd].at \in Nat
  /\ b.buf \in Seq(Bytes) /\ b.pos \in 0..Len(b.buf)
  /\ BufferIn(b, h)

(* What is buffered and what is on disk make up what lies behind the        *)
(* position.                                                                *)
LEMMA UnreadIs ==
  ASSUME NEW b, NEW h, Reader(b, h)
  PROVE  /\ PosOf(b, h) \in 0..Len(h.disk[b.name])
         /\ SubSeq(b.buf, b.pos + 1, Len(b.buf)) \o Remaining(h, b.fd)
              = Suffix(h.disk[b.name], PosOf(b, h))
<1>1. PICK D \in Seq(Bytes) : D = h.disk[b.name]
  BY DEF Reader
<1>2. PICK at \in 0..Len(D) : at = h.open[b.fd].at
  BY <1>1 DEF Reader, BufferIn
<1>3. PICK n \in 0..at : n = Len(b.buf)
  BY <1>1, <1>2 DEF Reader, BufferIn
<1>4. PICK k \in 0..n : k = b.pos
  BY <1>3 DEF Reader
<1>5. PICK p \in 0..Len(D) : p = at - (n - k)
  OBVIOUS
<1>6. PosOf(b, h) = p
  BY SMTT(30), <1>2, <1>3, <1>4, <1>5 DEF PosOf
<1>7. b.buf = SubSeq(D, at - n + 1, at)
  BY <1>1, <1>2, <1>3 DEF Reader, BufferIn
<1>8. Remaining(h, b.fd) = Suffix(D, at)
  BY <1>1, <1>2 DEF Remaining, Reader, Suffix
<1> DEFINE x == SubSeq(b.buf, k + 1, n)
           y == SubSeq(D, p + 1, at)
<1>9. x = y
  <2>1. b.buf \in Seq(Bytes)
    BY DEF Reader
  <2>2. x \in Seq(Bytes) /\ Len(x) = n - k /\ \A i \in 1..n - k : x[i] = b.buf[k + i]
    BY <1>3, <2>1
  <2>3. y \in Seq(Bytes) /\ Len(y) = n - k /\ \A i \in 1..n - k : y[i] = D[p + i]
    BY <1>5
  <2> HIDE DEF x, y
  <2>4. ASSUME NEW i \in 1..n - k PROVE x[i] = y[i]
    <3>1. (k + i) - 1 \in 0..n - 1 /\ at - (n - ((k + i) - 1)) + 1 = p + i /\ (k + i) - 1 + 1 = k + i
      BY <1>5
    <3>2. b.buf[k + i] = D[p + i]
      BY <1>7, <3>1, InBuffer
    <3>3. QED
      BY <2>2, <2>3, <3>2
  <2>5. QED
    BY <2>2, <2>3, <2>4, SeqEqual
<1>10. at \in p..Len(D)
  BY <1>5
<1>11. y \o Suffix(D, at) = Suffix(D, p)
  BY <1>10, SuffixSplit
<1>12. QED
  BY <1>1, <1>3, <1>4, <1>6, <1>8, <1>9, <1>11

Rest(b, h, l, f) ==
  IF b.mode # "read" THEN << >>
  ELSE Suffix(h.disk[b.name], IF l.active /\ l.file = f THEN l.from ELSE PosOf(b, h))

RestAt(f) == TakenByLine(f) \o Unread(f)

(* Every file open for reading has its buffer in place.                     *)
LEMMA Readers ==
  FileInv /\ ReadsInPlace => \A f \in Files : block[f].mode = "read" => Reader(block[f], host)
<1> SUFFICES ASSUME FileInv, ReadsInPlace, NEW f \in Files, block[f].mode = "read"
             PROVE  Reader(block[f], host)
  OBVIOUS
<1>1. BufferIn(block[f], host)
  BY DEF ReadsInPlace, BufferIn, Offset, Content
<1>2. QED
  BY <1>1, ReaderTypes DEF Reader, Offset, Content

(* The abstract rest of a file, from the variable alone.                    *)
LEMMA RestIs ==
  FileInv /\ LineSafe /\ InPlace =>
    \A f \in Files : RestAt(f) = Rest(block[f], host, line, f)
<1> SUFFICES ASSUME FileInv, LineSafe, InPlace, NEW f \in Files
             PROVE  RestAt(f) = Rest(block[f], host, line, f)
  OBVIOUS
<1> DEFINE b == block[f]
           D == host.disk[b.name]
           p == PosOf(b, host)
<1>1. CASE b.mode # "read"
  <2>1. TakenByLine(f) = << >> /\ Unread(f) = << >>
    BY <1>1 DEF TakenByLine, Unread
  <2>2. << >> \o << >> = << >>
    OBVIOUS
  <2>3. QED
    BY <1>1, <2>1, <2>2 DEF RestAt, Rest
<1>2. CASE b.mode = "read"
  <2>1. Reader(b, host)
    BY SMTT(30), <1>2, Readers DEF InPlace
  <2>2. /\ p \in 0..Len(D) /\ D \in Seq(Bytes)
        /\ Unread(f) = Suffix(D, p)
    BY <1>2, <2>1, UnreadIs DEF Reader, Unread
  <2>3. Position(f) = p
    BY <1>2 DEF Position, PosOf
  <2>4. Suffix(D, p) \in Seq(Bytes)
    BY SMTT(30), <2>2, SuffixFacts
  <2>5. CASE line.active /\ line.file = f
    <3>1. line.from \in 0..p
      <4>1. line.from \in Int
        BY <2>5, LineActive
      <4>2. QED
        BY <1>2, <2>2, <2>3, <2>5, <4>1 DEF InPlace, LineSoFar
    <3>2. TakenByLine(f) = SubSeq(D, line.from + 1, p)
      BY <1>2, <2>3, <2>5 DEF TakenByLine
    <3> HIDE DEF D, p
    <3>3. line.from \in 0..Len(D) /\ p \in line.from..Len(D)
      BY <2>2, <3>1
    <3>4. SubSeq(D, line.from + 1, p) \o Suffix(D, p) = Suffix(D, line.from)
      BY <2>2, <3>3, SuffixSplit
    <3>5. QED
      BY <1>2, <2>2, <2>5, <3>2, <3>4 DEF RestAt, Rest, D
  <2>6. CASE ~(line.active /\ line.file = f)
    <3>1. TakenByLine(f) = << >>
      BY <2>6 DEF TakenByLine
    <3>2. << >> \o Suffix(D, p) = Suffix(D, p)
      BY <2>4, ConcatEmptySeq
    <3>3. QED
      BY <1>2, <2>2, <2>6, <3>1, <3>2 DEF RestAt, Rest
  <2>7. QED
    BY <2>5, <2>6
<1>3. QED
  BY <1>1, <1>2

(* What a file holds for TextSpec: its disk and the one buffer of a writer. *)
LEMMA StoredIs ==
  FileInv /\ OneWriter =>
    \A n \in DOMAIN host.disk :
      /\ (\A f \in Files : ~(block[f].mode = "write" /\ block[f].name = n))
           => StoredIn(n) = host.disk[n]
      /\ \A f \in Files : block[f].mode = "write" /\ block[f].name = n
           => StoredIn(n) = host.disk[n] \o block[f].buf
<1> SUFFICES ASSUME FileInv, OneWriter, NEW n \in DOMAIN host.disk
             PROVE  /\ (\A f \in Files : ~(block[f].mode = "write" /\ block[f].name = n))
                         => StoredIn(n) = host.disk[n]
                    /\ \A f \in Files : block[f].mode = "write" /\ block[f].name = n
                         => StoredIn(n) = host.disk[n] \o block[f].buf
  OBVIOUS
<1>1. ASSUME \A f \in Files : ~(block[f].mode = "write" /\ block[f].name = n)
      PROVE  StoredIn(n) = host.disk[n]
  <2>1. Writers(n) = {}
    BY <1>1 DEF Writers
  <2>2. QED
    BY <2>1 DEF StoredIn
<1>2. ASSUME NEW f \in Files, block[f].mode = "write", block[f].name = n
      PROVE  StoredIn(n) = host.disk[n] \o block[f].buf
  <2>1. Writers(n) = {f}
    BY <1>2 DEF Writers, OneWriter
  <2>2. (CHOOSE g \in Writers(n) : TRUE) = f
    BY <2>1
  <2>3. QED
    BY <2>1, <2>2 DEF StoredIn
<1>3. QED
  BY <1>1, <1>2

(* A statement on f leaves what the other variables stand for alone.        *)
OthersAsWere(f) ==
  \A g \in Files \ {f} :
    /\ block'[g] = block[g]
    /\ block[g].mode # "closed" =>
         /\ host'.open[block[g].fd] = host.open[block[g].fd]
         /\ host'.disk[block[g].name] = host.disk[block[g].name]

(* A statement about f leaves the places of the others.                     *)
LEMMA OthersInPlace ==
  ASSUME FileInv, WritesAtEnd, ReadsInPlace, NEW f \in Files, OthersAsWere(f),
         block'[f].mode = "write" =>
           host'.open[block'[f].fd].at = Len(host'.disk[block'[f].name]),
         block'[f].mode = "read" => BufferIn(block'[f], host')
  PROVE  WritesAtEnd' /\ ReadsInPlace'
<1>0. ASSUME NEW g \in Files, g # f, block'[g].mode # "closed"
      PROVE  /\ block'[g] = block[g]
             /\ host'.open[block[g].fd] = host.open[block[g].fd]
             /\ host'.disk[block[g].name] = host.disk[block[g].name]
  BY <1>0 DEF OthersAsWere
<1>1. ASSUME NEW g \in Files, block'[g].mode = "write"
      PROVE  host'.open[block'[g].fd].at = Len(host'.disk[block'[g].name])
  <2>1. CASE g = f
    BY <1>1, <2>1
  <2>2. CASE g # f
    <3>1. /\ block'[g] = block[g]
          /\ host'.open[block[g].fd] = host.open[block[g].fd]
          /\ host'.disk[block[g].name] = host.disk[block[g].name]
      BY <1>0, <1>1, <2>2
    <3>2. QED
      BY <1>1, <3>1 DEF WritesAtEnd, Offset, Content
  <2>3. QED
    BY <2>1, <2>2
<1>2. ASSUME NEW g \in Files, block'[g].mode = "read" PROVE BufferIn(block'[g], host')
  <2>1. CASE g = f
    BY SMTT(30), <1>2, <2>1
  <2>2. CASE g # f
    <3>1. /\ block'[g] = block[g]
          /\ host'.open[block[g].fd] = host.open[block[g].fd]
          /\ host'.disk[block[g].name] = host.disk[block[g].name]
      BY SMTT(30), <1>0, <1>2, <2>2
    <3>2. BufferIn(block[g], host)
      BY <1>2, <3>1 DEF ReadsInPlace, BufferIn, Offset, Content
    <3>3. QED
      BY ZenonT(60), <3>1, <3>2 DEF BufferIn
  <2>3. QED
    BY <2>1, <2>2
<1>3. QED
  BY <1>1, <1>2 DEF WritesAtEnd, ReadsInPlace, BufferIn, Offset, Content

(* It leaves their rests.                                                   *)
LEMMA OthersRest ==
  ASSUME NEW f \in Files, OthersAsWere(f), NEW g \in Files \ {f},
         \/ UNCHANGED line
         \/ (line.active => line.file = f) /\ (line'.active => line'.file = f)
  PROVE  Rest(block'[g], host', line', g) = Rest(block[g], host, line, g)
<1>1. (line'.active /\ line'.file = g) <=> (line.active /\ line.file = g)
  OBVIOUS
<1>2. CASE block[g].mode # "read"
  BY <1>2 DEF OthersAsWere, Rest
<1>3. CASE block[g].mode = "read"
  <2>1. PosOf(block'[g], host') = PosOf(block[g], host)
        /\ host'.disk[block'[g].name] = host.disk[block[g].name] /\ block'[g] = block[g]
    BY <1>3 DEF OthersAsWere, PosOf
  <2>2. CASE line.active /\ line.file = g
    BY <1>1, <2>1, <2>2 DEF Rest
  <2>3. CASE ~(line.active /\ line.file = g)
    BY <1>1, <2>1, <2>3 DEF Rest
  <2>4. QED
    BY <2>2, <2>3
<1>4. QED
  BY <1>2, <1>3

(* What is stored of a file that neither f nor the host touches.            *)
LEMMA StoredElsewhere ==
  ASSUME NEW f \in Files, NEW m,
         \A g \in Files \ {f} : block'[g] = block[g],
         ~(block[f].mode = "write" /\ block[f].name = m),
         ~(block'[f].mode = "write" /\ block'[f].name = m),
         host'.disk[m] = host.disk[m]
  PROVE  StoredIn(m)' = StoredIn(m)
<1>1. Writers(m)' = Writers(m) /\ f \notin Writers(m)
  BY DEF Writers
<1>2. CASE Writers(m) = {}
  BY <1>1, <1>2 DEF StoredIn
<1>3. CASE Writers(m) # {}
  <2> DEFINE w == CHOOSE g \in Writers(m) : TRUE
  <2>1. w \in Files \ {f}
    BY <1>1, <1>3 DEF Writers
  <2>2. (CHOOSE g \in Writers(m) : TRUE)' = w
    BY <1>1
  <2>3. block'[w] = block[w]
    BY <2>1
  <2>4. QED
    BY <1>1, <1>3, <2>2, <2>3 DEF StoredIn
<1>4. QED
  BY <1>2, <1>3

StoredNow == [n \in DOMAIN host.disk |-> StoredIn(n)]
ViewNow == [f \in Files |-> [name |-> block[f].name, mode |-> block[f].mode, rest |-> RestAt(f)]]

(* A read leaves what is stored, and where it leaves the variable.          *)
Moved(f, q) ==
  /\ host'.disk = host.disk
  /\ OthersAsWere(f)
  /\ SameBlock(block[f], block'[f])
  /\ block[f].mode # "read" => block'[f] = block[f] /\ host' = host
  /\ block[f].mode = "read" => BufferIn(block'[f], host') /\ PosOf(block'[f], host') = q

(* A byte read moves the position by one, a byte put back by none.          *)
LEMMA ReadMoves ==
  ASSUME FileInv, ReadsInPlace, NEW f \in Files, NEW r \in ReadByte(f),
         NEW s, s \in {r.at, PutBack(r)}, Become(f, s)
  PROVE  /\ block[f].mode # "read" => r.byte = EndOfFile /\ Moved(f, 0)
         /\ block[f].mode = "read" =>
              LET p == Position(f)
                  D == Content(f)
              IN /\ p \in 0..Len(D) /\ D \in Seq(Bytes)
                 /\ s = PutBack(r) => Moved(f, p)
                 /\ s = r.at => Moved(f, IF p < Len(D) THEN p + 1 ELSE p)
                 /\ r.byte = IF p < Len(D) THEN D[p + 1] ELSE EndOfFile
<1> DEFINE b == block[f]
<1>1. /\ Keeps(On(b, host), r.at)
      /\ r.byte # EndOfFile => r.at.block.pos > 0 /\ b.mode = "read"
  BY ReadByteKeeps
<1>2. On(b, host).block = b /\ On(b, host).host = host
  BY DEF On
<1>3. /\ Keeps(On(b, host), PutBack(r)) /\ PutBack(r).host = r.at.host
      /\ PutBack(r).block.buf = r.at.block.buf
      /\ PutBack(r).block.pos = IF r.byte = EndOfFile THEN r.at.block.pos
                                ELSE r.at.block.pos - 1
  BY <1>1, <1>2, PutBackKeeps
<1>4. /\ block'[f] = s.block /\ host' = s.host
      /\ \A g \in Files \ {f} : block'[g] = block[g]
  BY DEF Become, FileInv
<1>5. SameBlock(b, s.block) /\ s.host = r.at.host /\ s.block.buf = r.at.block.buf
      /\ r.at.block.fd = s.block.fd /\ r.at.block.name = s.block.name
  BY <1>1, <1>2, <1>3 DEF Keeps, SameBlock
<1>6. CASE b.mode # "read"
  <2>1. r.byte = EndOfFile /\ r.at = On(b, host)
    BY <1>6 DEF ReadByte
  <2>2. s = On(b, host)
    BY <2>1 DEF PutBack
  <2>3. s.block = b /\ s.host = host
    BY <1>2, <2>2
  <2>4. OthersAsWere(f)
    BY <1>4, <2>3 DEF OthersAsWere
  <2>5. Moved(f, 0)
    BY <1>4, <1>6, <2>3, <2>4 DEF Moved, SameBlock
  <2>6. QED
    BY <1>6, <2>1, <2>5
<1>7. CASE b.mode = "read"
  <2>1. PICK D \in Seq(Bytes) : D = Content(f)
    BY <1>7, ReaderTypes
  <2>2. Position(f) \in 0..Len(D) /\ ReadsAt(f, r, Position(f))
    BY <1>7, <2>1, ReadStep
  <2>3. PICK p \in 0..Len(D) : p = Position(f)
    BY <2>2
  <2>4. /\ host'.disk = host.disk
        /\ \A d \in DOMAIN host.open \ {b.fd} : host'.open[d] = host.open[d]
        /\ BufferIn(r.at.block, r.at.host)
        /\ IF p < Len(D)
              THEN r.byte = D[p + 1] /\ PosOf(r.at.block, r.at.host) = p + 1
              ELSE r.byte = EndOfFile /\ PosOf(r.at.block, r.at.host) = p
    BY <1>4, <1>5, <2>1, <2>2, <2>3 DEF ReadsAt
  <2>5. OthersAsWere(f)
    <3>1. ASSUME NEW g \in Files \ {f}, block[g].mode # "closed"
          PROVE  block[g].fd \in DOMAIN host.open \ {b.fd}
      BY SMTT(30), <1>7, <3>1 DEF FileInv, DescriptorsOwned
    <3>2. QED
      BY <1>4, <2>4, <3>1 DEF OthersAsWere
  <2>6. BufferIn(block'[f], host')
    BY ZenonT(60), <1>4, <1>5, <2>4 DEF BufferIn
  <2>7. ASSUME NEW q, PosOf(block'[f], host') = q PROVE Moved(f, q)
    BY <1>4, <1>5, <1>7, <2>4, <2>5, <2>6, <2>7 DEF Moved
  <2>8. ASSUME s = r.at PROVE Moved(f, IF p < Len(D) THEN p + 1 ELSE p)
    BY <1>4, <2>4, <2>7, <2>8
  <2>9. ASSUME s = PutBack(r) PROVE Moved(f, p)
    <3>1. CASE r.byte = EndOfFile
      <4>1. ~(p < Len(D))
        <5>1. ASSUME p < Len(D) PROVE FALSE
          <6>1. p + 1 \in 1..Len(D)
            BY <5>1
          <6>2. D[p + 1] \in Bytes
            BY <6>1
          <6>3. QED
            BY <2>4, <3>1, <5>1, <6>2, FileAssumption DEF Bytes, EndOfFile, Junk, Nul
        <5>2. QED
          BY <5>1
      <4>2. s = r.at
        BY <2>9, <3>1 DEF PutBack
      <4>3. QED
        BY <2>8, <4>1, <4>2
    <3>2. CASE r.byte # EndOfFile
      <4>1. p < Len(D) /\ PosOf(r.at.block, r.at.host) = p + 1
        BY <2>4, <3>2
      <4>2. s.block.pos = r.at.block.pos - 1
        BY <1>3, <2>9, <3>2
      <4>3. /\ r.at.host.open[r.at.block.fd].at \in Int /\ Len(r.at.block.buf) \in Int
            /\ r.at.block.pos \in Int
        <5>1. HostSafe(r.at.host) /\ r.at.block \in Blocks
          BY <1>1 DEF Keeps, StateOK, BlockOK
        <5>2. r.at.block.fd \in DOMAIN r.at.host.open
          BY <1>1, <1>2, <1>7 DEF Keeps, SameBlock, SameFiles, FileInv, DescriptorsOwned
        <5>3. r.at.host.open[r.at.block.fd].at \in Nat
          BY <5>1, <5>2 DEF HostSafe
        <5>4. QED
          BY <5>1, <5>3 DEF Blocks
      <4>4. PosOf(s.block, s.host) = p
        <5>1. PICK x \in Int, y \in Int, z \in Int :
                /\ x = r.at.host.open[r.at.block.fd].at /\ y = Len(r.at.block.buf)
                /\ z = r.at.block.pos
          BY <4>3
        <5>2. x - (y - z) = p + 1
          BY <4>1, <5>1 DEF PosOf
        <5>3. PosOf(s.block, s.host) = x - (y - (z - 1))
          BY <1>5, <4>2, <5>1 DEF PosOf
        <5>4. QED
          BY <5>2, <5>3
      <4>5. QED
        BY <1>4, <2>7, <4>4
    <3>3. QED
      BY <3>1, <3>2
  <2>10. QED
    BY <1>7, <2>1, <2>3, <2>4, <2>8, <2>9
<1>8. QED
  BY <1>6, <1>7

(* A read changes nothing of what is stored, nor of what others have left.  *)
LEMMA AfterRead ==
  ASSUME FileInv, OneWriter, WritesAtEnd, ReadsInPlace, NEW f \in Files, NEW q, Moved(f, q)
  PROVE  OneWriter' /\ WritesAtEnd' /\ ReadsInPlace' /\ UNCHANGED StoredNow
<1>1. /\ \A g \in Files \ {f} : block'[g] = block[g]
      /\ SameBlock(block[f], block'[f]) /\ host'.disk = host.disk
  BY DEF Moved, OthersAsWere
<1>2. OneWriter'
  BY <1>1 DEF OneWriter, SameBlock
<1>3. WritesAtEnd' /\ ReadsInPlace'
  <2>1. ASSUME block'[f].mode = "write"
        PROVE  host'.open[block'[f].fd].at = Len(host'.disk[block'[f].name])
    <3>1. block'[f] = block[f] /\ host' = host /\ block[f].mode = "write"
      BY <1>1, <2>1 DEF Moved, SameBlock
    <3>2. QED
      BY <3>1 DEF WritesAtEnd, Offset, Content
  <2>2. ASSUME block'[f].mode = "read" PROVE BufferIn(block'[f], host')
    BY <1>1, <2>2 DEF Moved, SameBlock
  <2>3. OthersAsWere(f)
    BY DEF Moved
  <2>4. QED
    BY <2>1, <2>2, <2>3, OthersInPlace
<1>4. ASSUME NEW m \in DOMAIN host.disk PROVE StoredIn(m)' = StoredIn(m)
  <2>1. CASE block[f].mode = "read"
    <3>1. block'[f].mode = "read"
      BY <1>1, <2>1 DEF SameBlock
    <3>2. QED
      BY <1>1, <2>1, <3>1, StoredElsewhere
  <2>2. CASE block[f].mode # "read"
    <3>1. \A g \in Files : block'[g] = block[g]
      BY <1>1, <2>2 DEF Moved
    <3>2. Writers(m)' = Writers(m)
      BY <3>1 DEF Writers
    <3>3. CASE Writers(m) = {}
      BY <1>1, <3>2, <3>3 DEF StoredIn
    <3>4. CASE Writers(m) # {}
      <4>1. (CHOOSE g \in Writers(m) : TRUE) \in Files
        BY <3>4 DEF Writers
      <4>2. (CHOOSE g \in Writers(m) : TRUE)' = (CHOOSE g \in Writers(m) : TRUE)
        BY <3>2
      <4>3. QED
        BY <1>1, <3>1, <3>2, <3>4, <4>1, <4>2 DEF StoredIn
    <3>5. QED
      BY <3>3, <3>4
  <2>3. QED
    BY <2>1, <2>2
<1>5. UNCHANGED StoredNow
  BY <1>1, <1>4 DEF StoredNow
<1>6. QED
  BY <1>2, <1>3, <1>5

-----------------------------------------------------------------------------
(* What lies where is kept by every statement.                              *)

NoLoss == ~Shared /\ "write" \notin Failures

(* Between lines there is nothing to say of one.                            *)
LEMMA LineIdle ==
  ASSUME ~line.active, UNCHANGED line
  PROVE  LineSoFar'
BY DEF LineSoFar

(* Reading keeps offsets and buffers in place.                              *)
LEMMA ReadKeepsPlace ==
  ASSUME FileInv, InPlace, NEW f \in Files, NEW r \in ReadByte(f),
         Become(f, r.at) \/ Become(f, PutBack(r))
  PROVE  OneWriter' /\ WritesAtEnd' /\ ReadsInPlace'
<1>1. PICK s \in {r.at, PutBack(r)} : Become(f, s)
  OBVIOUS
<1>2. PICK q : Moved(f, q)
  <2>1. CASE block[f].mode # "read"
    BY <1>1, <2>1, ReadMoves DEF InPlace
  <2>2. CASE block[f].mode = "read"
    BY <1>1, <2>2, ReadMoves DEF InPlace
  <2>3. QED
    BY <2>1, <2>2
<1>3. QED
  BY <1>2, AfterRead DEF InPlace

LineOK(b, h, l) ==
  l.active =>
    LET p == PosOf(b, h)
        q == SubSeq(h.disk[b.name], l.from + 1, p)
    IN IF b.mode = "read"
         THEN /\ 0 <= l.from /\ l.from <= p
              /\ \A i \in 1..Len(q) : q[i] # LF
              /\ l.text = Abstract!Text(q)
         ELSE l.text = << >>

(* What a line holds so far, from the variable alone,                       *)
LEMMA LineIs ==
  ASSUME NEW f \in Files, line.active => line.file = f
  PROVE  LineSoFar <=> LineOK(block[f], host, line)
<1>1. block[f].mode = "read" => Position(f) = PosOf(block[f], host)
  BY DEF Position, PosOf
<1>2. CASE line.active
  BY <1>1, <1>2 DEF LineSoFar, LineOK, Content
<1>3. CASE ~line.active
  BY <1>3 DEF LineSoFar, LineOK
<1>4. QED
  BY <1>2, <1>3

(* and after the step.                                                      *)
LEMMA LineIsNext ==
  ASSUME NEW f \in Files, line'.active => line'.file = f
  PROVE  LineSoFar' <=> LineOK(block'[f], host', line')
<1>1. block'[f].mode = "read" => Position(f)' = PosOf(block'[f], host')
  BY DEF Position, PosOf
<1>2. CASE line'.active
  BY <1>1, <1>2 DEF LineSoFar, LineOK, Content
<1>3. CASE ~line'.active
  BY <1>3 DEF LineSoFar, LineOK
<1>4. QED
  BY <1>2, <1>3

(* A byte of a line keeps everything in place,                              *)
LEMMA LineBytePlace ==
  ASSUME FileInv, RestInv, InPlace, LineByte
  PROVE  InPlace'
<1>0. line.active /\ line \in [active : {TRUE}, file : Files, text : Seq(Bytes), from : Int]
  BY LineActive DEF LineByte, RestInv
<1>1. PICK f \in Files : f = line.file
  BY <1>0
<1>2. PICK r \in ReadByte(f) :
        /\ ~EndsLine(r.byte)
        /\ Become(f, r.at)
        /\ line' = [line EXCEPT !.text = IF Stored(r.byte) THEN Append(@, r.byte) ELSE @]
  BY <1>1 DEF LineByte
<1>3. r.byte # EndOfFile /\ r.byte # LF
  BY <1>2 DEF EndsLine
<1>4. OneWriter' /\ WritesAtEnd' /\ ReadsInPlace'
  BY <1>2, <1>3, ReadKeepsPlace
<1>5. /\ block[f].mode = "read" /\ Position(f) \in 0..Len(Content(f)) /\ Content(f) \in Seq(Bytes)
      /\ Position(f) < Len(Content(f)) /\ r.byte = Content(f)[Position(f) + 1]
      /\ Moved(f, Position(f) + 1)
  BY <1>2, <1>3, ReadMoves DEF InPlace
<1>6. PICK D \in Seq(Bytes) : D = Content(f)
  BY <1>5
<1>7. PICK p \in 0..Len(D) - 1 : p = Position(f)
  BY <1>5, <1>6
<1>8. r.byte = D[p + 1] /\ Moved(f, p + 1) /\ PosOf(block[f], host) = p
  BY <1>5, <1>6, <1>7 DEF Position, PosOf
<1>9. block'[f].mode = "read" /\ host'.disk[block'[f].name] = D /\ PosOf(block'[f], host') = p + 1
  BY <1>5, <1>6, <1>8 DEF Moved, SameBlock, Content
<1>10. PICK from \in 0..p : from = line.from
  BY <1>0, <1>1, <1>5, <1>7 DEF InPlace, LineSoFar
<1>11. PICK s \in Seq(Bytes) : s = SubSeq(D, from + 1, p)
  <2>1. \A i \in from + 1..p : i \in 1..Len(D)
    OBVIOUS
  <2>2. SubSeq(D, from + 1, p) \in Seq(Bytes)
    BY <2>1, SubSeqProperties
  <2>3. QED
    BY <2>2
<1>12. (\A i \in 1..Len(s) : s[i] # LF) /\ line.text = Abstract!Text(s)
  <2>1. LineOK(block[f], host, line)
    BY <1>1, LineIs DEF InPlace
  <2>2. host.disk[block[f].name] = D
    BY <1>6 DEF Content
  <2>3. QED
    BY <1>0, <1>5, <1>8, <1>10, <1>11, <2>1, <2>2 DEF LineOK
<1> DEFINE e == r.byte
<1>13. e \in Bytes /\ SubSeq(D, from + 1, p + 1) = s \o <<e>>
  <2>1. p + 1 \in 1..Len(D) /\ from + 1 \in 1..Len(D) /\ p + 1 \in from + 1..Len(D) /\ (p + 1) - 1 = p
    OBVIOUS
  <2>2. SubSeq(D, from + 1, p + 1) = SubSeq(D, from + 1, p) \o <<D[p + 1]>>
    BY <2>1, SubSeqRecursiveSecond
  <2>3. QED
    BY <1>8, <1>11, <2>1, <2>2
<1> HIDE DEF e
<1>14. s \o <<e>> = Append(s, e)
  BY <1>13, AppendIsConcat
<1>15. \A i \in 1..Len(Append(s, e)) : Append(s, e)[i] # LF
  <2>1. e # LF
    BY <1>3 DEF e
  <2>2. QED
    BY <1>12, <1>13, <2>1, AppendProperties
<1>16. /\ line'.file = f /\ line'.active /\ line'.from = from
       /\ line'.text = IF e # CR /\ Len(line.text) < MaxLine THEN Append(line.text, e) ELSE line.text
  BY <1>0, <1>1, <1>2, <1>10 DEF Stored, e
<1>17. line'.text = Abstract!Text(Append(s, e))
  BY <1>12, <1>13, <1>16, TextAppend
<1> DEFINE q == SubSeq(D, from + 1, p + 1)
<1>18. q = Append(s, e)
  BY <1>13, <1>14
<1> HIDE DEF q
<1>19. LineOK(block'[f], host', line')
  <2>1. 0 <= from /\ from <= p + 1
    OBVIOUS
  <2>2. (\A i \in 1..Len(q) : q[i] # LF) /\ line'.text = Abstract!Text(q)
    BY <1>15, <1>17, <1>18
  <2>3. q = SubSeq(host'.disk[block'[f].name], line'.from + 1, PosOf(block'[f], host'))
    BY <1>9, <1>16 DEF q
  <2>4. 0 <= line'.from /\ line'.from <= PosOf(block'[f], host')
    BY <1>9, <1>16, <2>1
  <2>5. QED
    BY <1>9, <2>2, <2>3, <2>4 DEF LineOK
<1>20. QED
  BY <1>4, <1>16, <1>19, LineIsNext DEF InPlace

(* and so does beginning one.                                               *)
LEMMA ReadLinePlace ==
  ASSUME FileInv, InPlace, NEW f \in Files, ReadLine(f)
  PROVE  InPlace'
<1>1. /\ line' = [active |-> TRUE, file |-> f, text |-> << >>, from |-> Position(f)]
      /\ UNCHANGED <<block, host>>
  BY DEF ReadLine
<1>2. OneWriter' /\ WritesAtEnd' /\ ReadsInPlace'
  BY <1>1 DEF InPlace, OneWriter, WritesAtEnd, ReadsInPlace, Offset, Content
<1>3. LineOK(block[f], host, line')
  <2>1. CASE block[f].mode # "read"
    BY <1>1, <2>1 DEF LineOK
  <2>2. CASE block[f].mode = "read"
    <3>1. PICK D : D = host.disk[block[f].name]
      OBVIOUS
    <3>2. PICK p \in Nat : p = PosOf(block[f], host)
      <4>1. Reader(block[f], host)
        BY <2>2, Readers DEF InPlace
      <4>2. QED
        BY <4>1, UnreadIs
    <3>3. Position(f) = p
      BY <2>2, <3>2 DEF Position, PosOf
    <3>4. SubSeq(D, p + 1, p) = << >>
      BY SubSeqEmpty
    <3>5. line'.from = p /\ line'.text = << >>
      BY <1>1, <3>3
    <3>6. 0 <= p /\ p <= p /\ \A i \in 1..Len(<< >>) : << >>[i] # LF
      OBVIOUS
    <3> DEFINE q == SubSeq(host.disk[block[f].name], line'.from + 1, PosOf(block[f], host))
    <3>7. q = << >>
      BY <3>1, <3>2, <3>4, <3>5
    <3> HIDE DEF q
    <3>8. (\A i \in 1..Len(q) : q[i] # LF) /\ line'.text = Abstract!Text(q)
      BY <3>5, <3>6, <3>7, TextOfNothing
    <3>9. 0 <= line'.from /\ line'.from <= PosOf(block[f], host)
      BY <3>2, <3>5, <3>6
    <3>10. QED
      BY <2>2, <3>8, <3>9 DEF LineOK, q
  <2>3. QED
    BY <2>1, <2>2
<1>4. LineSoFar'
  BY <1>1, <1>3, LineIsNext
<1>5. QED
  BY <1>2, <1>4 DEF InPlace

(* A variable that is closed has no place to keep.                          *)
LEMMA ClosedPlace ==
  ASSUME FileInv, InPlace, NEW f \in Files, OthersAsWere(f), block'[f].mode = "closed",
         ~line.active, UNCHANGED line
  PROVE  InPlace'
<1>1. WritesAtEnd' /\ ReadsInPlace'
  BY OthersInPlace DEF InPlace
<1>2. OneWriter'
  BY DEF InPlace, OneWriter, OthersAsWere
<1>3. LineSoFar'
  BY LineIdle
<1>4. QED
  BY <1>1, <1>2, <1>3 DEF InPlace

(* assign changes one control block.                                        *)
LEMMA AssignAlone ==
  ASSUME FileInv, NEW f \in Files, NEW n \in Names, Assign(f, n)
  PROVE  /\ OthersAsWere(f) /\ UNCHANGED host
         /\ block'[f].name = n /\ block'[f].mode = "closed"
<1>1. host' = host /\ block' = [block EXCEPT ![f].name = n, ![f].mode = "closed", ![f].fd = NoFd]
  BY DEF Assign
<1>2. block[f] \in Blocks /\ block \in [Files -> Blocks]
  BY DEF FileInv
<1>3. block'[f] = [block[f] EXCEPT !.name = n, !.mode = "closed", !.fd = NoFd]
      /\ \A g \in Files \ {f} : block'[g] = block[g]
  BY <1>1, <1>2
<1>4. QED
  BY <1>1, <1>2, <1>3 DEF OthersAsWere, Blocks

(* What an open that the host refuses, and one it grants, do.               *)
Refused(f) ==
  /\ block'[f].mode = "closed" /\ host'.disk = host.disk /\ OthersAsWere(f)

Started(f, mode) ==
  LET n == block[f].name
      b == block'[f]
  IN /\ b.mode = mode /\ b.pos = 0 /\ b.buf = << >>
     /\ host'.open[b.fd] = [name |-> n, at |-> 0]
     /\ mode = "read" => n \in DOMAIN host.disk /\ host'.disk = host.disk
     /\ mode = "write" => host'.disk = With(host.disk, n, << >>)
     /\ OthersAsWere(f)
     /\ \A g \in Files \ {f} :
          block[g].name = n => block[g].mode = "closed"
                               \/ (mode = "read" /\ block[g].mode = "read")

OpenResult(f, mode, answer) ==
  /\ answer \in {Success, NotCapable, NotFound, Denied}
  /\ ioresult' = answer
  /\ trapped' \in BOOLEAN /\ (answer = Success => ~trapped')
  /\ block'[f].name = block[f].name
  /\ IF answer = Success THEN Started(f, mode) ELSE Refused(f)

(* reset and rewrite: refused, or open at the beginning of the file.        *)
LEMMA OpenGives ==
  ASSUME FileInv, NoLoss, NEW f \in Files, NEW mode \in {"read", "write"},
         NEW checked \in BOOLEAN, Open(f, mode, checked)
  PROVE  \E answer : OpenResult(f, mode, answer)
<1> DEFINE oflags == IF mode = "write" THEN "creat|trunc" ELSE "none"
<1>0. PICK n : n = block[f].name
  OBVIOUS
<1>1. PICK answer \in PathOpenAnswers(host, FindPreopen, n, oflags) :
        /\ block' = [block EXCEPT ![f] = Opened(@, mode, answer)]
        /\ host' = PathOpen(host, n, oflags, answer)
        /\ ioresult' = answer /\ trapped' = (checked /\ answer # 0)
  BY <1>0 DEF Open, StoreIOResult
<1>2. /\ answer \in {Success, NotCapable, NotFound, Denied}
      /\ answer = Success /\ mode = "read" => n \in DOMAIN host.disk
  <2>1. /\ Success \notin {NotCapable, NotFound, Denied}
        /\ WritesFile(oflags) <=> mode = "write"
    BY DEF Success, NotCapable, NotFound, Denied, WritesFile
  <2>2. QED
    BY <2>1 DEF PathOpenAnswers
<1>3. trapped' \in BOOLEAN /\ (answer = Success => ~trapped')
  BY <1>1 DEF Success
<1>4. /\ block'[f] = Opened(block[f], mode, answer)
      /\ \A g \in Files \ {f} : block'[g] = block[g]
  BY <1>1 DEF FileInv
<1>5. \A g \in Files \ {f} :
        block[g].name = n => block[g].mode = "closed"
                             \/ (mode = "read" /\ block[g].mode = "read")
  BY <1>0 DEF Open, MayOpen, NoLoss
<1>6. host = [disk |-> host.disk, open |-> host.open, next |-> host.next, errno |-> host.errno]
      /\ block[f] \in Blocks
  BY DEF FileInv, HostSafe
<1>7. \A g \in Files : block[g].mode # "closed" => block[g].fd \in DOMAIN host.open
  BY DEF FileInv, DescriptorsOwned
<1>8. CASE answer # Success
  <2>1. block'[f].mode = "closed" /\ block'[f].name = n
    BY <1>0, <1>4, <1>6, <1>8 DEF Opened, Blocks
  <2>2. host' = [disk |-> host.disk, open |-> host.open, next |-> host.next, errno |-> answer]
    BY <1>1, <1>6, <1>8 DEF PathOpen
  <2>3. host'.disk = host.disk /\ host'.open = host.open
    BY <2>2
  <2>4. Refused(f)
    BY <1>4, <2>1, <2>3 DEF Refused, OthersAsWere
  <2>5. QED
    BY <1>0, <1>1, <1>2, <1>3, <1>8, <2>1, <2>4 DEF OpenResult
<1>9. CASE answer = Success
  <2>1. block'[f].mode = mode /\ block'[f].name = n /\ block'[f].fd = host.next
        /\ block'[f].pos = 0 /\ block'[f].buf = << >>
    BY <1>0, <1>4, <1>6, <1>9 DEF Opened, Blocks
  <2>2. /\ host'.disk = IF WritesFile(oflags) THEN With(host.disk, n, << >>) ELSE host.disk
        /\ host'.open = With(host.open, host.next, [name |-> n, at |-> 0])
    BY <1>1, <1>9 DEF PathOpen
  <2>3. WritesFile(oflags) <=> mode = "write"
    BY DEF WritesFile
  <2>4. host.next \notin DOMAIN host.open
    <3>1. host.next \in Int /\ \A d \in DOMAIN host.open : d \in FirstFd..host.next - 1
      BY HostAssumption, FileAssumption DEF FileInv, HostSafe, FirstFd
    <3>2. host.next \notin FirstFd..host.next - 1
      BY <3>1, HostAssumption DEF FirstFd
    <3>3. QED
      BY <3>1, <3>2
  <2>5. /\ host'.open[host.next] = [name |-> n, at |-> 0]
        /\ \A d \in DOMAIN host.open : host'.open[d] = host.open[d]
    BY <2>2, <2>4 DEF With
  <2>6. ASSUME NEW g \in Files \ {f}, block[g].mode # "closed"
        PROVE  host'.disk[block[g].name] = host.disk[block[g].name]
    <3>1. CASE mode = "read"
      BY <2>2, <2>3, <3>1
    <3>2. CASE mode = "write"
      <4>1. block[g].name # n /\ host'.disk = With(host.disk, n, << >>)
        BY <1>5, <2>2, <2>3, <2>6, <3>2
      <4>2. block[g].name \in DOMAIN host.disk
        BY <2>6, ReaderTypes
      <4>3. QED
        BY <4>1, <4>2 DEF With
    <3>3. QED
      BY <3>1, <3>2
  <2>7. OthersAsWere(f)
    BY <1>4, <1>7, <2>5, <2>6 DEF OthersAsWere
  <2>8. Started(f, mode)
    BY <1>0, <1>2, <1>5, <1>9, <2>1, <2>2, <2>3, <2>5, <2>7 DEF Started
  <2>9. QED
    BY <1>0, <1>1, <1>2, <1>3, <1>9, <2>1, <2>8 DEF OpenResult
<1>10. QED
  BY <1>8, <1>9

(* Either keeps everything in place.                                        *)
LEMMA OpenPlace ==
  ASSUME FileInv, InPlace, NEW f \in Files, NEW mode \in {"read", "write"}, NEW answer,
         OpenResult(f, mode, answer), ~line.active, UNCHANGED line
  PROVE  InPlace'
<1>1. CASE answer # Success
  BY <1>1, ClosedPlace DEF OpenResult, Refused
<1>2. CASE answer = Success
  <2>1. Started(f, mode) /\ block'[f].name = block[f].name
    BY <1>2 DEF OpenResult
  <2>2. ASSUME mode = "write"
        PROVE  host'.open[block'[f].fd].at = Len(host'.disk[block'[f].name])
    <3>1. host'.disk[block'[f].name] = << >>
      BY <2>1, <2>2 DEF Started, With
    <3>2. host'.open[block'[f].fd].at = 0
      BY <2>1 DEF Started
    <3>3. QED
      BY <3>1, <3>2
  <2>3. ASSUME mode = "read" PROVE BufferIn(block'[f], host')
    <3>1. /\ block'[f].buf = << >> /\ host'.open[block'[f].fd].at = 0
          /\ host'.disk[block'[f].name] \in Seq(Bytes)
      BY <2>1, <2>3 DEF Started, FileInv, HostSafe
    <3>2. SubSeq(host'.disk[block'[f].name], 1, 0) = << >> /\ Len(<< >>) = 0 /\ (0 - 0) + 1 = 1
      BY SubSeqEmpty
    <3>3. Len(host'.disk[block'[f].name]) \in Nat
      BY <3>1
    <3>4. QED
      BY <3>1, <3>2, <3>3 DEF BufferIn
  <2>4. WritesAtEnd' /\ ReadsInPlace'
    BY <2>1, <2>2, <2>3, OthersInPlace DEF Started, InPlace
  <2>5. OneWriter'
    <3>1. block'[f].mode = mode /\ \A g \in Files \ {f} : block'[g] = block[g]
      BY <2>1 DEF Started, OthersAsWere
    <3>2. \A g \in Files \ {f} : block[g].name = block[f].name =>
            block[g].mode = "closed" \/ (mode = "read" /\ block[g].mode = "read")
      BY <2>1 DEF Started
    <3>3. QED
      BY <2>1, <3>1, <3>2 DEF OneWriter, InPlace
  <2>6. LineSoFar'
    BY LineIdle
  <2>7. QED
    BY <2>4, <2>5, <2>6 DEF InPlace
<1>3. QED
  BY <1>1, <1>2

(* What a statement that writes, or flushes, adds to f's file.              *)
Added(f, bytes) ==
  LET n == block[f].name
  IN /\ OthersAsWere(f)
     /\ block'[f].name = n
     /\ DOMAIN host'.disk = DOMAIN host.disk
     /\ \A m \in DOMAIN host.disk \ {n} : host'.disk[m] = host.disk[m]
     /\ host'.disk[n] \o block'[f].buf = (host.disk[n] \o block[f].buf) \o bytes

(* What Added says of the variables: the others are as they were, and the   *)
(* variable keeps its name.                                                 *)
LEMMA AddedBlocks ==
  ASSUME NEW f \in Files, NEW bytes, Added(f, bytes)
  PROVE  /\ block'[f].name = block[f].name
         /\ \A g \in Files \ {f} : block'[g] = block[g]
<1>1. OthersAsWere(f) /\ block'[f].name = block[f].name
  BY Zenon DEF Added
<1>2. \A g \in Files \ {f} : block'[g] = block[g]
  BY Zenon, <1>1 DEF OthersAsWere
<1>3. QED
  BY Zenon, <1>1, <1>2

(* The one writer of a file is still the only one once it has written.      *)
LEMMA AddedOneWriter ==
  ASSUME OneWriter, NEW f \in Files, block[f].mode = "write", NEW bytes, Added(f, bytes)
  PROVE  OneWriter'
<1>1. /\ block'[f].name = block[f].name
      /\ \A g \in Files \ {f} : block'[g] = block[g]
  BY AddedBlocks
<1>2. ASSUME NEW g \in Files, NEW h \in Files, g # h, block'[g].mode = "write",
             block'[h].mode # "closed"
      PROVE  block'[g].name # block'[h].name
  <2>1. CASE g = f
    BY <1>1, <1>2, <2>1 DEF OneWriter
  <2>2. CASE h = f
    BY <1>1, <1>2, <2>2 DEF OneWriter
  <2>3. CASE g # f /\ h # f
    BY <1>1, <1>2, <2>3 DEF OneWriter
  <2>4. QED
    BY <2>1, <2>2, <2>3
<1>3. QED
  BY <1>2 DEF OneWriter

(* A writer's offset is at the end of its file.                             *)
LEMMA WriterAtEnd ==
  ASSUME FileInv, WritesAtEnd, NEW f \in Files, block[f].mode = "write"
  PROVE  AtEnd(On(block[f], host))
<1>1. On(block[f], host).block = block[f] /\ On(block[f], host).host = host
  BY DEF On
<1>2. block[f].fd \in DOMAIN host.open /\ host.open[block[f].fd].name = block[f].name
  BY DEF FileInv, DescriptorsOwned
<1>3. QED
  BY <1>1, <1>2 DEF AtEnd, WritesAtEnd, Offset, Content

(* Writing one file changes no other variable's file or descriptor.         *)
LEMMA OthersKept ==
  ASSUME FileInv, OneWriter, NEW f \in Files, block[f].mode = "write",
         NEW s, OthersSame(On(block[f], host), s), NEW g \in Files \ {f}, block[g].mode # "closed"
  PROVE  /\ block[g].fd # block[f].fd /\ block[g].fd \in DOMAIN host.open
         /\ s.host.open[block[g].fd] = host.open[block[g].fd]
         /\ s.host.disk[block[g].name] = host.disk[block[g].name]
<1>1. On(block[f], host).block = block[f] /\ On(block[f], host).host = host
  BY DEF On
<1>2. block[g].fd # block[f].fd /\ block[g].fd \in DOMAIN host.open
  BY DEF FileInv, DescriptorsOwned
<1>3. block[g].name # block[f].name /\ block[g].name \in DOMAIN host.disk
  BY ReaderTypes DEF OneWriter
<1>4. QED
  BY <1>1, <1>2, <1>3 DEF OthersSame

(* A disk that takes everything loses nothing.                              *)
LEMMA NoWriteLost ==
  ASSUME NoLoss, NEW lost \in Losses
  PROVE  lost = 0
BY DEF NoLoss, Losses

(* close flushes what is buffered and gives up the descriptor.              *)
LEMMA CloseGives ==
  ASSUME FileInv, InPlace, NoLoss, NEW f \in Files, NEW lost \in Losses, Close(f, lost)
  PROVE  /\ block'[f].mode = "closed" /\ block'[f].name = block[f].name
         /\ OthersAsWere(f)
         /\ block[f].mode # "write" => host'.disk = host.disk
         /\ block[f].mode = "write" => Added(f, << >>) /\ block'[f].buf = << >>
<1> DEFINE t == On(block[f], host)
           s == Flush(t, 0)
           c == [s.block EXCEPT !.fd = NoFd, !.mode = "closed"]
           h == FdClose(s.host, s.block.fd)
<1>1. StateOK(t) /\ t.nread = nread /\ t.block = block[f] /\ t.host = host
  BY StartOK
<1>2. block' = [block EXCEPT ![f] = c] /\ host' = h
  BY NoWriteLost DEF Close, Become, On
<1>3. Keeps(t, s)
  BY <1>1, FlushKeeps DEF Losses
<1>4. ASSUME block[f].mode = "write" PROVE Adds(t, s, << >>) /\ s.block.buf = << >>
  BY <1>1, <1>4, WriterAtEnd, FlushAdds DEF InPlace
<1>5. ASSUME block[f].mode # "write" PROVE s = t
  BY <1>1, <1>5 DEF Flush
<1> HIDE DEF s, t
<1>6. /\ s.block \in Blocks /\ s.block.fd = block[f].fd /\ s.block.name = block[f].name
      /\ s.host = [disk |-> s.host.disk, open |-> s.host.open, next |-> s.host.next,
                   errno |-> s.host.errno]
      /\ SameFiles(host, s.host)
  BY <1>1, <1>3 DEF Keeps, StateOK, SameBlock, BlockOK, HostSafe
<1>7. h.disk = s.host.disk /\ \A d \in DOMAIN s.host.open \ {block[f].fd} : h.open[d] = s.host.open[d]
  BY <1>6 DEF FdClose
<1> HIDE DEF h
<1>8. c.mode = "closed" /\ c.name = block[f].name /\ c.buf = s.block.buf
  BY <1>6 DEF Blocks
<1> HIDE DEF c
<1>9. block'[f] = c /\ \A g \in Files \ {f} : block'[g] = block[g]
  BY <1>2 DEF FileInv
<1>10. ASSUME NEW g \in Files \ {f}, block[g].mode # "closed"
       PROVE  /\ host'.open[block[g].fd] = host.open[block[g].fd]
              /\ host'.disk[block[g].name] = host.disk[block[g].name]
  <2>1. CASE block[f].mode = "write"
    <3>1. /\ block[g].fd # block[f].fd /\ block[g].fd \in DOMAIN host.open
          /\ s.host.open[block[g].fd] = host.open[block[g].fd]
          /\ s.host.disk[block[g].name] = host.disk[block[g].name]
      BY <1>4, <1>10, <2>1, OthersKept DEF Adds, InPlace, t
    <3>2. QED
      BY <1>2, <1>6, <1>7, <3>1 DEF SameFiles
  <2>2. CASE block[f].mode # "write"
    <3>1. s.host = host
      BY <1>1, <1>5, <2>2
    <3>2. block[g].fd \in DOMAIN host.open
      BY <1>10 DEF FileInv, DescriptorsOwned
    <3>3. block[g].fd # block[f].fd
      <4>1. CASE block[f].mode = "closed"
        <5>1. block[f].fd \in {NoFd, 0}
          BY <4>1 DEF FileInv, ClosedHoldsNone
        <5>2. block[g].fd \in FirstFd..host.next - 1 /\ FirstFd > 0 /\ FirstFd \in Int
          BY <3>2, HostAssumption DEF FileInv, HostSafe, FirstFd
        <5>3. QED
          BY <5>1, <5>2, HostAssumption DEF FileInv, HostSafe, NoFd
      <4>2. CASE block[f].mode # "closed"
        BY <1>10, <4>2 DEF FileInv, DescriptorsOwned
      <4>3. QED
        BY <4>1, <4>2
    <3>4. QED
      BY <1>2, <1>7, <3>1, <3>2, <3>3
  <2>3. QED
    BY <2>1, <2>2
<1>11. OthersAsWere(f)
  BY <1>9, <1>10 DEF OthersAsWere
<1>12. ASSUME block[f].mode # "write" PROVE host'.disk = host.disk
  BY SMTT(30), <1>1, <1>2, <1>5, <1>7, <1>12
<1>13. ASSUME block[f].mode = "write" PROVE Added(f, << >>) /\ block'[f].buf = << >>
  <2>1. Adds(t, s, << >>) /\ s.block.buf = << >>
    BY <1>4, <1>13
  <2>2. \A m \in DOMAIN host.disk \ {block[f].name} : s.host.disk[m] = host.disk[m]
    BY <1>1, <2>1 DEF Adds, OthersSame
  <2>3. Whole(s) = Whole(t) \o << >>
    BY SMTT(30), <2>1 DEF Adds
  <2>4. s.host.disk[block[f].name] \o s.block.buf = (host.disk[block[f].name] \o block[f].buf) \o << >>
    BY ZenonT(60), <1>1, <1>6, <2>3 DEF Whole
  <2>5. QED
    BY ZenonT(60), <1>2, <1>6, <1>7, <1>8, <1>9, <1>11, <2>1, <2>2, <2>4 DEF Added, SameFiles
<1>14. QED
  BY <1>8, <1>9, <1>11, <1>12, <1>13

(* Writing to a variable that is not open for it writes nothing.            *)
LEMMA WriteNothing ==
  ASSUME NEW s, s.block.mode # "write", NEW str, Len(str) \in Nat
  PROVE  WriteStr(s, str, 0) = s
<1>1. PICK at : /\ at[0] = s
                /\ \A i \in 1..Len(str) : at[i] = WriteByte(at[i - 1], str[i], 0)
                /\ WriteStr(s, str, 0) = at[Len(str)]
  BY SMTT(30), WriteStrSteps
<1> DEFINE T == {i \in 0..Len(str) : at[i] = s}
<1>2. 0 \in T
  BY <1>1
<1>3. ASSUME NEW i \in 0..Len(str) - 1, i \in T PROVE i + 1 \in T
  <2>1. i + 1 \in 1..Len(str) /\ i + 1 \in 0..Len(str) /\ (i + 1) - 1 = i /\ at[i] = s
    BY <1>3
  <2>2. at[i + 1] = WriteByte(s, str[i + 1], 0)
    BY <1>1, <2>1
  <2>3. QED
    BY <2>1, <2>2 DEF WriteByte
<1> HIDE DEF T
<1>4. 0..Len(str) \subseteq T
  BY <1>2, <1>3, CountUp
<1>5. Len(str) \in 0..Len(str)
  OBVIOUS
<1>6. QED
  BY <1>1, <1>4, <1>5 DEF T

(* write adds its string to the file.                                       *)
LEMMA WriteGives ==
  ASSUME FileInv, InPlace, NoLoss, NEW f \in Files, NEW lost \in Losses, NEW str \in Strings,
         Write(f, str, lost)
  PROVE  /\ str \in Seq(Bytes)
         /\ block[f].mode # "write" => UNCHANGED <<block, host>>
         /\ block[f].mode = "write" =>
              /\ Added(f, str)
              /\ block'[f].mode = "write"
              /\ host'.open[block'[f].fd].at = Len(host'.disk[block'[f].name])
<1> DEFINE t == On(block[f], host)
           s == WriteStr(t, str, 0)
<1>1. StateOK(t) /\ t.nread = nread /\ t.block = block[f] /\ t.host = host
  BY StartOK
<1>2. block' = [block EXCEPT ![f] = s.block] /\ host' = s.host
  BY NoWriteLost DEF Write, Become
<1>3. str \in Seq(Bytes)
  <2>1. str \in Seq(Chars) /\ Chars \subseteq Bytes
    BY FileAssumption DEF Bytes
  <2>2. QED
    BY <2>1
<1>4. CASE block[f].mode # "write"
  <2>1. Len(str) \in Nat
    BY <1>3
  <2>2. s = t
    BY <1>1, <1>4, <2>1, WriteNothing
  <2>3. QED
    BY <1>1, <1>2, <1>3, <1>4, <2>2 DEF FileInv
<1>5. CASE block[f].mode = "write"
  <2>1. Adds(t, s, str)
    BY <1>1, <1>3, <1>5, WriterAtEnd, WriteStrAdds DEF InPlace
  <2> HIDE DEF s, t
  <2>2. /\ Keeps(t, s) /\ AtEnd(s) /\ OthersSame(t, s)
        /\ Whole(s) = Whole(t) \o str
    BY <2>1 DEF Adds
  <2>3. /\ s.block.name = block[f].name /\ s.block.fd = block[f].fd
        /\ DOMAIN s.host.disk = DOMAIN host.disk
    BY <1>1, <2>2 DEF Keeps, SameBlock, SameFiles
  <2>4. block'[f] = s.block /\ \A g \in Files \ {f} : block'[g] = block[g]
    BY <1>2 DEF FileInv
  <2>5. OthersAsWere(f)
    BY <1>2, <1>5, <2>2, <2>4, OthersKept DEF OthersAsWere, InPlace, t
  <2>6. \A m \in DOMAIN host.disk \ {block[f].name} : s.host.disk[m] = host.disk[m]
    BY SMTT(30), <1>1, <2>2 DEF OthersSame
  <2>7. s.host.disk[block[f].name] \o s.block.buf = (host.disk[block[f].name] \o block[f].buf) \o str
    BY ZenonT(60), <1>1, <2>2, <2>3 DEF Whole
  <2>8. Added(f, str)
    BY ZenonT(60), <1>2, <2>3, <2>4, <2>5, <2>6, <2>7 DEF Added
  <2>9. QED
    BY <1>2, <1>3, <1>5, <2>2, <2>4, <2>8 DEF AtEnd
<1>6. QED
  BY <1>4, <1>5

(* It keeps everything in place.                                            *)
LEMMA WritePlace ==
  ASSUME FileInv, InPlace, NoLoss, NEW f \in Files, NEW lost \in Losses, NEW str \in Strings,
         Write(f, str, lost)
  PROVE  InPlace'
<1>1. ~line.active /\ UNCHANGED line
  BY DEF Write, Running
<1>2. LineSoFar'
  BY <1>1, LineIdle
<1>3. CASE block[f].mode # "write"
  <2>1. UNCHANGED <<block, host>>
    BY <1>3, WriteGives
  <2>2. OneWriter' /\ WritesAtEnd' /\ ReadsInPlace'
    BY <2>1 DEF InPlace, OneWriter, WritesAtEnd, ReadsInPlace, Offset, Content
  <2>3. QED
    BY <1>2, <2>2 DEF InPlace
<1>4. CASE block[f].mode = "write"
  <2>1. Added(f, str) /\ block'[f].mode = "write"
        /\ host'.open[block'[f].fd].at = Len(host'.disk[block'[f].name])
    BY SMTT(30), <1>4, WriteGives
  <2>2. WritesAtEnd' /\ ReadsInPlace'
    BY ZenonT(60), <2>1, OthersInPlace DEF Added, InPlace
  <2>3. OneWriter'
    BY ZenonT(60), <1>4, <2>1, AddedOneWriter DEF InPlace
  <2>4. QED
    BY <1>2, <2>2, <2>3 DEF InPlace
<1>5. QED
  BY <1>3, <1>4

-----------------------------------------------------------------------------
(* What is stored and what is left to read after a statement.               *)

Ctx == FileInv /\ RestInv /\ InPlace

(* RestIs after the step,                                                   *)
LEMMA RestIsNext ==
  FileInv' /\ RestInv' /\ InPlace' =>
    \A f \in Files : RestAt(f)' = Rest(block'[f], host', line', f)
<1>1. RestInv => LineSafe
  BY DEF RestInv
<1>2. FileInv /\ RestInv /\ InPlace =>
        \A f \in Files : RestAt(f) = Rest(block[f], host, line, f)
  BY <1>1, RestIs
<1>3. (FileInv /\ RestInv /\ InPlace =>
        \A f \in Files : RestAt(f) = Rest(block[f], host, line, f))'
  BY <1>2, PTL
<1>4. QED
  BY <1>3

(* and StoredIs.                                                            *)
LEMMA StoredIsNext ==
  FileInv' /\ OneWriter' =>
    \A n \in DOMAIN host'.disk :
      /\ (\A f \in Files : ~(block'[f].mode = "write" /\ block'[f].name = n))
           => StoredIn(n)' = host'.disk[n]
      /\ \A f \in Files : block'[f].mode = "write" /\ block'[f].name = n
           => StoredIn(n)' = host'.disk[n] \o block'[f].buf
<1>1. (FileInv /\ OneWriter =>
        \A n \in DOMAIN host.disk :
          /\ (\A f \in Files : ~(block[f].mode = "write" /\ block[f].name = n))
               => StoredIn(n) = host.disk[n]
          /\ \A f \in Files : block[f].mode = "write" /\ block[f].name = n
               => StoredIn(n) = host.disk[n] \o block[f].buf)'
  BY StoredIs, PTL
<1>2. QED
  BY <1>1

ViewOf(f, b, h, l) == [name |-> b.name, mode |-> b.mode, rest |-> Rest(b, h, l, f)]

(* What TextSpec sees of a variable,                                        *)
LEMMA ViewIs ==
  ASSUME Ctx
  PROVE  \A f \in Files : ViewNow[f] = ViewOf(f, block[f], host, line)
<1>1. \A f \in Files : RestAt(f) = Rest(block[f], host, line, f)
  BY RestIs DEF Ctx, RestInv
<1>2. QED
  BY <1>1 DEF ViewNow, ViewOf

(* after the step,                                                          *)
LEMMA ViewIsNext ==
  ASSUME Ctx'
  PROVE  \A f \in Files : ViewNow'[f] = ViewOf(f, block'[f], host', line')
<1>1. \A f \in Files : RestAt(f)' = Rest(block'[f], host', line', f)
  BY RestIsNext DEF Ctx
<1>2. QED
  BY <1>1 DEF ViewNow, ViewOf

(* when only f changed,                                                     *)
LEMMA ViewStep ==
  ASSUME Ctx, Ctx', NEW f \in Files, OthersAsWere(f),
         \/ UNCHANGED line
         \/ (line.active => line.file = f) /\ (line'.active => line'.file = f)
  PROVE  ViewNow' = [ViewNow EXCEPT ![f] = ViewOf(f, block'[f], host', line')]
<1>1. ASSUME NEW g \in Files \ {f} PROVE ViewNow'[g] = ViewNow[g]
  <2>1. Rest(block'[g], host', line', g) = Rest(block[g], host, line, g)
    BY OthersRest
  <2>2. block'[g] = block[g]
    BY DEF OthersAsWere
  <2>3. QED
    BY <2>1, <2>2, ViewIs, ViewIsNext DEF ViewOf
<1>2. ViewNow'[f] = ViewOf(f, block'[f], host', line')
  BY ViewIsNext
<1>3. DOMAIN ViewNow' = Files /\ DOMAIN ViewNow = Files
      /\ ViewNow' = [g \in Files |-> ViewNow'[g]]
  BY DEF ViewNow
<1>4. QED
  BY <1>1, <1>2, <1>3 DEF ViewNow

(* and when f did not either.                                               *)
LEMMA ViewStays ==
  ASSUME Ctx, Ctx', NEW f \in Files, OthersAsWere(f),
         \/ UNCHANGED line
         \/ (line.active => line.file = f) /\ (line'.active => line'.file = f),
         ViewOf(f, block'[f], host', line') = ViewOf(f, block[f], host, line)
  PROVE  UNCHANGED ViewNow
<1>1. ViewNow' = [ViewNow EXCEPT ![f] = ViewNow[f]]
  BY ViewStep, ViewIs
<1>2. ViewNow = [g \in Files |-> ViewNow[g]]
  BY DEF ViewNow
<1>3. QED
  BY <1>1, <1>2

(* What is stored of a file whose writer is forgotten.                      *)
StoredLeft(f) ==
  [m \in DOMAIN host.disk |->
     IF block[f].mode = "write" /\ m = block[f].name THEN host.disk[m] ELSE StoredIn(m)]

(* What files hold when f was closed is one of what TextSpec allows.        *)
LEMMA LeftHas ==
  ASSUME Ctx, NEW f \in Files
  PROVE  StoredLeft(f) \in Abstract!Left(f)
<1>1. CASE block[f].mode # "write"
  <2>1. StoredLeft(f) = [m \in DOMAIN host.disk |-> StoredIn(m)]
    BY <1>1 DEF StoredLeft
  <2>2. QED
    BY <1>1, <2>1 DEF Abstract!Left
<1>2. CASE block[f].mode = "write"
  <2>1. PICK n \in DOMAIN host.disk : n = block[f].name
    BY <1>2, ReaderTypes DEF Ctx
  <2>2. PICK d \in Seq(Bytes), b \in Seq(Bytes) :
          d = host.disk[n] /\ b = block[f].buf /\ Len(b) <= BufSize
    BY <2>1, <1>2, ReaderTypes DEF Ctx, Content, BlockOK
  <2>3. StoredIn(n) = d \o b
    BY <1>2, <2>1, <2>2, StoredIs DEF Ctx, InPlace
  <2>4. /\ d \o b \in Seq(Bytes) /\ Len(d \o b) = Len(d) + Len(b)
        /\ Len(d) \in Nat /\ Len(b) \in Nat /\ BufSize \in Nat
    BY ConcatProperties, HostAssumption
  <2>5. SubSeq(d \o b, 1, Len(d)) = d
    <3>1. Len(d) \in 1 - 1..Len(d) /\ 1 \in 1..Len(d) + 1
      BY <2>4
    <3>2. ASSUME NEW i \in 1..Len(d) PROVE (d \o b)[i] = d[i]
      BY ConcatProperties
    <3>3. Len(SubSeq(d \o b, 1, Len(d))) = Len(d) /\ SubSeq(d \o b, 1, Len(d)) \in Seq(Bytes)
          /\ \A i \in 1..Len(d) : SubSeq(d \o b, 1, Len(d))[i] = (d \o b)[i]
      BY <2>4
    <3>4. QED
      BY <3>2, <3>3, SeqEqual
  <2> DEFINE st == [m \in DOMAIN host.disk |-> StoredIn(m)]
             k == Len(b)
  <2>6. StoredLeft(f) = [st EXCEPT ![n] = SubSeq(st[n], 1, Len(st[n]) - k)]
    <3>1. st[n] = d \o b /\ Len(st[n]) - k = Len(d)
      BY <2>1, <2>3, <2>4
    <3>2. SubSeq(st[n], 1, Len(st[n]) - k) = d
      BY <2>5, <3>1
    <3>3. QED
      BY <1>2, <2>1, <2>2, <3>2 DEF StoredLeft
  <2>7. k \in 0..(IF Len(st[n]) < BufSize THEN Len(st[n]) ELSE BufSize)
    <3>1. st[n] = d \o b
      BY <2>1, <2>3
    <3>2. k \in Nat /\ k <= Len(d \o b) /\ k <= BufSize
      <4>1. PICK x \in Nat, y \in Nat : x = Len(d) /\ y = Len(b)
        BY <2>4
      <4>2. Len(d \o b) = x + y /\ y <= x + y
        BY <2>4, <4>1
      <4>3. QED
        BY <2>2, <4>1, <4>2
    <3> HIDE DEF k, st
    <3>3. QED
      BY <2>4, <3>1, <3>2
  <2>8. Abstract!Left(f) = {[st EXCEPT ![n] = SubSeq(st[n], 1, Len(st[n]) - j)]
           : j \in 0..(IF Len(st[n]) < BufSize THEN Len(st[n]) ELSE BufSize)}
    BY <1>2, <2>1 DEF Abstract!Left
  <2> HIDE DEF st, k
  <2>9. QED
    BY <2>6, <2>7, <2>8
<1>3. QED
  BY <1>1, <1>2

(* A file closed leaves what it held.                                       *)
LEMMA StoredForgets ==
  ASSUME Ctx, Ctx', NEW f \in Files, OthersAsWere(f), block'[f].mode # "write",
         host'.disk = host.disk
  PROVE  StoredNow' = StoredLeft(f)
<1>1. ASSUME NEW m \in DOMAIN host.disk PROVE StoredIn(m)' = StoredLeft(f)[m]
  <2>1. CASE block[f].mode = "write" /\ m = block[f].name
    <3>1. \A g \in Files : ~(block'[g].mode = "write" /\ block'[g].name = m)
      BY <2>1 DEF Ctx, InPlace, OneWriter, OthersAsWere
    <3>2. StoredIn(m)' = host'.disk[m]
      BY <3>1, StoredIsNext DEF Ctx, InPlace
    <3>3. QED
      BY <2>1, <3>2 DEF StoredLeft
  <2>2. CASE ~(block[f].mode = "write" /\ m = block[f].name)
    <3>1. StoredIn(m)' = StoredIn(m)
      BY <2>2, StoredElsewhere DEF OthersAsWere
    <3>2. QED
      BY <2>2, <3>1 DEF StoredLeft
  <2>3. QED
    BY <2>1, <2>2
<1>2. StoredNow' = [m \in DOMAIN host.disk |-> StoredIn(m)']
  BY DEF StoredNow
<1>3. StoredLeft(f) = [m \in DOMAIN host.disk |-> StoredLeft(f)[m]]
  BY DEF StoredLeft
<1>4. QED
  BY <1>1, <1>2, <1>3

(* rewrite leaves its file empty.                                           *)
LEMMA StoredAnew ==
  ASSUME Ctx, Ctx', NEW f \in Files, Started(f, "write"), block'[f].name = block[f].name
  PROVE  LET n == block[f].name
         IN StoredNow' = [m \in DOMAIN StoredLeft(f) \cup {n} |->
                            IF m = n THEN << >> ELSE StoredLeft(f)[m]]
<1>1. PICK n : n = block[f].name
  OBVIOUS
<1>2. DOMAIN host'.disk = DOMAIN host.disk \cup {n} /\ host'.disk[n] = << >>
      /\ \A m \in DOMAIN host.disk \ {n} : host'.disk[m] = host.disk[m]
  BY <1>1 DEF Started, With
<1>3. StoredIn(n)' = << >>
  <2>1. StoredIn(n)' = host'.disk[n] \o block'[f].buf
    BY <1>1, <1>2, StoredIsNext DEF Started, Ctx, InPlace
  <2>2. << >> \o << >> = << >>
    OBVIOUS
  <2>3. QED
    BY <1>2, <2>1, <2>2 DEF Started
<1>4. ASSUME NEW m \in DOMAIN host.disk \ {n} PROVE StoredIn(m)' = StoredLeft(f)[m]
  <2>1. StoredIn(m)' = StoredIn(m)
    BY <1>1, <1>2, StoredElsewhere DEF Started, OthersAsWere
  <2>2. QED
    BY <1>1, <2>1 DEF StoredLeft
<1>5. StoredNow' = [m \in DOMAIN host.disk \cup {n} |-> StoredIn(m)']
  BY <1>2 DEF StoredNow
<1>6. DOMAIN StoredLeft(f) = DOMAIN host.disk
  BY DEF StoredLeft
<1>7. QED
  BY <1>1, <1>3, <1>4, <1>5, <1>6

(* What is added to a file is added to what it holds.                       *)
LEMMA StoredAdds ==
  ASSUME Ctx, Ctx', NEW f \in Files, block[f].mode = "write", NEW bytes, Added(f, bytes),
         block'[f].mode = "write" \/ block'[f].buf = << >>
  PROVE  /\ block[f].name \in DOMAIN host.disk
         /\ StoredNow' = [StoredNow EXCEPT ![block[f].name] = @ \o bytes]
<1>1. PICK n \in DOMAIN host.disk : n = block[f].name
  BY ReaderTypes DEF Ctx
<1>2. StoredNow[n] = host.disk[n] \o block[f].buf
  BY <1>1, StoredIs DEF Ctx, InPlace, StoredNow
<1>3. StoredIn(n)' = host'.disk[n] \o block'[f].buf
  <2>1. n \in DOMAIN host'.disk /\ block'[f].name = n
    BY ZenonT(60), <1>1 DEF Added
  <2>2. CASE block'[f].mode = "write"
    BY <2>1, <2>2, StoredIsNext DEF Ctx, InPlace
  <2>3. CASE block'[f].mode # "write"
    <3>1. \A g \in Files : ~(block'[g].mode = "write" /\ block'[g].name = n)
      <4>1. /\ block'[f].name = block[f].name /\ \A g \in Files \ {f} : block'[g] = block[g]
        BY AddedBlocks
      <4>2. \A g \in Files \ {f} : ~(block[g].mode = "write" /\ block[g].name = n)
        <5>1. OneWriter
          BY Zenon DEF Ctx, InPlace
        <5>2. QED
          BY <1>1, <5>1 DEF OneWriter
      <4>3. QED
        BY <2>3, <4>1, <4>2
    <3>2. StoredIn(n)' = host'.disk[n]
      BY <2>1, <3>1, StoredIsNext DEF Ctx, InPlace
    <3>3. host'.disk[n] \in Seq(Bytes)
      BY <2>1 DEF Ctx, FileInv, HostSafe
    <3>4. host'.disk[n] \o << >> = host'.disk[n]
      BY <3>3, ConcatEmptySeq
    <3>5. QED
      BY <2>3, <3>2, <3>4
  <2>4. QED
    BY <2>2, <2>3
<1>4. StoredIn(n)' = StoredNow[n] \o bytes
  BY ZenonT(60), <1>1, <1>2, <1>3 DEF Added
<1>5. ASSUME NEW m \in DOMAIN host.disk \ {n} PROVE StoredIn(m)' = StoredNow[m]
  <2>1. /\ block'[f].name = block[f].name /\ \A g \in Files \ {f} : block'[g] = block[g]
    BY AddedBlocks
  <2>2. host'.disk[m] = host.disk[m] /\ block[f].name # m
    BY Zenon, <1>1, <1>5 DEF Added
  <2>3. StoredIn(m)' = StoredIn(m)
    BY ZenonT(60), <2>1, <2>2, StoredElsewhere
  <2>4. QED
    BY <2>3 DEF StoredNow
<1>6. StoredNow' = [m \in DOMAIN host.disk |-> StoredIn(m)']
  BY ZenonT(60) DEF StoredNow, Added
<1>7. DOMAIN StoredNow = DOMAIN host.disk
  BY DEF StoredNow
<1>8. QED
  BY <1>1, <1>4, <1>5, <1>6, <1>7

-----------------------------------------------------------------------------
(* Every statement is one of TextSpec's.                                    *)

Same == UNCHANGED <<StoredNow, ViewNow, ioresult, got, trapped>>

(* assign is the abstract one.                                              *)
LEMMA AssignImplements ==
  ASSUME Ctx, Ctx', NEW f \in Files, NEW n \in Names, Assign(f, n)
  PROVE  Abstract!Assign(f, n)
<1>1. /\ OthersAsWere(f) /\ UNCHANGED <<host, line, ioresult, trapped>>
      /\ block'[f].name = n /\ block'[f].mode = "closed" /\ got' = Nothing
  BY ZenonT(60), AssignAlone DEF Assign, Ctx
<1>2. StoredNow' = StoredLeft(f) /\ StoredLeft(f) \in Abstract!Left(f)
  BY <1>1, StoredForgets, LeftHas
<1>3. ViewNow' = [ViewNow EXCEPT ![f] = Abstract!Closed(n)]
  <2>1. ViewOf(f, block'[f], host', line') = Abstract!Closed(n)
    BY SMTT(30), <1>1 DEF ViewOf, Rest, Abstract!Closed
  <2>2. QED
    BY <1>1, <2>1, ViewStep
<1>4. QED
  BY <1>1, <1>2, <1>3 DEF Abstract!Assign, StoredNow, ViewNow, RestAt, Nothing

OpenNow(f, mode, s) ==
  LET n == ViewNow[f].name
  IN \/ /\ ioresult' \in {NotCapable, NotFound, Denied}
        /\ StoredNow' = s
        /\ ViewNow' = [ViewNow EXCEPT ![f] = Abstract!Closed(n)]
        /\ trapped' \in BOOLEAN
     \/ /\ ioresult' = 0
        /\ mode = "read" => n \in DOMAIN s
        /\ StoredNow' = IF mode = "write"
                          THEN [m \in DOMAIN s \cup {n} |-> IF m = n THEN << >> ELSE s[m]]
                          ELSE s
        /\ ViewNow' = [ViewNow EXCEPT ![f].mode = mode,
                                      ![f].rest = IF mode = "read" THEN s[n] ELSE << >>]
        /\ UNCHANGED trapped

(* The abstract open, with its choice made.                                 *)
LEMMA OpenIs ==
  ASSUME NEW f, NEW mode, got' = Nothing, NEW s \in Abstract!Left(f), OpenNow(f, mode, s)
  PROVE  Abstract!Open(f, mode)
BY DEF OpenNow, Abstract!Open, StoredNow, ViewNow, RestAt, Nothing

(* reset and rewrite are the abstract open.                                 *)
LEMMA OpenImplements ==
  ASSUME Ctx, Ctx', NEW f \in Files, NEW mode \in {"read", "write"}, NEW answer,
         OpenResult(f, mode, answer), Running, UNCHANGED line, got' = Nothing
  PROVE  Abstract!Open(f, mode)
<1>1. OthersAsWere(f) /\ block'[f].name = block[f].name
  BY DEF OpenResult, Started, Refused
<1>2. StoredLeft(f) \in Abstract!Left(f)
  BY LeftHas
<1>3. ViewNow[f].name = block[f].name
  BY DEF ViewNow
<1>4. CASE answer # Success
  <2>1. block'[f].mode = "closed" /\ host'.disk = host.disk /\ ioresult' \in {NotCapable, NotFound, Denied}
        /\ trapped' \in BOOLEAN
    BY <1>4 DEF OpenResult, Refused
  <2>2. StoredNow' = StoredLeft(f)
    BY <1>1, <2>1, StoredForgets
  <2>3. ViewNow' = [ViewNow EXCEPT ![f] = Abstract!Closed(ViewNow[f].name)]
    <3>1. ViewOf(f, block'[f], host', line') = Abstract!Closed(ViewNow[f].name)
      BY <1>1, <1>3, <2>1 DEF ViewOf, Rest, Abstract!Closed
    <3>2. QED
      BY <1>1, <3>1, ViewStep
  <2>4. QED
    BY <1>2, <2>1, <2>2, <2>3, OpenIs DEF OpenNow
<1>5. CASE answer = Success
  <2>1. Started(f, mode) /\ ioresult' = 0 /\ trapped' = FALSE /\ trapped = FALSE
    BY <1>5 DEF OpenResult, Success, Running, Ctx, RestInv
  <2>2. ~line.active /\ ~line'.active
    BY DEF Running
  <2>3. PICK n : n = block[f].name
    OBVIOUS
  <2>4. CASE mode = "read"
    <3>1. /\ n \in DOMAIN host.disk /\ host'.disk = host.disk /\ block'[f].mode = "read"
          /\ block'[f].pos = 0 /\ block'[f].buf = << >> /\ host'.open[block'[f].fd].at = 0
      BY <2>1, <2>3, <2>4 DEF Started
    <3>2. StoredNow' = StoredLeft(f)
      BY <1>1, <3>1, StoredForgets
    <3>3. StoredLeft(f)[n] = host.disk[n]
      <4>1. CASE block[f].mode = "write"
        BY <2>3, <3>1, <4>1 DEF StoredLeft
      <4>2. CASE block[f].mode # "write"
        <5>1. \A g \in Files : ~(block[g].mode = "write" /\ block[g].name = n)
          BY <2>1, <2>3, <2>4, <4>2 DEF Started
        <5>2. StoredIn(n) = host.disk[n]
          BY <3>1, <5>1, StoredIs DEF Ctx, InPlace
        <5>3. QED
          BY <3>1, <4>2, <5>2 DEF StoredLeft
      <4>3. QED
        BY <4>1, <4>2
    <3>4. Rest(block'[f], host', line', f) = StoredLeft(f)[n]
      <4>1. PosOf(block'[f], host') = 0
        <5>1. PICK z \in Int : z = Len(<< >>) /\ z = 0
          OBVIOUS
        <5>2. PosOf(block'[f], host') = 0 - (z - 0)
          BY <3>1, <5>1 DEF PosOf
        <5>3. QED
          BY <5>1, <5>2
      <4>2. host.disk[n] \in Seq(Bytes)
        BY <3>1 DEF Ctx, FileInv, HostSafe
      <4>3. Suffix(host.disk[n], 0) = host.disk[n]
        BY <4>2, SubSeqFull DEF Suffix
      <4>4. Rest(block'[f], host', line', f) = Suffix(host'.disk[block'[f].name], PosOf(block'[f], host'))
        BY <2>2, <3>1 DEF Rest
      <4>5. QED
        BY <1>1, <2>3, <3>1, <3>3, <4>1, <4>3, <4>4
    <3>5. ViewNow' = [ViewNow EXCEPT ![f].mode = "read", ![f].rest = StoredLeft(f)[n]]
      <4>1. ViewNow' = [ViewNow EXCEPT ![f] = ViewOf(f, block'[f], host', line')]
        BY <1>1, ViewStep
      <4>2. ViewOf(f, block'[f], host', line')
              = [name |-> n, mode |-> "read", rest |-> StoredLeft(f)[n]]
        BY <1>1, <2>3, <3>1, <3>4 DEF ViewOf
      <4>3. ViewNow[f] = [name |-> n, mode |-> block[f].mode, rest |-> RestAt(f)]
        BY <2>3 DEF ViewNow
      <4>4. [ViewNow[f] EXCEPT !.mode = "read", !.rest = StoredLeft(f)[n]]
              = [name |-> n, mode |-> "read", rest |-> StoredLeft(f)[n]]
        <5>1. PICK v, k, r, x, y :
                /\ v = ViewNow[f] /\ k = block[f].mode /\ r = RestAt(f)
                /\ x = "read" /\ y = StoredLeft(f)[n]
          OBVIOUS
        <5>2. v = [name |-> n, mode |-> k, rest |-> r]
          BY <4>3, <5>1
        <5> DEFINE w == [v EXCEPT !.mode = x, !.rest = y]
        <5>3. v \in [name : {n}, mode : {k}, rest : {r}]
          BY <5>2
        <5>4. w \in [name : {n}, mode : {x}, rest : {y}]
          BY <5>3
        <5>5. w = [name |-> n, mode |-> x, rest |-> y]
          <6> HIDE DEF w
          <6>1. QED
            BY <5>4
        <5>6. QED
          BY <5>1, <5>5
      <4>5. DOMAIN ViewNow = Files
        BY DEF ViewNow
      <4>6. QED
        BY <4>1, <4>2, <4>4, <4>5
    <3>6. n \in DOMAIN StoredLeft(f)
      BY <3>1 DEF StoredLeft
    <3>7. QED
      BY <1>2, <1>3, <2>1, <2>3, <2>4, <3>2, <3>5, <3>6, OpenIs DEF OpenNow
  <2>5. CASE mode = "write"
    <3>1. StoredNow' = [m \in DOMAIN StoredLeft(f) \cup {n} |->
                          IF m = n THEN << >> ELSE StoredLeft(f)[m]]
      BY <1>1, <2>1, <2>3, <2>5, StoredAnew
    <3>2. ViewNow' = [ViewNow EXCEPT ![f].mode = "write", ![f].rest = << >>]
      <4>1. ViewNow' = [ViewNow EXCEPT ![f] = ViewOf(f, block'[f], host', line')]
        BY <1>1, ViewStep
      <4>2. ViewOf(f, block'[f], host', line')
              = [name |-> n, mode |-> "write", rest |-> << >>]
        BY <1>1, <2>1, <2>3, <2>5 DEF ViewOf, Rest, Started
      <4>3. ViewNow[f] = [name |-> n, mode |-> block[f].mode, rest |-> RestAt(f)]
        BY <2>3 DEF ViewNow
      <4>4. [ViewNow[f] EXCEPT !.mode = "write", !.rest = << >>]
              = [name |-> n, mode |-> "write", rest |-> << >>]
        <5>1. PICK v, k, r, x, y :
                /\ v = ViewNow[f] /\ k = block[f].mode /\ r = RestAt(f)
                /\ x = "write" /\ y = << >>
          OBVIOUS
        <5>2. v = [name |-> n, mode |-> k, rest |-> r]
          BY <4>3, <5>1
        <5> DEFINE w == [v EXCEPT !.mode = x, !.rest = y]
        <5>3. v \in [name : {n}, mode : {k}, rest : {r}]
          BY <5>2
        <5>4. w \in [name : {n}, mode : {x}, rest : {y}]
          BY <5>3
        <5>5. w = [name |-> n, mode |-> x, rest |-> y]
          <6> HIDE DEF w
          <6>1. QED
            BY <5>4
        <5>6. QED
          BY <5>1, <5>5
      <4>5. DOMAIN ViewNow = Files
        BY DEF ViewNow
      <4>6. QED
        BY <4>1, <4>2, <4>4, <4>5
    <3>3. QED
      BY <1>2, <1>3, <2>1, <2>3, <2>5, <3>1, <3>2, OpenIs DEF OpenNow
  <2>6. QED
    BY <2>4, <2>5
<1>6. QED
  BY <1>4, <1>5

(* close is the abstract one.                                               *)
LEMMA CloseImplements ==
  ASSUME Ctx, Ctx', NoLoss, NEW f \in Files, NEW lost \in Losses, Close(f, lost)
  PROVE  Abstract!Close(f)
<1>1. /\ block'[f].mode = "closed" /\ block'[f].name = block[f].name
      /\ OthersAsWere(f)
      /\ block[f].mode # "write" => host'.disk = host.disk
      /\ block[f].mode = "write" => Added(f, << >>) /\ block'[f].buf = << >>
  BY CloseGives DEF Ctx
<1>2. UNCHANGED <<line, ioresult, trapped>> /\ got' = Nothing
  BY DEF Close
<1>3. StoredNow' = StoredNow
  <2>1. CASE block[f].mode # "write"
    <3>1. StoredNow' = StoredLeft(f)
      BY <1>1, <2>1, StoredForgets
    <3>2. QED
      BY <2>1, <3>1 DEF StoredLeft, StoredNow
  <2>2. CASE block[f].mode = "write"
    <3>1. PICK n \in DOMAIN host.disk :
            n = block[f].name /\ StoredNow' = [StoredNow EXCEPT ![n] = @ \o << >>]
      BY <1>1, <2>2, StoredAdds
    <3>2. StoredNow[n] \in Seq(Bytes)
      <4>1. StoredNow[n] = host.disk[n] \o block[f].buf
        BY <2>2, <3>1, StoredIs DEF Ctx, InPlace, StoredNow
      <4>2. host.disk[n] \in Seq(Bytes) /\ block[f].buf \in Seq(Bytes)
        BY DEF Ctx, FileInv, HostSafe, Blocks
      <4>3. QED
        BY <4>1, <4>2, ConcatProperties
    <3>3. StoredNow[n] \o << >> = StoredNow[n]
      BY <3>2, ConcatEmptySeq
    <3>4. StoredNow = [m \in DOMAIN host.disk |-> StoredNow[m]]
      BY DEF StoredNow
    <3>5. QED
      BY <3>1, <3>3, <3>4
  <2>3. QED
    BY <2>1, <2>2
<1>4. ViewNow' = [ViewNow EXCEPT ![f] = Abstract!Closed(ViewNow[f].name)]
  <2>1. ViewNow[f].name = block[f].name
    BY DEF ViewNow
  <2>2. ViewOf(f, block'[f], host', line') = Abstract!Closed(ViewNow[f].name)
    BY <1>1, <2>1 DEF ViewOf, Rest, Abstract!Closed
  <2>3. QED
    BY <1>1, <1>2, <2>2, ViewStep
<1>5. QED
  BY <1>2, <1>3, <1>4 DEF Abstract!Close, StoredNow, ViewNow, RestAt, Nothing

(* write is the abstract one.                                               *)
LEMMA WriteImplements ==
  ASSUME Ctx, Ctx', NoLoss, NEW f \in Files, NEW lost \in Losses, NEW str \in Strings,
         Write(f, str, lost)
  PROVE  Abstract!Write(f, str)
<1>1. UNCHANGED <<line, ioresult, trapped>> /\ got' = Nothing
  BY DEF Write
<1>2. ViewNow[f].mode = block[f].mode /\ ViewNow[f].name = block[f].name
  BY DEF ViewNow
<1>3. CASE block[f].mode # "write"
  <2>1. UNCHANGED <<block, host>>
    BY <1>3, WriteGives DEF Ctx
  <2>2. OthersAsWere(f) /\ ViewOf(f, block'[f], host', line') = ViewOf(f, block[f], host, line)
    BY <1>1, <2>1 DEF OthersAsWere
  <2>3. UNCHANGED ViewNow
    BY <1>1, <2>2, ViewStays
  <2>4. StoredNow' = StoredLeft(f)
    BY <1>3, <2>1, <2>2, StoredForgets
  <2>5. UNCHANGED StoredNow
    BY <1>3, <2>4 DEF StoredLeft, StoredNow
  <2>6. QED
    BY <1>1, <1>2, <1>3, <2>3, <2>5 DEF Abstract!Write, StoredNow, ViewNow, RestAt, Nothing
<1>4. CASE block[f].mode = "write"
  <2>1. Added(f, str) /\ block'[f].mode = "write"
    BY <1>4, WriteGives DEF Ctx
  <2>2. StoredNow' = [StoredNow EXCEPT ![block[f].name] = @ \o str]
    BY SMTT(30), <1>4, <2>1, StoredAdds
  <2>3. OthersAsWere(f) /\ ViewOf(f, block'[f], host', line') = ViewOf(f, block[f], host, line)
    BY ZenonT(60), <1>4, <2>1 DEF Added, ViewOf, Rest
  <2>4. UNCHANGED ViewNow
    BY <1>1, <2>3, ViewStays
  <2>5. QED
    BY <1>1, <1>2, <1>4, <2>2, <2>4 DEF Abstract!Write, StoredNow, ViewNow, RestAt, Nothing
<1>5. QED
  BY <1>3, <1>4

(* A byte is not the end of the file.                                       *)
LEMMA ReadNotEof ==
  ASSUME NEW D \in Seq(Bytes), NEW p \in 0..Len(D), p < Len(D)
  PROVE  D[p + 1] # EndOfFile /\ D[p + 1] \in Bytes
<1>1. p + 1 \in 1..Len(D)
  OBVIOUS
<1>2. D[p + 1] \in Bytes
  BY <1>1
<1>3. QED
  BY <1>2, FileAssumption DEF Bytes, EndOfFile, Junk, Nul

RestFrom(f) == IF line.active /\ line.file = f THEN line.from ELSE Position(f)

(* What is left to read lies behind the position, or behind where the line  *)
(* began.                                                                   *)
LEMMA RestRead ==
  ASSUME Ctx, NEW f \in Files
  PROVE  /\ ViewNow[f].name = block[f].name /\ ViewNow[f].mode = block[f].mode
         /\ ViewNow[f].rest = IF block[f].mode = "read" THEN Suffix(Content(f), RestFrom(f))
                              ELSE << >>
<1>1. ViewNow[f] = ViewOf(f, block[f], host, line)
  BY ViewIs
<1>2. block[f].mode = "read" => Position(f) = PosOf(block[f], host)
  BY DEF Position, PosOf
<1>3. QED
  BY <1>1, <1>2 DEF ViewOf, Rest, RestFrom, Content

(* The same when the position moved to q,                                   *)
LEMMA RestMoved ==
  ASSUME NEW f \in Files, NEW q, Moved(f, q)
  PROVE  ViewOf(f, block'[f], host', line') =
           [name |-> block[f].name, mode |-> block[f].mode,
            rest |-> IF block[f].mode = "read"
                       THEN Suffix(Content(f), IF line'.active /\ line'.file = f THEN line'.from ELSE q)
                       ELSE << >>]
<1>1. block'[f].name = block[f].name /\ block'[f].mode = block[f].mode /\ host'.disk = host.disk
  BY DEF Moved, SameBlock
<1>2. CASE block[f].mode = "read"
  <2>1. PosOf(block'[f], host') = q
    BY <1>2 DEF Moved
  <2>2. QED
    BY <1>1, <1>2, <2>1 DEF ViewOf, Rest, Content
<1>3. CASE block[f].mode # "read"
  BY <1>1, <1>3 DEF ViewOf, Rest
<1>4. QED
  BY <1>2, <1>3

(* and as a change to what TextSpec sees.                                   *)
LEMMA RestPut ==
  ASSUME Ctx, Ctx', NEW f \in Files, NEW q, Moved(f, q), NEW y,
         \/ UNCHANGED line
         \/ (line.active => line.file = f) /\ (line'.active => line'.file = f),
         y = IF block[f].mode = "read"
               THEN Suffix(Content(f), IF line'.active /\ line'.file = f THEN line'.from ELSE q)
               ELSE << >>
  PROVE  /\ ViewNow' = [ViewNow EXCEPT ![f].rest = y]
         /\ y = ViewNow[f].rest => UNCHANGED ViewNow
         /\ UNCHANGED StoredNow
<1>1. PICK n, m, r : n = block[f].name /\ m = block[f].mode /\ r = RestAt(f)
  OBVIOUS
<1>2. OthersAsWere(f)
  BY DEF Moved
<1>3. ViewNow' = [ViewNow EXCEPT ![f] = [name |-> n, mode |-> m, rest |-> y]]
  BY <1>1, <1>2, ViewStep, RestMoved
<1>4. PICK v : v = ViewNow[f]
  OBVIOUS
<1>5. v = [name |-> n, mode |-> m, rest |-> r]
  BY <1>1, <1>4 DEF ViewNow
<1>6. [v EXCEPT !.rest = y] = [name |-> n, mode |-> m, rest |-> y]
  BY <1>5
<1>7. ViewNow = [g \in Files |-> ViewNow[g]]
  BY DEF ViewNow
<1>8. ViewNow' = [ViewNow EXCEPT ![f].rest = y]
  BY <1>3, <1>4, <1>6, <1>7
<1>9. ASSUME y = ViewNow[f].rest PROVE UNCHANGED ViewNow
  <2>1. y = r
    BY <1>4, <1>5, <1>9
  <2>2. [name |-> n, mode |-> m, rest |-> y] = ViewNow[f]
    BY <1>4, <1>5, <2>1
  <2>3. QED
    BY <1>3, <1>7, <2>2
<1>10. UNCHANGED StoredNow
  BY AfterRead DEF Ctx, InPlace
<1>11. QED
  BY <1>8, <1>9, <1>10

(* read of a character is the abstract one.                                 *)
LEMMA ReadCharImplements ==
  ASSUME Ctx, Ctx', NEW f \in Files, NEW checked \in BOOLEAN, ReadChar(f, checked)
  PROVE  Abstract!ReadChar(f)
<1>1. PICK r \in ReadByte(f) :
       /\ Become(f, r.at)
       /\ got' = [op |-> "char", file |-> f, val |-> r.byte]
       /\ IF r.byte = EndOfFile
            THEN ioresult' = ErrPastEof /\ trapped' = checked
            ELSE UNCHANGED <<ioresult, trapped>>
  BY DEF ReadChar
<1>2. ~line.active /\ ~line'.active /\ UNCHANGED line
  BY DEF ReadChar, Running
<1>3. CASE block[f].mode # "read"
  <2>1. r.byte = EndOfFile /\ Moved(f, 0)
    BY <1>1, <1>3, ReadMoves DEF Ctx, InPlace
  <2>2. ViewNow[f].rest = << >>
    BY <1>3, RestRead
  <2>3. UNCHANGED <<ViewNow, StoredNow>>
    BY <1>2, <1>3, <2>1, <2>2, RestPut
  <2>4. QED
    BY <1>1, <2>1, <2>2, <2>3
       DEF Abstract!ReadChar, StoredNow, ViewNow, RestAt, EndOfFile, Abstract!EndOfFile,
           ErrPastEof, Abstract!ErrPastEof
<1>4. CASE block[f].mode = "read"
  <2>0. PICK D \in Seq(Bytes) : D = Content(f)
    BY <1>1, <1>4, ReadMoves DEF Ctx, InPlace
  <2>1. PICK p \in 0..Len(D) :
          /\ p = Position(f)
          /\ Moved(f, IF p < Len(D) THEN p + 1 ELSE p)
          /\ r.byte = IF p < Len(D) THEN D[p + 1] ELSE EndOfFile
    BY <1>1, <1>4, <2>0, ReadMoves DEF Ctx, InPlace
  <2>2. ViewNow[f].rest = Suffix(D, p)
    BY <1>2, <1>4, <2>0, <2>1, RestRead DEF RestFrom
  <2>3. CASE p < Len(D)
    <3>1. r.byte = D[p + 1] /\ r.byte # EndOfFile
      BY <2>1, <2>3, ReadNotEof
    <3>2. /\ Suffix(D, p) # << >> /\ Head(Suffix(D, p)) = D[p + 1]
          /\ Tail(Suffix(D, p)) = Suffix(D, p + 1)
      BY <2>3, SuffixFacts
    <3>3. ViewNow' = [ViewNow EXCEPT ![f].rest = Suffix(D, p + 1)] /\ UNCHANGED StoredNow
      BY <1>2, <1>4, <2>0, <2>1, <2>3, RestPut
    <3>4. ViewNow' = [ViewNow EXCEPT ![f].rest = Tail(ViewNow[f].rest)]
      BY <2>2, <3>2, <3>3
    <3>5. got' = [op |-> "char", file |-> f, val |-> Head(ViewNow[f].rest)]
      BY <1>1, <2>2, <3>1, <3>2
    <3>6. UNCHANGED <<ioresult, trapped>> /\ ViewNow[f].rest # << >>
      BY <1>1, <2>2, <3>1, <3>2
    <3> HIDE DEF Suffix
    <3>7. QED
      BY <3>3, <3>4, <3>5, <3>6 DEF Abstract!ReadChar, StoredNow, ViewNow, RestAt
  <2>4. CASE ~(p < Len(D))
    <3>1. p = Len(D) /\ r.byte = EndOfFile /\ Moved(f, p)
      BY <2>1, <2>4
    <3>2. Suffix(D, p) = << >>
      BY <3>1, SuffixFacts
    <3>3. UNCHANGED <<ViewNow, StoredNow>>
      BY <1>2, <1>4, <2>0, <2>1, <2>2, <3>1, RestPut
    <3>4. QED
      BY <1>1, <2>2, <3>1, <3>2, <3>3
         DEF Abstract!ReadChar, StoredNow, ViewNow, RestAt, EndOfFile, Abstract!EndOfFile,
             ErrPastEof, Abstract!ErrPastEof
  <2>5. QED
    BY <2>3, <2>4
<1>5. QED
  BY <1>3, <1>4

(* eof is the abstract one, though it may refill.                           *)
LEMMA EofImplements ==
  ASSUME Ctx, Ctx', NEW f \in Files, Eof(f)
  PROVE  Abstract!Eof(f)
<1>1. PICK r \in ReadByte(f) :
       /\ Become(f, PutBack(r))
       /\ got' = [op |-> "eof", file |-> f, val |-> r.byte = EndOfFile]
  BY DEF Eof
<1>2. ~line.active /\ ~line'.active /\ UNCHANGED <<line, ioresult, trapped>>
  BY DEF Eof, Running
<1>3. PICK q :
        /\ Moved(f, q)
        /\ block[f].mode = "read" => q = Position(f)
        /\ (r.byte = EndOfFile) <=> (ViewNow[f].rest = << >>)
  <2>1. CASE block[f].mode # "read"
    <3>1. r.byte = EndOfFile /\ Moved(f, 0)
      BY <1>1, <2>1, ReadMoves DEF Ctx, InPlace
    <3>2. ViewNow[f].rest = << >>
      BY <2>1, RestRead
    <3>3. QED
      BY <2>1, <3>1, <3>2
  <2>2. CASE block[f].mode = "read"
    <3>0. PICK D \in Seq(Bytes) : D = Content(f)
      BY <1>1, <2>2, ReadMoves DEF Ctx, InPlace
    <3>1. PICK p \in 0..Len(D) :
            /\ p = Position(f)
            /\ Moved(f, p)
            /\ r.byte = IF p < Len(D) THEN D[p + 1] ELSE EndOfFile
      BY <1>1, <2>2, <3>0, ReadMoves DEF Ctx, InPlace
    <3>2. ViewNow[f].rest = Suffix(D, p)
      BY <1>2, <2>2, <3>0, <3>1, RestRead DEF RestFrom
    <3>3. (Suffix(D, p) = << >>) <=> ~(p < Len(D))
      BY SuffixFacts
    <3>4. (r.byte = EndOfFile) <=> ~(p < Len(D))
      BY <3>1, ReadNotEof
    <3>5. QED
      BY <2>2, <3>1, <3>2, <3>3, <3>4
  <2>3. QED
    BY <2>1, <2>2
<1>4. UNCHANGED <<ViewNow, StoredNow>>
  <2>1. ViewNow[f].rest = IF block[f].mode = "read" THEN Suffix(Content(f), q) ELSE << >>
    BY <1>2, <1>3, RestRead DEF RestFrom
  <2>2. QED
    BY <1>2, <1>3, <2>1, RestPut
<1>5. (r.byte = EndOfFile) = (ViewNow[f].rest = << >>)
  BY <1>3
<1>6. got' = [op |-> "eof", file |-> f, val |-> ViewNow[f].rest = << >>]
  BY <1>1, <1>5
<1>7. QED
  BY <1>2, <1>4, <1>6 DEF Abstract!Eof, StoredNow, ViewNow, RestAt

(* A line read is the first line of what was left, and what is left then    *)
(* lies behind its newline.                                                 *)
LEMMA LineOfRest ==
  ASSUME NEW D \in Seq(Bytes), NEW from \in 0..Len(D), NEW p \in from..Len(D),
         \A i \in 1..p - from : SubSeq(D, from + 1, p)[i] # LF,
         p < Len(D) => D[p + 1] = LF
  PROVE  LET rest == Suffix(D, from)
             n == Abstract!LineLength(rest)
         IN /\ SubSeq(rest, 1, n) = SubSeq(D, from + 1, p)
            /\ SubSeq(rest, n + 2, Len(rest)) = Suffix(D, IF p < Len(D) THEN p + 1 ELSE p)
<1>1. PICK rest \in Seq(Bytes) :
        /\ rest = Suffix(D, from) /\ Len(rest) = Len(D) - from
        /\ \A i \in 1..Len(D) - from : rest[i] = D[from + i]
  BY SuffixFacts
<1>2. PICK n \in 0..Len(D) - from : n = p - from
  OBVIOUS
<1>3. PICK line1 \in Seq(Bytes) :
        /\ line1 = SubSeq(D, from + 1, p) /\ Len(line1) = n
        /\ \A i \in 1..n : line1[i] = D[from + i]
  <2>1. \A i \in from + 1..p : D[i] \in Bytes
    OBVIOUS
  <2>2. /\ SubSeq(D, from + 1, p) \in Seq(Bytes)
        /\ Len(SubSeq(D, from + 1, p)) = IF from + 1 <= p THEN p - (from + 1) + 1 ELSE 0
        /\ \A i \in 1..p - (from + 1) + 1 : SubSeq(D, from + 1, p)[i] = D[(from + 1) + i - 1]
    BY <2>1, SubSeqProperties
  <2> DEFINE x == SubSeq(D, from + 1, p)
  <2>3. p - (from + 1) + 1 = n /\ (IF from + 1 <= p THEN p - (from + 1) + 1 ELSE 0) = n
    BY <1>2
  <2>4. \A i \in 1..n : (from + 1) + i - 1 = from + i
    OBVIOUS
  <2>5. x \in Seq(Bytes) /\ Len(x) = n /\ \A i \in 1..n : x[i] = D[(from + 1) + i - 1]
    BY <2>2, <2>3
  <2> HIDE DEF x
  <2>6. \A i \in 1..n : x[i] = D[from + i]
    BY <2>4, <2>5
  <2>7. x = SubSeq(D, from + 1, p)
    BY DEF x
  <2>8. QED
    BY <2>5, <2>6, <2>7
<1>4. \A i \in 1..n : i \in 1..Len(D) - from
  OBVIOUS
<1>5. \A i \in 1..n : rest[i] # LF
  BY <1>1, <1>2, <1>3, <1>4
<1>6. ASSUME n < Len(rest) PROVE rest[n + 1] = LF
  <2>1. n + 1 \in 1..Len(D) - from /\ p < Len(D) /\ from + (n + 1) = p + 1
    BY <1>1, <1>2, <1>6
  <2>2. QED
    BY <1>1, <2>1
<1>7. Abstract!LineLength(rest) = n
  <2>1. n \in 0..Len(rest)
    BY <1>1
  <2>2. QED
    BY <1>5, <1>6, <2>1, LineLengthIs
<1>8. SubSeq(rest, 1, n) = line1
  <2>1. \A i \in 1..n : rest[i] \in Bytes
    BY <1>1
  <2>2. /\ SubSeq(rest, 1, n) \in Seq(Bytes)
        /\ Len(SubSeq(rest, 1, n)) = IF 1 <= n THEN n - 1 + 1 ELSE 0
        /\ \A i \in 1..n - 1 + 1 : SubSeq(rest, 1, n)[i] = rest[1 + i - 1]
    BY <2>1, SubSeqProperties
  <2>3. n - 1 + 1 = n /\ (IF 1 <= n THEN n - 1 + 1 ELSE 0) = n /\ \A i \in 1..n : 1 + i - 1 = i
    OBVIOUS
  <2>4. \A i \in 1..n : SubSeq(rest, 1, n)[i] = line1[i]
    BY SMTT(30), <1>1, <1>3, <1>4, <2>2, <2>3
  <2>5. QED
    BY <1>3, <2>2, <2>3, <2>4, SeqEqual
<1>9. SubSeq(rest, n + 2, Len(rest)) = Suffix(D, IF p < Len(D) THEN p + 1 ELSE p)
  <2>1. CASE p < Len(D)
    <3>1. PICK k \in 0..Len(D) : k = p + 1
      BY <2>1
    <3>2. PICK s \in Seq(Bytes) :
            /\ s = Suffix(D, k) /\ Len(s) = Len(D) - k
            /\ \A i \in 1..Len(D) - k : s[i] = D[k + i]
      BY SuffixFacts
    <3>3. \A i \in n + 2..Len(rest) : rest[i] \in Bytes
      OBVIOUS
    <3>4. /\ SubSeq(rest, n + 2, Len(rest)) \in Seq(Bytes)
          /\ Len(SubSeq(rest, n + 2, Len(rest)))
               = IF n + 2 <= Len(rest) THEN Len(rest) - (n + 2) + 1 ELSE 0
          /\ \A i \in 1..Len(rest) - (n + 2) + 1 :
               SubSeq(rest, n + 2, Len(rest))[i] = rest[(n + 2) + i - 1]
      BY <3>3, SubSeqProperties
    <3>5. PICK l \in Nat : l = Len(rest) /\ l = Len(D) - from
      <4>1. Len(rest) \in Nat
        OBVIOUS
      <4>2. QED
        BY <1>1, <4>1
    <3>6. /\ l - (n + 2) + 1 = Len(D) - k
          /\ (IF n + 2 <= l THEN l - (n + 2) + 1 ELSE 0) = Len(D) - k
      BY <1>2, <3>1, <3>5
    <3>7. ASSUME NEW i \in 1..Len(D) - k
          PROVE  SubSeq(rest, n + 2, Len(rest))[i] = s[i]
      <4>1. (n + 2) + i - 1 \in 1..Len(D) - from /\ from + ((n + 2) + i - 1) = k + i
        BY <1>2, <3>1
      <4>2. SubSeq(rest, n + 2, Len(rest))[i] = rest[(n + 2) + i - 1]
        BY <3>4, <3>5, <3>6
      <4>3. QED
        BY <1>1, <3>2, <4>1, <4>2
    <3>8. Len(SubSeq(rest, n + 2, Len(rest))) = Len(D) - k
      BY <3>4, <3>5, <3>6
    <3>9. SubSeq(rest, n + 2, Len(rest)) = s
      <4> DEFINE x == SubSeq(rest, n + 2, Len(rest))
      <4>1. x \in Seq(Bytes) /\ Len(x) = Len(D) - k /\ \A i \in 1..Len(D) - k : x[i] = s[i]
        BY <3>4, <3>7, <3>8
      <4> HIDE DEF x
      <4>2. x = s
        BY ZenonT(60), <3>2, <4>1, SeqEqual
      <4>3. QED
        BY <4>2 DEF x
    <3>10. QED
      BY <2>1, <3>1, <3>2, <3>9
  <2>2. CASE ~(p < Len(D))
    <3>1. PICK l \in Nat : l = Len(rest) /\ l = n /\ p = Len(D)
      BY <1>1, <1>2, <2>2
    <3>2. SubSeq(rest, n + 2, Len(rest)) = << >>
      BY <3>1, SubSeqEmpty
    <3>3. Suffix(D, p) = << >>
      BY <3>1, SuffixFacts
    <3>4. QED
      BY <2>2, <3>2, <3>3
  <2>3. QED
    BY <2>1, <2>2
<1>10. QED
  BY <1>1, <1>3, <1>7, <1>8, <1>9

(* Beginning a line is no abstract step,                                    *)
LEMMA ReadLineImplements ==
  ASSUME Ctx, Ctx', NEW f \in Files, ReadLine(f)
  PROVE  Same
<1>1. /\ line' = [active |-> TRUE, file |-> f, text |-> << >>, from |-> Position(f)]
      /\ UNCHANGED <<block, host, ioresult, got, trapped>> /\ ~line.active
  BY DEF ReadLine, Running
<1>2. Moved(f, Position(f))
  <2>1. OthersAsWere(f)
    BY <1>1 DEF OthersAsWere
  <2>2. ASSUME block[f].mode = "read"
        PROVE  BufferIn(block[f], host) /\ PosOf(block[f], host) = Position(f)
    BY <2>2, Readers DEF Ctx, InPlace, Reader, Position, PosOf
  <2>3. QED
    BY <1>1, <2>1, <2>2 DEF Moved, SameBlock
<1>3. ViewNow[f].rest = IF block[f].mode = "read" THEN Suffix(Content(f), Position(f)) ELSE << >>
  BY <1>1, RestRead DEF RestFrom
<1>4. line'.active /\ line'.file = f /\ line'.from = Position(f)
  BY <1>1
<1>5. UNCHANGED <<ViewNow, StoredNow>>
  BY <1>1, <1>2, <1>3, <1>4, RestPut
<1>6. QED
  BY <1>1, <1>5 DEF Same

(* nor is a byte of it;                                                     *)
LEMMA LineByteImplements ==
  ASSUME Ctx, Ctx', LineByte
  PROVE  Same
<1>1. line.active /\ line \in [active : {TRUE}, file : Files, text : Seq(Bytes), from : Int]
  BY LineActive DEF LineByte, Ctx, RestInv
<1>2. PICK f \in Files : f = line.file
  BY <1>1
<1>3. PICK r \in ReadByte(f) :
        /\ ~EndsLine(r.byte)
        /\ Become(f, r.at)
        /\ line' = [line EXCEPT !.text = IF Stored(r.byte) THEN Append(@, r.byte) ELSE @]
  BY <1>2 DEF LineByte
<1>4. line'.active /\ line'.file = f /\ line'.from = line.from
  BY <1>1, <1>2, <1>3
<1>5. PICK q : Moved(f, q)
  <2>1. CASE block[f].mode # "read"
    BY <1>3, <2>1, ReadMoves DEF Ctx, InPlace
  <2>2. CASE block[f].mode = "read"
    BY <1>3, <2>2, ReadMoves DEF Ctx, InPlace
  <2>3. QED
    BY <2>1, <2>2
<1>6. ViewNow[f].rest = IF block[f].mode = "read" THEN Suffix(Content(f), line.from) ELSE << >>
  BY <1>1, <1>2, RestRead DEF RestFrom
<1>7. UNCHANGED <<ViewNow, StoredNow>>
  BY <1>1, <1>2, <1>4, <1>5, <1>6, RestPut
<1>8. QED
  BY <1>7 DEF Same, LineByte

(* its end is the abstract readln.                                          *)
LEMMA LineEndImplements ==
  ASSUME Ctx, Ctx', LineEnd
  PROVE  \E f \in Files : Abstract!ReadLine(f)
<1>1. line.active /\ line \in [active : {TRUE}, file : Files, text : Seq(Bytes), from : Int]
  BY LineActive DEF LineEnd, Ctx, RestInv
<1>2. PICK f \in Files : f = line.file
  BY <1>1
<1>3. PICK r \in ReadByte(f) : EndsLine(r.byte) /\ Become(f, r.at)
  BY <1>2 DEF LineEnd
<1>4. /\ line' = NoLine /\ UNCHANGED <<ioresult, trapped>>
      /\ got' = [op |-> "line", file |-> f, val |-> line.text]
  BY <1>2 DEF LineEnd
<1>5. ~line'.active
  BY <1>4 DEF NoLine
<1>6. LineOK(block[f], host, line)
  BY <1>2, LineIs DEF Ctx, InPlace
<1>7. PICK rest, n : rest = ViewNow[f].rest /\ n = Abstract!LineLength(rest)
  OBVIOUS
<1>8. /\ line.text = Abstract!Text(SubSeq(rest, 1, n))
      /\ ViewNow' = [ViewNow EXCEPT ![f].rest = SubSeq(rest, n + 2, Len(rest))]
      /\ UNCHANGED StoredNow
  <2>1. CASE block[f].mode # "read"
    <3>1. rest = << >> /\ line.text = << >> /\ Moved(f, 0)
      BY <1>1, <1>3, <1>6, <1>7, <2>1, RestRead, ReadMoves DEF Ctx, InPlace, LineOK
    <3>2. n = 0
      <4>1. << >> \in Seq(Bytes) /\ 0 \in 0..Len(<< >>) /\ ~(0 < Len(<< >>))
            /\ \A i \in 1..0 : << >>[i] # LF
        OBVIOUS
      <4>2. Abstract!LineLength(<< >>) = 0
        BY <4>1, LineLengthIs
      <4>3. QED
        BY <1>7, <3>1, <4>2
    <3>3. PICK z \in Int : z = Len(<< >>) /\ z = 0
      OBVIOUS
    <3>4. SubSeq(rest, 1, n) = << >> /\ SubSeq(rest, n + 2, Len(rest)) = << >>
      <4>1. SubSeq(<< >>, 1, 0) = << >> /\ SubSeq(<< >>, 0 + 2, z) = << >>
        BY <3>3, SubSeqEmpty
      <4>2. QED
        BY <3>1, <3>2, <3>3, <4>1
    <3>5. ViewNow' = [ViewNow EXCEPT ![f].rest = << >>] /\ UNCHANGED StoredNow
      BY <1>1, <1>2, <1>5, <2>1, <3>1, RestPut
    <3>6. QED
      BY <3>1, <3>4, <3>5, TextOfNothing
  <2>2. CASE block[f].mode = "read"
    <3>1. PICK D \in Seq(Bytes) : D = Content(f)
      BY <1>3, <2>2, ReadMoves DEF Ctx, InPlace
    <3>2. PICK p \in 0..Len(D) :
            /\ p = Position(f)
            /\ Moved(f, IF p < Len(D) THEN p + 1 ELSE p)
            /\ r.byte = IF p < Len(D) THEN D[p + 1] ELSE EndOfFile
      BY SMTT(30), <1>3, <2>2, <3>1, ReadMoves DEF Ctx, InPlace
    <3>3. PosOf(block[f], host) = p /\ host.disk[block[f].name] = D
      BY <2>2, <3>1, <3>2 DEF Position, PosOf, Content
    <3>4. PICK from \in 0..Len(D) : from = line.from /\ from <= p
      BY <1>1, <1>6, <2>2, <3>3 DEF LineOK
    <3>5. PICK passed \in Seq(Bytes) : passed = SubSeq(D, from + 1, p) /\ Len(passed) = p - from
      <4>1. \A i \in from + 1..p : D[i] \in Bytes
        OBVIOUS
      <4>2. /\ SubSeq(D, from + 1, p) \in Seq(Bytes)
            /\ Len(SubSeq(D, from + 1, p)) = IF from + 1 <= p THEN p - (from + 1) + 1 ELSE 0
        BY <4>1, SubSeqProperties
      <4>3. (IF from + 1 <= p THEN p - (from + 1) + 1 ELSE 0) = p - from
        BY <3>4
      <4>4. QED
        BY <4>2, <4>3
    <3>6. (\A i \in 1..Len(passed) : passed[i] # LF) /\ line.text = Abstract!Text(passed)
      BY <1>1, <1>6, <2>2, <3>3, <3>4, <3>5 DEF LineOK
    <3>7. ASSUME p < Len(D) PROVE D[p + 1] = LF
      <4>1. r.byte = D[p + 1] /\ r.byte # EndOfFile
        BY <3>2, <3>7, ReadNotEof
      <4>2. QED
        BY <1>3, <4>1 DEF EndsLine
    <3>8. rest = Suffix(D, from)
      BY <1>1, <1>2, <1>7, <2>2, <3>1, <3>4, RestRead DEF RestFrom
    <3>9. /\ SubSeq(rest, 1, n) = passed
          /\ SubSeq(rest, n + 2, Len(rest)) = Suffix(D, IF p < Len(D) THEN p + 1 ELSE p)
      <4>1. p \in from..Len(D)
        BY <3>4
      <4>2. \A i \in 1..p - from : SubSeq(D, from + 1, p)[i] # LF
        BY <3>5, <3>6
      <4>3. QED
        BY ZenonT(60), <1>7, <3>5, <3>7, <3>8, <4>1, <4>2, LineOfRest
    <3>10. /\ ViewNow' = [ViewNow EXCEPT ![f].rest = Suffix(D, IF p < Len(D) THEN p + 1 ELSE p)]
           /\ UNCHANGED StoredNow
      BY <1>1, <1>2, <1>5, <2>2, <3>1, <3>2, RestPut
    <3>11. QED
      BY <3>6, <3>9, <3>10
  <2>3. QED
    BY <2>1, <2>2
<1>9. got' = [op |-> "line", file |-> f, val |-> Abstract!Text(SubSeq(rest, 1, n))]
  BY <1>4, <1>8
<1>10. Abstract!ReadLine(f)
  BY <1>4, <1>7, <1>8, <1>9 DEF Abstract!ReadLine, StoredNow, ViewNow, RestAt
<1>11. QED
  BY <1>10

(* No statement starts, and none is refused, while a line is read.          *)
LineRuns == line.active => ~trapped

(* A line is read in a program that runs.                                   *)
LEMMA LineRunsNext == LineRuns /\ [Next]_vars => LineRuns'
<1> SUFFICES ASSUME LineRuns, [Next]_vars PROVE LineRuns'
  OBVIOUS
<1>1. ASSUME Running, UNCHANGED line PROVE LineRuns'
  BY <1>1 DEF Running, LineRuns
<1>2. ASSUME NEW f \in Files, FileStatement(f) PROVE LineRuns'
  <2>1. CASE ReadLine(f)
    BY <2>1 DEF ReadLine, Running, LineRuns
  <2>2. CASE ~ReadLine(f)
    BY ZenonT(60), <1>1, <1>2, <2>2
       DEF FileStatement, Assign, Reset, Rewrite, Open, ReadChar, Close, Write, Eof
  <2>3. QED
    BY <2>1, <2>2
<1>3. CASE LineByte
  BY <1>3 DEF LineByte, LineRuns
<1>4. CASE LineEnd
  BY <1>4 DEF LineEnd, LineRuns, NoLine
<1>5. CASE IOResult \/ ReadConsole \/ ConsoleEof
  BY <1>1, <1>5 DEF IOResult, ReadConsole, ConsoleEof
<1>6. CASE UNCHANGED vars
  BY <1>6 DEF vars, LineRuns
<1>7. QED
  BY <1>2, <1>3, <1>4, <1>5, <1>6 DEF Next

(* In the beginning everything is in place.                                 *)
LEMMA InitPlace == Init => InPlace /\ LineRuns
<1> SUFFICES ASSUME Init PROVE InPlace /\ LineRuns
  OBVIOUS
<1>1. \A f \in Files : block[f].mode = "closed"
  BY DEF Init
<1>2. ~line.active
  BY DEF Init, NoLine
<1>3. QED
  BY <1>1, <1>2 DEF InPlace, OneWriter, WritesAtEnd, ReadsInPlace, LineSoFar, LineRuns

FilesStay == UNCHANGED <<block, host, line>>

(* So it is when files are left alone,                                      *)
LEMMA StayPlace ==
  ASSUME InPlace, FilesStay
  PROVE  InPlace'
<1>1. OneWriter' /\ WritesAtEnd' /\ ReadsInPlace'
  BY DEF FilesStay, InPlace, OneWriter, WritesAtEnd, ReadsInPlace, Offset, Content
<1>2. LineSoFar'
  <2>1. CASE line.active
    <3>1. \A f : Content(f)' = Content(f) /\ Position(f)' = Position(f)
      BY DEF FilesStay, Content, Position
    <3>2. QED
      BY <3>1 DEF FilesStay, InPlace, LineSoFar, Content, Position
  <2>2. CASE ~line.active
    BY <2>2, LineIdle DEF FilesStay
  <2>3. QED
    BY <2>1, <2>2
<1>3. QED
  BY <1>1, <1>2 DEF InPlace

(* and after every step.                                                    *)
LEMMA NextPlace ==
  ASSUME NoLoss, Ctx, [Next]_vars
  PROVE  InPlace'
<1>0. FileInv /\ RestInv /\ InPlace
  BY DEF Ctx
<1>1. ASSUME NEW f \in Files, NEW n \in Names, Assign(f, n) PROVE InPlace'
  <2>1. ~line.active /\ UNCHANGED line
    BY <1>1 DEF Assign, Running
  <2>2. QED
    BY <1>0, <1>1, <2>1, AssignAlone, ClosedPlace
<1>2. ASSUME NEW f \in Files, NEW checked \in BOOLEAN, Reset(f, checked) \/ Rewrite(f, checked)
      PROVE  InPlace'
  <2>1. PICK mode \in {"read", "write"} : Open(f, mode, checked)
    BY <1>2 DEF Reset, Rewrite
  <2>2. ~line.active /\ UNCHANGED line
    BY <2>1 DEF Open, Running
  <2>3. PICK answer : OpenResult(f, mode, answer)
    BY <1>0, <2>1, OpenGives
  <2>4. QED
    BY <1>0, <2>2, <2>3, OpenPlace
<1>3. ASSUME NEW f \in Files, NEW lost \in Losses, Close(f, lost) PROVE InPlace'
  <2>1. ~line.active /\ UNCHANGED line
    BY <1>3 DEF Close, Running
  <2>2. block'[f].mode = "closed" /\ OthersAsWere(f)
    BY <1>0, <1>3, CloseGives
  <2>3. QED
    BY <1>0, <2>1, <2>2, ClosedPlace
<1>4. ASSUME NEW f \in Files, NEW lost \in Losses, NEW str \in Strings, Write(f, str, lost)
      PROVE  InPlace'
  BY <1>0, <1>4, WritePlace
<1>5. ASSUME NEW f \in Files, Eof(f) \/ \E checked \in BOOLEAN : ReadChar(f, checked)
      PROVE  InPlace'
  <2>1. ~line.active /\ UNCHANGED line
    BY <1>5 DEF Eof, ReadChar, Running
  <2>2. PICK r \in ReadByte(f) : Become(f, r.at) \/ Become(f, PutBack(r))
    BY <1>5 DEF Eof, ReadChar
  <2>3. QED
    BY <1>0, <2>1, <2>2, LineIdle, ReadKeepsPlace DEF InPlace
<1>6. ASSUME NEW f \in Files, ReadLine(f) PROVE InPlace'
  BY <1>0, <1>6, ReadLinePlace
<1>7. CASE LineByte
  BY <1>0, <1>7, LineBytePlace
<1>8. CASE LineEnd
  <2>1. line.active /\ line \in [active : {TRUE}, file : Files, text : Seq(Bytes), from : Int]
    BY <1>0, <1>8, LineActive DEF LineEnd, RestInv
  <2>2. PICK f \in Files : f = line.file
    BY <2>1
  <2>3. PICK r \in ReadByte(f) : Become(f, r.at)
    BY <1>8, <2>2 DEF LineEnd
  <2>4. LineSoFar'
    BY <1>8 DEF LineEnd, NoLine, LineSoFar
  <2>5. QED
    BY <1>0, <2>3, <2>4, ReadKeepsPlace DEF InPlace
<1>9. CASE IOResult \/ ReadConsole \/ ConsoleEof
  <2>1. FilesStay
    BY <1>9 DEF FilesStay, IOResult, ReadConsole, ConsoleEof
  <2>2. QED
    BY <1>0, <2>1, StayPlace
<1>10. CASE UNCHANGED vars
  <2>1. FilesStay
    BY <1>10 DEF FilesStay, vars
  <2>2. QED
    BY <1>0, <2>1, StayPlace
<1>11. QED
  BY <1>1, <1>2, <1>3, <1>4, <1>5, <1>6, <1>7, <1>8, <1>9, <1>10 DEF Next, FileStatement

-----------------------------------------------------------------------------
(* The refinement.                                                          *)

AbstractVars == <<StoredNow, ViewNow, ioresult, got, trapped>>

(* Files left alone are left alone abstractly.                              *)
LEMMA StayImplements ==
  ASSUME Ctx, Ctx', FilesStay
  PROVE  UNCHANGED <<StoredNow, ViewNow>>
<1>1. ASSUME NEW m PROVE StoredIn(m)' = StoredIn(m)
  BY DEF FilesStay, StoredIn, Writers
<1>2. UNCHANGED StoredNow
  BY <1>1 DEF FilesStay, StoredNow
<1>3. ASSUME NEW f \in Files PROVE ViewNow'[f] = ViewNow[f]
  BY ViewIs, ViewIsNext DEF FilesStay
<1>4. ViewNow' = [f \in Files |-> ViewNow'[f]] /\ ViewNow = [f \in Files |-> ViewNow[f]]
  BY DEF ViewNow
<1>5. QED
  BY <1>2, <1>3, <1>4

(* Every step is an abstract step or none.                                  *)
LEMMA StepImplements ==
  ASSUME NoLoss, Ctx, Ctx', LineRuns, [Next]_vars
  PROVE  Abstract!Next \/ Same
<1>0. FileInv /\ RestInv /\ InPlace
  BY DEF Ctx
<1>1. ASSUME NEW f \in Files, NEW n \in Names, Assign(f, n) PROVE Abstract!Next
  <2>1. Abstract!Assign(f, n) /\ ~trapped
    BY ZenonT(60), <1>1, AssignImplements DEF Assign, Running
  <2>2. QED
    BY <2>1 DEF Abstract!Next
<1>2. ASSUME NEW f \in Files, NEW checked \in BOOLEAN, Reset(f, checked) \/ Rewrite(f, checked)
      PROVE  Abstract!Next
  <2>1. PICK mode \in {"read", "write"} : Open(f, mode, checked)
    BY <1>2 DEF Reset, Rewrite
  <2>2. Running /\ UNCHANGED line /\ got' = Nothing
    BY <2>1 DEF Open
  <2>3. PICK answer : OpenResult(f, mode, answer)
    BY <1>0, <2>1, OpenGives
  <2>4. Abstract!Open(f, mode) /\ ~trapped
    BY <2>2, <2>3, OpenImplements DEF Running
  <2>5. QED
    BY <2>4 DEF Abstract!Next
<1>3. ASSUME NEW f \in Files, NEW lost \in Losses, Close(f, lost) PROVE Abstract!Next
  <2>1. Abstract!Close(f) /\ ~trapped
    BY ZenonT(60), <1>3, CloseImplements DEF Close, Running
  <2>2. QED
    BY <2>1 DEF Abstract!Next
<1>4. ASSUME NEW f \in Files, NEW lost \in Losses, NEW str \in Strings, Write(f, str, lost)
      PROVE  Abstract!Next
  <2>1. Abstract!Write(f, str) /\ ~trapped
    BY <1>4, WriteImplements DEF Write, Running
  <2>2. QED
    BY <2>1 DEF Abstract!Next
<1>5. ASSUME NEW f \in Files, NEW checked \in BOOLEAN, ReadChar(f, checked) PROVE Abstract!Next
  <2>1. Abstract!ReadChar(f) /\ ~trapped
    BY <1>5, ReadCharImplements DEF ReadChar, Running
  <2>2. QED
    BY <2>1 DEF Abstract!Next
<1>6. ASSUME NEW f \in Files, Eof(f) PROVE Abstract!Next
  <2>1. Abstract!Eof(f) /\ ~trapped
    BY <1>6, EofImplements DEF Eof, Running
  <2>2. QED
    BY <2>1 DEF Abstract!Next
<1>7. ASSUME NEW f \in Files, ReadLine(f) PROVE Same
  BY <1>7, ReadLineImplements
<1>8. CASE LineByte
  BY <1>8, LineByteImplements
<1>9. CASE LineEnd
  <2>1. (\E f \in Files : Abstract!ReadLine(f)) /\ ~trapped
    BY <1>9, LineEndImplements DEF LineEnd, LineRuns
  <2>2. QED
    BY <2>1 DEF Abstract!Next
<1>10. CASE IOResult
  <2>1. UNCHANGED <<StoredNow, ViewNow>>
    BY <1>10, StayImplements DEF IOResult, FilesStay
  <2>2. Abstract!IOResult /\ ~trapped
    BY <1>10, <2>1 DEF IOResult, Abstract!IOResult, Running, StoredNow, ViewNow, RestAt
  <2>3. QED
    BY <2>2 DEF Abstract!Next
<1>11. CASE ReadConsole \/ ConsoleEof
  <2>1. UNCHANGED <<StoredNow, ViewNow>>
    BY <1>11, StayImplements DEF ReadConsole, ConsoleEof, FilesStay
  <2>2. UNCHANGED <<ioresult, trapped>> /\ ~trapped
    BY <1>11 DEF ReadConsole, ConsoleEof, Running
  <2>5. got' \in {[op |-> "console"]} \cup [op : {"consoleeof"}, val : BOOLEAN]
    <3>1. CASE ReadConsole
      BY <3>1 DEF ReadConsole
    <3>2. CASE ConsoleEof
      <4>1. PICK v \in BOOLEAN : v = (nread = 0)
        OBVIOUS
      <4>2. got' = [op |-> "consoleeof", val |-> v]
        BY <3>2, <4>1 DEF ConsoleEof
      <4>3. [op |-> "consoleeof", val |-> v] \in [op : {"consoleeof"}, val : BOOLEAN]
        BY <4>1
      <4>4. QED
        BY <4>2, <4>3
    <3>3. QED
      BY <1>11, <3>1, <3>2
  <2>3. Abstract!Console
    BY <2>1, <2>2, <2>5 DEF Abstract!Console, StoredNow, ViewNow, RestAt
  <2>4. QED
    BY <2>2, <2>3 DEF Abstract!Next
<1>12. CASE UNCHANGED vars
  <2>1. UNCHANGED <<StoredNow, ViewNow>>
    BY <1>12, StayImplements DEF vars, FilesStay
  <2>2. QED
    BY <1>12, <2>1 DEF vars, Same
<1>13. QED
  BY <1>1, <1>2, <1>3, <1>4, <1>5, <1>6, <1>7, <1>8, <1>9, <1>10, <1>11, <1>12
     DEF Next, FileStatement

(* Initial states are abstract initial states.                              *)
LEMMA InitImplements ==
  ASSUME Init
  PROVE  Abstract!Init
<1>1. \A f \in Files : block[f] = [name |-> NoName, mode |-> "closed", fd |-> 0, pos |-> 0,
                                   buf |-> << >>]
  BY DEF Init
<1>2. StoredNow = Granted
  <2>1. host.disk = Granted /\ Granted = [n \in DOMAIN Granted |-> Granted[n]]
    BY HostAssumption DEF Init, InitHost
  <2>2. \A n : Writers(n) = {}
    BY <1>1 DEF Writers
  <2>3. \A n : StoredIn(n) = host.disk[n]
    BY <2>2 DEF StoredIn
  <2>4. QED
    BY <2>1, <2>3 DEF StoredNow
<1>3. ViewNow = [f \in Files |-> Abstract!Closed("noname")]
  <2>1. \A f \in Files : RestAt(f) = << >>
    <3>1. \A f \in Files : TakenByLine(f) = << >> /\ Unread(f) = << >>
      BY <1>1 DEF TakenByLine, Unread
    <3>2. << >> \o << >> = << >>
      OBVIOUS
    <3>3. QED
      BY <3>1, <3>2 DEF RestAt
  <2>2. QED
    BY <1>1, <2>1 DEF ViewNow, Abstract!Closed, NoName
<1>4. QED
  BY <1>2, <1>3 DEF Init, Abstract!Init, StoredNow, ViewNow, RestAt, Nothing

(* Text files implement files without buffers: through any sequence of      *)
(* assign, reset, rewrite, close, write, read, readln, eof and IOResult on  *)
(* any number of variables, with short reads, opens that fail and files     *)
(* that are never closed, no byte is lost, kept twice or moved (but for     *)
(* what a file that was not closed may lose).  Two assumptions: a file open *)
(* for writing is not open through another variable at the same time, and   *)
(* the disk takes what it is given, since __text_flush drops fd_write's     *)
(* answer.                                                                  *)
THEOREM TextKeepsSpec ==
  ASSUME ~Shared, "write" \notin Failures
  PROVE  Spec => KeepsTextSpec
<1> DEFINE Inv == FileInv /\ RestInv /\ InPlace /\ LineRuns
<1>1. Init => Inv
  BY InitInv, InitPlace, Halves
<1>2. Inv /\ [Next]_vars => Inv'
  <2>1. NoLoss
    BY DEF NoLoss
  <2>2. ASSUME Inv, [Next]_vars PROVE Inv'
    BY <2>1, <2>2, NextInv, NextPlace, LineRunsNext DEF Ctx
  <2>3. QED
    BY <2>2
<1>3. Inv /\ Inv' /\ [Next]_vars => [Abstract!Next]_(Abstract!vars)
  <2>1. NoLoss
    BY DEF NoLoss
  <2>2. ASSUME Inv, Inv', [Next]_vars PROVE Abstract!Next \/ Same
    BY <2>1, <2>2, StepImplements DEF Ctx
  <2>3. ASSUME Same PROVE UNCHANGED Abstract!vars
    BY <2>3 DEF Same, Abstract!vars, StoredNow, ViewNow, RestAt
  <2>4. QED
    BY <2>2, <2>3
<1>4. Init => Abstract!Init
  BY InitImplements
<1>5. QED
  BY <1>1, <1>2, <1>3, <1>4, PTL DEF Spec, KeepsTextSpec, Abstract!Spec
=============================================================================
