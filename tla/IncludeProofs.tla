----------------------------- MODULE IncludeProofs -----------------------------
(***************************************************************************)
(* Both readers stay within their texts, the compiler's line is that of    *)
(* what it reads, and what it gives the parser is what the conditionals    *)
(* select: for every tree of files.                                        *)
(***************************************************************************)
EXTENDS IncludeSafe, Counting, FiniteSetTheorems, SequenceTheorems, TLAPS

-----------------------------------------------------------------------------
(* Searches.                                                               *)

(* A search forward stops at the first cell it looks for, or behind the end. *)
LEMMA FirstFound ==
  ASSUME NEW text, Len(text) \in Nat, NEW p \in Nat, p <= Len(text) + 1, NEW S
  PROVE  /\ First(text, p, S) \in p..Len(text) + 1
         /\ First(text, p, S) > Len(text) \/ text[First(text, p, S)].s \in S
         /\ \A j \in p..First(text, p, S) - 1 : text[j].s \notin S
<1> DEFINE T == {i \in p..Len(text) + 1 : i > Len(text) \/ text[i].s \in S}
<1>1. T \in SUBSET Nat /\ Len(text) + 1 \in T
  OBVIOUS
<1> HIDE DEF T
<1>2. PICK n \in T : \A m \in T : n <= m
  BY <1>1, Least
<1> USE DEF T
<1>3. n \in p..Len(text) + 1 /\ (n > Len(text) \/ text[n].s \in S)
  BY <1>2
<1>4. \A j \in p..n - 1 : text[j].s \notin S
  <2> TAKE j \in p..n - 1
  <2>1. j \in p..Len(text) + 1 /\ ~(n <= j) /\ j <= Len(text)
    BY <1>3
  <2>2. j \notin T
    BY <1>2, <2>1
  <2>3. QED
    BY <2>1, <2>2
<1> HIDE DEF T
<1>5. QED
  BY <1>3, <1>4 DEF First

(* The same for the search of a cell that is none of S.                     *)
LEMMA FirstNotFound ==
  ASSUME NEW text, Len(text) \in Nat, NEW p \in Nat, p <= Len(text) + 1, NEW S
  PROVE  /\ FirstNot(text, p, S) \in p..Len(text) + 1
         /\ FirstNot(text, p, S) > Len(text) \/ text[FirstNot(text, p, S)].s \notin S
         /\ \A j \in p..FirstNot(text, p, S) - 1 : text[j].s \in S
<1> DEFINE T == {i \in p..Len(text) + 1 : i > Len(text) \/ text[i].s \notin S}
<1>1. T \in SUBSET Nat /\ Len(text) + 1 \in T
  OBVIOUS
<1> HIDE DEF T
<1>2. PICK n \in T : \A m \in T : n <= m
  BY <1>1, Least
<1> USE DEF T
<1>3. n \in p..Len(text) + 1 /\ (n > Len(text) \/ text[n].s \notin S)
  BY <1>2
<1>4. \A j \in p..n - 1 : text[j].s \in S
  <2> TAKE j \in p..n - 1
  <2>1. j \in p..Len(text) + 1 /\ ~(n <= j) /\ j <= Len(text)
    BY <1>3
  <2>2. j \notin T
    BY <1>2, <2>1
  <2>3. QED
    BY <2>1, <2>2
<1> HIDE DEF T
<1>5. QED
  BY <1>3, <1>4 DEF FirstNot

(* The quote at i ends the string opened at p.                              *)
QuoteAt(text, p, i) == i <= Len(text) /\ text[i].s = text[p].s
QuotesTo(text, p, i) == Cardinality({j \in (p + 1)..i : QuoteAt(text, p, j)})
EndsString(text, p, i) ==
  QuoteAt(text, p, i) /\ ~QuoteAt(text, p, i + 1) /\ QuotesTo(text, p, i) % 2 = 1

(* The search for the end of a string stops at the first quote that ends it. *)
LEMMA StringEndFound ==
  ASSUME NEW text, Len(text) \in Nat, NEW p \in Nat, p <= Len(text)
  PROVE  /\ StringEnd(text, p) \in p + 1..Len(text) + 1
         /\ StringEnd(text, p) > Len(text) \/ EndsString(text, p, StringEnd(text, p))
         /\ \A j \in p + 1..StringEnd(text, p) - 1 : ~EndsString(text, p, j)
<1> DEFINE T == {i \in p + 1..Len(text) + 1 : i > Len(text) \/ EndsString(text, p, i)}
<1>1. T \in SUBSET Nat /\ Len(text) + 1 \in T
  OBVIOUS
<1> HIDE DEF T
<1>2. PICK n \in T : \A m \in T : n <= m
  BY <1>1, Least
<1> USE DEF T
<1>3. n \in p + 1..Len(text) + 1 /\ (n > Len(text) \/ EndsString(text, p, n))
  BY <1>2
<1>4. \A j \in p + 1..n - 1 : ~EndsString(text, p, j)
  <2> TAKE j \in p + 1..n - 1
  <2>1. j \in p + 1..Len(text) + 1 /\ ~(n <= j) /\ j <= Len(text)
    BY <1>3
  <2>2. j \notin T
    BY <1>2, <2>1
  <2>3. QED
    BY <2>1, <2>2
<1> HIDE DEF T
<1>5. StringEnd(text, p) = CHOOSE i \in (p + 1)..(Len(text) + 1) :
        (i > Len(text) \/ EndsString(text, p, i)) /\ \A j \in (p + 1)..(i - 1) : ~EndsString(text, p, j)
  BY Zenon DEF StringEnd, EndsString, QuotesTo, QuoteAt
<1>6. QED
  BY <1>3, <1>4, <1>5

-----------------------------------------------------------------------------
(* The expander.                                                           *)

(* The calls in progress and their positions, as TypeOK has them.           *)
FramesWithin ==
  /\ Len(frames) <= MaxExpandDepth + 1
  /\ \A i \in DOMAIN frames : frames[i].pos \in 1..(Len(frames[i].text) + 1)

(* A part of a text that has no marks has none.                             *)
LEMMA UnreadPart ==
  ASSUME NEW text, Unread(text), NEW a \in Nat \ {0}, NEW b \in Int, b <= Len(text)
  PROVE  Unread(SubSeq(text, a, b))
<1>1. text \in Seq(Cell)
  BY DEF Unread
<1>2. SubSeq(text, a, b) \in Seq(Cell)
  BY <1>1
<1>3. \A i \in DOMAIN SubSeq(text, a, b) : SubSeq(text, a, b)[i].s \notin {"none", "EOF"}
  <2> TAKE i \in DOMAIN SubSeq(text, a, b)
  <2>1. SubSeq(text, a, b)[i] = text[a + i - 1] /\ a + i - 1 \in DOMAIN text
    BY <1>1
  <2>2. QED
    BY <2>1 DEF Unread
<1>4. QED
  BY <1>2, <1>3 DEF Unread

(* Two of them joined have none.                                            *)
LEMMA UnreadJoin ==
  ASSUME NEW s, NEW t, Unread(s), Unread(t)
  PROVE  Unread(s \o t)
<1>1. s \in Seq(Cell) /\ t \in Seq(Cell)
  BY DEF Unread
<1>2. s \o t \in Seq(Cell)
  BY <1>1
<1>3. \A i \in DOMAIN (s \o t) : (s \o t)[i].s \notin {"none", "EOF"}
  <2> TAKE i \in DOMAIN (s \o t)
  <2>1. \/ i \in DOMAIN s /\ (s \o t)[i] = s[i]
        \/ i - Len(s) \in DOMAIN t /\ (s \o t)[i] = t[i - Len(s)]
    BY <1>1
  <2>2. QED
    BY <2>1 DEF Unread
<1>4. QED
  BY <1>2, <1>3 DEF Unread

Frames == [text : Seq(Cell), pos : Nat]

(* The call in progress reads a text, from a position in it or behind it.   *)
LEMMA TopFrame ==
  ASSUME FramesSafe, FramesWithin, frames # <<>>
  PROVE  /\ Len(frames) \in DOMAIN frames /\ Len(frames) \in Nat \ {0}
         /\ frames \in Seq(Frames)
         /\ frames[Len(frames)] = [text |-> Text, pos |-> Pos]
         /\ Unread(Text) /\ Text \in Seq(Cell) /\ Len(Text) \in Nat
         /\ Pos \in 1..Len(Text) + 1
<1>1. Len(frames) \in DOMAIN frames /\ frames \in Seq(Frames) /\ Len(frames) \in Nat \ {0}
  BY DEF FramesSafe, Frames
<1>2. Text = frames[Len(frames)].text /\ Pos = frames[Len(frames)].pos
  BY DEF Text, Pos, Last
<1>3. frames[Len(frames)] \in Frames
  BY <1>1
<1>4. Unread(Text) /\ Pos \in 1..Len(Text) + 1
  BY <1>1, <1>2 DEF FramesSafe, FramesWithin
<1>5. QED
  BY <1>1, <1>2, <1>3, <1>4 DEF Unread, Frames

(* Copying up to a position in the text keeps the calls and the buffer.     *)
LEMMA CopySafe ==
  ASSUME FramesSafe, FramesWithin, frames # <<>>, NEW p \in 1..Len(Text) + 1, CopyTo(p)
  PROVE  FramesSafe' /\ FramesWithin'
<1> DEFINE n == Len(frames)
<1>1. /\ n \in DOMAIN frames /\ n \in Nat \ {0} /\ frames \in Seq(Frames)
      /\ frames[n] = [text |-> Text, pos |-> Pos]
      /\ Unread(Text) /\ Text \in Seq(Cell) /\ Len(Text) \in Nat /\ Pos \in 1..Len(Text) + 1
  BY TopFrame
<1>2. /\ buffer' = buffer \o SubSeq(Text, Pos, p - 1)
      /\ frames' = [frames EXCEPT ![n].pos = p] /\ outcome' = outcome
  BY DEF CopyTo
<1>3. Unread(buffer')
  <2>1. Unread(SubSeq(Text, Pos, p - 1))
    BY <1>1, UnreadPart
  <2>2. QED
    BY <1>2, <2>1, UnreadJoin DEF FramesSafe
<1>4. /\ frames' \in Seq(Frames) /\ Len(frames') = n /\ DOMAIN frames' = DOMAIN frames
      /\ frames'[n] = [text |-> Text, pos |-> p]
      /\ \A i \in DOMAIN frames \ {n} : frames'[i] = frames[i]
  <2>1. [frames[n] EXCEPT !.pos = p] = [text |-> Text, pos |-> p]
    BY <1>1
  <2>2. frames' = [frames EXCEPT ![n] = [text |-> Text, pos |-> p]]
    BY <1>1, <1>2, <2>1
  <2>3. [text |-> Text, pos |-> p] \in Frames
    BY <1>1 DEF Frames
  <2>4. QED
    BY <1>1, <2>2, <2>3, ExceptSeq
<1>5. ASSUME NEW i \in DOMAIN frames'
      PROVE  Unread(frames'[i].text) /\ frames'[i].pos \in 1..Len(frames'[i].text) + 1
  <2>1. CASE i = n
    <3>1. frames'[i].text = Text /\ frames'[i].pos = p
      BY <1>4, <2>1
    <3>2. QED
      BY <1>1, <3>1
  <2>2. CASE i # n
    <3>1. i \in DOMAIN frames /\ frames'[i] = frames[i]
      BY <1>4, <2>2
    <3>2. QED
      BY <3>1 DEF FramesSafe, FramesWithin
  <2>3. QED
    BY <2>1, <2>2
<1>6. QED
  BY <1>1, <1>2, <1>3, <1>4, <1>5 DEF FramesSafe, FramesWithin, Frames

(* A directive that is replaced has its closing brace in the text.          *)
LEMMA CloseFound ==
  ASSUME NEW text \in Seq(Cell), NEW p \in 1..Len(text), IsInclude(text, p)
  PROVE  CloseOf(text, p) \in 1..Len(text)
<1> DEFINE a == NameStart(text, p)
           z == NameEnd(text, a)
<1>1. Len(text) \in Nat /\ p + 2 \in Nat /\ p + 2 <= Len(text) /\ CloseOf(text, p) <= Len(text)
  BY DEF IsInclude, IncludeWord
<1>2. a \in p + 2..Len(text) + 1
  BY <1>1, FirstNotFound DEF NameStart
<1>3. z \in 1..Len(text) + 1
  <2>1. CASE a > Len(text)
    BY <1>1, <1>2, <2>1 DEF NameEnd
  <2>2. CASE a <= Len(text) /\ IsQuoted(text, a)
    <3>1. First(text, a + 1, {text[a].s}) \in a + 1..Len(text) + 1
      BY <1>1, <1>2, <2>2, FirstFound
    <3>2. QED
      BY <1>1, <1>2, <2>2, <3>1 DEF NameEnd
  <2>3. CASE a <= Len(text) /\ ~IsQuoted(text, a)
    <3>1. First(text, a, {"rbrace"}) \in a..Len(text) + 1
      BY <1>1, <1>2, <2>3, FirstFound
    <3>2. QED
      BY <1>1, <1>2, <2>3, <3>1 DEF NameEnd
  <2>4. QED
    BY <1>1, <1>2, <2>1, <2>2, <2>3
<1>4. CloseOf(text, p) = IF z > Len(text) THEN z ELSE First(text, z, {"rbrace"})
  BY DEF CloseOf
<1> HIDE DEF z
<1>5. CASE z > Len(text)
  BY <1>1, <1>3, <1>4, <1>5
<1>6. CASE z <= Len(text)
  <2>1. First(text, z, {"rbrace"}) \in z..Len(text) + 1
    BY <1>1, <1>3, <1>6, FirstFound
  <2>2. QED
    BY <1>1, <1>3, <1>4, <1>6, <2>1
<1>7. QED
  BY <1>1, <1>3, <1>5, <1>6

(* A file of a tree has cells and no mark.                                  *)
LEMMA DiskText ==
  ASSUME disk \in Disks, NEW name \in DOMAIN disk
  PROVE  IsFile(disk[name]) /\ Unread(disk[name])
BY DisksAssumption DEF IsFile, Unread

(* What a step of the expander is.                                          *)
Outcomes == {"running", "done", "unterminated", "too-deep", "not-found"}

(* A call of the expander on a file of its own.                             *)
LEMMA CallSafe ==
  ASSUME FramesSafe, FramesWithin, frames # <<>>, Len(frames) <= MaxExpandDepth,
         NEW file, Unread(file), NEW p \in 1..Len(Text) + 1,
         frames' = Append([frames EXCEPT ![Len(frames)].pos = p], [text |-> file, pos |-> 1]),
         buffer' = buffer
  PROVE  FramesSafe' /\ FramesWithin'
<1> DEFINE n == Len(frames)
<1> PICK F : F = [frames EXCEPT ![n].pos = p]
  OBVIOUS
<1> PICK new : new = [text |-> file, pos |-> 1]
  OBVIOUS
<1>0. file \in Seq(Cell) /\ Len(file) \in Nat /\ MaxExpandDepth \in Nat
  BY DepthAssumption DEF Unread
<1>1. /\ n \in DOMAIN frames /\ n \in Nat \ {0} /\ frames \in Seq(Frames)
      /\ frames[n] = [text |-> Text, pos |-> Pos]
      /\ Unread(Text) /\ Text \in Seq(Cell) /\ Len(Text) \in Nat /\ Pos \in 1..Len(Text) + 1
  BY TopFrame
<1>2. /\ F \in Seq(Frames) /\ Len(F) = n /\ DOMAIN F = DOMAIN frames
      /\ F[n] = [text |-> Text, pos |-> p]
      /\ \A i \in DOMAIN frames \ {n} : F[i] = frames[i]
  <2>1. [frames[n] EXCEPT !.pos = p] = [text |-> Text, pos |-> p]
    BY <1>1
  <2>2. F = [frames EXCEPT ![n] = [text |-> Text, pos |-> p]]
    BY <1>1, <2>1
  <2>3. [text |-> Text, pos |-> p] \in Frames
    BY <1>1 DEF Frames
  <2>4. QED
    BY <1>1, <2>2, <2>3, ExceptSeq
<1>3. new \in Frames /\ new.text = file /\ new.pos = 1
  BY <1>0 DEF Frames
<1>4. frames' = Append(F, new)
  OBVIOUS
<1>5. /\ frames' \in Seq(Frames) /\ Len(frames') = n + 1
      /\ frames'[n + 1] = new /\ \A i \in 1..n : frames'[i] = F[i]
  <2>0. n \in Nat
    BY <1>1
  <2>1. F \in Seq(Frames) /\ Len(F) = n /\ new \in Frames
    BY <1>2, <1>3
  <2>2. PICK G : G = Append(F, new)
    OBVIOUS
  <2>3. G \in Seq(Frames) /\ Len(G) = n + 1 /\ G[n + 1] = new /\ \A i \in 1..n : G[i] = F[i]
    BY ONLY <2>1, <2>2, <2>0, AppendProperties
  <2>4. frames' = G
    BY <1>4, <2>2
  <2>5. QED
    BY ONLY <2>3, <2>4
<1>6. ASSUME NEW i \in DOMAIN frames'
      PROVE  Unread(frames'[i].text) /\ frames'[i].pos \in 1..Len(frames'[i].text) + 1
  <2>1. CASE i = n + 1
    <3>1. frames'[i].text = file /\ frames'[i].pos = 1
      BY <1>3, <1>5, <2>1
    <3>2. QED
      BY <1>0, <3>1
  <2>2. CASE i = n
    <3>1. frames'[i].text = Text /\ frames'[i].pos = p
      BY ONLY <1>1, <1>2, <1>5, <2>2
    <3>2. QED
      BY <1>1, <3>1
  <2>3. CASE i # n + 1 /\ i # n
    <3>a. n \in Nat /\ DOMAIN frames = 1..n
      BY <1>1
    <3>b. DOMAIN frames' = 1..n + 1
      BY <1>5
    <3>c. i \in 1..n /\ i # n
      BY ONLY <3>a, <3>b, <1>6, <2>3
    <3>1. i \in DOMAIN frames /\ frames'[i] = frames[i]
      BY ONLY <1>2, <1>5, <3>a, <3>c
    <3>2. QED
      BY <3>1 DEF FramesSafe, FramesWithin
  <2>4. QED
    BY <2>1, <2>2, <2>3
<1>7. frames' # <<>>
  BY <1>1, <1>5
<1>8. FramesSafe'
  <2>1. Unread(buffer)'
    BY DEF FramesSafe, Unread
  <2>2. frames' \in Seq([text : Seq(Cell), pos : Nat])
    BY <1>5 DEF Frames
  <2>3. \A i \in DOMAIN frames' : Unread(frames'[i].text)
    BY <1>6
  <2>4. QED
    BY ONLY <1>7, <2>1, <2>2, <2>3 DEF FramesSafe, Unread
<1>9. FramesWithin'
  <2>1. Len(frames') <= MaxExpandDepth + 1
    BY <1>0, <1>1, <1>5
  <2>2. \A i \in DOMAIN frames' : frames'[i].pos \in 1..Len(frames'[i].text) + 1
    BY <1>6
  <2>3. QED
    BY ONLY <2>1, <2>2 DEF FramesWithin
<1>10. QED
  BY <1>8, <1>9

(* Every step of the expander keeps its calls within their files, and the   *)
(* calls within the depth.                                                  *)
LEMMA ExpandSafe ==
  ASSUME disk \in Disks, FramesSafe, FramesWithin, outcome \in Outcomes, ExpandNext
  PROVE  FramesSafe' /\ FramesWithin' /\ outcome' \in Outcomes
<1>0. frames # <<>>
  BY DEF FramesSafe, ExpandNext, StringLiteral, ParenCopy, ExpandInclude, BraceCopy, Plain, ExpandReturn, Scanning
<1>1. /\ Len(frames) \in DOMAIN frames /\ Len(frames) \in Nat \ {0}
      /\ frames \in Seq(Frames)
      /\ Unread(Text) /\ Text \in Seq(Cell) /\ Len(Text) \in Nat
      /\ Pos \in 1..Len(Text) + 1
  BY <1>0, TopFrame
<1>2. ASSUME NEW why, Fail(why), why \in Outcomes \ {"running"}
      PROVE  FramesSafe' /\ FramesWithin' /\ outcome' \in Outcomes
  BY <1>2 DEF Fail, FramesSafe, FramesWithin
<1>3. ASSUME NEW p \in 1..Len(Text) + 1, CopyTo(p)
      PROVE  FramesSafe' /\ FramesWithin' /\ outcome' \in Outcomes
  <2>1. outcome' = outcome
    BY <1>3 DEF CopyTo
  <2>2. QED
    BY <1>0, <1>3, <2>1, CopySafe
<1>4. CASE StringLiteral
  <2> DEFINE e == StringEnd(Text, Pos)
  <2>1. Pos <= Len(Text) /\ Pos \in Nat
    BY <1>1, <1>4 DEF StringLiteral, Scanning
  <2>2. e \in Pos + 1..Len(Text) + 1
    BY <1>1, <2>1, StringEndFound
  <2>3. \/ Fail("unterminated")
        \/ e <= Len(Text) /\ CopyTo(e + 1)
    <3> HIDE DEF e
    <3>1. IF e > Len(Text) THEN Fail("unterminated") ELSE CopyTo(e + 1)
      BY <1>4 DEF StringLiteral, e
    <3>2. QED
      BY <1>1, <2>1, <2>2, <3>1
  <2>4. e <= Len(Text) => e + 1 \in 1..Len(Text) + 1
    BY <1>1, <2>1, <2>2
  <2> HIDE DEF e
  <2>5. QED
    BY <1>2, <1>3, <2>3, <2>4 DEF Outcomes
<1>5. CASE ParenCopy
  <2> DEFINE e == First(Text, Pos + 1, {"*)"})
             to == IF e > Len(Text) THEN e ELSE e + 1
  <2>1. Pos <= Len(Text) /\ Pos + 1 \in Nat
    BY <1>1, <1>5 DEF ParenCopy, Scanning
  <2>2. e \in Pos + 1..Len(Text) + 1
    BY <1>1, <2>1, FirstFound
  <2>3. CopyTo(to)
    BY <1>5 DEF ParenCopy
  <2> HIDE DEF e
  <2>4. to \in 1..Len(Text) + 1
    BY <1>1, <2>1, <2>2
  <2> HIDE DEF to
  <2>5. QED
    BY <1>3, <2>3, <2>4
<1>6. CASE ExpandInclude
  <2>1. Pos \in 1..Len(Text) /\ IsInclude(Text, Pos)
    BY <1>1, <1>6 DEF ExpandInclude, Scanning
  <2>2. CloseOf(Text, Pos) \in 1..Len(Text)
    BY <1>1, <2>1, CloseFound
  <2>3. PICK name \in {NameOf(Text, NameStart(Text, Pos))} :
          IF TooDeep THEN Fail("too-deep")
          ELSE IF ~Confined(name) \/ name[1].s \notin DOMAIN disk THEN Fail("not-found")
          ELSE /\ frames' = Append([frames EXCEPT ![Len(frames)].pos = CloseOf(Text, Pos) + 1],
                                   [text |-> disk[name[1].s], pos |-> 1])
               /\ UNCHANGED <<buffer, outcome>>
    BY <1>6 DEF ExpandInclude
  <2>4. CASE Fail("too-deep") \/ Fail("not-found")
    BY <1>2, <2>4 DEF Outcomes
  <2>5. CASE /\ ~TooDeep /\ name[1].s \in DOMAIN disk
             /\ frames' = Append([frames EXCEPT ![Len(frames)].pos = CloseOf(Text, Pos) + 1],
                                 [text |-> disk[name[1].s], pos |-> 1])
             /\ buffer' = buffer /\ outcome' = outcome
    <3>1. Unread(disk[name[1].s])
      BY <2>5, DiskText
    <3>2. Len(frames) <= MaxExpandDepth
      BY <1>1, <2>5, DepthAssumption DEF TooDeep
    <3>3. CloseOf(Text, Pos) + 1 \in 1..Len(Text) + 1
      BY <1>1, <2>2
    <3>4. FramesSafe' /\ FramesWithin'
      BY <1>0, <2>5, <3>1, <3>2, <3>3, CallSafe
    <3>5. QED
      BY <2>5, <3>4
  <2>6. QED
    BY <2>3, <2>4, <2>5
<1>7. CASE BraceCopy
  <2>1. Pos <= Len(Text) /\ CopyTo(Pos + 1)
    BY <1>7 DEF BraceCopy, Scanning
  <2>2. Pos + 1 \in 1..Len(Text) + 1
    BY <1>1, <2>1
  <2>3. QED
    BY <1>3, <2>1, <2>2
<1>8. CASE Plain
  <2> DEFINE e == First(Text, Pos, Quotes \cup {"(*", "lbrace"})
  <2>1. Pos <= Len(Text) /\ CopyTo(e) /\ Pos \in Nat
    BY <1>1, <1>8 DEF Plain, Scanning
  <2>2. e \in Pos..Len(Text) + 1
    BY <1>1, <2>1, FirstFound
  <2> HIDE DEF e
  <2>3. e \in 1..Len(Text) + 1
    BY <1>1, <2>1, <2>2
  <2>4. QED
    BY <1>3, <2>1, <2>3
<1>9. CASE ExpandReturn
  <2>1. /\ frames' = Front(frames) /\ buffer' = buffer
        /\ outcome' = IF Len(frames) = 1 THEN "done" ELSE "running"
    BY <1>9 DEF ExpandReturn
  <2>2. /\ frames' \in Seq(Frames) /\ Len(frames') = Len(frames) - 1
        /\ \A i \in DOMAIN frames' : i \in DOMAIN frames /\ frames'[i] = frames[i]
    <3>1. Len(frames) - 1 \in 0..Len(frames)
      BY <1>1
    <3>2. frames' = SubSeq(frames, 1, Len(frames) - 1)
      BY <2>1 DEF Front
    <3>3. PICK m \in Nat : m = Len(frames) - 1
      BY <3>1
    <3>4. \A i \in 1..m : i \in DOMAIN frames /\ frames[i] \in Frames
      BY <1>1, <3>3
    <3>5. PICK G : G = SubSeq(frames, 1, m)
      OBVIOUS
    <3>6. G \in Seq(Frames) /\ Len(G) = m /\ \A i \in 1..m : G[i] = frames[1 + i - 1]
      BY <3>4, <3>5, SubSeqProperties, 1 \in Int
    <3>7. DOMAIN G = 1..m /\ \A i \in 1..m : G[i] = frames[i]
      BY <3>6
    <3>8. frames' = G
      BY <3>2, <3>3, <3>5
    <3>9. QED
      BY <3>3, <3>4, <3>6, <3>7, <3>8
  <2>3. outcome' = "running" => frames' # <<>>
    BY <1>1, <2>1, <2>2
  <2>4. ASSUME NEW i \in DOMAIN frames'
        PROVE  Unread(frames'[i].text) /\ frames'[i].pos \in 1..Len(frames'[i].text) + 1
    BY <2>2 DEF FramesSafe, FramesWithin
  <2>5. Len(frames') <= MaxExpandDepth + 1
    BY <1>1, <2>2, DepthAssumption DEF FramesWithin
  <2>6. FramesSafe' /\ FramesWithin'
    BY <2>1, <2>2, <2>3, <2>4, <2>5 DEF FramesSafe, FramesWithin, Frames
  <2>7. QED
    BY <2>1, <2>6 DEF Outcomes
<1>10. QED
  BY <1>4, <1>5, <1>6, <1>7, <1>8, <1>9 DEF ExpandNext

-----------------------------------------------------------------------------
(* Marks and lines.                                                        *)

(* A set whose members, moved, lie in another is no larger.                 *)
LEMMA Shifted ==
  ASSUME NEW A \in SUBSET Int, NEW B \in SUBSET Int, IsFiniteSet(B),
         NEW c \in Int, \A j \in A : j + c \in B
  PROVE  IsFiniteSet(A) /\ Cardinality(A) <= Cardinality(B)
<1> DEFINE f == [j \in A |-> j + c]
<1>1. f \in [A -> B]
  OBVIOUS
<1>2. \A i, j \in A : f[i] = f[j] => i = j
  OBVIOUS
<1> HIDE DEF f
<1>3. f \in Injection(A, B)
  BY <1>1, <1>2 DEF Injection, IsInjective
<1>4. QED
  BY <1>3, FS_Injection

Marks(t) == {j \in DOMAIN t : IsMark(t[j])}

(* A text has a number of marks.                                            *)
LEMMA MarksFinite ==
  ASSUME NEW t \in Seq(Cell)
  PROVE  Marks(t) \in SUBSET Int /\ IsFiniteSet(Marks(t)) /\ Cardinality(Marks(t)) \in Nat
<1>1. DOMAIN t = 1..Len(t) /\ Len(t) \in Nat
  OBVIOUS
<1>2. IsFiniteSet(1..Len(t))
  BY <1>1, FS_Interval
<1>3. Marks(t) \in SUBSET (1..Len(t))
  BY <1>1 DEF Marks
<1>4. IsFiniteSet(Marks(t))
  BY <1>2, <1>3, FS_Subset
<1>5. QED
  BY <1>3, <1>4, FS_CardinalityType

(* The end of a text has no more marks than the text.                       *)
LEMMA MarksOfRest ==
  ASSUME NEW t \in Seq(Cell), NEW q \in 1..Len(t) + 1
  PROVE  Cardinality(Marks(SubSeq(t, q, Len(t)))) <= Cardinality(Marks(t))
<1> DEFINE s == SubSeq(t, q, Len(t))
<1>1. s \in Seq(Cell) /\ \A j \in DOMAIN s : j + (q - 1) \in DOMAIN t /\ s[j] = t[j + (q - 1)]
  OBVIOUS
<1> HIDE DEF s
<1>2. \A j \in Marks(s) : j + (q - 1) \in Marks(t)
  BY <1>1 DEF Marks
<1>3. q - 1 \in Int /\ Marks(s) \in SUBSET Int /\ Marks(t) \in SUBSET Int /\ IsFiniteSet(Marks(t))
  BY <1>1, MarksFinite
<1>4. Cardinality(Marks(s)) <= Cardinality(Marks(t))
  BY <1>2, <1>3, Shifted
<1>5. QED
  BY <1>4 DEF s

(* A file, a mark and the text behind it, joined.                           *)
LEMMA JoinedParts ==
  ASSUME NEW d \in Seq(Cell), NEW mark \in Cell, NEW s \in Seq(Cell),
         NEW t, t = d \o <<mark>> \o s
  PROVE  /\ t \in Seq(Cell) /\ Len(t) = Len(d) + 1 + Len(s)
         /\ \A i \in 1..Len(d) : t[i] = d[i]
         /\ t[Len(d) + 1] = mark
         /\ \A i \in Len(d) + 2..Len(d) + 1 + Len(s) : t[i] = s[i - Len(d) - 1]
<1>1. PICK e : e = d \o <<mark>>
  OBVIOUS
<1>2. /\ e \in Seq(Cell) /\ Len(e) = Len(d) + 1 /\ e[Len(d) + 1] = mark /\ Len(d) \in Nat /\ Len(s) \in Nat
      /\ \A i \in 1..Len(d) : e[i] = d[i]
  BY <1>1
<1>3. e \o s \in Seq(Cell) /\ Len(e \o s) = Len(e) + Len(s)
  BY ONLY <1>2, s \in Seq(Cell), ConcatProperties
<1>4. \A i \in 1..Len(e) : (e \o s)[i] = e[i]
  BY ONLY <1>2, s \in Seq(Cell), ConcatProperties
<1>5. \A i \in Len(e) + 1..Len(e) + Len(s) : (e \o s)[i] = s[i - Len(e)]
  BY ONLY <1>2, s \in Seq(Cell), ConcatProperties
<1>6. t = e \o s
  BY <1>1
<1>7. /\ t \in Seq(Cell) /\ Len(t) = Len(d) + 1 + Len(s) /\ t[Len(d) + 1] = mark
      /\ \A i \in 1..Len(d) : t[i] = d[i]
  BY <1>2, <1>3, <1>4, <1>6
<1>8. ASSUME NEW i \in Len(d) + 2..Len(d) + 1 + Len(s) PROVE t[i] = s[i - Len(d) - 1]
  <2>1. i - Len(e) = i - Len(d) - 1 /\ i \in Len(e) + 1..Len(e) + Len(s)
    BY <1>2
  <2>2. QED
    BY <1>5, <1>6, <2>1
<1>9. QED
  BY <1>7, <1>8

(* Behind an opened file stands one mark more than there was.               *)
LEMMA MarksEntered ==
  ASSUME NEW t \in Seq(Cell), NEW d, Unread(d), NEW mark \in Cell, NEW q \in 1..Len(t) + 1
  PROVE  Cardinality(Marks(d \o <<mark>> \o SubSeq(t, q, Len(t)))) <= Cardinality(Marks(t)) + 1
<1> DEFINE s == SubSeq(t, q, Len(t))
           b == d \o <<mark>> \o s
           n == Len(d)
           A == Marks(b) \ {n + 1}
<1>1. /\ d \in Seq(Cell) /\ n \in Nat
      /\ s \in Seq(Cell) /\ Len(s) = Len(t) - q + 1
      /\ \A j \in DOMAIN s : j + (q - 1) \in DOMAIN t /\ s[j] = t[j + (q - 1)]
  BY DEF Unread
<1>2. /\ b \in Seq(Cell) /\ Len(b) = n + 1 + Len(s)
      /\ \A j \in 1..n : b[j] = d[j]
      /\ \A j \in n + 2..Len(b) : b[j] = s[j - n - 1]
  <2> HIDE DEF s
  <2>1. d \in Seq(Cell) /\ s \in Seq(Cell)
    BY <1>1
  <2>2. PICK u : u = d \o <<mark>> \o s
    OBVIOUS
  <2>3. /\ u \in Seq(Cell) /\ Len(u) = Len(d) + 1 + Len(s)
        /\ \A i \in 1..Len(d) : u[i] = d[i]
        /\ \A i \in Len(d) + 2..Len(d) + 1 + Len(s) : u[i] = s[i - Len(d) - 1]
    BY ONLY <2>1, <2>2, mark \in Cell, JoinedParts
  <2>4. QED
    BY ONLY <1>1, <2>2, <2>3
<1> HIDE DEF s, b
<1>3. ASSUME NEW j \in A PROVE j + (q - 2 - n) \in Marks(t)
  <2>1. j \in 1..Len(b) /\ IsMark(b[j]) /\ j # n + 1
    BY <1>2 DEF Marks
  <2>2. j \notin 1..n
    BY <1>1, <1>2, <2>1 DEF Unread, IsMark
  <2>3. j \in n + 2..Len(b) /\ j - n - 1 \in DOMAIN s /\ b[j] = s[j - n - 1]
    BY <1>1, <1>2, <2>1, <2>2
  <2>4. (j - n - 1) + (q - 1) \in DOMAIN t /\ s[j - n - 1] = t[(j - n - 1) + (q - 1)]
    BY <1>1, <2>3
  <2>5. (j - n - 1) + (q - 1) = j + (q - 2 - n)
    BY <1>1, <2>3
  <2>6. QED
    BY <2>1, <2>3, <2>4, <2>5 DEF Marks
<1>4. Marks(b) \in SUBSET Int /\ IsFiniteSet(Marks(b)) /\ Cardinality(Marks(b)) \in Nat
  BY <1>2, MarksFinite
<1>5. Marks(t) \in SUBSET Int /\ IsFiniteSet(Marks(t)) /\ Cardinality(Marks(t)) \in Nat
  BY MarksFinite
<1>6. Cardinality(A) <= Cardinality(Marks(t))
  <2>1. A \in SUBSET Int /\ q - 2 - n \in Int
    BY <1>1, <1>4
  <2> HIDE DEF A
  <2>2. QED
    BY <1>3, <1>5, <2>1, Shifted
<1>7. Cardinality(A) = IF n + 1 \in Marks(b) THEN Cardinality(Marks(b)) - 1 ELSE Cardinality(Marks(b))
  BY <1>4, FS_RemoveElement
<1> HIDE DEF A
<1>8. Cardinality(Marks(b)) <= Cardinality(Marks(t)) + 1
  BY <1>4, <1>5, <1>6, <1>7
<1>9. QED
  BY <1>8 DEF b, s

(* Past ended files the next cell is no mark, or the text is over.          *)
LEMMA UnmarkedPart ==
  ASSUME NEW t \in Seq(Cell)
  PROVE  \E q \in 1..Len(t) + 1 :
           /\ Unmarked(t) = SubSeq(t, q, Len(t))
           /\ q <= Len(t) => ~IsMark(t[q])
           /\ \A j \in 1..q - 1 : IsMark(t[j])
<1> DEFINE q == FirstNot(t, 1, {"EOF"})
<1>1. Len(t) \in Nat /\ 1 \in Nat /\ 1 <= Len(t) + 1
  OBVIOUS
<1>2. /\ q \in 1..Len(t) + 1 /\ (q > Len(t) \/ t[q].s \notin {"EOF"})
      /\ \A j \in 1..q - 1 : t[j].s \in {"EOF"}
  BY <1>1, FirstNotFound
<1>3. Unmarked(t) = SubSeq(t, q, Len(t))
  BY DEF Unmarked
<1> HIDE DEF q
<1>4. QED
  BY <1>1, <1>2, <1>3 DEF IsMark

(* LineAfter counts one cell after the other.                               *)
LEMMA LineAfterSteps ==
  ASSUME NEW line, NEW cells, Len(cells) \in Nat
  PROVE  \E at : /\ at = [i \in 0..Len(cells) |-> IF i = 0 THEN line ELSE ReadCell(at[i - 1], cells[i])]
                 /\ LineAfter(line, cells) = at[Len(cells)]
<1> DEFINE n == Len(cells)
           Upto(at, m) == at = [i \in 0..m |-> IF i = 0 THEN line ELSE ReadCell(at[i - 1], cells[i])]
           T == {m \in 0..n : \E at : Upto(at, m)}
<1>1. 0 \in T
  <2>1. PICK at : at = [i \in 0..0 |-> line]
    OBVIOUS
  <2>2. [i \in 0..0 |-> IF i = 0 THEN line ELSE ReadCell(at[i - 1], cells[i])] = at
    BY <2>1
  <2>3. QED
    BY <2>2
<1>2. ASSUME NEW m \in 0..n - 1, m \in T PROVE m + 1 \in T
  <2>1. PICK at : Upto(at, m)
    BY <1>2
  <2>2. PICK h : h = [i \in 0..m + 1 |-> IF i = m + 1 THEN ReadCell(at[m], cells[i]) ELSE at[i]]
    OBVIOUS
  <2>3. ASSUME NEW i \in 0..m + 1
        PROVE  h[i] = IF i = 0 THEN line ELSE ReadCell(h[i - 1], cells[i])
    <3>1. CASE i = m + 1
      <4>1. i # 0 /\ i - 1 = m /\ m \in 0..m + 1 /\ m # m + 1
        BY <3>1
      <4>2. h[i] = ReadCell(at[m], cells[i]) /\ h[i - 1] = at[m]
        BY <2>2, <3>1, <4>1
      <4>3. QED
        BY <4>1, <4>2
    <3>2. CASE i = 0
      <4>1. h[i] = at[i] /\ at[i] = line
        BY <2>1, <2>2, <3>2
      <4>2. QED
        BY <3>2, <4>1
    <3>3. CASE i # m + 1 /\ i # 0
      <4>1. i \in 0..m /\ i - 1 \in 0..m /\ i - 1 \in 0..m + 1 /\ i - 1 # m + 1
        BY <3>3
      <4>2. h[i] = at[i] /\ h[i - 1] = at[i - 1]
        BY <2>2, <3>3, <4>1
      <4>3. at[i] = ReadCell(at[i - 1], cells[i])
        BY <2>1, <3>3, <4>1
      <4>4. QED
        BY <3>3, <4>2, <4>3
    <3>4. QED
      BY <3>1, <3>2, <3>3
  <2>4. Upto(h, m + 1)
    <3>1. h = [i \in 0..m + 1 |-> h[i]]
      BY <2>2
    <3>2. [i \in 0..m + 1 |-> h[i]]
            = [i \in 0..m + 1 |-> IF i = 0 THEN line ELSE ReadCell(h[i - 1], cells[i])]
      BY <2>3, Zenon
    <3>3. QED
      BY <3>1, <3>2
  <2>5. m + 1 \in 0..n
    OBVIOUS
  <2> HIDE DEF Upto
  <2>6. QED
    BY <2>4, <2>5
<1> HIDE DEF T
<1>3. n \in T
  <2>1. n \in Nat
    OBVIOUS
  <2>2. 0..n \subseteq T
    BY ONLY <2>1, <1>1, <1>2, CountUp
  <2>3. QED
    BY <2>1, <2>2
<1> USE DEF T
<1>4. PICK at : Upto(at, n)
  BY <1>3
<1> DEFINE F == CHOOSE u : u = [i \in 0..n |-> IF i = 0 THEN line ELSE ReadCell(u[i - 1], cells[i])]
<1>5. F = [i \in 0..n |-> IF i = 0 THEN line ELSE ReadCell(F[i - 1], cells[i])]
  BY <1>4, Zenon
<1>6. LineAfter(line, cells) = F[n]
  BY Zenon DEF LineAfter
<1> HIDE DEF F
<1>7. QED
  BY <1>5, <1>6

Lines == Nat \ {0}

(* Reading a cell, a line becomes a line.                                   *)
LEMMA ReadCellLine ==
  ASSUME NEW line \in Lines, NEW c \in Cell
  PROVE  ReadCell(line, c) \in Lines
BY DEF ReadCell, PopInclude, Lines, Cell

(* ... and so does reading several.                                         *)
LEMMA LineAfterLine ==
  ASSUME NEW line \in Lines, NEW cells \in Seq(Cell)
  PROVE  LineAfter(line, cells) \in Lines
<1> DEFINE n == Len(cells)
<1>0. n \in Nat
  OBVIOUS
<1>1. PICK at : /\ at = [i \in 0..n |-> IF i = 0 THEN line ELSE ReadCell(at[i - 1], cells[i])]
                /\ LineAfter(line, cells) = at[n]
  BY <1>0, LineAfterSteps
<1> DEFINE T == {i \in 0..n : at[i] \in Lines}
<1>2. 0 \in T
  BY <1>0, <1>1
<1>3. ASSUME NEW i \in 0..n - 1, i \in T PROVE i + 1 \in T
  <2>1. i + 1 \in 0..n /\ i + 1 # 0 /\ (i + 1) - 1 = i /\ i + 1 \in 1..n
    BY <1>0
  <2>2. cells[i + 1] \in Cell /\ at[i] \in Lines
    BY <1>3, <2>1
  <2>3. at[i + 1] = ReadCell(at[i], cells[i + 1])
    BY <1>1, <2>1
  <2>4. QED
    BY <2>1, <2>2, <2>3, ReadCellLine
<1> HIDE DEF T
<1>4. n \in T
  <2>1. n \in Nat
    BY <1>0
  <2>2. 0..n \subseteq T
    BY ONLY <2>1, <1>2, <1>3, CountUp
  <2>3. QED
    BY <2>1, <2>2
<1>5. QED
  BY <1>1, <1>4 DEF T

(* Over text that stands where it should, the line is that of the last      *)
(* cell read.                                                               *)
LEMMA LineAfterLaid ==
  ASSUME NEW line, NEW cells \in Seq(Cell), cells # <<>>, Laid(cells),
         ~IsMark(cells[1]) => cells[1].l = line
  PROVE  LineAfter(line, cells) = ReadCell(cells[Len(cells)].l, cells[Len(cells)])
<1> DEFINE n == Len(cells)
<1>0. n \in Nat \ {0}
  OBVIOUS
<1>1. PICK at : /\ at = [i \in 0..n |-> IF i = 0 THEN line ELSE ReadCell(at[i - 1], cells[i])]
                /\ LineAfter(line, cells) = at[n]
  BY <1>0, LineAfterSteps
<1>2. ASSUME NEW old, NEW c, ~IsMark(c) => c.l = old
      PROVE  ReadCell(old, c) = ReadCell(c.l, c)
  BY <1>2 DEF ReadCell, PopInclude
<1> DEFINE T == {i \in 0..n : i # 0 => at[i] = ReadCell(cells[i].l, cells[i])}
<1>3. 0 \in T
  BY <1>0
<1>4. ASSUME NEW i \in 0..n - 1, i \in T PROVE i + 1 \in T
  <2>1. i + 1 \in 0..n /\ i + 1 # 0 /\ (i + 1) - 1 = i /\ i \in 0..n /\ 0 \in 0..n
    BY <1>0
  <2>2. at[i + 1] = ReadCell(at[i], cells[i + 1])
    BY <1>1, <2>1
  <2>3. CASE i = 0
    <3>1. at[i] = line /\ i + 1 = 1
      BY <1>1, <2>1, <2>3
    <3>2. at[i + 1] = ReadCell(cells[i + 1].l, cells[i + 1])
      BY <1>2, <2>2, <3>1
    <3>3. QED
      BY <2>1, <3>2
  <2>4. CASE i # 0
    <3>1. i + 1 \in 2..Len(cells)
      BY <1>0, <2>1, <2>4
    <3>2. ~IsMark(cells[i + 1]) => cells[i + 1].l = ReadCell(cells[i].l, cells[i])
      BY <2>1, <3>1 DEF Laid
    <3>3. at[i] = ReadCell(cells[i].l, cells[i])
      BY <1>4, <2>4
    <3>4. at[i + 1] = ReadCell(cells[i + 1].l, cells[i + 1])
      BY <1>2, <2>2, <3>2, <3>3
    <3>5. QED
      BY <2>1, <3>4
  <2>5. QED
    BY <2>3, <2>4
<1> HIDE DEF T
<1>5. n \in T
  <2>1. n \in Nat
    BY <1>0
  <2>2. 0..n \subseteq T
    BY ONLY <2>1, <1>3, <1>4, CountUp
  <2>3. QED
    BY <2>1, <2>2
<1>6. QED
  BY <1>0, <1>1, <1>5 DEF T

(* What ReadCh leaves: the text from some cell on, and the line counted over *)
(* the cells up to it.                                                      *)
Reached(k, q) ==
  /\ q \in k + 1..Len(rest) + 1
  /\ rest' = SubSeq(rest, q, Len(rest))
  /\ q <= Len(rest) => ~IsMark(rest[q])
  /\ \A j \in k + 1..q - 1 : IsMark(rest[j])
  /\ srcLine' = LineAfter(srcLine, SubSeq(rest, 2, IF q > Len(rest) THEN Len(rest) ELSE q))

(* ReadCh steps over the cells it is told to and over ended files.          *)
LEMMA ReadChReaches ==
  ASSUME rest \in Seq(Cell), NEW k \in 0..Len(rest), ReadCh(k)
  PROVE  \E q \in k + 1..Len(rest) + 1 : Reached(k, q)
<1> DEFINE n == Len(rest)
           s == SubSeq(rest, k + 1, n)
<1>0. n \in Nat /\ k \in Nat /\ k <= n
  OBVIOUS
<1>1. s \in Seq(Cell) /\ Len(s) = n - k /\ \A j \in 1..n - k : s[j] = rest[k + j]
  BY <1>0
<1>2. PICK tail \in {Unmarked(s)} :
        /\ rest' = tail
        /\ srcLine' = LineAfter(srcLine, SubSeq(rest, 2, n - Len(tail) + (IF tail = <<>> THEN 0 ELSE 1)))
  BY DEF ReadCh
<1> HIDE DEF s
<1>3. PICK r \in 1..Len(s) + 1 :
        /\ Unmarked(s) = SubSeq(s, r, Len(s))
        /\ r <= Len(s) => ~IsMark(s[r])
        /\ \A j \in 1..r - 1 : IsMark(s[j])
  BY <1>1, UnmarkedPart
<1> DEFINE q == k + r
<1>4. q \in k + 1..n + 1 /\ q \in Nat
  BY <1>0, <1>1, <1>3
<1>5. tail = SubSeq(rest, q, n) /\ Len(tail) = n - q + 1
  <2> PICK S : S = SubSeq(rest, q, n)
    OBVIOUS
  <2>1. S \in Seq(Cell) /\ Len(S) = n - q + 1 /\ \A j \in 1..n - q + 1 : S[j] = rest[q + j - 1]
    BY <1>0, <1>4
  <2> PICK R : R = SubSeq(s, r, Len(s))
    OBVIOUS
  <2>2. R \in Seq(Cell) /\ Len(R) = n - q + 1 /\ \A j \in 1..n - q + 1 : R[j] = s[r + j - 1]
    BY <1>0, <1>1, <1>3
  <2>3. \A j \in 1..n - q + 1 : s[r + j - 1] = rest[q + j - 1]
    <3> TAKE j \in 1..n - q + 1
    <3>1. r + j - 1 \in 1..n - k /\ k + (r + j - 1) = q + j - 1
      BY <1>0, <1>1, <1>3
    <3>2. QED
      BY <1>1, <3>1
  <2>4. R = S
    BY <2>1, <2>2, <2>3, SeqEqual
  <2>5. QED
    BY <1>2, <1>3, <2>1, <2>4
<1>6. q <= n => ~IsMark(rest[q])
  BY <1>0, <1>1, <1>3
<1>7. ASSUME NEW j \in k + 1..q - 1 PROVE IsMark(rest[j])
  <2>1. r \in Nat /\ r <= n - k + 1 /\ j \in Nat /\ k + 1 <= j /\ j <= k + r - 1
    BY <1>0, <1>1, <1>3
  <2>1a. j - k \in 1..r - 1 /\ j - k \in 1..n - k /\ k + (j - k) = j
    BY ONLY <1>0, <2>1
  <2>2. QED
    BY <1>1, <1>3, <2>1a
<1> HIDE DEF q
<1>8. n - Len(tail) + (IF tail = <<>> THEN 0 ELSE 1) = IF q > n THEN n ELSE q
  <2>1. tail = <<>> <=> q > n
    <3>1. tail = <<>> => Len(tail) = 0
      OBVIOUS
    <3>2. q > n => tail = <<>>
      BY <1>0, <1>4, <1>5
    <3>3. QED
      BY <1>0, <1>4, <1>5, <3>1, <3>2
  <2>2. CASE q > n
    BY <1>0, <1>4, <1>5, <2>1, <2>2
  <2>3. CASE ~(q > n)
    BY <1>0, <1>4, <1>5, <2>1, <2>3
  <2>4. QED
    BY <2>2, <2>3
<1>9. Reached(k, q)
  BY <1>2, <1>4, <1>5, <1>6, <1>7, <1>8 DEF Reached
<1>10. QED
  BY <1>4, <1>9

-----------------------------------------------------------------------------
(* The scanner.                                                            *)

(* The cells read, without marks, one after the other.                      *)
LEMMA CellsSteps ==
  ASSUME rest \in Seq(Cell), NEW k \in 0..Len(rest)
  PROVE  \E read \in [0..k -> Seq(Cell)] :
           /\ Cells(k) = read[k] /\ read[0] = <<>>
           /\ \A i \in 1..k : read[i] = IF IsMark(rest[i]) THEN read[i - 1] ELSE Append(read[i - 1], rest[i])
<1> DEFINE Q == Seq(Cell)
           G(i, x) == IF IsMark(rest[i]) THEN x ELSE Append(x, rest[i])
           F == [i \in 1..k |-> [x \in Q |-> G(i, x)]]
<1>0. k \in Nat /\ \A i \in 1..k : rest[i] \in Cell
  OBVIOUS
<1>1. \A i \in 1..k : \A x \in Q : G(i, x) \in Q
  BY <1>0
<1> HIDE DEF Q
<1>2. F \in Steps(k, Q)
  <2> HIDE DEF G
  <2>1. QED
    BY <1>1 DEF Steps
<1>3. <<>> \in Q
  BY DEF Q
<1>4. PICK g \in [0..k -> Q] : Iterates(g, <<>>, F, k)
  <2> HIDE DEF F
  <2>1. QED
    BY <1>0, <1>2, <1>3, Iterated
<1>5. g[0] = <<>> /\ \A i \in 1..k : g[i] = G(i, g[i - 1])
  <2>1. \A i \in 1..k : i - 1 \in 0..k /\ g[i - 1] \in Q
    BY <1>0, <1>4
  <2> HIDE DEF G
  <2>2. \A i \in 1..k : F[i][g[i - 1]] = G(i, g[i - 1])
    BY <2>1
  <2> HIDE DEF F
  <2>3. QED
    BY <1>4, <2>2 DEF Iterates
<1> DEFINE Upto(u) == u = [i \in 0..k |-> IF i = 0 THEN <<>> ELSE IF IsMark(rest[i]) THEN u[i - 1] ELSE Append(u[i - 1], rest[i])]
           C == CHOOSE u : Upto(u)
<1>6. Upto(g)
  <2>1. g = [i \in 0..k |-> g[i]]
    BY <1>4
  <2>2. ASSUME NEW i \in 0..k
        PROVE  g[i] = IF i = 0 THEN <<>> ELSE IF IsMark(rest[i]) THEN g[i - 1] ELSE Append(g[i - 1], rest[i])
    <3>1. CASE i = 0
      BY <1>5, <3>1
    <3>2. CASE i # 0
      <4>1. i \in 1..k
        BY <1>0, <3>2
      <4>2. QED
        BY <1>5, <3>2, <4>1
    <3>3. QED
      BY <3>1, <3>2
  <2>3. [i \in 0..k |-> g[i]]
          = [i \in 0..k |-> IF i = 0 THEN <<>> ELSE IF IsMark(rest[i]) THEN g[i - 1] ELSE Append(g[i - 1], rest[i])]
    BY <2>2, Zenon
  <2>4. QED
    BY <2>1, <2>3
<1>7. Upto(C)
  <2> HIDE DEF Upto
  <2>1. QED
    BY <1>6, Zenon
<1>8. Cells(k) = C[k]
  BY Zenon DEF Cells
<1> HIDE DEF C
<1>9. \A i \in 0..k : C[i] = IF i = 0 THEN <<>> ELSE IF IsMark(rest[i]) THEN C[i - 1] ELSE Append(C[i - 1], rest[i])
  BY <1>7, Zenon
<1>10. C[0] = <<>> /\ \A i \in 1..k : i \in 0..k /\ C[i] = G(i, C[i - 1])
  <2>1. 0 \in 0..k /\ \A i \in 1..k : i \in 0..k /\ i # 0
    BY <1>0
  <2>2. QED
    BY <1>9, <2>1
<1>11. C \in [0..k -> Q]
  <2> DEFINE T == {i \in 0..k : C[i] \in Q}
  <2>1. 0 \in T
    BY <1>0, <1>3, <1>10
  <2>2. ASSUME NEW i \in 0..k - 1, i \in T PROVE i + 1 \in T
    <3>1. i + 1 \in 1..k /\ (i + 1) - 1 = i /\ C[i] \in Q
      BY <1>0, <2>2
    <3> HIDE DEF G
    <3>2. C[i + 1] = G(i + 1, C[i]) /\ i + 1 \in 0..k
      BY <1>10, <3>1
    <3>3. QED
      BY <1>1, <3>1, <3>2
  <2> HIDE DEF T
  <2>3. 0..k \subseteq T
    BY ONLY <1>0, <2>1, <2>2, CountUp
  <2> USE DEF T
  <2>4. \A i \in 0..k : C[i] \in Q
    BY <2>3
  <2>5. C = [i \in 0..k |-> IF i = 0 THEN <<>> ELSE IF IsMark(rest[i]) THEN C[i - 1] ELSE Append(C[i - 1], rest[i])]
    BY <1>7
  <2>6. C = [i \in 0..k |-> C[i]]
    BY ONLY <2>5
  <2>7. QED
    BY ONLY <2>4, <2>6
<1>12. QED
  BY <1>8, <1>10, <1>11 DEF Q

(* They are cells; of a text without marks, all of them.                    *)
LEMMA CellsRead ==
  ASSUME rest \in Seq(Cell), NEW k \in 0..Len(rest)
  PROVE  /\ Cells(k) \in Seq(Cell)
         /\ (\A i \in 1..k : ~IsMark(rest[i])) => Cells(k) = SubSeq(rest, 1, k)
<1>0. k \in Nat /\ \A i \in 1..k : rest[i] \in Cell
  OBVIOUS
<1>1. PICK read \in [0..k -> Seq(Cell)] :
        /\ Cells(k) = read[k] /\ read[0] = <<>>
        /\ \A i \in 1..k : read[i] = IF IsMark(rest[i]) THEN read[i - 1] ELSE Append(read[i - 1], rest[i])
  BY CellsSteps
<1>2. Cells(k) \in Seq(Cell)
  BY <1>0, <1>1
<1>3. ASSUME \A i \in 1..k : ~IsMark(rest[i])
      PROVE  Cells(k) = SubSeq(rest, 1, k)
  <2> DEFINE T == {i \in 0..k : Len(read[i]) = i /\ \A j \in 1..i : read[i][j] = rest[j]}
  <2>1. 0 \in T
    BY <1>0, <1>1
  <2>2. ASSUME NEW i \in 0..k - 1, i \in T PROVE i + 1 \in T
    <3>1. i + 1 \in 1..k /\ i + 1 \in 0..k /\ (i + 1) - 1 = i /\ i \in 0..k
      BY <1>0
    <3>2. read[i + 1] = Append(read[i], rest[i + 1]) /\ read[i] \in Seq(Cell) /\ rest[i + 1] \in Cell
      BY <1>0, <1>1, <1>3, <3>1
    <3>3. Len(read[i]) = i /\ \A j \in 1..i : read[i][j] = rest[j]
      BY <2>2
    <3>4. PICK s \in Seq(Cell) : s = read[i]
      BY <3>2
    <3>5. /\ Len(Append(s, rest[i + 1])) = i + 1
          /\ \A j \in 1..i + 1 : Append(s, rest[i + 1])[j] = rest[j]
      BY <3>1, <3>2, <3>3, <3>4
    <3>6. QED
      BY <3>1, <3>2, <3>4, <3>5
  <2> HIDE DEF T
  <2>3. 0..k \subseteq T
    BY ONLY <1>0, <2>1, <2>2, CountUp
  <2> USE DEF T
  <2>4. Len(Cells(k)) = k /\ \A j \in 1..k : Cells(k)[j] = rest[j]
    BY <1>0, <1>1, <2>3
  <2>5. PICK S : S = SubSeq(rest, 1, k)
    OBVIOUS
  <2>6. S \in Seq(Cell) /\ Len(S) = k /\ \A j \in 1..k : S[j] = rest[j]
    BY <1>0, <2>5
  <2>7. Cells(k) = S
    BY <1>0, <1>2, <2>4, <2>6, SeqEqual
  <2>8. QED
    BY <2>5, <2>7
<1>4. QED
  BY <1>2, <1>3

(* To the first of S, or to the end.                                        *)
LEMMA ToInText ==
  ASSUME rest \in Seq(Cell), rest # <<>>, NEW S
  PROVE  /\ To(S) \in 1..Len(rest) /\ First(rest, 2, S) \in 2..Len(rest) + 1
         /\ To(S) = IF First(rest, 2, S) > Len(rest) THEN Len(rest) ELSE First(rest, 2, S)
<1>1. Len(rest) \in Nat \ {0} /\ 2 \in Nat /\ 2 <= Len(rest) + 1
  OBVIOUS
<1>2. First(rest, 2, S) \in 2..Len(rest) + 1
  BY <1>1, FirstFound
<1>3. To(S) = IF First(rest, 2, S) > Len(rest) THEN Len(rest) ELSE First(rest, 2, S)
  BY DEF To
<1>4. QED
  BY <1>1, <1>2, <1>3

Kinds == {"INCLUDE", "IFDEF", "IFNDEF", "ELSE", "ENDIF", "DEFINE", "UNDEF"}

(* A directive has its word behind the brace.                               *)
LEMMA DirectiveKinds ==
  /\ \A d \in DOMAIN DirectiveName : DirectiveName[d] \in Kinds
  /\ Directive \in Kinds \cup {"none"}
  /\ Directive # "none" => Len(rest) > 1 /\ rest[2].s \in DOMAIN DirectiveName /\ Directive = DirectiveName[rest[2].s]
  /\ Directive = "none" => ~(Len(rest) > 1 /\ rest[2].s \in DOMAIN DirectiveName)
<1>1. \A d \in DOMAIN DirectiveName : DirectiveName[d] \in Kinds
  BY DEF DirectiveName, Kinds
<1>2. "none" \notin Kinds
  BY DEF Kinds
<1>3. QED
  BY <1>1, <1>2 DEF Directive

(* An opened include: what stands behind it is kept behind a mark.          *)
Opened ==
  \E close \in 2..Len(rest) : \E name \in DOMAIN disk \cap Symbol :
    LET mark == [s |-> "EOF", f |-> name, l |-> LineAfter(srcLine, SubSeq(rest, 2, close))]
    IN /\ optIncludes /\ IncDepth < MaxIncludeDepth
       /\ Enter(disk[name] \o <<mark>> \o SubSeq(rest, close + 1, Len(rest)))

Stands == UNCHANGED <<rest, srcLine>>
Reads == \E k \in 1..Len(rest) : ReadCh(k)

(* A step of the scanner leaves the text where it is, reads on in it or     *)
(* opens an include.                                                        *)
LEMMA ScanMoves ==
  ASSUME TypeInv, ScanNext
  PROVE  Stands \/ Reads \/ Opened
<1>0. rest \in Seq(Cell) /\ Len(rest) \in Nat
  BY DEF TypeInv, ScanSafe
<1>1. ASSUME NEW why, Error(why) PROVE Stands
  BY <1>1 DEF Error, Stands
<1>2. ASSUME NEW k \in 1..Len(rest), ReadCh(k) PROVE Reads
  BY <1>2 DEF Reads
<1>3. ASSUME NEW k \in 1..Len(rest), Skip(k) PROVE Reads
  BY <1>2, <1>3 DEF Skip
<1>3a. ASSUME NEW k \in 1..Len(rest), Deliver(k) PROVE Reads
  BY <1>2, <1>3a DEF Deliver
<1>3b. ASSUME NEW k \in 1..Len(rest), Pass(k) PROVE Reads
  BY <1>2, <1>3b DEF Pass
<1>4. rest # <<>> => 1 \in 1..Len(rest) /\ Len(rest) # 0
  BY <1>0
<1>5. ASSUME NEW S, Through(S), rest # <<>> PROVE Stands \/ Reads
  <2>1. PICK e \in {First(rest, 2, S)} : IF e > Len(rest) THEN Error("unterminated") ELSE Skip(e)
    BY <1>5 DEF Through
  <2>2. e \in 2..Len(rest) + 1
    BY <1>0, <1>5, ToInText
  <2>3. ~(e > Len(rest)) => e \in 1..Len(rest)
    BY <1>0, <2>2
  <2>4. QED
    BY <1>1, <1>3, <2>1, <2>3
<1>6. CASE Whitespace
  BY <1>3, <1>4, <1>6 DEF Whitespace, Reading
<1>7. CASE BraceComment
  BY <1>5, <1>7 DEF BraceComment, Reading
<1>8. CASE ParenComment
  BY <1>5, <1>8 DEF ParenComment, Reading
<1>9. CASE LineComment
  <2>1. PICK e \in {First(rest, 2, {"nl"})} : Skip(e - 1) /\ rest # <<>>
    BY <1>9 DEF LineComment, Reading
  <2>2. e - 1 \in 1..Len(rest)
    BY <1>0, <2>1, ToInText
  <2>3. QED
    BY <1>3, <2>1, <2>2
<1>10. CASE StringToken
  <2>1. PICK e \in {StringEnd(rest, 1)} : rest # <<>> /\ IF e > Len(rest) THEN Error("unterminated-string") ELSE Deliver(e)
    BY <1>10 DEF StringToken, Reading
  <2>2. 1 \in Nat /\ 1 <= Len(rest)
    BY <1>0, <2>1
  <2>3. e \in 2..Len(rest) + 1
    BY <1>0, <2>2, StringEndFound
  <2>4. ~(e > Len(rest)) => e \in 1..Len(rest)
    BY <1>0, <2>3
  <2>5. QED
    BY <1>1, <1>3a, <2>1, <2>4
<1>11. CASE Token
  BY <1>3a, <1>4, <1>11 DEF Token, Reading
<1>12. CASE OpenInclude
  <2> DEFINE p == FirstNot(rest, 3, Blanks)
             z == First(rest, p + 1, {"'"})
             name == rest[p + 1].s
             close == First(rest, z + 1, {"rbrace"})
  <2>1. rest # <<>> /\ Directive # "none"
    BY <1>12 DEF OpenInclude, Reading
  <2>2. Len(rest) > 1
    BY <2>1, DirectiveKinds
  <2>3. CASE ~Quoted(p)
    BY <1>1, <1>12, <2>3 DEF OpenInclude
  <2>4. CASE Quoted(p)
    <3>1. 3 \in Nat /\ 3 <= Len(rest) + 1
      BY <1>0, <2>2
    <3>2. p \in 3..Len(rest)
      <4>1. p \in 3..Len(rest) + 1
        BY <1>0, <3>1, FirstNotFound
      <4> HIDE DEF p
      <4>2. QED
        BY <1>0, <2>4, <4>1 DEF Quoted
    <3> HIDE DEF p
    <3>3. z \in p + 1..Len(rest)
      <4>1. p + 1 \in Nat /\ p + 1 <= Len(rest) + 1
        BY <1>0, <3>2
      <4>2. z \in p + 1..Len(rest) + 1
        BY <1>0, <4>1, FirstFound
      <4> HIDE DEF z
      <4>3. z <= Len(rest)
        BY <2>4 DEF Quoted, z
      <4>4. QED
        BY <1>0, <3>2, <4>2, <4>3
    <3> HIDE DEF z
    <3>4. close \in 2..Len(rest) + 1
      <4>1. z + 1 \in Nat /\ z + 1 <= Len(rest) + 1
        BY <1>0, <3>2, <3>3
      <4>2. close \in z + 1..Len(rest) + 1
        BY <1>0, <4>1, FirstFound
      <4> HIDE DEF close
      <4>3. QED
        BY <1>0, <3>2, <3>3, <4>2
    <3> HIDE DEF close
    <3>5. p + 1 \in 1..Len(rest) /\ name \in Symbol
      <4>1. p + 1 \in 1..Len(rest)
        BY <1>0, <3>2, <3>3
      <4>2. rest[p + 1] \in Cell
        BY <1>0, <4>1
      <4>3. QED
        BY <4>1, <4>2 DEF Cell
    <3> HIDE DEF name
    <3>6. \/ Error("unterminated") \/ Error("too-deep") \/ Error("cycle") \/ Error("not-found")
          \/ ~(close > Len(rest)) /\ Skip(close)
          \/ /\ ~(close > Len(rest)) /\ optIncludes /\ ~(IncDepth >= MaxIncludeDepth) /\ name \in DOMAIN disk
             /\ \E mark \in {[s |-> "EOF", f |-> name, l |-> LineAfter(srcLine, SubSeq(rest, 2, close))]} :
                  \E behind \in {disk[name] \o <<mark>> \o SubSeq(rest, close + 1, Len(rest))} : Enter(behind)
      BY <1>12, <2>4, Zenon DEF OpenInclude, p, z, name, close
    <3>7. ~(close > Len(rest)) => close \in 1..Len(rest) /\ close \in 2..Len(rest)
      BY <1>0, <3>4
    <3>8. CASE /\ ~(close > Len(rest)) /\ optIncludes /\ ~(IncDepth >= MaxIncludeDepth) /\ name \in DOMAIN disk
               /\ \E mark \in {[s |-> "EOF", f |-> name, l |-> LineAfter(srcLine, SubSeq(rest, 2, close))]} :
                  \E behind \in {disk[name] \o <<mark>> \o SubSeq(rest, close + 1, Len(rest))} : Enter(behind)
      <4>1. IncDepth < MaxIncludeDepth
        <5>1. IncDepth \in Nat
          BY <1>0, MarksFinite DEF IncDepth, Marks
        <5>2. QED
          BY <3>8, <5>1, LimitAssumption
      <4>2. Enter(disk[name] \o <<[s |-> "EOF", f |-> name, l |-> LineAfter(srcLine, SubSeq(rest, 2, close))]>>
                    \o SubSeq(rest, close + 1, Len(rest)))
        BY <3>8, Zenon
      <4>3. name \in DOMAIN disk \cap Symbol
        BY <3>5, <3>8
      <4>4. Opened
        BY <3>7, <3>8, <4>1, <4>2, <4>3, Zenon DEF Opened
      <4>5. QED
        BY <4>4
    <3>9. QED
      BY <1>1, <1>3, <3>6, <3>7, <3>8
  <2>5. QED
    BY <2>3, <2>4
<1>13. CASE Define
  <2>1. rest # <<>> /\ (Error("no-name") \/ Error("unterminated") \/ (~(Close > Len(rest)) /\ ReadCh(Close)))
    BY <1>13 DEF Define, Reading
  <2>2. ~(Close > Len(rest)) => Close \in 1..Len(rest)
    BY <1>0, <2>1, ToInText DEF Close
  <2>3. QED
    BY <1>1, <1>2, <2>1, <2>2
<1>14. CASE IfDef
  <2>1. rest # <<>> /\ (Error("too-many-nested") \/ ReadCh(To({"rbrace"})))
    BY <1>14 DEF IfDef, Reading
  <2>2. To({"rbrace"}) \in 1..Len(rest)
    BY <1>0, <2>1, ToInText
  <2>3. QED
    BY <1>1, <1>2, <2>1, <2>2
<1>15. CASE Else
  <2>1. /\ rest # <<>>
        /\ Error("else-without-ifdef") \/ Error("unterminated") \/ ReadCh(To({"rbrace"})) \/ (Closed /\ Skip(3))
    BY <1>15 DEF Else, Reading
  <2>2. To({"rbrace"}) \in 1..Len(rest)
    BY <1>0, <2>1, ToInText
  <2>3. Closed => 3 \in 1..Len(rest)
    BY <1>0 DEF Closed
  <2>4. QED
    BY <1>1, <1>2, <1>3, <2>1, <2>2, <2>3
<1>16. CASE EndIf
  <2>1. Error("endif-without-ifdef") \/ Error("unterminated") \/ (Closed /\ ReadCh(3))
    BY <1>16 DEF EndIf
  <2>2. Closed => 3 \in 1..Len(rest)
    BY <1>0 DEF Closed
  <2>3. QED
    BY <1>1, <1>2, <2>1, <2>2
<1>17. CASE EndOfSource
  BY <1>1, <1>17 DEF EndOfSource
<1>18. CASE SkipText
  <2>1. /\ rest # <<>>
        /\ Pass(CASE Ch = "lbrace" -> To({"rbrace"}) [] Ch = "(*" -> To({"*)"}) [] Ch = "'" -> To({"'"}) [] OTHER -> 1)
    BY <1>18 DEF SkipText, Skipping
  <2>2. \/ Pass(To({"rbrace"})) \/ Pass(To({"*)"})) \/ Pass(To({"'"})) \/ Pass(1)
    <3>1. \/ Ch = "lbrace" \/ Ch = "(*" \/ Ch = "'" \/ (Ch # "lbrace" /\ Ch # "(*" /\ Ch # "'")
      OBVIOUS
    <3>2. QED
      BY <2>1, <3>1
  <2>3. \A S : To(S) \in 1..Len(rest)
    BY <1>0, <2>1, ToInText
  <2>4. QED
    BY <1>3b, <1>4, <2>1, <2>2, <2>3
<1>19. CASE SkipNested
  <2>1. rest # <<>> /\ Pass(To({"rbrace"}))
    BY <1>19 DEF SkipNested, Skipping
  <2>2. To({"rbrace"}) \in 1..Len(rest)
    BY <1>0, <2>1, ToInText
  <2>3. QED
    BY <1>3b, <2>1, <2>2
<1>20. CASE SkipEnds
  <2>1. rest # <<>> /\ (Error("duplicate-else") \/ ReadCh(To({"rbrace"})))
    BY <1>20 DEF SkipEnds, Skipping
  <2>2. To({"rbrace"}) \in 1..Len(rest)
    BY <1>0, <2>1, ToInText
  <2>3. QED
    BY <1>1, <1>2, <2>1, <2>2
<1>21. CASE SkipUnterminated
  BY <1>1, <1>21 DEF SkipUnterminated
<1>22. QED
  BY <1>6, <1>7, <1>8, <1>9, <1>10, <1>11, <1>12, <1>13, <1>14, <1>15, <1>16, <1>17, <1>18, <1>19, <1>20, <1>21, Zenon
     DEF ScanNext

(* The end of a text that stands where it should stands there, too.         *)
LEMMA LaidPart ==
  ASSUME NEW t \in Seq(Cell), Laid(t), NEW a \in 1..Len(t) + 1, NEW b \in 0..Len(t)
  PROVE  Laid(SubSeq(t, a, b))
<1>1. PICK s : s = SubSeq(t, a, b)
  OBVIOUS
<1>2. s \in Seq(Cell) /\ \A i \in 1..Len(s) : a + i - 1 \in 1..Len(t) /\ s[i] = t[a + i - 1]
  BY <1>1
<1>3. ASSUME NEW i \in 2..Len(s), ~IsMark(s[i])
      PROVE  s[i].l = ReadCell(s[i - 1].l, s[i - 1])
  <2>1. i \in 1..Len(s) /\ i - 1 \in 1..Len(s) /\ Len(s) \in Nat
    BY <1>2
  <2>2. s[i] = t[a + i - 1] /\ s[i - 1] = t[a + (i - 1) - 1] /\ a + i - 1 \in 1..Len(t)
    BY <1>2, <2>1
  <2>3. a + (i - 1) - 1 = (a + i - 1) - 1 /\ a + i - 1 \in 2..Len(t)
    BY <2>1, <2>2
  <2>4. QED
    BY <1>3, <2>2, <2>3 DEF Laid
<1>4. QED
  BY <1>1, <1>3 DEF Laid

(* A file and, behind a mark that keeps its line, the text that included it *)
(* stand where they should.                                                 *)
LEMMA LaidEntered ==
  ASSUME NEW t \in Seq(Cell), Laid(t), NEW d, IsFile(d), NEW p \in 1..Len(t), NEW mark \in Cell,
         IsMark(mark), mark.l = ReadCell(t[p].l, t[p])
  PROVE  Laid(d \o <<mark>> \o SubSeq(t, p + 1, Len(t)))
<1>1. PICK s : s = SubSeq(t, p + 1, Len(t))
  OBVIOUS
<1>2. PICK n : n = Len(d)
  OBVIOUS
<1>3. d \in Seq(Cell) /\ n \in Nat /\ s \in Seq(Cell) /\ Len(s) = Len(t) - p /\ \A i \in 1..Len(s) : s[i] = t[p + i]
  BY <1>1, <1>2 DEF IsFile
<1>4. PICK b : b = d \o <<mark>> \o s
  OBVIOUS
<1>5. /\ b \in Seq(Cell) /\ Len(b) = n + 1 + Len(s) /\ b[n + 1] = mark
      /\ \A i \in 1..n : b[i] = d[i]
      /\ \A i \in n + 2..n + 1 + Len(s) : b[i] = s[i - n - 1]
  <2>1. d \in Seq(Cell) /\ s \in Seq(Cell)
    BY <1>3
  <2>2. /\ b \in Seq(Cell) /\ Len(b) = Len(d) + 1 + Len(s) /\ b[Len(d) + 1] = mark
        /\ \A i \in 1..Len(d) : b[i] = d[i]
        /\ \A i \in Len(d) + 2..Len(d) + 1 + Len(s) : b[i] = s[i - Len(d) - 1]
    BY ONLY <2>1, <1>4, mark \in Cell, JoinedParts
  <2>3. QED
    BY ONLY <1>2, <2>2
<1>9. ASSUME NEW i \in 2..Len(b), ~IsMark(b[i])
      PROVE  b[i].l = ReadCell(b[i - 1].l, b[i - 1])
  <2>1. CASE i <= n
    <3>1. b[i] = d[i] /\ b[i - 1] = d[i - 1] /\ i \in 2..Len(d)
      BY <1>2, <1>3, <1>5, <2>1
    <3>2. QED
      BY <3>1 DEF IsFile
  <2>2. CASE i = n + 1
    BY <1>3, <1>5, <1>9, <2>2
  <2>3. CASE i = n + 2
    <3>1. b[i] = s[1] /\ 1 \in 1..Len(s) /\ b[i - 1] = mark
      BY <1>3, <1>5, <2>3
    <3>2. s[1] = t[p + 1] /\ p + 1 \in 2..Len(t) /\ (p + 1) - 1 = p
      BY <1>3, <3>1
    <3>3. b[i].l = mark.l
      BY <1>9, <3>1, <3>2 DEF Laid
    <3>4. ReadCell(mark.l, mark) = mark.l
      BY DEF ReadCell, PopInclude
    <3>5. QED
      BY <3>1, <3>3, <3>4
  <2>4. CASE i > n + 2
    <3>0. Len(s) \in Nat /\ i \in Nat /\ i <= n + 1 + Len(s)
      BY <1>3, <1>5
    <3>1. i - n - 1 \in 2..Len(s) /\ i - n - 2 \in 1..Len(s) /\ (i - 1) - n - 1 = i - n - 2
      BY ONLY <1>3, <2>4, <3>0
    <3>2. b[i] = s[i - n - 1] /\ b[i - 1] = s[i - n - 2]
      BY <1>3, <1>5, <2>4, <3>1
    <3>3. Laid(s)
      <4>1. p + 1 \in 1..Len(t) + 1 /\ Len(t) \in 0..Len(t)
        OBVIOUS
      <4>2. QED
        BY <1>1, <4>1, LaidPart
    <3>4. (i - n - 1) - 1 = i - n - 2
      BY <1>3, <2>4
    <3>5. QED
      BY <1>9, <3>1, <3>2, <3>3, <3>4 DEF Laid
  <2>5. QED
    BY <1>3, <1>5, <2>1, <2>2, <2>3, <2>4
<1>10. QED
  BY <1>1, <1>4, <1>9 DEF Laid

(* What an opened file leaves to read, and the line counted over it.        *)
LEMMA EnterReaches ==
  ASSUME NEW t \in Seq(Cell), Enter(t)
  PROVE  \E q \in 1..Len(t) + 1 :
           /\ rest' = SubSeq(t, q, Len(t))
           /\ q <= Len(t) => ~IsMark(t[q])
           /\ srcLine' = LineAfter(1, SubSeq(t, 1, IF q > Len(t) THEN Len(t) ELSE q))
<1> DEFINE n == Len(t)
<1>0. n \in Nat
  OBVIOUS
<1>1. PICK tail \in {Unmarked(t)} :
        /\ rest' = tail
        /\ srcLine' = LineAfter(1, SubSeq(t, 1, n - Len(tail) + (IF tail = <<>> THEN 0 ELSE 1)))
  BY DEF Enter
<1>2. PICK q \in 1..n + 1 : tail = SubSeq(t, q, n) /\ (q <= n => ~IsMark(t[q]))
  BY <1>1, UnmarkedPart
<1>3. Len(tail) = n - q + 1 /\ tail \in Seq(Cell)
  BY <1>0, <1>2
<1>4. n - Len(tail) + (IF tail = <<>> THEN 0 ELSE 1) = IF q > n THEN n ELSE q
  <2>1. tail = <<>> <=> Len(tail) = 0
    BY <1>3
  <2>2. CASE q > n
    BY <1>0, <1>2, <1>3, <2>1, <2>2
  <2>3. CASE ~(q > n)
    BY <1>0, <1>2, <1>3, <2>1, <2>3
  <2>4. QED
    BY <2>2, <2>3
<1>5. QED
  BY <1>1, <1>2, <1>4

(* The texts of an opened include.                                          *)
LEMMA OpenedParts ==
  ASSUME TypeInv, Opened
  PROVE  \E close \in 2..Len(rest), name \in DOMAIN disk, mark \in Cell, t \in Seq(Cell) :
           /\ optIncludes /\ IncDepth < MaxIncludeDepth
           /\ IsMark(mark) /\ mark.l = LineAfter(srcLine, SubSeq(rest, 2, close))
           /\ t = disk[name] \o <<mark>> \o SubSeq(rest, close + 1, Len(rest))
           /\ Enter(t)
<1>1. PICK close \in 2..Len(rest), name \in DOMAIN disk \cap Symbol :
        LET mark == [s |-> "EOF", f |-> name, l |-> LineAfter(srcLine, SubSeq(rest, 2, close))]
        IN /\ optIncludes /\ IncDepth < MaxIncludeDepth
           /\ Enter(disk[name] \o <<mark>> \o SubSeq(rest, close + 1, Len(rest)))
  BY Zenon DEF Opened
<1>2. rest \in Seq(Cell) /\ srcLine \in Lines
  BY DEF TypeInv, ScanSafe, TypeOK, Lines
<1>3. SubSeq(rest, 2, close) \in Seq(Cell) /\ SubSeq(rest, close + 1, Len(rest)) \in Seq(Cell)
  BY <1>2
<1>4. PICK l \in Lines : l = LineAfter(srcLine, SubSeq(rest, 2, close))
  BY <1>2, <1>3, LineAfterLine
<1>5. PICK mark \in Cell : mark = [s |-> "EOF", f |-> name, l |-> l] /\ mark.l = l /\ IsMark(mark)
  <2>1. [s |-> "EOF", f |-> name, l |-> l] \in Cell
    <3>1. name \in Symbol
      OBVIOUS
    <3>2. "EOF" \in Symbol
      BY DEF Symbol
    <3>3. l \in Nat \ {0}
      BY Zenon DEF Lines
    <3>4. QED
      BY ONLY <3>1, <3>2, <3>3 DEF Cell
  <2>2. QED
    BY <2>1 DEF IsMark
<1>6. disk[name] \in Seq(Cell)
  BY DiskText DEF TypeInv, Unread
<1>7. PICK s \in Seq(Cell) : s = SubSeq(rest, close + 1, Len(rest))
  BY <1>3
<1>8. PICK d \in Seq(Cell) : d = disk[name]
  BY <1>6
<1>9. d \o <<mark>> \o s \in Seq(Cell)
  BY ONLY d \in Seq(Cell), s \in Seq(Cell), mark \in Cell
<1>10. Enter(disk[name] \o <<mark>> \o SubSeq(rest, close + 1, Len(rest)))
  BY <1>1, <1>4, <1>5, Zenon
<1>11. QED
  BY <1>1, <1>4, <1>5, <1>7, <1>8, <1>9, <1>10

(* Reading on, the compiler keeps a line and a text; its marks stay within  *)
(* the limit and none is at the head.                                       *)
LEMMA MovesSafe ==
  ASSUME TypeInv, Stands \/ Reads \/ Opened
  PROVE  /\ rest' \in Seq(Cell) /\ srcLine' \in Nat \ {0}
         /\ IncDepth' <= MaxIncludeDepth
         /\ rest' # <<>> => ~IsMark(Head(rest'))
<1>0. /\ rest \in Seq(Cell) /\ srcLine \in Lines /\ IncDepth <= MaxIncludeDepth
      /\ rest # <<>> => ~IsMark(Head(rest))
  BY DEF TypeInv, ScanSafe, TypeOK, Lines
<1>1. IncDepth = Cardinality(Marks(rest)) /\ IncDepth' = Cardinality(Marks(rest'))
  BY DEF IncDepth, Marks
<1>2. IncDepth \in Nat /\ MaxIncludeDepth \in Nat
  BY <1>0, <1>1, MarksFinite, LimitAssumption
<1>3. CASE Stands
  <2>1. rest' = rest /\ srcLine' = srcLine
    BY <1>3 DEF Stands
  <2>2. IncDepth' = IncDepth
    BY <1>1, <2>1
  <2>3. QED
    BY <1>0, <2>1, <2>2 DEF Lines
<1>4. ASSUME NEW t \in Seq(Cell), NEW q \in 1..Len(t) + 1, rest' = SubSeq(t, q, Len(t)),
             q <= Len(t) => ~IsMark(t[q])
      PROVE  /\ rest' \in Seq(Cell) /\ (rest' # <<>> => ~IsMark(Head(rest')))
             /\ IncDepth' <= Cardinality(Marks(t)) /\ IncDepth' \in Nat
  <2>1. PICK s : s = SubSeq(t, q, Len(t))
    OBVIOUS
  <2>2. s \in Seq(Cell) /\ Len(s) = Len(t) - q + 1 /\ (s # <<>> => q <= Len(t) /\ Head(s) = t[q])
    BY <2>1
  <2>3. Cardinality(Marks(s)) <= Cardinality(Marks(t)) /\ Cardinality(Marks(s)) \in Nat
    BY <2>1, <2>2, MarksOfRest, MarksFinite
  <2>4. rest' = s
    BY <1>4, <2>1
  <2>5. QED
    BY <1>1, <1>4, <2>2, <2>3, <2>4
<1>5. CASE Reads
  <2>1. PICK k \in 1..Len(rest) : ReadCh(k)
    BY <1>5 DEF Reads
  <2>2. k \in 0..Len(rest)
    BY <1>0
  <2>3. PICK q \in k + 1..Len(rest) + 1 : Reached(k, q)
    BY <1>0, <2>1, <2>2, ReadChReaches
  <2>4. /\ q \in 1..Len(rest) + 1 /\ rest' = SubSeq(rest, q, Len(rest)) /\ (q <= Len(rest) => ~IsMark(rest[q]))
        /\ srcLine' = LineAfter(srcLine, SubSeq(rest, 2, IF q > Len(rest) THEN Len(rest) ELSE q))
    BY <1>0, <2>3 DEF Reached
  <2>5. SubSeq(rest, 2, IF q > Len(rest) THEN Len(rest) ELSE q) \in Seq(Cell)
    BY <1>0, <2>4
  <2>6. srcLine' \in Lines
    BY <1>0, <2>4, <2>5, LineAfterLine
  <2>7. /\ rest' \in Seq(Cell) /\ (rest' # <<>> => ~IsMark(Head(rest')))
        /\ IncDepth' <= Cardinality(Marks(rest)) /\ IncDepth' \in Nat
    BY <1>0, <1>4, <2>4
  <2>8. IncDepth' <= MaxIncludeDepth
    BY <1>0, <1>1, <1>2, <2>7
  <2>9. QED
    BY <2>6, <2>7, <2>8 DEF Lines
<1>6. CASE Opened
  <2>1. PICK close \in 2..Len(rest), name \in DOMAIN disk, mark \in Cell, t \in Seq(Cell) :
           /\ optIncludes /\ IncDepth < MaxIncludeDepth
           /\ IsMark(mark) /\ mark.l = LineAfter(srcLine, SubSeq(rest, 2, close))
           /\ t = disk[name] \o <<mark>> \o SubSeq(rest, close + 1, Len(rest))
           /\ Enter(t)
    BY <1>6, OpenedParts
  <2>2. PICK q \in 1..Len(t) + 1 :
           /\ rest' = SubSeq(t, q, Len(t))
           /\ q <= Len(t) => ~IsMark(t[q])
           /\ srcLine' = LineAfter(1, SubSeq(t, 1, IF q > Len(t) THEN Len(t) ELSE q))
    BY <2>1, EnterReaches
  <2>3. SubSeq(t, 1, IF q > Len(t) THEN Len(t) ELSE q) \in Seq(Cell) /\ 1 \in Lines
    BY ONLY t \in Seq(Cell), q \in 1..Len(t) + 1 DEF Lines
  <2>4. srcLine' \in Lines
    BY <2>2, <2>3, LineAfterLine
  <2>5. /\ rest' \in Seq(Cell) /\ (rest' # <<>> => ~IsMark(Head(rest')))
        /\ IncDepth' <= Cardinality(Marks(t)) /\ IncDepth' \in Nat
    BY <1>4, <2>1, <2>2
  <2>6. Cardinality(Marks(t)) <= Cardinality(Marks(rest)) + 1
    <3>1. Unread(disk[name])
      BY DiskText DEF TypeInv
    <3>2. close + 1 \in 1..Len(rest) + 1
      BY <1>0
    <3>3. QED
      BY <1>0, <2>1, <3>1, <3>2, MarksEntered
  <2>7. Cardinality(Marks(t)) \in Nat
    BY <2>1, MarksFinite
  <2>8. IncDepth' <= MaxIncludeDepth
    BY <1>1, <1>2, <2>1, <2>5, <2>6, <2>7
  <2>9. QED
    BY <2>4, <2>5, <2>8 DEF Lines
<1>7. QED
  BY <1>3, <1>5, <1>6

(* With -I the text still stands where it should, and the line is that of   *)
(* its head.                                                                *)
LEMMA MovesLaid ==
  ASSUME TypeInv, LinesInv, phase = "direct", rest # <<>> \/ Stands, Stands \/ Reads \/ Opened
  PROVE  Laid(rest') /\ (rest' # <<>> => srcLine' = ReadCell(Head(rest').l, Head(rest')))
<1>0. rest \in Seq(Cell) /\ Laid(rest) /\ (rest # <<>> => srcLine = ReadCell(Head(rest).l, Head(rest)))
  BY DEF TypeInv, ScanSafe, LinesInv
<1>1. CASE Stands
  BY <1>0, <1>1 DEF Stands
<1>2. ASSUME NEW t \in Seq(Cell), Laid(t), NEW q \in 1..Len(t) + 1, rest' = SubSeq(t, q, Len(t))
      PROVE  Laid(rest') /\ (rest' # <<>> => q <= Len(t) /\ Head(rest') = t[q])
  <2>1. PICK s : s = SubSeq(t, q, Len(t))
    OBVIOUS
  <2>2. s # <<>> => q <= Len(t) /\ Head(s) = t[q]
    BY <2>1
  <2>3. Len(t) \in 0..Len(t)
    OBVIOUS
  <2>4. Laid(s)
    BY <1>2, <2>1, <2>3, LaidPart
  <2>5. rest' = s
    BY <1>2, <2>1
  <2>6. QED
    BY <2>2, <2>4, <2>5
<1>3. ASSUME rest # <<>>, NEW m \in 2..Len(rest)
      PROVE  LineAfter(srcLine, SubSeq(rest, 2, m)) = ReadCell(rest[m].l, rest[m])
  <2>1. PICK s : s = SubSeq(rest, 2, m)
    OBVIOUS
  <2>2. s \in Seq(Cell) /\ Len(s) = m - 1 /\ s[1] = rest[2] /\ s[m - 1] = rest[m] /\ s # <<>>
    BY <1>0, <2>1
  <2>3. Laid(s)
    <3>1. 2 \in 1..Len(rest) + 1 /\ m \in 0..Len(rest)
      BY <1>0
    <3>2. QED
      BY <1>0, <2>1, <3>1, LaidPart
  <2>4. ~IsMark(s[1]) => s[1].l = srcLine
    <3>1. Head(rest) = rest[1] /\ 2 \in 2..Len(rest) /\ 2 - 1 = 1
      BY <1>0, <1>3
    <3>2. QED
      BY <1>0, <1>3, <2>2, <3>1 DEF Laid
  <2>5. QED
    BY <2>1, <2>2, <2>3, <2>4, LineAfterLaid
<1>4. CASE Reads /\ rest # <<>>
  <2>1. PICK k \in 1..Len(rest) : ReadCh(k)
    BY <1>4 DEF Reads
  <2>2. k \in 0..Len(rest)
    BY <1>0
  <2>3. PICK q \in k + 1..Len(rest) + 1 : Reached(k, q)
    BY <1>0, <2>1, <2>2, ReadChReaches
  <2>4. /\ q \in 1..Len(rest) + 1 /\ q >= 2 /\ rest' = SubSeq(rest, q, Len(rest))
        /\ srcLine' = LineAfter(srcLine, SubSeq(rest, 2, IF q > Len(rest) THEN Len(rest) ELSE q))
    BY <1>0, <2>3 DEF Reached
  <2>5. Laid(rest') /\ (rest' # <<>> => q <= Len(rest) /\ Head(rest') = rest[q])
    BY <1>0, <1>2, <2>4
  <2>6. ASSUME rest' # <<>> PROVE srcLine' = ReadCell(Head(rest').l, Head(rest'))
    <3>1. q \in 2..Len(rest) /\ (IF q > Len(rest) THEN Len(rest) ELSE q) = q
      BY <1>0, <2>4, <2>5, <2>6
    <3>2. srcLine' = LineAfter(srcLine, SubSeq(rest, 2, q))
      BY <2>4, <3>1
    <3>3. QED
      BY <1>3, <1>4, <2>5, <2>6, <3>1, <3>2
  <2>7. QED
    BY <2>5, <2>6
<1>5. CASE Opened /\ rest # <<>>
  <2>1. PICK close \in 2..Len(rest), name \in DOMAIN disk, mark \in Cell, t \in Seq(Cell) :
           /\ IsMark(mark) /\ mark.l = LineAfter(srcLine, SubSeq(rest, 2, close))
           /\ t = disk[name] \o <<mark>> \o SubSeq(rest, close + 1, Len(rest))
           /\ Enter(t)
    BY <1>5, OpenedParts
  <2>2. mark.l = ReadCell(rest[close].l, rest[close])
    BY <1>3, <1>5, <2>1
  <2>3. IsFile(disk[name]) /\ close \in 1..Len(rest)
    BY <1>0, DiskText DEF TypeInv
  <2>4. Laid(t)
    BY <1>0, <2>1, <2>2, <2>3, LaidEntered
  <2>5. PICK q \in 1..Len(t) + 1 :
           /\ rest' = SubSeq(t, q, Len(t))
           /\ q <= Len(t) => ~IsMark(t[q])
           /\ srcLine' = LineAfter(1, SubSeq(t, 1, IF q > Len(t) THEN Len(t) ELSE q))
    BY <2>1, EnterReaches
  <2>6. Laid(rest') /\ (rest' # <<>> => q <= Len(t) /\ Head(rest') = t[q])
    BY <1>2, <2>1, <2>4, <2>5
  <2>7. ASSUME rest' # <<>> PROVE srcLine' = ReadCell(Head(rest').l, Head(rest'))
    <3>1. q \in 1..Len(t) /\ (IF q > Len(t) THEN Len(t) ELSE q) = q
      BY ONLY t \in Seq(Cell), q \in 1..Len(t) + 1, <2>6, <2>7
    <3>2. PICK s : s = SubSeq(t, 1, q)
      OBVIOUS
    <3>3. s \in Seq(Cell) /\ Len(s) = q /\ s[1] = t[1] /\ s[q] = t[q] /\ s # <<>>
      BY ONLY t \in Seq(Cell), <3>1, <3>2
    <3>4. Laid(s)
      <4>1. 1 \in 1..Len(t) + 1 /\ q \in 0..Len(t)
        BY ONLY t \in Seq(Cell), <3>1
      <4>2. QED
        BY <2>1, <2>4, <3>2, <4>1, LaidPart
    <3>5. ~IsMark(t[1]) => t[1].l = 1
      <4>1. PICK d \in Seq(Cell) : d = disk[name]
        BY <2>3 DEF IsFile
      <4>1a. SubSeq(rest, close + 1, Len(rest)) \in Seq(Cell)
        <5>1. rest \in Seq(Cell) /\ close \in 1..Len(rest)
          BY ONLY <1>0, <2>3
        <5>2. QED
          BY ONLY <5>1
      <4>2. PICK u \in Seq(Cell) : u = SubSeq(rest, close + 1, Len(rest))
        BY <4>1a
      <4>3. t = d \o <<mark>> \o u
        BY <2>1, <4>1, <4>2
      <4>3a. t[Len(d) + 1] = mark /\ \A i \in 1..Len(d) : t[i] = d[i]
        BY ONLY d \in Seq(Cell), u \in Seq(Cell), <4>3, mark \in Cell, JoinedParts
      <4>4. t[1] = IF d = <<>> THEN mark ELSE d[1]
        BY ONLY d \in Seq(Cell), <4>3a
      <4>5. QED
        BY <2>1, <2>3, <4>1, <4>4 DEF IsFile
    <3>6. LineAfter(1, s) = ReadCell(s[Len(s)].l, s[Len(s)])
      BY <3>3, <3>4, <3>5, LineAfterLaid
    <3>7. QED
      BY <2>5, <2>6, <2>7, <3>1, <3>2, <3>3, <3>6
  <2>8. QED
    BY <2>6, <2>7
<1>6. QED
  BY <1>1, <1>4, <1>5

(* What the scanner knows besides the text and the line.                    *)
KnownSafe ==
  /\ ifdefActive \in Seq(BOOLEAN) /\ Len(ifdefActive) <= MaxIfdefDepth
  /\ definedSyms \in SUBSET (Symbol \ {"none", "rbrace"})
  /\ tokens \in Seq(Cell)
  /\ skipDepth \in Nat
  /\ status = "skipping" => ifdefActive # <<>>

(* Every step of the scanner keeps it within its limits; in an inactive     *)
(* block there is a conditional that is open.                               *)
LEMMA ScanKnows ==
  ASSUME TypeInv, ScanNext
  PROVE  KnownSafe' /\ optIncludes' = optIncludes
<1>0. KnownSafe
  BY DEF TypeInv, TypeOK, ScanSafe, KnownSafe
<1>0a. rest \in Seq(Cell) /\ Len(rest) \in Nat /\ MaxIfdefDepth \in Nat
  BY LimitAssumption DEF TypeInv, ScanSafe
<1>1. ASSUME NEW why, Error(why), why # "skipping" PROVE KnownSafe' /\ optIncludes' = optIncludes
  BY <1>0, <1>1 DEF Error, KnownSafe
<1>2. ASSUME UNCHANGED <<optIncludes, definedSyms, ifdefActive, skipDepth, tokens, status>>
      PROVE  KnownSafe' /\ optIncludes' = optIncludes
  BY <1>0, <1>2 DEF KnownSafe
<1>3. ASSUME NEW k, Skip(k) PROVE KnownSafe' /\ optIncludes' = optIncludes
  BY <1>2, <1>3 DEF Skip
<1>4. ASSUME NEW k \in 0..Len(rest), Deliver(k) PROVE KnownSafe' /\ optIncludes' = optIncludes
  <2>1. /\ tokens' = tokens \o Cells(k)
        /\ UNCHANGED <<optIncludes, definedSyms, ifdefActive, skipDepth, status, passedBy>>
    BY <1>4 DEF Deliver
  <2>2. PICK c \in Seq(Cell) : c = Cells(k)
    BY <1>0a, <1>4, CellsRead
  <2>3. tokens' \in Seq(Cell)
    BY <1>0, <2>1, <2>2 DEF KnownSafe
  <2>4. QED
    BY <1>0, <2>1, <2>3 DEF KnownSafe
<1>5. ASSUME NEW S, Through(S) PROVE KnownSafe' /\ optIncludes' = optIncludes
  BY <1>1, <1>3, <1>5 DEF Through
<1>6. CASE Whitespace
  BY <1>3, <1>6 DEF Whitespace
<1>7. CASE BraceComment
  BY <1>5, <1>7 DEF BraceComment
<1>8. CASE ParenComment
  BY <1>5, <1>8 DEF ParenComment
<1>9. CASE LineComment
  BY <1>3, <1>9 DEF LineComment
<1>10. CASE StringToken
  <2>1. PICK e \in {StringEnd(rest, 1)} : rest # <<>> /\ IF e > Len(rest) THEN Error("unterminated-string") ELSE Deliver(e)
    BY <1>10 DEF StringToken, Reading
  <2>2. 1 \in Nat /\ 1 <= Len(rest)
    BY <1>0a, <2>1
  <2>3. e \in 2..Len(rest) + 1
    BY <1>0a, <2>2, StringEndFound
  <2>4. ~(e > Len(rest)) => e \in 0..Len(rest)
    BY <1>0a, <2>3
  <2>5. QED
    BY <1>1, <1>4, <2>1, <2>4
<1>11. CASE Token
  <2>1. Deliver(1) /\ 1 \in 0..Len(rest)
    BY <1>0a, <1>11 DEF Token, Reading
  <2>2. QED
    BY <1>4, <2>1
<1>12. CASE OpenInclude
  <2>1. \/ \E why : Error(why) /\ why # "skipping"
        \/ \E k : Skip(k)
        \/ UNCHANGED <<optIncludes, definedSyms, ifdefActive, skipDepth, tokens, status>>
    <3>1. "bad-directive" # "skipping" /\ "unterminated" # "skipping" /\ "too-deep" # "skipping"
          /\ "cycle" # "skipping" /\ "not-found" # "skipping"
      OBVIOUS
    <3>2. QED
      BY <1>12, <3>1, Zenon DEF OpenInclude
  <2>2. QED
    BY <1>1, <1>2, <1>3, <2>1
<1>13. CASE Define
  <2>1. CASE Error("no-name") \/ Error("unterminated")
    BY <1>1, <2>1
  <2>2. CASE /\ Word # "none" /\ ~(Close > Len(rest))
             /\ definedSyms' = IF Directive = "DEFINE" THEN definedSyms \cup {Word} ELSE definedSyms \ {Word}
             /\ UNCHANGED <<optIncludes, ifdefActive, skipDepth, tokens, status, passedBy>>
    <3>1. Len(rest) > 1
      BY <1>13, DirectiveKinds DEF Define
    <3>2. Word \in Symbol \ {"none", "rbrace"}
      <4> DEFINE p == FirstNot(rest, 3, Blanks)
      <4>1. p \in 3..Len(rest) + 1
        <5>1. 3 \in Nat /\ 3 <= Len(rest) + 1
          BY <1>0a, <3>1
        <5>2. QED
          BY <1>0a, <5>1, FirstNotFound
      <4> HIDE DEF p
      <4>2. Word = IF p > Len(rest) \/ rest[p].s = "rbrace" THEN "none" ELSE rest[p].s
        BY DEF Word, p
      <4>3. ~(p > Len(rest)) /\ rest[p].s # "rbrace" /\ Word = rest[p].s
        BY <2>2, <4>2
      <4>4. rest[p] \in Cell
        BY <1>0a, <4>1, <4>3
      <4>5. rest[p].s \in Symbol
        BY <4>4 DEF Cell
      <4>6. QED
        BY <2>2, <4>3, <4>5
    <3>3. definedSyms' \in SUBSET (Symbol \ {"none", "rbrace"})
      BY <1>0, <2>2, <3>2 DEF KnownSafe
    <3>4. QED
      BY <1>0, <2>2, <3>3 DEF KnownSafe
  <2>3. QED
    BY <1>13, <2>1, <2>2 DEF Define
<1>14. CASE IfDef
  <2>1. CASE Error("too-many-nested")
    BY <1>1, <2>1
  <2>2. CASE ~(Len(ifdefActive) >= MaxIfdefDepth)
    <3>1. PICK b \in BOOLEAN : /\ ifdefActive' = Append(ifdefActive, b) /\ skipDepth' = 0
                               /\ UNCHANGED <<optIncludes, definedSyms, tokens>>
      <4>1. (Word \in definedSyms <=> Directive = "IFDEF") \in BOOLEAN
        OBVIOUS
      <4>2. QED
        BY <1>14, <2>2, <4>1 DEF IfDef, Keep
    <3>2. Len(ifdefActive') = Len(ifdefActive) + 1 /\ ifdefActive' \in Seq(BOOLEAN) /\ ifdefActive' # <<>>
          /\ Len(ifdefActive) \in Nat
      <4>1. ifdefActive \in Seq(BOOLEAN)
        BY <1>0 DEF KnownSafe
      <4>2. QED
        BY ONLY <3>1, <4>1, AppendProperties
    <3>3. Len(ifdefActive') <= MaxIfdefDepth
      BY <1>0a, <2>2, <3>2
    <3>4. QED
      BY <1>0, <3>1, <3>2, <3>3 DEF KnownSafe
  <2>3. QED
    BY <1>14, <2>1, <2>2 DEF IfDef
<1>15. CASE Else
  <2>1. CASE Error("else-without-ifdef") \/ Error("unterminated")
    BY <1>1, <2>1
  <2>2. CASE Skip(3)
    BY <1>3, <2>2
  <2>3. CASE /\ ifdefActive # <<>> /\ skipDepth' = 0 /\ UNCHANGED <<optIncludes, definedSyms, ifdefActive, tokens>>
    BY <1>0, <2>3 DEF KnownSafe
  <2>4. QED
    BY <1>15, <2>1, <2>2, <2>3 DEF Else, Keep
<1>f. ASSUME ifdefActive # <<>>
      PROVE  Front(ifdefActive) \in Seq(BOOLEAN) /\ Len(Front(ifdefActive)) <= MaxIfdefDepth
  <2>1. ifdefActive \in Seq(BOOLEAN) /\ Len(ifdefActive) <= MaxIfdefDepth
    BY <1>0 DEF KnownSafe
  <2>2. QED
    BY <1>0a, <1>f, <2>1 DEF Front
<1>16. CASE EndIf
  <2>1. CASE Error("endif-without-ifdef") \/ Error("unterminated")
    BY <1>1, <2>1
  <2>2. CASE /\ ifdefActive # <<>> /\ ifdefActive' = Front(ifdefActive)
             /\ UNCHANGED <<optIncludes, definedSyms, skipDepth, tokens, status>> /\ status = "scanning"
    BY <1>0, <1>f, <2>2 DEF KnownSafe
  <2>3. QED
    BY <1>16, <2>1, <2>2 DEF EndIf, Keep, Reading
<1>17. CASE EndOfSource
  BY <1>1, <1>17 DEF EndOfSource
<1>18. CASE SkipText
  BY <1>2, <1>18 DEF SkipText
<1>19. CASE SkipNested
  <2>1. /\ Conditional /\ ~EndsBlock /\ UNCHANGED <<optIncludes, definedSyms, ifdefActive, tokens, status>>
        /\ skipDepth' = CASE Directive = "ENDIF" -> skipDepth - 1 [] Directive = "ELSE" -> skipDepth [] OTHER -> skipDepth + 1
    BY <1>19 DEF SkipNested
  <2>2. skipDepth \in Nat /\ (Directive = "ENDIF" => skipDepth # 0)
    BY <1>0, <2>1 DEF KnownSafe, EndsBlock, Conditional
  <2>3. skipDepth' \in Nat
    <3>1. CASE Directive = "ENDIF"
      BY <2>1, <2>2, <3>1
    <3>2. CASE Directive = "ELSE"
      BY <2>1, <2>2, <3>2
    <3>3. CASE Directive # "ELSE" /\ Directive # "ENDIF"
      BY <2>1, <2>2, <3>3
    <3>4. QED
      BY <3>1, <3>2, <3>3
  <2>4. QED
    BY <1>0, <2>1, <2>3 DEF KnownSafe
<1>20. CASE SkipEnds
  <2>1. CASE Error("duplicate-else")
    BY <1>1, <2>1
  <2>2. CASE /\ ifdefActive' = IF Directive = "ELSE" THEN ifdefActive ELSE Front(ifdefActive)
             /\ status' = "scanning" /\ UNCHANGED <<optIncludes, definedSyms, skipDepth, tokens>>
    <3>1. ifdefActive # <<>>
      BY <1>0, <1>20 DEF SkipEnds, Skipping, KnownSafe
    <3>2. QED
      BY <1>0, <1>f, <2>2, <3>1 DEF KnownSafe
  <2>3. QED
    BY <1>20, <2>1, <2>2 DEF SkipEnds, Keep
<1>21. CASE SkipUnterminated
  BY <1>1, <1>21 DEF SkipUnterminated
<1>22. QED
  BY <1>6, <1>7, <1>8, <1>9, <1>10, <1>11, <1>12, <1>13, <1>14, <1>15, <1>16, <1>17, <1>18, <1>19, <1>20, <1>21, Zenon
     DEF ScanNext

-----------------------------------------------------------------------------
(* Types and lines.                                                        *)

(* TypeInv, part by part.                                                   *)
LEMMA TypeParts ==
  TypeInv <=> /\ disk \in Disks /\ phase \in {"expand", "compile", "direct", "finished"}
              /\ FramesSafe /\ FramesWithin /\ outcome \in Outcomes
              /\ KnownSafe
              /\ rest \in Seq(Cell) /\ srcLine \in Nat \ {0} /\ IncDepth <= MaxIncludeDepth
              /\ rest # <<>> => ~IsMark(Head(rest))
              /\ phase = "expand" => rest = <<>>
              /\ phase \in {"compile", "direct"} => optIncludes = (phase = "direct")
BY DEF TypeInv, TypeOK, ScanSafe, FramesWithin, KnownSafe, Outcomes

(* A text that is given to the compiler.                                    *)
LEMMA ReadSafe ==
  ASSUME NEW text, Unread(text), NEW includes, Read(text, includes)
  PROVE  /\ rest' \in Seq(Cell) /\ srcLine' \in Nat \ {0} /\ IncDepth' <= MaxIncludeDepth
         /\ rest' # <<>> => ~IsMark(Head(rest'))
         /\ KnownSafe' /\ optIncludes' = includes /\ rest' = text
<1>1. /\ rest' = text /\ srcLine' = IF text = <<>> THEN 1 ELSE ReadCell(1, Head(text))
      /\ optIncludes' = includes
      /\ definedSyms' = {} /\ ifdefActive' = <<>> /\ skipDepth' = 0
      /\ tokens' = <<>> /\ status' = "scanning"
  BY DEF Read
<1>2. text \in Seq(Cell) /\ (text # <<>> => Head(text) \in Cell /\ ~IsMark(Head(text)))
  BY DEF Unread, IsMark
<1>3. srcLine' \in Lines
  <2>1. 1 \in Lines
    BY DEF Lines
  <2>2. QED
    BY <1>1, <1>2, <2>1, ReadCellLine
<1>4. IncDepth' <= MaxIncludeDepth
  <2>1. Marks(rest') = {}
    BY <1>1 DEF Unread, Marks, IsMark
  <2>2. IncDepth' = Cardinality(Marks(rest'))
    BY DEF IncDepth, Marks
  <2>3. Cardinality(Marks(rest')) = 0
    BY <2>1, FS_EmptySet
  <2>4. QED
    BY <2>2, <2>3, LimitAssumption
<1>5. KnownSafe'
  BY <1>1, LimitAssumption DEF KnownSafe
<1>6. QED
  BY <1>1, <1>2, <1>3, <1>4, <1>5 DEF Lines

(* The first state is one of those.                                         *)
LEMMA InitTypes == Init => TypeInv
<1> SUFFICES ASSUME Init PROVE TypeInv
  OBVIOUS
<1>1. /\ disk \in Disks /\ phase = "expand" /\ ExpandInit(disk[Main]) /\ ScanInit(<<>>, FALSE)
  BY DEF Init
<1>2. Main \in DOMAIN disk
  BY <1>1, DisksAssumption
<1>3. Unread(disk[Main])
  BY <1>1, <1>2, DiskText
<1>4. PICK text \in Seq(Cell) : text = disk[Main] /\ Unread(text)
  BY <1>3 DEF Unread
<1>5. frames = <<[text |-> text, pos |-> 1]>> /\ buffer = <<>> /\ outcome = "running"
  BY <1>1, <1>4 DEF ExpandInit
<1>6. PICK F \in Frames : F = [text |-> text, pos |-> 1] /\ F.text = text /\ F.pos = 1
  <2>1. [text |-> text, pos |-> 1] \in Frames
    BY ONLY text \in Seq(Cell) DEF Frames
  <2>2. QED
    BY ONLY <2>1
<1>7. frames = <<F>> /\ frames \in Seq(Frames) /\ Len(frames) = 1 /\ frames[1] = F /\ DOMAIN frames = {1} /\ frames # <<>>
  BY <1>5, <1>6
<1>8. Unread(buffer)
  BY <1>5 DEF Unread
<1>9. FramesSafe /\ FramesWithin /\ outcome \in Outcomes
  <2>1. Len(text) \in Nat
    BY <1>4
  <2>2. 1 <= MaxExpandDepth + 1
    BY DepthAssumption
  <2>3. \A i \in DOMAIN frames : Unread(frames[i].text) /\ frames[i].pos \in 1..(Len(frames[i].text) + 1)
    BY <1>4, <1>6, <1>7, <2>1
  <2>4. QED
    BY <1>5, <1>7, <1>8, <2>2, <2>3 DEF FramesSafe, FramesWithin, Outcomes, Frames
<1>10. /\ rest = <<>> /\ srcLine = 1 /\ definedSyms = {} /\ ifdefActive = <<>> /\ skipDepth = 0
       /\ tokens = <<>> /\ status = "scanning"
  BY <1>1 DEF ScanInit
<1>11. KnownSafe /\ rest \in Seq(Cell) /\ srcLine \in Nat \ {0}
  BY <1>10, LimitAssumption DEF KnownSafe
<1>12. IncDepth <= MaxIncludeDepth
  <2>1. Marks(rest) = {} /\ IncDepth = Cardinality(Marks(rest))
    BY <1>10 DEF Marks, IncDepth
  <2>2. QED
    BY <2>1, FS_EmptySet, LimitAssumption
<1>13. QED
  BY <1>1, <1>9, <1>10, <1>11, <1>12, TypeParts

(* A step leads from such a state to one, and the line stays true.          *)
LEMMA NextTypes ==
  ASSUME TypeInv, LinesInv, [Next]_vars
  PROVE  TypeInv' /\ LinesInv'
<1>0. /\ disk \in Disks /\ phase \in {"expand", "compile", "direct", "finished"}
      /\ FramesSafe /\ FramesWithin /\ outcome \in Outcomes
      /\ KnownSafe
      /\ rest \in Seq(Cell) /\ srcLine \in Nat \ {0} /\ IncDepth <= MaxIncludeDepth
      /\ rest # <<>> => ~IsMark(Head(rest))
      /\ phase = "expand" => rest = <<>>
      /\ phase \in {"compile", "direct"} => optIncludes = (phase = "direct")
  BY TypeParts
<1>t. ASSUME /\ disk' \in Disks /\ phase' \in {"expand", "compile", "direct", "finished"}
             /\ FramesSafe' /\ FramesWithin' /\ outcome' \in Outcomes
             /\ KnownSafe'
             /\ rest' \in Seq(Cell) /\ srcLine' \in Nat \ {0} /\ IncDepth' <= MaxIncludeDepth
             /\ rest' # <<>> => ~IsMark(Head(rest'))
             /\ phase' = "expand" => rest' = <<>>
             /\ phase' \in {"compile", "direct"} => optIncludes' = (phase' = "direct")
      PROVE  TypeInv'
  BY <1>t DEF TypeInv, TypeOK, ScanSafe, FramesWithin, KnownSafe, Outcomes
<1>u. UNCHANGED <<frames, buffer, outcome>> => FramesSafe' /\ FramesWithin' /\ outcome' \in Outcomes
  BY <1>0 DEF FramesSafe, FramesWithin
<1>v. UNCHANGED scanVars => /\ KnownSafe' /\ rest' \in Seq(Cell) /\ srcLine' \in Nat \ {0}
                            /\ IncDepth' <= MaxIncludeDepth /\ (rest' # <<>> => ~IsMark(Head(rest')))
                            /\ rest' = rest /\ optIncludes' = optIncludes /\ srcLine' = srcLine
  BY <1>0 DEF scanVars, KnownSafe, IncDepth
<1>w. ASSUME NEW name \in DOMAIN disk, Read(disk[name], TRUE)
      PROVE  Laid(rest') /\ (rest' # <<>> => srcLine' = ReadCell(Head(rest').l, Head(rest')))
  <2>1. IsFile(disk[name])
    BY <1>0, DiskText
  <2>2. PICK text \in Seq(Cell) : text = disk[name] /\ IsFile(text)
    BY <2>1 DEF IsFile
  <2>3. rest' = text /\ srcLine' = IF text = <<>> THEN 1 ELSE ReadCell(1, Head(text))
    BY <1>w, <2>2 DEF Read
  <2>4. Laid(text)
    BY <2>2 DEF Laid, IsFile
  <2>5. text # <<>> => Head(text).l = 1
    BY <2>2 DEF IsFile
  <2>6. QED
    BY <2>3, <2>4, <2>5
<1>m. Main \in DOMAIN disk /\ Unread(disk[Main])
  BY <1>0, DisksAssumption, DiskText
<1>1. CASE UNCHANGED vars
  <2>1. UNCHANGED <<disk, phase>> /\ UNCHANGED <<frames, buffer, outcome>> /\ UNCHANGED scanVars
    BY <1>1 DEF vars, expandVars
  <2>2. TypeInv'
    BY <1>0, <1>t, <1>u, <1>v, <2>1
  <2>3. LinesInv'
    BY <1>v, <2>1 DEF LinesInv, Laid
  <2>4. QED
    BY <2>2, <2>3
<1>2. CASE Expand
  <2>1. ExpandNext /\ phase = "expand" /\ UNCHANGED <<disk, phase>> /\ UNCHANGED scanVars
    BY <1>2 DEF Expand
  <2>2. FramesSafe' /\ FramesWithin' /\ outcome' \in Outcomes
    BY <1>0, <2>1, ExpandSafe
  <2>3. TypeInv'
    BY <1>0, <1>t, <1>v, <2>1, <2>2
  <2>4. QED
    BY <2>1, <2>3 DEF LinesInv
<1>3. CASE HandOver
  <2>1. /\ phase = "expand" /\ disk' = disk /\ UNCHANGED <<frames, buffer, outcome>>
        /\ \/ phase' = "compile" /\ Read(buffer, FALSE)
           \/ phase' = "direct" /\ Read(disk[Main], TRUE)
    BY <1>3 DEF HandOver, expandVars
  <2>2. Unread(buffer)
    BY <1>0 DEF FramesSafe
  <2>3. CASE phase' = "compile" /\ Read(buffer, FALSE)
    <3>1. TypeInv'
      BY <1>0, <1>t, <1>u, <2>1, <2>2, <2>3, ReadSafe
    <3>2. QED
      BY <2>3, <3>1 DEF LinesInv
  <2>4. CASE phase' = "direct" /\ Read(disk[Main], TRUE)
    <3>1. TypeInv'
      BY <1>0, <1>m, <1>t, <1>u, <2>1, <2>4, ReadSafe
    <3>2. QED
      BY <1>m, <1>w, <2>4, <3>1 DEF LinesInv
  <2>5. QED
    BY <2>1, <2>3, <2>4
<1>4. CASE Scan
  <2>1. phase \in {"compile", "direct"} /\ ScanNext /\ UNCHANGED <<disk, phase>> /\ UNCHANGED <<frames, buffer, outcome>>
    BY <1>4 DEF Scan, expandVars
  <2>2. Stands \/ Reads \/ Opened
    BY <2>1, ScanMoves
  <2>3. KnownSafe' /\ optIncludes' = optIncludes
    BY <2>1, ScanKnows
  <2>4. /\ rest' \in Seq(Cell) /\ srcLine' \in Nat \ {0} /\ IncDepth' <= MaxIncludeDepth
        /\ rest' # <<>> => ~IsMark(Head(rest'))
    BY <2>2, MovesSafe
  <2>5. TypeInv'
    BY <1>0, <1>t, <1>u, <2>1, <2>3, <2>4
  <2>6. rest # <<>> \/ Stands
    <3>1. CASE Reads /\ rest = <<>>
      BY <3>1 DEF Reads
    <3>2. CASE Opened /\ rest = <<>>
      BY <3>2, OpenedParts
    <3>3. QED
      BY <2>2, <3>1, <3>2
  <2>7. phase = "direct" => Laid(rest') /\ (rest' # <<>> => srcLine' = ReadCell(Head(rest').l, Head(rest')))
    BY <2>2, <2>6, MovesLaid
  <2>8. LinesInv'
    BY <2>1, <2>7 DEF LinesInv
  <2>9. QED
    BY <2>5, <2>8
<1>5. CASE Again
  <2>1. phase' = "direct" /\ disk' = disk /\ UNCHANGED <<frames, buffer, outcome>> /\ Read(disk[Main], TRUE)
    BY <1>5 DEF Again, expandVars
  <2>2. TypeInv'
    BY <1>0, <1>m, <1>t, <1>u, <2>1, ReadSafe
  <2>3. QED
    BY <1>m, <1>w, <2>1, <2>2 DEF LinesInv
<1>6. CASE Finish
  <2>1. phase' = "finished" /\ disk' = disk /\ UNCHANGED <<frames, buffer, outcome>> /\ UNCHANGED scanVars
    BY <1>6 DEF Finish, expandVars
  <2>2. TypeInv'
    BY <1>0, <1>t, <1>u, <1>v, <2>1
  <2>3. QED
    BY <2>1, <2>2 DEF LinesInv
<1>7. QED
  BY <1>1, <1>2, <1>3, <1>4, <1>5, <1>6 DEF Next

-----------------------------------------------------------------------------
(* The pass over the cells.                                                 *)
Modes == {"code", "open", "brace", "paren", "line", "string", "name", "closing", "INCLUDE", "DEFINE", "UNDEF", "IFDEF", "IFNDEF"}
Conds == [on : BOOLEAN, elsed : BOOLEAN]
States == [mode : Modes, conds : Seq(Conds), syms : SUBSET Symbol, out : Seq(Cell), bad : BOOLEAN, odd : BOOLEAN]

(* Two states that differ in their mode at most.                            *)
Same(x, y) == x.conds = y.conds /\ x.syms = y.syms /\ x.out = y.out /\ x.bad = y.bad /\ x.odd = y.odd

(* The parts of a state.                                                    *)
LEMMA StateParts ==
  ASSUME NEW st \in States
  PROVE  /\ st.mode \in Modes /\ st.conds \in Seq(Conds) /\ st.syms \in SUBSET Symbol
         /\ st.out \in Seq(Cell) /\ st.bad \in BOOLEAN /\ st.odd \in BOOLEAN
BY DEF States

(* A change of mode.                                                        *)
LEMMA ModeSame ==
  ASSUME NEW st \in States, NEW m \in Modes
  PROVE  Mode(st, m) \in States /\ Mode(st, m).mode = m /\ Same(Mode(st, m), st)
<1>1. Mode(st, m) = [st EXCEPT !.mode = m]
  BY DEF Mode
<1>2. QED
  BY <1>1 DEF States, Same

(* A text that need not be accepted.                                        *)
LEMMA BadIs ==
  ASSUME NEW st \in States, NEW m \in Modes
  PROVE  /\ Bad(st, m) \in States /\ Bad(st, m).mode = m /\ Bad(st, m).bad /\ Bad(st, m).odd = st.odd
BY DEF Bad, States

(* A cell goes to the parser when every conditional is on.                  *)
LEMMA CollectIs ==
  ASSUME NEW st \in States, NEW c \in Cell
  PROVE  /\ Collect(st, c) \in States /\ Collect(st, c).mode = st.mode
         /\ Collect(st, c).conds = st.conds /\ Collect(st, c).syms = st.syms
         /\ Collect(st, c).bad = st.bad /\ Collect(st, c).odd = st.odd
         /\ Collect(st, c).out = IF Live(st) THEN Append(st.out, c) ELSE st.out
<1>1. CASE Live(st)
  <2>1. Collect(st, c) = [st EXCEPT !.out = Append(st.out, c)]
    BY <1>1 DEF Collect
  <2>2. Append(st.out, c) \in Seq(Cell)
    BY StateParts
  <2>3. PICK a \in Seq(Cell) : a = Append(st.out, c)
    BY <2>2
  <2>4. Collect(st, c) = [st EXCEPT !.out = a]
    BY <2>1, <2>3
  <2>5. QED
    BY <1>1, <2>3, <2>4 DEF States
<1>2. CASE ~Live(st)
  BY <1>2 DEF Collect
<1>3. QED
  BY <1>1, <1>2

(* Turning the innermost conditional.                                       *)
LEMMA TurnedIs ==
  ASSUME NEW conds \in Seq(Conds), conds # <<>>
  PROVE  /\ Turned(conds) \in Seq(Conds) /\ Len(Turned(conds)) = Len(conds)
         /\ Turned(conds)[Len(conds)] = [on |-> ~conds[Len(conds)].on, elsed |-> TRUE]
         /\ \A i \in 1..Len(conds) - 1 : Turned(conds)[i] = conds[i]
<1> DEFINE n == Len(conds)
<1>1. n \in 1..n /\ conds[n] \in Conds
  OBVIOUS
<1>2. PICK x \in Conds : x = [on |-> ~conds[n].on, elsed |-> TRUE]
  BY <1>1 DEF Conds
<1>3. Turned(conds) = [conds EXCEPT ![n] = x]
  BY <1>2 DEF Turned
<1>4. /\ [conds EXCEPT ![n] = x] \in Seq(Conds) /\ Len([conds EXCEPT ![n] = x]) = n
      /\ \A i \in 1..n : [conds EXCEPT ![n] = x][i] = IF i = n THEN x ELSE conds[i]
  BY <1>1, ExceptSeq
<1>5. PICK t : t = [conds EXCEPT ![n] = x]
  OBVIOUS
<1>6. t \in Seq(Conds) /\ Len(t) = n /\ \A i \in 1..n : t[i] = IF i = n THEN x ELSE conds[i]
  BY ONLY <1>4, <1>5
<1>7. n \in Nat /\ \A i \in 1..n - 1 : i \in 1..n /\ i # n
  BY <1>1
<1>8. QED
  BY ONLY <1>1, <1>2, <1>3, <1>5, <1>6, <1>7

(* {$ELSE} and {$ENDIF}.                                                    *)
LEMMA TurnSteps ==
  ASSUME NEW st \in States, st.conds # <<>>
  PROVE  /\ OnElse(st) \in States /\ OnElse(st).mode = "brace" /\ OnElse(st).conds = Turned(st.conds)
         /\ OnElse(st).syms = st.syms /\ OnElse(st).out = st.out /\ OnElse(st).bad = st.bad
         /\ OnElse(st).odd = (st.odd \/ st.conds[Len(st.conds)].elsed)
         /\ OnEndIf(st) \in States /\ OnEndIf(st).mode = (IF Live(st) THEN "closing" ELSE "brace")
         /\ OnEndIf(st).conds = Front(st.conds)
         /\ OnEndIf(st).syms = st.syms /\ OnEndIf(st).out = st.out /\ OnEndIf(st).bad = st.bad
         /\ OnEndIf(st).odd = st.odd
<1>0. st.conds \in Seq(Conds) /\ Len(st.conds) \in 1..Len(st.conds) /\ st.conds[Len(st.conds)] \in Conds
  BY StateParts
<1>1. PICK c \in Seq(Conds) : c = Turned(st.conds)
  BY <1>0, TurnedIs
<1>2. PICK odd \in BOOLEAN : odd = (st.odd \/ st.conds[Len(st.conds)].elsed)
  <2>1. (st.odd \/ st.conds[Len(st.conds)].elsed) \in BOOLEAN
    BY <1>0, StateParts DEF Conds
  <2>2. QED
    BY ONLY <2>1
<1>3. OnElse(st) = [st EXCEPT !.mode = "brace", !.conds = c, !.odd = odd]
  <2>1. Last(st.conds) = st.conds[Len(st.conds)]
    BY DEF Last
  <2>2. st.conds = st["conds"] /\ st.odd = st["odd"]
    OBVIOUS
  <2>3. OnElse(st) = [st EXCEPT !.mode = "brace", !.conds = Turned(st.conds), !.odd = st.odd \/ Last(st.conds).elsed]
    BY DEF OnElse, States
  <2>4. QED
    BY ONLY <1>1, <1>2, <2>1, <2>3
<1>4. "brace" \in Modes
  BY DEF Modes
<1>5. PICK f \in Seq(Conds) : f = Front(st.conds)
  <2>1. Front(st.conds) \in Seq(Conds)
    BY <1>0 DEF Front
  <2>2. QED
    BY ONLY <2>1
<1>6. PICK m \in Modes : m = IF Live(st) THEN "closing" ELSE "brace"
  BY DEF Modes
<1>7. OnEndIf(st) = [st EXCEPT !.mode = m, !.conds = f]
  BY <1>5, <1>6 DEF OnEndIf, States
<1>8. /\ OnElse(st) \in States /\ OnElse(st).mode = "brace" /\ OnElse(st).conds = c
      /\ OnElse(st).syms = st.syms /\ OnElse(st).out = st.out /\ OnElse(st).bad = st.bad /\ OnElse(st).odd = odd
  BY <1>1, <1>2, <1>3, <1>4 DEF States
<1>9. /\ OnEndIf(st) \in States /\ OnEndIf(st).mode = m /\ OnEndIf(st).conds = f
      /\ OnEndIf(st).syms = st.syms /\ OnEndIf(st).out = st.out /\ OnEndIf(st).bad = st.bad /\ OnEndIf(st).odd = st.odd
  BY <1>5, <1>6, <1>7 DEF States
<1>10. QED
  BY <1>1, <1>2, <1>5, <1>6, <1>8, <1>9

(* What a directive's word does.                                            *)
LEMMA DirectiveStep ==
  ASSUME NEW st \in States, NEW d \in Kinds
  PROVE  /\ OnDirective(st, d) \in States
         /\ OnDirective(st, d).syms = st.syms /\ OnDirective(st, d).out = st.out
         /\ (st.bad => OnDirective(st, d).bad) /\ (st.odd => OnDirective(st, d).odd)
         /\ d = "ELSE" /\ st.conds # <<>> => OnDirective(st, d) = OnElse(st)
         /\ d = "ENDIF" /\ st.conds # <<>> => OnDirective(st, d) = OnEndIf(st)
         /\ d \in {"ELSE", "ENDIF"} /\ st.conds = <<>> => OnDirective(st, d).bad
         /\ d \in {"IFDEF", "IFNDEF"} \/ (d \in {"INCLUDE", "DEFINE", "UNDEF"} /\ Live(st)) =>
              OnDirective(st, d).mode = d /\ Same(OnDirective(st, d), st)
         /\ d \in {"INCLUDE", "DEFINE", "UNDEF"} /\ ~Live(st) =>
              OnDirective(st, d).mode = "brace" /\ Same(OnDirective(st, d), st)
<1> DEFINE r == OnDirective(st, d)
<1>0. "brace" \in Modes
  BY DEF Modes
<1>1. CASE d \in {"ELSE", "ENDIF"} /\ st.conds = <<>>
  <2>1. r = Bad(st, "brace")
    BY ONLY <1>1 DEF OnDirective
  <2>2. Bad(st, "brace").syms = st.syms /\ Bad(st, "brace").out = st.out
    BY DEF Bad, States
  <2>3. QED
    BY <1>0, <1>1, <2>1, <2>2, BadIs
<1>2. CASE d = "ELSE" /\ st.conds # <<>>
  <2>1. r = OnElse(st)
    BY ONLY <1>2 DEF OnDirective
  <2>2. QED
    BY <1>2, <2>1, TurnSteps
<1>3. CASE d = "ENDIF" /\ st.conds # <<>>
  <2>1. r = OnEndIf(st)
    BY ONLY <1>3 DEF OnDirective
  <2>2. QED
    BY <1>3, <2>1, TurnSteps
<1>4. CASE d \in {"IFDEF", "IFNDEF"} \/ (d \in {"INCLUDE", "DEFINE", "UNDEF"} /\ Live(st))
  <2>1. r = Mode(st, d) /\ d \notin {"ELSE", "ENDIF"}
    <3>1. d # "ELSE" /\ d # "ENDIF"
      BY <1>4
    <3>2. QED
      BY ONLY <1>4, <3>1 DEF OnDirective
  <2>2. d \in Modes
    BY <1>4 DEF Modes
  <2>3. r \in States /\ r.mode = d /\ Same(r, st)
    BY <2>1, <2>2, ModeSame
  <2>4. QED
    BY <1>4, <2>1, <2>3 DEF Same
<1>5. CASE d \in {"INCLUDE", "DEFINE", "UNDEF"} /\ ~Live(st)
  <2>0. d # "ELSE" /\ d # "ENDIF" /\ d # "IFDEF" /\ d # "IFNDEF"
    BY <1>5
  <2>1. r = Mode(st, "brace")
    BY ONLY <1>5, <2>0 DEF OnDirective
  <2>3. r \in States /\ r.mode = "brace" /\ Same(r, st)
    BY <1>0, <2>1, ModeSame
  <2>4. QED
    BY <1>5, <2>0, <2>3 DEF Same
<1>6. QED
  BY <1>1, <1>2, <1>3, <1>4, <1>5 DEF Kinds

(* A conditional opens.                                                     *)
LEMMA OpensIs ==
  ASSUME NEW st \in States, NEW m \in Modes, NEW on \in BOOLEAN
  PROVE  /\ Opens(st, m, on) \in States /\ Opens(st, m, on).mode = m
         /\ Opens(st, m, on).conds = Append(st.conds, [on |-> on, elsed |-> FALSE])
         /\ Opens(st, m, on).syms = st.syms /\ Opens(st, m, on).out = st.out
         /\ Opens(st, m, on).bad = st.bad /\ Opens(st, m, on).odd = st.odd
<1>1. PICK x \in Conds : x = [on |-> on, elsed |-> FALSE]
  BY DEF Conds
<1>2. PICK conds \in Seq(Conds) : conds = Append(st.conds, x)
  <2>1. st.conds \in Seq(Conds)
    BY StateParts
  <2>2. Append(st.conds, x) \in Seq(Conds)
    BY ONLY <1>1, <2>1, AppendProperties
  <2>3. QED
    BY ONLY <2>2
<1>3. Opens(st, m, on) = [st EXCEPT !.mode = m, !.conds = conds]
  BY <1>1, <1>2 DEF Opens, States
<1>4. QED
  BY <1>1, <1>2, <1>3 DEF States

(* A symbol is defined or forgotten.                                        *)
LEMMA DefinesIs ==
  ASSUME NEW st \in States, NEW m \in Modes, NEW w \in Symbol
  PROVE  /\ Defines(st, m, w) \in States /\ Defines(st, m, w).mode = m
         /\ Defines(st, m, w).syms = IF st.mode = "DEFINE" THEN st.syms \cup {w} ELSE st.syms \ {w}
         /\ Defines(st, m, w).conds = st.conds /\ Defines(st, m, w).out = st.out
         /\ Defines(st, m, w).bad = st.bad /\ Defines(st, m, w).odd = st.odd
<1>1. PICK syms \in SUBSET Symbol : syms = IF st.mode = "DEFINE" THEN st.syms \cup {w} ELSE st.syms \ {w}
  BY StateParts
<1>2. Defines(st, m, w) = [st EXCEPT !.mode = m, !.syms = syms]
  BY <1>1 DEF Defines, States
<1>3. QED
  BY <1>1, <1>2 DEF States

Names == {"INCLUDE", "DEFINE", "UNDEF", "IFDEF", "IFNDEF"}

(* What the word behind it does, or the brace in its place.                 *)
LEMMA NameStep ==
  ASSUME NEW st \in States, st.mode \in Names, NEW w \in Symbol
  PROVE  /\ OnName(st, w) \in States
         /\ OnName(st, w).out = st.out /\ OnName(st, w).odd = st.odd
         /\ st.bad => OnName(st, w).bad
         /\ OnName(st, w).mode = IF st.mode = "INCLUDE" /\ w = "'" THEN "name" ELSE IF w = "rbrace" THEN "code" ELSE "brace"
         /\ st.mode \in {"IFDEF", "IFNDEF"} =>
              /\ \E on \in BOOLEAN :
                   /\ on <=> (w \in st.syms <=> st.mode = "IFDEF")
                   /\ OnName(st, w).conds = Append(st.conds, [on |-> on, elsed |-> FALSE])
              /\ OnName(st, w).syms = st.syms /\ OnName(st, w).bad = st.bad
         /\ st.mode = "INCLUDE" /\ w = "'" => Same(OnName(st, w), st)
         /\ st.mode = "INCLUDE" /\ w # "'" => OnName(st, w).bad
         /\ st.mode \in {"DEFINE", "UNDEF"} /\ w = "rbrace" => OnName(st, w).bad
         /\ st.mode \in {"DEFINE", "UNDEF"} /\ w # "rbrace" =>
              /\ OnName(st, w).syms = IF st.mode = "DEFINE" THEN st.syms \cup {w} ELSE st.syms \ {w}
              /\ OnName(st, w).conds = st.conds /\ OnName(st, w).bad = st.bad
<1> DEFINE r == OnName(st, w)
<1>0. PICK next \in Modes : next = IF w = "rbrace" THEN "code" ELSE "brace"
  BY DEF Modes
<1>1. ASSUME NEW m \in Modes PROVE Bad(st, m).out = st.out
  BY DEF Bad, States
<1>2. CASE st.mode = "IFDEF"
  <2>1. r = Opens(st, next, w \in st.syms)
    BY ONLY <1>0, <1>2 DEF OnName
  <2>2. PICK on \in BOOLEAN : (on <=> w \in st.syms) /\ r = Opens(st, next, on)
    <3>1. (w \in st.syms) \in BOOLEAN
      OBVIOUS
    <3>2. QED
      BY <2>1, <3>1, Zenon
  <2>3. on <=> (w \in st.syms <=> st.mode = "IFDEF")
    BY <1>2, <2>2
  <2>4. QED
    <3>1. /\ Opens(st, next, on) \in States /\ Opens(st, next, on).mode = next
          /\ Opens(st, next, on).conds = Append(st.conds, [on |-> on, elsed |-> FALSE])
          /\ Opens(st, next, on).syms = st.syms /\ Opens(st, next, on).out = st.out
          /\ Opens(st, next, on).bad = st.bad /\ Opens(st, next, on).odd = st.odd
      BY <1>0, <2>2, OpensIs
    <3>2. st.mode # "INCLUDE" /\ st.mode # "DEFINE" /\ st.mode # "UNDEF"
      BY <1>2
    <3>3. PICK x : x = [on |-> on, elsed |-> FALSE]
      OBVIOUS
    <3>4. QED
      BY ONLY <1>0, <1>2, <2>2, <2>3, <3>1, <3>2, on \in BOOLEAN
<1>3. CASE st.mode = "IFNDEF"
  <2>1. r = Opens(st, next, w \notin st.syms)
    BY ONLY <1>0, <1>3 DEF OnName
  <2>2. PICK on \in BOOLEAN : (on <=> w \notin st.syms) /\ r = Opens(st, next, on)
    <3>1. (w \notin st.syms) \in BOOLEAN
      OBVIOUS
    <3>2. QED
      BY <2>1, <3>1, Zenon
  <2>3. on <=> (w \in st.syms <=> st.mode = "IFDEF")
    BY <1>3, <2>2
  <2>4. QED
    <3>1. /\ Opens(st, next, on) \in States /\ Opens(st, next, on).mode = next
          /\ Opens(st, next, on).conds = Append(st.conds, [on |-> on, elsed |-> FALSE])
          /\ Opens(st, next, on).syms = st.syms /\ Opens(st, next, on).out = st.out
          /\ Opens(st, next, on).bad = st.bad /\ Opens(st, next, on).odd = st.odd
      BY <1>0, <2>2, OpensIs
    <3>2. st.mode # "INCLUDE" /\ st.mode # "DEFINE" /\ st.mode # "UNDEF"
      BY <1>3
    <3>3. PICK x : x = [on |-> on, elsed |-> FALSE]
      OBVIOUS
    <3>4. QED
      BY ONLY <1>0, <1>3, <2>2, <2>3, <3>1, <3>2, on \in BOOLEAN
<1>4. CASE st.mode = "INCLUDE"
  <2>1. CASE w = "'"
    <3>1. r = Mode(st, "name")
      BY ONLY <1>4, <2>1 DEF OnName
    <3>2. "name" \in Modes
      BY DEF Modes
    <3>3. r \in States /\ r.mode = "name" /\ Same(r, st)
      BY <3>1, <3>2, ModeSame
    <3>4. QED
      BY <1>4, <2>1, <3>3 DEF Same
  <2>2. CASE w # "'"
    <3>1. r = Bad(st, next)
      BY ONLY <1>0, <1>4, <2>2 DEF OnName
    <3>2. QED
      BY <1>0, <1>1, <1>4, <2>2, <3>1, BadIs
  <2>3. QED
    BY <2>1, <2>2
<1>5. CASE st.mode \in {"DEFINE", "UNDEF"} /\ w = "rbrace"
  <2>0. st.mode # "IFDEF" /\ st.mode # "IFNDEF" /\ st.mode # "INCLUDE"
    BY <1>5
  <2>1. r = Bad(st, next)
    BY ONLY <1>0, <1>5, <2>0 DEF OnName
  <2>2. QED
    BY <1>0, <1>1, <1>5, <2>0, <2>1, BadIs
<1>6. CASE st.mode \in {"DEFINE", "UNDEF"} /\ w # "rbrace"
  <2>0. st.mode # "IFDEF" /\ st.mode # "IFNDEF" /\ st.mode # "INCLUDE"
    BY <1>6
  <2>1. r = Defines(st, next, w)
    BY ONLY <1>0, <1>6, <2>0 DEF OnName
  <2>2. QED
    <3>1. /\ r \in States /\ r.mode = next
          /\ r.syms = IF st.mode = "DEFINE" THEN st.syms \cup {w} ELSE st.syms \ {w}
          /\ r.conds = st.conds /\ r.out = st.out /\ r.bad = st.bad /\ r.odd = st.odd
      BY <1>0, <2>1, DefinesIs
    <3>2. r.mode = "brace"
      BY <1>0, <1>6, <3>1
    <3>3. QED
      BY ONLY <1>6, <2>0, <3>1, <3>2
<1>7. QED
  BY <1>2, <1>3, <1>4, <1>5, <1>6 DEF Names

(* Which rule a cell falls under, by the mode.                              *)
LEMMA StepIs ==
  ASSUME NEW st, NEW c
  PROVE  /\ st.mode = "code" => MeaningStep(st, c) = OnCode(st, c)
         /\ st.mode = "string" => MeaningStep(st, c) = Mode(Collect(st, c), IF c.s = "'" THEN "code" ELSE "string")
         /\ st.mode = "line" => MeaningStep(st, c) = Mode(st, IF c.s = "nl" THEN "code" ELSE "line")
         /\ st.mode = "paren" => MeaningStep(st, c) = Mode(st, IF c.s = "*)" THEN "code" ELSE "paren")
         /\ st.mode = "brace" => MeaningStep(st, c) = Mode(st, IF c.s = "rbrace" THEN "code" ELSE "brace")
         /\ st.mode = "name" => MeaningStep(st, c) = Mode(st, IF c.s = "'" THEN "brace" ELSE "name")
         /\ st.mode = "closing" => MeaningStep(st, c) = IF c.s = "rbrace" THEN Mode(st, "code") ELSE Bad(st, "brace")
         /\ st.mode = "open" => MeaningStep(st, c) = IF c.s \in DOMAIN DirectiveName THEN OnDirective(st, DirectiveName[c.s])
                                                     ELSE Mode(st, IF c.s = "rbrace" THEN "code" ELSE "brace")
         /\ st.mode \in Names => MeaningStep(st, c) = IF c.s \in Blanks THEN st ELSE OnName(st, c.s)
<1>1. CASE st.mode \in {"code", "string", "line", "paren", "brace", "name", "closing", "open"}
  BY ONLY <1>1 DEF MeaningStep, Names
<1>2. CASE st.mode \in Names
  BY ONLY <1>2 DEF MeaningStep, Names
<1>3. QED
  BY ONLY <1>1, <1>2

(* ... and in the text itself, by the cell.                                 *)
LEMMA CodeIs ==
  ASSUME NEW st, NEW c
  PROVE  /\ c.s = "lbrace" => OnCode(st, c) = Mode(st, "open")
         /\ c.s = "(*" => OnCode(st, c) = Mode(st, "paren")
         /\ c.s = "//" /\ Live(st) => OnCode(st, c) = Mode(st, "line")
         /\ c.s = "//" /\ ~Live(st) => OnCode(st, c) = [st EXCEPT !.odd = TRUE]
         /\ c.s = "'" => OnCode(st, c) = Mode(Collect(st, c), "string")
         /\ c.s \in Blanks => OnCode(st, c) = st
         /\ c.s \notin Blanks \cup {"lbrace", "(*", "//", "'"} => OnCode(st, c) = Collect(st, c)
<1>1. CASE c.s \in Blanks
  <2>1. c.s # "lbrace" /\ c.s # "(*" /\ c.s # "//" /\ c.s # "'"
    BY <1>1 DEF Blanks
  <2>2. QED
    BY ONLY <1>1, <2>1 DEF OnCode
<1>2. CASE c.s \notin Blanks
  BY ONLY <1>2 DEF OnCode
<1>3. QED
  BY ONLY <1>1, <1>2

(* A step leads from a state to a state; once a text is bad or odd it       *)
(* stays so.                                                                *)
LEMMA StepTyped ==
  ASSUME NEW st \in States, NEW c \in Cell
  PROVE  /\ MeaningStep(st, c) \in States
         /\ (st.bad => MeaningStep(st, c).bad) /\ (st.odd => MeaningStep(st, c).odd)
<1> DEFINE Good(r) == r \in States /\ (st.bad => r.bad) /\ (st.odd => r.odd)
<1>m. \A m \in Modes : Good(Mode(st, m))
  BY ModeSame DEF Same
<1>c. Good(Collect(st, c))
  BY CollectIs
<1>cm. \A m \in Modes : Good(Mode(Collect(st, c), m))
  BY CollectIs, ModeSame DEF Same
<1>b. \A m \in Modes : Good(Bad(st, m))
  BY BadIs
<1>s. c.s \in Symbol
  BY DEF Cell
<1>1. CASE st.mode = "code"
  <2>1. MeaningStep(st, c) = OnCode(st, c)
    BY <1>1, StepIs
  <2>2. "open" \in Modes /\ "paren" \in Modes /\ "line" \in Modes /\ "string" \in Modes
    BY DEF Modes
  <2>3. Good([st EXCEPT !.odd = TRUE])
    BY DEF States
  <2>4. Good(st)
    OBVIOUS
  <2> HIDE DEF Good
  <2>5. \/ c.s = "lbrace" \/ c.s = "(*" \/ (c.s = "//" /\ Live(st)) \/ (c.s = "//" /\ ~Live(st)) \/ c.s = "'"
        \/ c.s \in Blanks \/ c.s \notin Blanks \cup {"lbrace", "(*", "//", "'"}
    BY Zenon
  <2>6. Good(OnCode(st, c))
    BY <1>m, <1>c, <1>cm, <2>2, <2>3, <2>4, <2>5, CodeIs
  <2>7. QED
    BY <2>1, <2>6 DEF Good
<1>2. CASE st.mode \in {"string", "line", "paren", "brace", "name"}
  <2>1. PICK m \in Modes : MeaningStep(st, c) \in {Mode(st, m), Mode(Collect(st, c), m)}
    BY <1>2, StepIs DEF Modes
  <2>2. QED
    BY <1>m, <1>cm, <2>1
<1>3. CASE st.mode \in {"closing", "open"}
  <2>1. \/ \E m \in Modes : MeaningStep(st, c) \in {Mode(st, m), Bad(st, m)}
        \/ c.s \in DOMAIN DirectiveName /\ MeaningStep(st, c) = OnDirective(st, DirectiveName[c.s])
    BY <1>3, StepIs DEF Modes
  <2>2. c.s \in DOMAIN DirectiveName => Good(OnDirective(st, DirectiveName[c.s]))
    BY DirectiveStep, DirectiveKinds
  <2>3. QED
    BY <1>m, <1>b, <2>1, <2>2
<1>4. CASE st.mode \in Names
  <2>1. MeaningStep(st, c) = IF c.s \in Blanks THEN st ELSE OnName(st, c.s)
    BY <1>4, StepIs
  <2>2. Good(OnName(st, c.s))
    BY <1>4, <1>s, NameStep
  <2>3. QED
    BY <2>1, <2>2
<1>5. st.mode \in {"code"} \cup {"string", "line", "paren", "brace", "name"} \cup {"closing", "open"} \cup Names
  BY StateParts DEF Modes, Names
<1>6. QED
  BY <1>1, <1>2, <1>3, <1>4, <1>5

(* Where a state is left as it is.                                          *)
LEMMA StepIdle ==
  ASSUME NEW st \in States, NEW c \in Cell,
         \/ st.mode = "brace" /\ c.s # "rbrace"
         \/ st.mode = "paren" /\ c.s # "*)"
         \/ st.mode = "line" /\ c.s # "nl"
         \/ st.mode = "name" /\ c.s # "'"
         \/ st.mode \in Names /\ c.s \in Blanks
         \/ st.mode = "code" /\ c.s \in Blanks
         \/ st.mode = "string" /\ ~Live(st) /\ c.s # "'"
  PROVE  MeaningStep(st, c) = st
<1>1. Mode(st, st.mode) = st
  BY DEF Mode, States
<1>2. ~Live(st) => Collect(st, c) = st
  BY DEF Collect
<1>3. CASE \/ st.mode = "brace" /\ c.s # "rbrace"
           \/ st.mode = "paren" /\ c.s # "*)"
           \/ st.mode = "line" /\ c.s # "nl"
           \/ st.mode = "name" /\ c.s # "'"
  <2>1. MeaningStep(st, c) = Mode(st, st.mode)
    BY ONLY <1>3, StepIs
  <2>2. QED
    BY <1>1, <2>1
<1>4. CASE st.mode = "string" /\ ~Live(st) /\ c.s # "'"
  <2>1. MeaningStep(st, c) = Mode(st, st.mode)
    BY ONLY <1>2, <1>4, StepIs
  <2>2. QED
    BY <1>1, <2>1
<1>5. CASE st.mode \in Names /\ c.s \in Blanks
  BY ONLY <1>5, StepIs
<1>6. CASE st.mode = "code" /\ c.s \in Blanks
  BY ONLY <1>6, StepIs, CodeIs
<1>7. QED
  BY <1>3, <1>4, <1>5, <1>6

-----------------------------------------------------------------------------
(* The pass over what the scanner has still to read: h[i] is the state      *)
(* after i cells of it.                                                     *)
Run(h) ==
  /\ h \in [0..Len(rest) -> States]
  /\ \A i \in 1..Len(rest) : h[i] = MeaningStep(h[i - 1], rest[i])

(* One cell on.                                                             *)
LEMMA RunStep ==
  ASSUME Unread(rest), NEW h, Run(h), NEW i \in 1..Len(rest)
  PROVE  /\ h[i] = MeaningStep(h[i - 1], rest[i]) /\ h[i - 1] \in States /\ h[i] \in States
         /\ rest[i] \in Cell /\ rest[i].s \in Symbol /\ rest[i].s \notin {"none", "EOF"}
<1>1. rest[i] \in Cell /\ rest[i].s \notin {"none", "EOF"} /\ i - 1 \in 0..Len(rest) /\ i \in 0..Len(rest)
  BY DEF Unread
<1>2. rest[i].s \in Symbol
  BY ONLY <1>1 DEF Cell
<1>3. h[i] = MeaningStep(h[i - 1], rest[i]) /\ h[i - 1] \in States /\ h[i] \in States
  BY <1>1 DEF Run
<1>4. QED
  BY ONLY <1>1, <1>2, <1>3

(* A text that is bad or odd stays so.                                      *)
LEMMA RunKeeps ==
  ASSUME Unread(rest), NEW h, Run(h), NEW a \in 0..Len(rest)
  PROVE  (h[a].bad => h[Len(rest)].bad) /\ (h[a].odd => h[Len(rest)].odd)
<1> DEFINE n == Len(rest)
           T == {i \in 0..n - a : (h[a].bad => h[a + i].bad) /\ (h[a].odd => h[a + i].odd)}
<1>0. n \in Nat /\ a \in Nat /\ n - a \in Nat /\ a + (n - a) = n
  BY DEF Unread
<1>1. 0 \in T
  BY <1>0
<1>2. ASSUME NEW i \in 0..(n - a) - 1, i \in T PROVE i + 1 \in T
  <2>1. i + 1 \in 0..n - a /\ (a + (i + 1)) - 1 = a + i /\ a + (i + 1) \in 1..n
    BY <1>0
  <2>2. /\ h[a + (i + 1)] = MeaningStep(h[a + i], rest[a + (i + 1)])
        /\ h[a + i] \in States /\ rest[a + (i + 1)] \in Cell
    BY <2>1, RunStep
  <2>3. (h[a + i].bad => h[a + (i + 1)].bad) /\ (h[a + i].odd => h[a + (i + 1)].odd)
    BY <2>2, StepTyped
  <2>4. QED
    BY <1>2, <2>1, <2>3
<1> HIDE DEF T
<1>3. 0..n - a \subseteq T
  BY ONLY <1>0, <1>1, <1>2, CountUp
<1>4. n - a \in T
  BY <1>0, <1>3
<1>5. QED
  BY <1>0, <1>4 DEF T

(* A state that none of the cells ahead changes is kept.                    *)
LEMMA RunIdle ==
  ASSUME Unread(rest), NEW h, Run(h), NEW b \in 0..Len(rest), NEW a \in 0..b,
         \A j \in a + 1..b : MeaningStep(h[a], rest[j]) = h[a]
  PROVE  h[b] = h[a]
<1> DEFINE T == {i \in 0..b - a : h[a + i] = h[a]}
<1>0. Len(rest) \in Nat /\ b \in Nat /\ a \in Nat /\ b - a \in Nat /\ a + (b - a) = b /\ b <= Len(rest)
  BY DEF Unread
<1>1. 0 \in T
  BY <1>0
<1>2. ASSUME NEW i \in 0..(b - a) - 1, i \in T PROVE i + 1 \in T
  <2>1. /\ i + 1 \in 0..b - a /\ (a + (i + 1)) - 1 = a + i /\ a + (i + 1) \in 1..Len(rest)
        /\ a + (i + 1) \in a + 1..b
    BY <1>0
  <2>2. h[a + (i + 1)] = MeaningStep(h[a + i], rest[a + (i + 1)])
    BY <2>1, RunStep
  <2>3. QED
    BY <1>2, <2>1, <2>2
<1> HIDE DEF T
<1>3. 0..b - a \subseteq T
  BY ONLY <1>0, <1>1, <1>2, CountUp
<1>4. b - a \in T
  BY <1>0, <1>3
<1>5. QED
  BY <1>0, <1>4 DEF T

(* From inside of a comment: to its end, or to the end of the text.         *)
LEMMA ToEnd ==
  ASSUME Unread(rest), NEW h, Run(h), NEW a \in 0..Len(rest), NEW e \in a + 1..Len(rest) + 1,
         NEW m \in Modes, h[a] \in States,
         \A j \in a + 1..e - 1 : MeaningStep(h[a], rest[j]) = h[a],
         e <= Len(rest) => MeaningStep(h[a], rest[e]) = Mode(h[a], m)
  PROVE  /\ e <= Len(rest) => h[e] \in States /\ h[e].mode = m /\ Same(h[e], h[a])
         /\ e > Len(rest) => h[Len(rest)] = h[a]
<1>0. Len(rest) \in Nat /\ a \in Nat /\ e \in Nat /\ e - 1 \in 0..Len(rest) /\ a \in 0..e - 1
  BY DEF Unread
<1>1. h[e - 1] = h[a]
  BY <1>0, RunIdle
<1>2. CASE e <= Len(rest)
  <2>1. e \in 1..Len(rest)
    BY <1>0, <1>2
  <2>2. h[e] = Mode(h[a], m)
    BY <1>1, <1>2, <2>1, RunStep
  <2>3. QED
    BY <1>0, <1>2, <2>2, ModeSame
<1>3. CASE e > Len(rest)
  <2>1. e - 1 = Len(rest)
    BY <1>0, <1>3
  <2>2. QED
    BY <1>0, <1>1, <1>3, <2>1
<1>4. QED
  BY <1>0, <1>2, <1>3

(* The pass starts in a state.                                              *)
LEMMA BlankState == Blank \in States /\ Blank.mode = "code" /\ Blank.conds = <<>> /\ Blank.syms = {}
                    /\ Blank.out = <<>> /\ Blank.bad = FALSE /\ Blank.odd = FALSE
BY DEF Blank, States, Modes

(* The pass over a whole text, cell after cell.                             *)
LEMMA MeaningsSteps ==
  ASSUME NEW text \in Seq(Cell)
  PROVE  /\ Meanings(text) \in [0..Len(text) -> States] /\ Meanings(text)[0] = Blank
         /\ \A i \in 1..Len(text) : Meanings(text)[i] = MeaningStep(Meanings(text)[i - 1], text[i])
<1> DEFINE n == Len(text)
           F == [i \in 1..n |-> [x \in States |-> MeaningStep(x, text[i])]]
<1>0. n \in Nat /\ \A i \in 1..n : text[i] \in Cell
  OBVIOUS
<1>1. \A i \in 1..n : \A x \in States : MeaningStep(x, text[i]) \in States
  BY <1>0, StepTyped
<1>2. F \in Steps(n, States)
  BY <1>1 DEF Steps
<1>3. PICK g \in [0..n -> States] : Iterates(g, Blank, F, n)
  <2> HIDE DEF F
  <2>1. QED
    BY <1>0, <1>2, BlankState, Iterated
<1>4. g[0] = Blank /\ \A i \in 1..n : g[i] = MeaningStep(g[i - 1], text[i])
  <2>1. \A i \in 1..n : i - 1 \in 0..n /\ g[i - 1] \in States
    BY <1>0, <1>3
  <2>2. \A i \in 1..n : F[i][g[i - 1]] = MeaningStep(g[i - 1], text[i])
    BY <2>1
  <2> HIDE DEF F
  <2>3. QED
    BY <1>3, <2>2 DEF Iterates
<1> DEFINE Upto(u) == u = [i \in 0..n |-> IF i = 0 THEN Blank ELSE MeaningStep(u[i - 1], text[i])]
           C == CHOOSE u : Upto(u)
<1>5. Upto(g)
  <2>1. g = [i \in 0..n |-> g[i]]
    BY <1>3
  <2>2. ASSUME NEW i \in 0..n
        PROVE  g[i] = IF i = 0 THEN Blank ELSE MeaningStep(g[i - 1], text[i])
    <3>1. i # 0 => i \in 1..n
      BY <1>0
    <3>2. QED
      BY <1>4, <3>1
  <2>3. [i \in 0..n |-> g[i]] = [i \in 0..n |-> IF i = 0 THEN Blank ELSE MeaningStep(g[i - 1], text[i])]
    BY <2>2, Zenon
  <2>4. QED
    BY <2>1, <2>3
<1>6. Upto(C)
  <2> HIDE DEF Upto
  <2>1. QED
    BY <1>5, Zenon
<1>7. Meanings(text) = C
  BY Zenon DEF Meanings
<1> HIDE DEF C
<1>8. C[0] = Blank /\ \A i \in 1..n : C[i] = MeaningStep(C[i - 1], text[i])
  <2>1. 0 \in 0..n /\ \A i \in 1..n : i \in 0..n /\ i # 0
    BY <1>0
  <2>2. \A i \in 0..n : C[i] = IF i = 0 THEN Blank ELSE MeaningStep(C[i - 1], text[i])
    BY <1>6, Zenon
  <2>3. QED
    BY <2>1, <2>2
<1>9. C \in [0..n -> States]
  <2> DEFINE T == {i \in 0..n : C[i] \in States}
  <2>1. 0 \in T
    BY <1>0, <1>8, BlankState
  <2>2. ASSUME NEW i \in 0..n - 1, i \in T PROVE i + 1 \in T
    <3>1. i + 1 \in 1..n /\ (i + 1) - 1 = i /\ C[i] \in States /\ i + 1 \in 0..n
      BY <1>0, <2>2
    <3>2. C[i + 1] = MeaningStep(C[i], text[i + 1])
      BY <1>8, <3>1
    <3>3. QED
      BY <1>1, <3>1, <3>2
  <2> HIDE DEF T
  <2>3. 0..n \subseteq T
    BY ONLY <1>0, <2>1, <2>2, CountUp
  <2> USE DEF T
  <2>4. \A i \in 0..n : C[i] \in States
    BY <2>3
  <2>5. C = [i \in 0..n |-> IF i = 0 THEN Blank ELSE MeaningStep(C[i - 1], text[i])]
    BY <1>6
  <2>6. C = [i \in 0..n |-> C[i]]
    BY ONLY <2>5
  <2>7. QED
    BY ONLY <2>4, <2>6
<1>10. QED
  BY <1>7, <1>8, <1>9

-----------------------------------------------------------------------------
(* What the scanner keeps is what the pass has found, Agrees without the    *)
(* mode and AgreesAtEnd for whatever the scanner keeps.                     *)
Fits(m, stat, active, depth, syms, out) ==
  /\ ~m.bad /\ m.out = out /\ m.syms = syms
  /\ Len(m.conds) = IF stat = "skipping" THEN Len(active) + depth ELSE Len(active)
  /\ \A i \in 1..Len(active) : /\ m.conds[i].on <=> (i < Len(active) \/ stat = "scanning")
                               /\ m.conds[i].on <=> (active[i] <=> ~m.conds[i].elsed)
FitsAtEnd(m, stat, out) == IF stat = "scanning" THEN ~m.bad /\ m.out = out ELSE m.conds # <<>> \/ m.mode # "code"

(* The scanner reads on to where it agrees with the pass, or stops where    *)
(* the pass finds fault with the text.                                      *)
Moved(h) ==
  \E k \in 0..Len(rest) :
    /\ ReadCh(k) /\ status' \in {"scanning", "skipping"}
    /\ \/ h[k].odd
       \/ k = Len(rest) /\ FitsAtEnd(h[k], status', tokens')
       \/ /\ k < Len(rest) /\ Fits(h[k], status', ifdefActive', skipDepth', definedSyms', tokens')
          /\ h[k].mode = "code" \/ (h[k].mode = "line" /\ status' = "scanning" /\ rest[k + 1].s = "nl")
Faulty(m) == m.odd \/ m.bad \/ m.conds # <<>> \/ m.mode # "code"
Refused(h) ==
  \E why : /\ Error(why) /\ why \notin {"scanning", "skipping", "end"}
           /\ why = "too-many-nested" \/ Faulty(h[Len(rest)])

(* Without files that have ended ReadCh reads just what it is told to.      *)
LEMMA PlainReadCh ==
  ASSUME Unread(rest), NEW k \in 0..Len(rest), ReadCh(k)
  PROVE  rest' = SubSeq(rest, k + 1, Len(rest))
<1>0. rest \in Seq(Cell) /\ Len(rest) \in Nat /\ k \in Nat
  BY DEF Unread
<1>1. PICK q \in k + 1..Len(rest) + 1 : Reached(k, q)
  BY <1>0, ReadChReaches
<1>2. q = k + 1
  <2>1. CASE q # k + 1
    <3>1. k + 1 \in k + 1..q - 1 /\ k + 1 \in DOMAIN rest
      BY <1>0, <2>1
    <3>2. IsMark(rest[k + 1])
      BY <1>1, <3>1 DEF Reached
    <3>3. QED
      BY <3>1, <3>2 DEF Unread, IsMark
  <2>2. QED
    BY <2>1
<1>3. QED
  BY <1>1, <1>2 DEF Reached

(* What the invariant says of the pass, seen from where the scanner stands. *)
Placed(h) ==
  /\ Run(h) /\ Behind \in 0..Len(buffer) /\ Len(buffer) \in Nat /\ Len(rest) = Len(buffer) - Behind
  /\ rest = SubSeq(buffer, Behind + 1, Len(buffer))
  /\ \A k \in 0..Len(rest) : h[k] = Meanings(buffer)[Behind + k]

(* The states of the pass over the text ahead are those of the pass over    *)
(* the whole.                                                               *)
LEMMA RunAhead ==
  ASSUME Unread(buffer), TextInv, phase = "compile"
  PROVE  Unread(rest) /\ \E h : Placed(h)
<1> DEFINE p == Behind
           M == Meanings(buffer)
<1>0. buffer \in Seq(Cell) /\ Len(buffer) \in Nat /\ p \in 0..Len(buffer) /\ rest = SubSeq(buffer, p + 1, Len(buffer))
  BY DEF TextInv, Unread
<1> HIDE DEF p
<1>1. rest \in Seq(Cell) /\ Len(rest) = Len(buffer) - p /\ \A i \in 1..Len(rest) : rest[i] = buffer[p + i]
  BY <1>0
<1>2. Unread(rest)
  BY <1>0, UnreadPart
<1>3. M \in [0..Len(buffer) -> States] /\ \A i \in 1..Len(buffer) : M[i] = MeaningStep(M[i - 1], buffer[i])
  BY <1>0, MeaningsSteps
<1> HIDE DEF M
<1>4. PICK h : h = [k \in 0..Len(rest) |-> M[p + k]]
  OBVIOUS
<1>5. h \in [0..Len(rest) -> States]
  <2>1. \A k \in 0..Len(rest) : p + k \in 0..Len(buffer)
    BY <1>0, <1>1
  <2>2. QED
    BY <1>3, <1>4, <2>1
<1>6. ASSUME NEW i \in 1..Len(rest) PROVE h[i] = MeaningStep(h[i - 1], rest[i])
  <2>1. p + i \in 1..Len(buffer) /\ (p + i) - 1 = p + (i - 1) /\ i \in 0..Len(rest) /\ i - 1 \in 0..Len(rest)
    BY <1>0, <1>1
  <2>2. h[i] = M[p + i] /\ h[i - 1] = M[p + (i - 1)] /\ rest[i] = buffer[p + i]
    BY <1>1, <1>4, <2>1
  <2>3. QED
    BY <1>3, <2>1, <2>2
<1>7. Placed(h)
  BY <1>0, <1>1, <1>4, <1>5, <1>6 DEF Placed, Run, p, M
<1>8. QED
  BY <1>2, <1>7

(* Reading on, the pass is seen from where that leads.                      *)
LEMMA ReadPlaced ==
  ASSUME Unread(rest), Unread(buffer), UNCHANGED buffer, NEW h, Placed(h), NEW k \in 0..Len(rest), ReadCh(k)
  PROVE  /\ Behind' \in 0..Len(buffer') /\ rest' = SubSeq(buffer', Behind' + 1, Len(buffer'))
         /\ Meanings(buffer')[Behind'] = h[k]
         /\ rest' = <<>> <=> k = Len(rest)
         /\ k < Len(rest) => Ch' = rest[k + 1].s
<1> DEFINE n == Len(rest)
<1>0. /\ Behind \in 0..Len(buffer) /\ Len(buffer) \in Nat /\ n = Len(buffer) - Behind /\ n \in Nat
      /\ rest = SubSeq(buffer, Behind + 1, Len(buffer)) /\ buffer \in Seq(Cell)
      /\ \A i \in 0..n : h[i] = Meanings(buffer)[Behind + i]
  BY DEF Placed, Unread
<1>1. rest' = SubSeq(rest, k + 1, n)
  BY PlainReadCh
<1>2. PICK p \in Nat : p = Behind
  BY <1>0
<1>3. rest' = SubSeq(buffer, p + k + 1, Len(buffer))
  <2>1. PICK S : S = SubSeq(buffer, p + k + 1, Len(buffer))
    OBVIOUS
  <2>2. p + k + 1 \in Nat /\ p + k <= Len(buffer) /\ k \in Nat
    BY <1>0, <1>2
  <2>3. S \in Seq(Cell) /\ Len(S) = n - k /\ \A j \in 1..n - k : S[j] = buffer[p + k + j]
    BY <1>0, <1>2, <2>1, <2>2
  <2>4. PICK R : R = SubSeq(rest, k + 1, n)
    OBVIOUS
  <2>5. rest \in Seq(Cell) /\ \A j \in 1..n : rest[j] = buffer[p + j]
    BY <1>0, <1>2
  <2>6. R \in Seq(Cell) /\ Len(R) = n - k /\ \A j \in 1..n - k : R[j] = rest[k + j]
    BY <1>0, <2>2, <2>4, <2>5
  <2>7. \A j \in 1..n - k : R[j] = S[j]
    <3> TAKE j \in 1..n - k
    <3>1. k + j \in 1..n /\ p + (k + j) = p + k + j
      BY <1>0, <2>2
    <3>2. QED
      BY <2>3, <2>5, <2>6, <3>1
  <2>8. n - k \in Nat
    BY <1>0
  <2>9. R = S
    BY ONLY <2>3, <2>6, <2>7, <2>8, SeqEqual
  <2>10. QED
    BY <1>1, <2>1, <2>4, <2>9
<1>4. Len(rest') = n - k
  BY <1>0, <1>1 DEF Unread
<1>5. Behind' = p + k /\ p + k \in 0..Len(buffer)
  BY <1>0, <1>2, <1>4 DEF Behind
<1>6. Meanings(buffer')[Behind'] = h[k]
  BY <1>0, <1>2, <1>5
<1>7. rest' = <<>> <=> k = n
  <2>1. rest' \in Seq(Cell)
    BY <1>0, <1>3, <1>5
  <2>2. rest' = <<>> <=> Len(rest') = 0
    BY ONLY <2>1, EmptySeq
  <2>3. QED
    BY ONLY <1>0, <1>4, <2>2, k \in 0..n
<1>8. k < n => Ch' = rest[k + 1].s
  <2>1. ASSUME k < n PROVE Head(rest') = rest[k + 1]
    BY <1>0, <1>1, <2>1 DEF Unread
  <2>2. QED
    BY <2>1 DEF Ch
<1>9. QED
  BY ONLY <1>0, <1>3, <1>5, <1>6, <1>7, <1>8, UNCHANGED buffer

(* Such a step keeps what the invariant says of the text.                   *)
LEMMA TextKept ==
  ASSUME Unread(rest), phase = "compile", UNCHANGED <<buffer, phase>>, NEW h, Placed(h), Unread(buffer),
         Moved(h) \/ Refused(h)
  PROVE  TextInv'
<1> DEFINE n == Len(rest)
<1>0. /\ Behind \in 0..Len(buffer) /\ Len(buffer) \in Nat /\ n = Len(buffer) - Behind /\ n \in Nat
      /\ rest = SubSeq(buffer, Behind + 1, Len(buffer)) /\ buffer \in Seq(Cell)
      /\ \A k \in 0..n : h[k] = Meanings(buffer)[Behind + k]
  BY DEF Placed, Unread
<1>1. CASE Moved(h)
  <2>1. PICK k \in 0..n :
          /\ ReadCh(k) /\ status' \in {"scanning", "skipping"}
          /\ \/ h[k].odd
             \/ k = n /\ FitsAtEnd(h[k], status', tokens')
             \/ /\ k < n /\ Fits(h[k], status', ifdefActive', skipDepth', definedSyms', tokens')
                /\ h[k].mode = "code" \/ (h[k].mode = "line" /\ status' = "scanning" /\ rest[k + 1].s = "nl")
    BY <1>1 DEF Moved
  <2>2. /\ Behind' \in 0..Len(buffer') /\ rest' = SubSeq(buffer', Behind' + 1, Len(buffer'))
        /\ Meanings(buffer')[Behind'] = h[k]
        /\ rest' = <<>> <=> k = n
        /\ k < n => Ch' = rest[k + 1].s
    BY <2>1, ReadPlaced
  <2>3. ~Stopped'
    BY <2>1 DEF Stopped
  <2>4. k = n /\ FitsAtEnd(h[k], status', tokens') => AgreesAtEnd(h[k])'
    BY DEF FitsAtEnd, AgreesAtEnd
  <2>5. /\ k < n /\ Fits(h[k], status', ifdefActive', skipDepth', definedSyms', tokens')
        /\ h[k].mode = "code" \/ (h[k].mode = "line" /\ status' = "scanning" /\ rest[k + 1].s = "nl")
        => Agrees(h[k])'
    <3>1. k < n => Ch' = rest[k + 1].s
      BY <2>2
    <3>2. QED
      BY ONLY <3>1 DEF Fits, Agrees
  <2>6. h[k].odd \/ IF rest' = <<>> THEN AgreesAtEnd(h[k])' ELSE Agrees(h[k])'
    BY ONLY <2>1, <2>2, <2>4, <2>5, <1>0
  <2>7. ActiveText'
    BY <2>3 DEF ActiveText
  <2>8. (LET m == Meanings(buffer)[Behind] IN m.odd \/ Stopped \/ IF rest = <<>> THEN AgreesAtEnd(m) ELSE Agrees(m))'
    BY ONLY <2>2, <2>6
  <2>9. QED
    BY ONLY <2>2, <2>7, <2>8, UNCHANGED <<buffer, phase>> DEF TextInv
<1>2. CASE Refused(h)
  <2>1. PICK why : /\ Error(why) /\ why \notin {"scanning", "skipping", "end"}
                   /\ why = "too-many-nested" \/ Faulty(h[n])
    BY <1>2 DEF Refused
  <2>2. rest' = rest /\ status' = why
    BY <2>1 DEF Error
  <2>3. Behind' = Behind /\ Stopped'
    BY <2>1, <2>2 DEF Behind, Stopped
  <2>4. Meaning(buffer') = h[n]
    <3>1. Behind + n = Len(buffer)
      BY <1>0
    <3>2. n \in 0..n /\ buffer' = buffer
      BY <1>0
    <3>3. h[n] = Meanings(buffer)[Len(buffer)]
      BY ONLY <1>0, <3>1, <3>2
    <3>4. QED
      BY ONLY <3>2, <3>3 DEF Meaning
  <2>5. ActiveText'
    BY ONLY <2>1, <2>2, <2>4 DEF ActiveText, Faulty
  <2>6. QED
    BY ONLY <1>0, <2>2, <2>3, <2>5, UNCHANGED <<buffer, phase>> DEF TextInv
<1>3. QED
  BY <1>1, <1>2

-----------------------------------------------------------------------------
(* One lemma for each kind of step: it moves or refuses as the pass does.   *)
Standing(h) ==
  /\ Unread(rest) /\ rest # <<>> /\ Run(h) /\ Agrees(h[0]) /\ KnownSafe

(* Where the scanner stands, and with what.                                 *)
LEMMA StandingParts ==
  ASSUME NEW h, Standing(h), status \in {"scanning", "skipping"}
  PROVE  /\ Unread(rest) /\ Run(h) /\ rest \in Seq(Cell) /\ Len(rest) \in Nat \ {0}
         /\ h[0] \in States /\ Ch = rest[1].s /\ 1 \in 1..Len(rest)
         /\ Fits(h[0], status, ifdefActive, skipDepth, definedSyms, tokens)
         /\ ifdefActive \in Seq(BOOLEAN) /\ skipDepth \in Nat
         /\ status = "skipping" => ifdefActive # <<>>
         /\ status = "scanning" => Live(h[0])
         /\ status = "skipping" => ~Live(h[0])
         /\ Ch # "nl" \/ status = "skipping" => h[0].mode = "code"
         /\ h[0].mode = "code" \/ (h[0].mode = "line" /\ Ch = "nl")
<1>1. Unread(rest) /\ Run(h) /\ rest # <<>> /\ Agrees(h[0]) /\ KnownSafe
  BY DEF Standing
<1>2. rest \in Seq(Cell) /\ Len(rest) \in Nat \ {0} /\ Ch = rest[1].s /\ 1 \in 1..Len(rest)
  BY <1>1 DEF Unread, Ch
<1>3. h[0] \in States
  BY <1>1, <1>2 DEF Run
<1>4. Fits(h[0], status, ifdefActive, skipDepth, definedSyms, tokens)
  BY <1>1 DEF Fits, Agrees
<1>5. ifdefActive \in Seq(BOOLEAN) /\ skipDepth \in Nat /\ (status = "skipping" => ifdefActive # <<>>)
  BY <1>1 DEF KnownSafe
<1>6. h[0].mode = "code" \/ (h[0].mode = "line" /\ status = "scanning" /\ Ch = "nl")
  BY ONLY <1>1 DEF Agrees
<1>7. PICK conds \in Seq(Conds) : conds = h[0].conds
  BY <1>3, StateParts
<1>8. PICK k \in Nat : k = Len(ifdefActive) /\ (ifdefActive # <<>> => k > 0)
  BY <1>5
<1>9. /\ Len(conds) = IF status = "skipping" THEN k + skipDepth ELSE k
      /\ \A i \in 1..k : conds[i].on <=> (i < k \/ status = "scanning")
  BY ONLY <1>4, <1>7, <1>8 DEF Fits
<1>10. status = "scanning" => Live(h[0])
  <2>1. ASSUME status = "scanning" PROVE \A i \in DOMAIN conds : conds[i].on
    BY ONLY <1>8, <1>9, <2>1, conds \in Seq(Conds)
  <2>2. QED
    BY <1>7, <2>1 DEF Live
<1>11. status = "skipping" => ~Live(h[0])
  <2>1. ASSUME status = "skipping" PROVE k \in DOMAIN conds /\ ~conds[k].on
    <3>1. k \in 1..k /\ ~(k < k) /\ k <= Len(conds)
      BY <1>5, <1>8, <1>9, <2>1
    <3>2. QED
      BY <1>8, <1>9, <2>1, <3>1
  <2>2. QED
    BY <1>7, <2>1 DEF Live
<1>12. QED
  BY <1>1, <1>2, <1>3, <1>4, <1>5, <1>6, <1>10, <1>11

(* States that are the same fit the same.                                   *)
LEMMA FitsSame ==
  ASSUME NEW m, NEW n, Same(n, m), NEW stat, NEW active, NEW depth, NEW syms, NEW out,
         Fits(m, stat, active, depth, syms, out)
  PROVE  Fits(n, stat, active, depth, syms, out)
BY DEF Fits, Same

(* A state that fits fits at the end.                                       *)
LEMMA FitsEnds ==
  ASSUME NEW m \in States, NEW stat \in {"scanning", "skipping"}, NEW active \in Seq(BOOLEAN), NEW depth \in Nat,
         NEW syms, NEW out, Fits(m, stat, active, depth, syms, out), stat = "skipping" => active # <<>>
  PROVE  FitsAtEnd(m, stat, out)
<1>1. stat = "skipping" => m.conds # <<>>
  <2>1. ASSUME stat = "skipping" PROVE Len(m.conds) > 0
    <3>1. Len(m.conds) = Len(active) + depth /\ active # <<>>
      BY <2>1 DEF Fits
    <3>2. Len(active) \in Nat \ {0}
      BY ONLY <3>1, EmptySeq, active \in Seq(BOOLEAN)
    <3>3. QED
      BY <3>1, <3>2
  <2>2. m.conds \in Seq(Conds)
    BY StateParts
  <2>3. QED
    BY <2>1, <2>2
<1>2. stat = "scanning" => ~m.bad /\ m.out = out
  BY DEF Fits
<1>3. QED
  BY <1>1, <1>2 DEF FitsAtEnd

(* A step that reads on to where it agrees with the pass.                   *)
LEMMA MoveFits ==
  ASSUME NEW h, Unread(rest), Run(h), NEW k \in 0..Len(rest), ReadCh(k), status' \in {"scanning", "skipping"},
         ifdefActive' \in Seq(BOOLEAN), skipDepth' \in Nat, status' = "skipping" => ifdefActive' # <<>>,
         h[k].odd \/ Fits(h[k], status', ifdefActive', skipDepth', definedSyms', tokens'),
         \/ h[k].odd
         \/ k = Len(rest)
         \/ h[k].mode = "code"
         \/ h[k].mode = "line" /\ status' = "scanning" /\ (k < Len(rest) => rest[k + 1].s = "nl")
  PROVE  Moved(h)
<1>0. h[k] \in States /\ Len(rest) \in Nat /\ k \in Nat /\ k <= Len(rest)
  BY DEF Run, Unread
<1>1. CASE h[k].odd
  BY <1>1 DEF Moved
<1>2. CASE ~h[k].odd /\ k < Len(rest)
  BY <1>2 DEF Moved
<1>3. CASE ~h[k].odd /\ k = Len(rest)
  <2>1. FitsAtEnd(h[k], status', tokens')
    BY <1>0, <1>3, FitsEnds
  <2>2. QED
    BY <1>3, <2>1 DEF Moved
<1>4. QED
  BY <1>0, <1>1, <1>2, <1>3

(* A step that changes nothing but the place.                               *)
LEMMA MoveSame ==
  ASSUME NEW h, Standing(h), status \in {"scanning", "skipping"}, NEW k \in 0..Len(rest), ReadCh(k),
         UNCHANGED <<definedSyms, ifdefActive, skipDepth, tokens, status>>,
         Same(h[k], h[0]),
         \/ h[k].mode = "code"
         \/ h[k].mode = "line" /\ status' = "scanning" /\ (k < Len(rest) => rest[k + 1].s = "nl")
  PROVE  Moved(h)
<1>1. /\ Unread(rest) /\ Run(h) /\ ifdefActive \in Seq(BOOLEAN) /\ skipDepth \in Nat
      /\ status = "skipping" => ifdefActive # <<>>
      /\ Fits(h[0], status, ifdefActive, skipDepth, definedSyms, tokens)
  BY StandingParts
<1>2. Fits(h[k], status, ifdefActive, skipDepth, definedSyms, tokens)
  BY <1>1, FitsSame
<1>3. /\ ifdefActive' = ifdefActive /\ skipDepth' = skipDepth /\ definedSyms' = definedSyms
      /\ tokens' = tokens /\ status' = status
  OBVIOUS
<1>4. QED
  BY <1>1, <1>2, <1>3, MoveFits

(* A step that refuses.                                                     *)
LEMMA RefuseFaulty ==
  ASSUME NEW h, NEW why, Error(why), why \notin {"scanning", "skipping", "end"}, Faulty(h[Len(rest)])
  PROVE  Refused(h)
BY DEF Refused

(* Blanks.                                                                  *)
LEMMA WhitespaceText ==
  ASSUME NEW h, Standing(h), Whitespace
  PROVE  Moved(h)
<1>0. Reading /\ Ch \in Blanks /\ Skip(1) /\ status = "scanning"
  BY DEF Whitespace, Reading
<1>1. /\ Unread(rest) /\ Run(h) /\ Len(rest) \in Nat \ {0} /\ h[0] \in States /\ Ch = rest[1].s /\ 1 \in 1..Len(rest)
      /\ h[0].mode = "code" \/ (h[0].mode = "line" /\ Ch = "nl")
  BY <1>0, StandingParts
<1>2. h[1] = MeaningStep(h[0], rest[1])
  BY <1>1, RunStep
<1>3. h[1].mode = "code" /\ Same(h[1], h[0])
  <2>1. CASE h[0].mode = "code"
    <3>1. h[1] = h[0]
      BY <1>0, <1>1, <1>2, <2>1, StepIs, CodeIs
    <3>2. QED
      BY <2>1, <3>1 DEF Same
  <2>2. CASE h[0].mode = "line" /\ Ch = "nl"
    <3>1. h[1] = Mode(h[0], "code") /\ "code" \in Modes
      BY <1>1, <1>2, <2>2, StepIs DEF Modes
    <3>2. QED
      BY <1>1, <3>1, ModeSame
  <2>3. QED
    BY <1>1, <2>1, <2>2
<1>4. 1 \in 0..Len(rest) /\ ReadCh(1) /\ UNCHANGED <<definedSyms, ifdefActive, skipDepth, tokens, status>>
  BY <1>0, <1>1 DEF Skip
<1>5. QED
  BY <1>0, <1>3, <1>4, MoveSame

(* From behind the brace to the one that closes it.                         *)
LEMMA ToBrace ==
  ASSUME Unread(rest), NEW h, Run(h), NEW a \in 0..Len(rest), h[a].mode = "brace", NEW e \in a + 1..Len(rest) + 1,
         e > Len(rest) \/ rest[e].s = "rbrace", \A j \in a + 1..e - 1 : rest[j].s # "rbrace"
  PROVE  /\ e <= Len(rest) => h[e] \in States /\ h[e].mode = "code" /\ Same(h[e], h[a])
         /\ e > Len(rest) => h[Len(rest)] = h[a]
<1>0. Len(rest) \in Nat /\ h[a] \in States /\ "code" \in Modes /\ rest \in Seq(Cell)
  BY DEF Unread, Run, Modes
<1>1. ASSUME NEW j \in a + 1..e - 1 PROVE MeaningStep(h[a], rest[j]) = h[a]
  <2>1. j \in 1..Len(rest)
    BY <1>0
  <2>2. rest[j] \in Cell /\ rest[j].s # "rbrace"
    BY <1>0, <2>1
  <2>3. QED
    BY <1>0, <2>2, StepIdle
<1>2. e <= Len(rest) => MeaningStep(h[a], rest[e]) = Mode(h[a], "code")
  <2>1. ASSUME e <= Len(rest) PROVE rest[e].s = "rbrace"
    BY <1>0, <2>1
  <2>2. QED
    BY <2>1, StepIs
<1>3. QED
  BY <1>0, <1>1, <1>2, ToEnd

(* A search in what is ahead.                                               *)
LEMMA Ahead ==
  ASSUME rest \in Seq(Cell), NEW p \in 1..Len(rest) + 1, NEW S
  PROVE  /\ First(rest, p, S) \in p..Len(rest) + 1
         /\ First(rest, p, S) > Len(rest) \/ rest[First(rest, p, S)].s \in S
         /\ \A j \in p..First(rest, p, S) - 1 : rest[j].s \notin S
<1>1. Len(rest) \in Nat /\ p \in Nat /\ p <= Len(rest) + 1
  OBVIOUS
<1>2. QED
  BY <1>1, FirstFound

(* A brace, and the word of a directive behind it.                          *)
LEMMA OpenRun ==
  ASSUME Unread(rest), rest # <<>>, NEW h, Run(h), h[0].mode = "code", rest[1].s = "lbrace"
  PROVE  /\ h[1] \in States /\ h[1].mode = "open" /\ Same(h[1], h[0])
         /\ Len(rest) > 1 =>
              h[2] = IF Directive # "none" THEN OnDirective(h[1], Directive)
                     ELSE Mode(h[1], IF rest[2].s = "rbrace" THEN "code" ELSE "brace")
         /\ Directive # "none" => Directive \in Kinds /\ Len(rest) > 1 /\ rest[2].s # "rbrace"
<1>0. Len(rest) \in Nat \ {0} /\ h[0] \in States /\ 1 \in 1..Len(rest) /\ "open" \in Modes
  BY DEF Unread, Run, Modes
<1>1. h[1] = Mode(h[0], "open")
  <2>1. h[1] = MeaningStep(h[0], rest[1])
    BY <1>0, RunStep
  <2>2. QED
    BY <2>1, StepIs, CodeIs
<1>2. h[1] \in States /\ h[1].mode = "open" /\ Same(h[1], h[0])
  BY <1>0, <1>1, ModeSame
<1>3. Len(rest) > 1 => h[2] = MeaningStep(h[1], rest[2])
  <2>1. ASSUME Len(rest) > 1 PROVE 2 \in 1..Len(rest) /\ 2 - 1 = 1
    BY <1>0, <2>1
  <2>2. QED
    BY <2>1, RunStep
<1>4. MeaningStep(h[1], rest[2]) = IF rest[2].s \in DOMAIN DirectiveName THEN OnDirective(h[1], DirectiveName[rest[2].s])
                                   ELSE Mode(h[1], IF rest[2].s = "rbrace" THEN "code" ELSE "brace")
  BY <1>2, StepIs
<1>5. "rbrace" \notin DOMAIN DirectiveName
  BY DEF DirectiveName
<1>6. QED
  BY <1>2, <1>3, <1>4, <1>5, DirectiveKinds

(* A comment in braces, or a directive that does nothing here.              *)
LEMMA BraceRun ==
  ASSUME Unread(rest), rest # <<>>, NEW h, Run(h), h[0].mode = "code", rest[1].s = "lbrace",
         Directive = "none" \/ (Directive \in {"INCLUDE", "DEFINE", "UNDEF"} /\ ~Live(h[0])),
         NEW e, e = First(rest, 2, {"rbrace"})
  PROVE  /\ e \in 2..Len(rest) + 1
         /\ e <= Len(rest) => h[e] \in States /\ h[e].mode = "code" /\ Same(h[e], h[0])
         /\ e > Len(rest) => h[Len(rest)] \in States /\ h[Len(rest)].mode # "code" /\ Same(h[Len(rest)], h[0])
<1>0. /\ Len(rest) \in Nat \ {0} /\ rest \in Seq(Cell) /\ 2 \in 1..Len(rest) + 1
      /\ "code" \in Modes /\ "brace" \in Modes
  BY DEF Unread, Modes
<1>1. /\ e \in 2..Len(rest) + 1 /\ (e > Len(rest) \/ rest[e].s = "rbrace")
      /\ \A j \in 2..e - 1 : rest[j].s # "rbrace"
  BY <1>0, Ahead
<1>2. /\ h[1] \in States /\ h[1].mode = "open" /\ Same(h[1], h[0])
      /\ Len(rest) > 1 => h[2] = IF Directive # "none" THEN OnDirective(h[1], Directive)
                                 ELSE Mode(h[1], IF rest[2].s = "rbrace" THEN "code" ELSE "brace")
      /\ Directive # "none" => Directive \in Kinds /\ Len(rest) > 1 /\ rest[2].s # "rbrace"
  BY OpenRun
<1>3. CASE Len(rest) = 1
  BY <1>0, <1>1, <1>2, <1>3
<1>4. CASE Len(rest) > 1 /\ rest[2].s = "rbrace"
  <2>1. e = 2 /\ Directive = "none"
    BY <1>0, <1>1, <1>2, <1>4
  <2>2. h[2] = Mode(h[1], "code")
    BY <1>2, <1>4, <2>1
  <2>3. h[2] \in States /\ h[2].mode = "code" /\ Same(h[2], h[1])
    BY <1>0, <1>2, <2>2, ModeSame
  <2>4. QED
    BY <1>1, <1>2, <1>4, <2>1, <2>3 DEF Same
<1>5. CASE Len(rest) > 1 /\ rest[2].s # "rbrace"
  <2>1. h[2] \in States /\ h[2].mode = "brace" /\ Same(h[2], h[1])
    <3>1. CASE Directive = "none"
      <4>1. h[2] = Mode(h[1], "brace")
        BY <1>2, <1>5, <3>1
      <4>2. QED
        BY <1>0, <1>2, <4>1, ModeSame
    <3>2. CASE Directive # "none" /\ Directive \in {"INCLUDE", "DEFINE", "UNDEF"} /\ ~Live(h[0])
      <4>1. ~Live(h[1])
        BY <1>2, <3>2 DEF Live, Same
      <4>2. h[2] = OnDirective(h[1], Directive) /\ Directive \in Kinds
        BY <1>2, <1>5, <3>2
      <4>3. QED
        BY <1>2, <3>2, <4>1, <4>2, DirectiveStep
    <3>3. QED
      BY <3>1, <3>2
  <2>2. e # 2
    BY <1>0, <1>1, <1>5
  <2>3. e \in 2 + 1..Len(rest) + 1 /\ 2 \in 0..Len(rest) /\ \A j \in 2 + 1..e - 1 : rest[j].s # "rbrace"
    BY <1>0, <1>1, <1>5, <2>2
  <2>4. /\ e <= Len(rest) => h[e] \in States /\ h[e].mode = "code" /\ Same(h[e], h[2])
        /\ e > Len(rest) => h[Len(rest)] = h[2]
    BY <1>1, <2>1, <2>3, ToBrace
  <2>5. QED
    BY <1>1, <1>2, <2>1, <2>4 DEF Same
<1>6. Len(rest) = 1 \/ Len(rest) > 1
  <2>1. PICK n \in Nat \ {0} : n = Len(rest)
    BY <1>0
  <2>2. n = 1 \/ n > 1
    BY ONLY n \in Nat \ {0}
  <2>3. QED
    BY ONLY <2>1, <2>2
<1>7. QED
  BY <1>3, <1>4, <1>5, <1>6, Zenon

(* A comment in parens, and in a block that is skipped a string.            *)
LEMMA SpanRun ==
  ASSUME Unread(rest), rest # <<>>, NEW h, Run(h), h[0].mode = "code", NEW S, NEW m \in {"paren", "string"},
         \/ m = "paren" /\ S = {"*)"} /\ rest[1].s = "(*"
         \/ m = "string" /\ S = {"'"} /\ rest[1].s = "'" /\ ~Live(h[0]),
         NEW e, e = First(rest, 2, S)
  PROVE  /\ e \in 2..Len(rest) + 1
         /\ e <= Len(rest) => h[e] \in States /\ h[e].mode = "code" /\ Same(h[e], h[0])
         /\ e > Len(rest) => h[Len(rest)] \in States /\ h[Len(rest)].mode # "code" /\ Same(h[Len(rest)], h[0])
<1>0. /\ Len(rest) \in Nat \ {0} /\ rest \in Seq(Cell) /\ 2 \in 1..Len(rest) + 1 /\ 1 \in 1..Len(rest)
      /\ "code" \in Modes /\ m \in Modes /\ m # "code" /\ h[0] \in States
  BY DEF Unread, Modes, Run
<1>1. /\ e \in 2..Len(rest) + 1 /\ (e > Len(rest) \/ rest[e].s \in S)
      /\ \A j \in 2..e - 1 : rest[j].s \notin S
  BY <1>0, Ahead
<1>2. h[1] = Mode(h[0], m)
  <2>1. h[1] = OnCode(h[0], rest[1])
    BY <1>0, RunStep, StepIs
  <2>2. ~Live(h[0]) => Collect(h[0], rest[1]) = h[0]
    BY DEF Collect
  <2>3. QED
    BY ONLY <2>1, <2>2, CodeIs, \/ m = "paren" /\ S = {"*)"} /\ rest[1].s = "(*"
                                \/ m = "string" /\ S = {"'"} /\ rest[1].s = "'" /\ ~Live(h[0])
<1>3. h[1] \in States /\ h[1].mode = m /\ Same(h[1], h[0])
  BY <1>0, <1>2, ModeSame
<1>4. m = "string" => ~Live(h[1])
  BY <1>3 DEF Live, Same
<1>5. ASSUME NEW j \in 1 + 1..e - 1 PROVE MeaningStep(h[1], rest[j]) = h[1]
  <2>1. j \in 1..Len(rest) /\ j \in 2..e - 1
    BY <1>0, <1>1
  <2>2. rest[j] \in Cell /\ rest[j].s \notin S
    BY <1>0, <1>1, <2>1
  <2>3. \/ h[1].mode = "paren" /\ rest[j].s # "*)"
        \/ h[1].mode = "string" /\ ~Live(h[1]) /\ rest[j].s # "'"
    BY <1>3, <1>4, <2>2
  <2>4. QED
    BY <1>3, <2>2, <2>3, StepIdle
<1>6. ASSUME e <= Len(rest) PROVE MeaningStep(h[1], rest[e]) = Mode(h[1], "code")
  <2>1. rest[e].s \in S
    BY <1>0, <1>1, <1>6
  <2>2. CASE m = "paren"
    BY <1>3, <2>1, <2>2, StepIs
  <2>3. CASE m = "string"
    <3>1. Collect(h[1], rest[e]) = h[1]
      BY <1>4, <2>3 DEF Collect
    <3>2. rest[e].s = "'"
      BY <2>1, <2>3
    <3>3. QED
      BY ONLY <1>3, <2>3, <3>1, <3>2, StepIs
  <2>4. QED
    BY <2>2, <2>3
<1>7. e \in 1 + 1..Len(rest) + 1 /\ 1 \in 0..Len(rest)
  BY <1>0, <1>1
<1>8. /\ e <= Len(rest) => h[e] \in States /\ h[e].mode = "code" /\ Same(h[e], h[1])
      /\ e > Len(rest) => h[Len(rest)] = h[1]
  BY <1>0, <1>3, <1>5, <1>6, <1>7, ToEnd
<1>9. QED
  BY <1>0, <1>1, <1>3, <1>8 DEF Same

(* A comment that ends is left behind, another refused.                     *)
LEMMA ThroughText ==
  ASSUME NEW h, Standing(h), status = "scanning", NEW S, Through(S),
         NEW e, e = First(rest, 2, S), e \in 2..Len(rest) + 1,
         e <= Len(rest) => h[e].mode = "code" /\ Same(h[e], h[0]),
         e > Len(rest) => h[Len(rest)].mode # "code"
  PROVE  Moved(h) \/ Refused(h)
<1>0. Len(rest) \in Nat
  BY StandingParts
<1>1. IF e > Len(rest) THEN Error("unterminated") ELSE Skip(e)
  BY DEF Through
<1>2. CASE e > Len(rest)
  <2>1. Faulty(h[Len(rest)])
    BY <1>2 DEF Faulty
  <2>2. QED
    BY <1>1, <1>2, <2>1, RefuseFaulty
<1>3. CASE ~(e > Len(rest))
  <2>1. e \in 0..Len(rest) /\ e <= Len(rest)
    BY <1>0, <1>3
  <2>2. ReadCh(e) /\ UNCHANGED <<definedSyms, ifdefActive, skipDepth, tokens, status>>
    BY <1>1, <1>3 DEF Skip
  <2>3. QED
    BY <2>1, <2>2, MoveSame
<1>4. QED
  BY <1>2, <1>3

(* Comments.                                                                *)
LEMMA CommentText ==
  ASSUME NEW h, Standing(h), BraceComment \/ ParenComment
  PROVE  Moved(h) \/ Refused(h)
<1>0. status = "scanning" /\ rest # <<>> /\ Ch \notin {"nl"}
  BY DEF BraceComment, ParenComment, Reading
<1>1. Unread(rest) /\ Run(h) /\ h[0].mode = "code" /\ Ch = rest[1].s
  BY <1>0, StandingParts
<1>2. CASE BraceComment
  <2>1. PICK e : e = First(rest, 2, {"rbrace"})
    OBVIOUS
  <2>2. Ch = "lbrace" /\ Directive = "none" /\ Through({"rbrace"})
    BY <1>2 DEF BraceComment
  <2>3. /\ e \in 2..Len(rest) + 1
        /\ e <= Len(rest) => h[e].mode = "code" /\ Same(h[e], h[0])
        /\ e > Len(rest) => h[Len(rest)].mode # "code"
    BY <1>0, <1>1, <2>1, <2>2, BraceRun
  <2>4. QED
    BY <1>0, <2>1, <2>2, <2>3, ThroughText
<1>3. CASE ParenComment
  <2>1. PICK e : e = First(rest, 2, {"*)"})
    OBVIOUS
  <2>2. Ch = "(*" /\ Through({"*)"})
    BY <1>3 DEF ParenComment
  <2>3. /\ e \in 2..Len(rest) + 1
        /\ e <= Len(rest) => h[e].mode = "code" /\ Same(h[e], h[0])
        /\ e > Len(rest) => h[Len(rest)].mode # "code"
    BY <1>0, <1>1, <2>1, <2>2, SpanRun
  <2>4. QED
    BY <1>0, <2>1, <2>2, <2>3, ThroughText
<1>4. QED
  BY <1>2, <1>3

(* A line comment ends before the end of its line.                          *)
LEMMA LineCommentText ==
  ASSUME NEW h, Standing(h), LineComment
  PROVE  Moved(h)
<1>0. status = "scanning" /\ rest # <<>> /\ Ch = "//"
  BY DEF LineComment, Reading
<1>1. /\ Unread(rest) /\ Run(h) /\ h[0].mode = "code" /\ Ch = rest[1].s /\ h[0] \in States /\ Live(h[0])
      /\ rest \in Seq(Cell) /\ Len(rest) \in Nat \ {0} /\ 1 \in 1..Len(rest) /\ 2 \in 1..Len(rest) + 1
  BY <1>0, StandingParts
<1>2. PICK e : e = First(rest, 2, {"nl"}) /\ Skip(e - 1)
  BY DEF LineComment
<1>3. /\ e \in 2..Len(rest) + 1 /\ (e > Len(rest) \/ rest[e].s \in {"nl"})
      /\ \A j \in 2..e - 1 : rest[j].s \notin {"nl"}
  BY <1>1, <1>2, Ahead
<1>4. h[1] = Mode(h[0], "line") /\ "line" \in Modes
  <2>1. h[1] = OnCode(h[0], rest[1])
    BY <1>1, RunStep, StepIs
  <2>2. QED
    BY <1>0, <1>1, <2>1, CodeIs DEF Modes
<1>5. h[1] \in States /\ h[1].mode = "line" /\ Same(h[1], h[0])
  BY <1>1, <1>4, ModeSame
<1>6. ASSUME NEW j \in 1 + 1..e - 1 PROVE MeaningStep(h[1], rest[j]) = h[1]
  <2>1. rest[j] \in Cell /\ rest[j].s # "nl"
    BY <1>1, <1>3
  <2>2. QED
    BY <1>5, <2>1, StepIdle
<1>7. e - 1 \in 0..Len(rest) /\ 1 \in 0..e - 1 /\ (e - 1 < Len(rest) => rest[(e - 1) + 1].s = "nl")
  <2>1. e - 1 < Len(rest) => ~(e > Len(rest)) /\ (e - 1) + 1 = e
    BY <1>1, <1>3
  <2>2. QED
    BY <1>1, <1>3, <2>1
<1>8. h[e - 1] = h[1]
  BY <1>1, <1>6, <1>7, RunIdle
<1>9. ReadCh(e - 1) /\ UNCHANGED <<definedSyms, ifdefActive, skipDepth, tokens, status>>
  BY <1>2 DEF Skip
<1>10. Same(h[e - 1], h[0]) /\ h[e - 1].mode = "line" /\ status' = "scanning"
  BY <1>0, <1>5, <1>8, <1>9
<1>11. QED
  BY <1>0, <1>7, <1>9, <1>10, MoveSame

(* A word goes to the parser.                                               *)
LEMMA TokenText ==
  ASSUME NEW h, Standing(h), Token
  PROVE  Moved(h)
<1>0. status = "scanning" /\ rest # <<>> /\ Ch \notin Blanks \cup {"lbrace", "(*", "//", "'"} /\ Deliver(1)
  BY DEF Token, Reading
<1>1. Ch # "nl"
  BY <1>0 DEF Blanks
<1>2. /\ Unread(rest) /\ Run(h) /\ h[0].mode = "code" /\ Ch = rest[1].s /\ h[0] \in States /\ Live(h[0])
      /\ rest \in Seq(Cell) /\ Len(rest) \in Nat \ {0} /\ 1 \in 1..Len(rest) /\ 1 \in 0..Len(rest)
      /\ Fits(h[0], status, ifdefActive, skipDepth, definedSyms, tokens)
      /\ ifdefActive \in Seq(BOOLEAN) /\ skipDepth \in Nat
  BY <1>0, <1>1, StandingParts
<1>3. h[1] = Collect(h[0], rest[1]) /\ rest[1] \in Cell
  <2>1. h[1] = OnCode(h[0], rest[1])
    BY <1>2, RunStep, StepIs
  <2>2. QED
    BY <1>0, <1>2, <2>1, CodeIs
<1>4. /\ h[1].mode = "code" /\ h[1].conds = h[0].conds /\ h[1].syms = h[0].syms /\ h[1].bad = h[0].bad
      /\ h[1].out = Append(h[0].out, rest[1])
  <2>1. PICK st \in States, c \in Cell : st = h[0] /\ c = rest[1]
    BY <1>2, <1>3
  <2>2. Live(st)
    BY <1>2, <2>1
  <2>3. /\ Collect(st, c).mode = st.mode /\ Collect(st, c).conds = st.conds /\ Collect(st, c).syms = st.syms
        /\ Collect(st, c).bad = st.bad /\ Collect(st, c).out = Append(st.out, c)
    BY ONLY <2>2, CollectIs, st \in States, c \in Cell
  <2>4. QED
    BY ONLY <1>2, <1>3, <2>1, <2>3
<1>5. /\ ReadCh(1) /\ tokens' = tokens \o Cells(1)
      /\ UNCHANGED <<definedSyms, ifdefActive, skipDepth, status>>
  BY <1>0 DEF Deliver
<1>6. tokens' = h[1].out
  <2>1. \A i \in 1..1 : ~IsMark(rest[i])
    BY <1>2, RunStep DEF IsMark
  <2>2. Cells(1) = SubSeq(rest, 1, 1)
    BY <1>2, <2>1, CellsRead
  <2>3. SubSeq(rest, 1, 1) = <<rest[1]>>
    <3>1. PICK S : S = SubSeq(rest, 1, 1)
      OBVIOUS
    <3>2. PICK T : T = <<rest[1]>>
      OBVIOUS
    <3>3. S \in Seq(Cell) /\ Len(S) = 1 /\ S[1] = rest[1]
      BY <1>2, <3>1
    <3>4. T \in Seq(Cell) /\ Len(T) = 1 /\ T[1] = rest[1]
      BY ONLY <1>3, <3>2
    <3>5. Len(S) \in Nat /\ \A j \in 1..Len(S) : S[j] = T[j]
      BY ONLY <3>3, <3>4
    <3>6. S = T
      BY ONLY <3>3, <3>4, <3>5, SeqEqual
    <3>7. QED
      BY <3>1, <3>2, <3>6
  <2>4. h[0].out = tokens /\ tokens \in Seq(Cell)
    BY <1>2 DEF Fits, Standing, KnownSafe
  <2>5. Append(tokens, rest[1]) = tokens \o <<rest[1]>>
    BY <1>3, <2>4
  <2>6. QED
    BY <1>4, <1>5, <2>2, <2>3, <2>4, <2>5
<1>7. Fits(h[1], status', ifdefActive', skipDepth', definedSyms', tokens')
  <2>1. Fits(h[1], status, ifdefActive, skipDepth, definedSyms, h[1].out)
    BY ONLY <1>2, <1>4 DEF Fits
  <2>2. QED
    BY <1>5, <1>6, <2>1
<1>8. QED
  BY <1>0, <1>2, <1>4, <1>5, <1>7, MoveFits

(* In an inactive block: a comment, a string or a directive passed over.    *)
LEMMA PastText ==
  ASSUME NEW h, Standing(h), status = "skipping", NEW S, Pass(To(S)),
         UNCHANGED <<optIncludes, definedSyms, ifdefActive, skipDepth, tokens, status>>,
         NEW e, e = First(rest, 2, S), e \in 2..Len(rest) + 1,
         e <= Len(rest) => h[e].mode = "code" /\ Same(h[e], h[0]),
         e > Len(rest) => h[Len(rest)].mode # "code"
  PROVE  Moved(h)
<1>0. Len(rest) \in Nat /\ rest \in Seq(Cell) /\ rest # <<>>
  BY StandingParts DEF Standing
<1>1. To(S) = (IF e > Len(rest) THEN Len(rest) ELSE e) /\ To(S) \in 0..Len(rest)
  BY <1>0, ToInText
<1>2. ReadCh(To(S)) /\ status' = "skipping"
  BY DEF Pass
<1>3. CASE e > Len(rest)
  <2>1. FitsAtEnd(h[Len(rest)], status', tokens')
    BY <1>2, <1>3 DEF FitsAtEnd
  <2>2. QED
    BY <1>0, <1>1, <1>2, <1>3, <2>1 DEF Moved
<1>4. CASE ~(e > Len(rest))
  <2>1. To(S) = e /\ h[e].mode = "code" /\ Same(h[e], h[0]) /\ e \in 0..Len(rest)
    BY <1>0, <1>1, <1>4
  <2>2. QED
    BY <1>2, <2>1, MoveSame
<1>5. QED
  BY <1>3, <1>4

(* What is not compiled goes by.                                            *)
LEMMA SkipTextText ==
  ASSUME NEW h, Standing(h), SkipText
  PROVE  Moved(h)
<1>0. /\ status = "skipping" /\ rest # <<>> /\ ~Conditional
      /\ UNCHANGED <<optIncludes, definedSyms, ifdefActive, skipDepth, tokens, status>>
      /\ Pass(CASE Ch = "lbrace" -> To({"rbrace"}) [] Ch = "(*" -> To({"*)"}) [] Ch = "'" -> To({"'"}) [] OTHER -> 1)
  BY DEF SkipText, Skipping
<1>1. /\ Unread(rest) /\ Run(h) /\ h[0].mode = "code" /\ Ch = rest[1].s /\ h[0] \in States /\ ~Live(h[0])
      /\ rest \in Seq(Cell) /\ Len(rest) \in Nat \ {0} /\ 1 \in 1..Len(rest) /\ 1 \in 0..Len(rest)
      /\ Fits(h[0], status, ifdefActive, skipDepth, definedSyms, tokens)
      /\ ifdefActive \in Seq(BOOLEAN) /\ skipDepth \in Nat /\ ifdefActive # <<>>
  BY <1>0, StandingParts
<1>2. CASE Ch = "lbrace"
  <2>1. PICK e : e = First(rest, 2, {"rbrace"})
    OBVIOUS
  <2>2. Pass(To({"rbrace"}))
    BY ONLY <1>0, <1>2
  <2>3. Directive = "none" \/ (Directive \in {"INCLUDE", "DEFINE", "UNDEF"} /\ ~Live(h[0]))
    BY <1>0, <1>1, <1>2, DirectiveKinds DEF Conditional, Kinds
  <2>4. /\ e \in 2..Len(rest) + 1
        /\ e <= Len(rest) => h[e].mode = "code" /\ Same(h[e], h[0])
        /\ e > Len(rest) => h[Len(rest)].mode # "code"
    BY <1>0, <1>1, <1>2, <2>1, <2>3, BraceRun
  <2>5. QED
    BY <1>0, <2>1, <2>2, <2>4, PastText
<1>3. CASE Ch = "(*"
  <2>1. PICK e : e = First(rest, 2, {"*)"})
    OBVIOUS
  <2>2. Pass(To({"*)"}))
    BY ONLY <1>0, <1>3
  <2>4. /\ e \in 2..Len(rest) + 1
        /\ e <= Len(rest) => h[e].mode = "code" /\ Same(h[e], h[0])
        /\ e > Len(rest) => h[Len(rest)].mode # "code"
    BY <1>0, <1>1, <1>3, <2>1, SpanRun
  <2>5. QED
    BY <1>0, <2>1, <2>2, <2>4, PastText
<1>4. CASE Ch = "'"
  <2>1. PICK e : e = First(rest, 2, {"'"})
    OBVIOUS
  <2>2. Pass(To({"'"}))
    BY ONLY <1>0, <1>4
  <2>4. /\ e \in 2..Len(rest) + 1
        /\ e <= Len(rest) => h[e].mode = "code" /\ Same(h[e], h[0])
        /\ e > Len(rest) => h[Len(rest)].mode # "code"
    BY <1>0, <1>1, <1>4, <2>1, SpanRun
  <2>5. QED
    BY <1>0, <2>1, <2>2, <2>4, PastText
<1>5. CASE Ch # "lbrace" /\ Ch # "(*" /\ Ch # "'"
  <2>1. Pass(1)
    BY ONLY <1>0, <1>5
  <2>2. ReadCh(1) /\ status' = "skipping" /\ ifdefActive' = ifdefActive /\ skipDepth' = skipDepth
    BY <1>0, <2>1 DEF Pass
  <2>3. h[1] = OnCode(h[0], rest[1]) /\ h[1] \in States
    BY <1>1, RunStep, StepIs
  <2>4. CASE Ch = "//"
    <3>1. h[1] = [h[0] EXCEPT !.odd = TRUE]
      BY <1>1, <2>3, <2>4, CodeIs
    <3>2. h[1].odd
      BY <1>1, <3>1 DEF States
    <3>3. QED
      BY <1>0, <1>1, <2>2, <3>2, MoveFits
  <2>5. CASE Ch # "//"
    <3>1. h[1] = h[0]
      <4>1. h[1] = h[0] \/ h[1] = Collect(h[0], rest[1])
        BY ONLY <1>1, <1>5, <2>3, <2>5, CodeIs
      <4>2. QED
        BY <1>1, <4>1 DEF Collect
    <3>2. Same(h[1], h[0]) /\ h[1].mode = "code"
      BY <1>1, <3>1 DEF Same
    <3>3. QED
      BY <1>0, <1>1, <2>2, <3>2, MoveSame
  <2>6. QED
    BY <2>4, <2>5
<1>6. QED
  BY <1>2, <1>3, <1>4, <1>5

(* Over the blanks behind a directive to what follows it.                   *)
LEMMA NameRun ==
  ASSUME Unread(rest), NEW h, Run(h), Len(rest) > 1, h[2].mode \in Names,
         NEW p, p = FirstNot(rest, 3, Blanks)
  PROVE  /\ p \in 3..Len(rest) + 1 /\ \A j \in 3..p - 1 : rest[j].s \in Blanks
         /\ p > Len(rest) => h[Len(rest)] = h[2]
         /\ p <= Len(rest) => h[p] = OnName(h[2], rest[p].s) /\ rest[p].s \notin Blanks /\ rest[p].s \in Symbol \ {"none"}
<1>0. Len(rest) \in Nat /\ rest \in Seq(Cell) /\ 2 \in 0..Len(rest) /\ h[2] \in States
      /\ 3 \in Nat /\ 3 <= Len(rest) + 1
  BY DEF Unread, Run
<1>1. /\ p \in 3..Len(rest) + 1 /\ (p > Len(rest) \/ rest[p].s \notin Blanks)
      /\ \A j \in 3..p - 1 : rest[j].s \in Blanks
  BY <1>0, FirstNotFound
<1>2. ASSUME NEW j \in 2 + 1..p - 1 PROVE MeaningStep(h[2], rest[j]) = h[2]
  <2>1. j \in 3..p - 1 /\ j \in 1..Len(rest)
    BY <1>0, <1>1
  <2>2. rest[j] \in Cell /\ rest[j].s \in Blanks
    BY <1>0, <1>1, <2>1
  <2>3. QED
    BY <1>0, <2>2, StepIdle
<1>3. p - 1 \in 0..Len(rest) /\ 2 \in 0..p - 1
  BY <1>0, <1>1
<1>4. h[p - 1] = h[2]
  BY <1>2, <1>3, RunIdle
<1>5. CASE p > Len(rest)
  <2>1. p - 1 = Len(rest)
    BY <1>0, <1>1, <1>5
  <2>2. QED
    BY <1>0, <1>1, <1>4, <1>5, <2>1
<1>6. CASE p <= Len(rest)
  <2>1. p \in 1..Len(rest)
    BY <1>0, <1>1, <1>6
  <2>2. h[p] = MeaningStep(h[2], rest[p]) /\ rest[p].s \in Symbol \ {"none"}
    BY <1>4, <2>1, RunStep
  <2>3. rest[p].s \notin Blanks
    BY <1>0, <1>1, <1>6
  <2>4. h[p] = OnName(h[2], rest[p].s)
    BY <2>2, <2>3, StepIs
  <2>5. QED
    BY <1>0, <1>1, <1>6, <2>2, <2>3, <2>4
<1>7. QED
  BY <1>0, <1>1, <1>5, <1>6

Conditions == {"DEFINE", "UNDEF", "IFDEF", "IFNDEF"}

(* A directive with a word, up to its closing brace.                        *)
LEMMA WordRun ==
  ASSUME Unread(rest), NEW h, Run(h), Len(rest) > 1, rest[2].s # "rbrace", h[2].mode \in Conditions,
         NEW e, e = First(rest, 2, {"rbrace"})
  PROVE  /\ e \in 3..Len(rest) + 1 /\ h[2] \in States
         /\ \/ Word = "none" /\ e > Len(rest) /\ h[Len(rest)] = h[2]
            \/ Word = "none" /\ e <= Len(rest) /\ h[e] = OnName(h[2], "rbrace")
            \/ /\ Word \in Symbol \ {"none", "rbrace"}
               /\ e <= Len(rest) => h[e] \in States /\ h[e].mode = "code" /\ Same(h[e], OnName(h[2], Word))
               /\ e > Len(rest) => h[Len(rest)] = OnName(h[2], Word)
<1> DEFINE p == FirstNot(rest, 3, Blanks)
           n == Len(rest)
<1>0. n \in Nat /\ rest \in Seq(Cell) /\ 2 \in 1..n + 1 /\ 2 \in 0..n /\ h[2] \in States /\ h[2].mode \in Names
  BY DEF Unread, Run, Names, Conditions
<1>1. /\ e \in 2..n + 1 /\ (e > n \/ rest[e].s = "rbrace")
      /\ \A j \in 2..e - 1 : rest[j].s # "rbrace"
  BY <1>0, Ahead
<1>2. /\ p \in 3..n + 1 /\ \A j \in 3..p - 1 : rest[j].s \in Blanks
      /\ p > n => h[n] = h[2]
      /\ p <= n => h[p] = OnName(h[2], rest[p].s) /\ rest[p].s \notin Blanks /\ rest[p].s \in Symbol \ {"none"}
  BY <1>0, NameRun
<1>3. Word = IF p > n \/ rest[p].s = "rbrace" THEN "none" ELSE rest[p].s
  BY DEF Word
<1> HIDE DEF p
<1>4. e >= p /\ e \in 3..n + 1
  <2>1. CASE e > n
    BY <1>0, <1>1, <1>2, <2>1
  <2>2. CASE e <= n
    <3>1. rest[e].s = "rbrace" /\ "rbrace" \notin Blanks
      BY <1>0, <1>1, <2>2 DEF Blanks
    <3>2. e # 2 /\ e \notin 3..p - 1
      BY <1>2, <3>1
    <3>3. QED
      BY <1>0, <1>1, <1>2, <3>2
  <2>3. QED
    BY <1>0, <1>1, <2>1, <2>2
<1>5. CASE p > n
  BY <1>0, <1>1, <1>2, <1>3, <1>4, <1>5
<1>6. CASE p <= n /\ rest[p].s = "rbrace"
  <2>1. e = p
    <3>1. CASE e # p
      <4>1. p \in 2..e - 1
        BY <1>0, <1>1, <1>2, <1>4, <3>1
      <4>2. QED
        BY <1>1, <1>6, <4>1
    <3>2. QED
      BY <3>1
  <2>2. QED
    BY <1>0, <1>2, <1>3, <1>4, <1>6, <2>1
<1>7. CASE p <= n /\ rest[p].s # "rbrace"
  <2>1. Word = rest[p].s /\ Word \in Symbol \ {"none", "rbrace"}
    BY <1>0, <1>2, <1>3, <1>7
  <2>2. h[p].mode = "brace" /\ h[p] = OnName(h[2], Word) /\ p \in 0..n
    <3>1. OnName(h[2], Word).mode = "brace"
      <4>1. PICK st \in States, w \in Symbol : st = h[2] /\ w = Word
        BY <1>0, <2>1
      <4>2. st.mode \in Names /\ st.mode # "INCLUDE"
        BY <1>0, <4>1 DEF Conditions
      <4>3. OnName(st, w).mode = IF st.mode = "INCLUDE" /\ w = "'" THEN "name" ELSE IF w = "rbrace" THEN "code" ELSE "brace"
        BY ONLY <4>2, NameStep, st \in States, w \in Symbol
      <4>4. QED
        BY ONLY <2>1, <4>1, <4>2, <4>3
    <3>2. QED
      BY <1>0, <1>2, <1>7, <2>1, <3>1
  <2>3. e \in p + 1..n + 1 /\ \A j \in p + 1..e - 1 : rest[j].s # "rbrace"
    <3>1. e # p
      BY <1>0, <1>1, <1>2, <1>7
    <3>2. QED
      BY <1>0, <1>1, <1>2, <1>4, <3>1
  <2>4. /\ e <= n => h[e] \in States /\ h[e].mode = "code" /\ Same(h[e], h[p])
        /\ e > n => h[n] = h[p]
    BY <1>1, <2>2, <2>3, ToBrace
  <2>5. QED
    BY <1>0, <1>4, <2>1, <2>2, <2>4
<1>8. QED
  BY <1>0, <1>2, <1>5, <1>6, <1>7

(* The word of a condition opens a conditional.                             *)
LEMMA NameOpens ==
  ASSUME NEW st \in States, st.mode \in {"IFDEF", "IFNDEF"}, NEW w \in Symbol
  PROVE  \E on \in BOOLEAN, next \in Modes :
           /\ next = IF w = "rbrace" THEN "code" ELSE "brace"
           /\ on <=> (w \in st.syms <=> st.mode = "IFDEF")
           /\ OnName(st, w) = Opens(st, next, on)
<1>0. PICK next \in Modes : next = IF w = "rbrace" THEN "code" ELSE "brace"
  BY DEF Modes
<1>1. CASE st.mode = "IFDEF"
  <2>1. OnName(st, w) = Opens(st, next, w \in st.syms)
    BY ONLY <1>0, <1>1 DEF OnName
  <2>2. (w \in st.syms) \in BOOLEAN
    OBVIOUS
  <2>3. PICK on \in BOOLEAN : (on <=> w \in st.syms) /\ OnName(st, w) = Opens(st, next, on)
    BY <2>1, <2>2, Zenon
  <2>4. QED
    BY ONLY <1>0, <1>1, <2>3
<1>2. CASE st.mode = "IFNDEF"
  <2>1. OnName(st, w) = Opens(st, next, w \notin st.syms)
    BY ONLY <1>0, <1>2 DEF OnName
  <2>2. (w \notin st.syms) \in BOOLEAN
    OBVIOUS
  <2>3. PICK on \in BOOLEAN : (on <=> w \notin st.syms) /\ OnName(st, w) = Opens(st, next, on)
    BY <2>1, <2>2, Zenon
  <2>4. QED
    BY ONLY <1>0, <1>2, <2>3
<1>3. QED
  BY <1>1, <1>2

(* Where a condition has been read up to its closing brace e, it has opened *)
(* a conditional.                                                           *)
Conditioned(h, e) ==
  /\ e \in 3..Len(rest) + 1 /\ h[2] \in States
  /\ e <= Len(rest) =>
       /\ h[e] \in States /\ h[e].mode = "code" /\ h[e].syms = h[2].syms /\ h[e].out = h[2].out /\ h[e].bad = h[2].bad
       /\ \E on \in BOOLEAN : /\ on <=> (Word \in h[2].syms <=> h[2].mode = "IFDEF")
                              /\ h[e].conds = Append(h[2].conds, [on |-> on, elsed |-> FALSE])
  /\ e > Len(rest) =>
       /\ h[Len(rest)].out = h[2].out /\ h[Len(rest)].bad = h[2].bad
       /\ h[Len(rest)].mode # "code"

(* A condition, up to its closing brace: it opens a conditional.            *)
LEMMA ConditionRun ==
  ASSUME Unread(rest), NEW h, Run(h), Len(rest) > 1, rest[2].s # "rbrace", h[2].mode \in {"IFDEF", "IFNDEF"},
         h[2].syms \subseteq Symbol \ {"none", "rbrace"},
         NEW e, e = First(rest, 2, {"rbrace"})
  PROVE  Conditioned(h, e)
<1> DEFINE n == Len(rest)
           Opened2(x, w) == \E on \in BOOLEAN : /\ on <=> (w \in h[2].syms <=> h[2].mode = "IFDEF")
                                                /\ x.conds = Append(h[2].conds, [on |-> on, elsed |-> FALSE])
<1>0. n \in Nat /\ h[2].mode \in Conditions /\ h[2].mode \in Names
  BY DEF Unread, Conditions, Names
<1>1. /\ e \in 3..n + 1 /\ h[2] \in States
      /\ \/ Word = "none" /\ e > n /\ h[n] = h[2]
         \/ Word = "none" /\ e <= n /\ h[e] = OnName(h[2], "rbrace")
         \/ /\ Word \in Symbol \ {"none", "rbrace"}
            /\ e <= n => h[e] \in States /\ h[e].mode = "code" /\ Same(h[e], OnName(h[2], Word))
            /\ e > n => h[n] = OnName(h[2], Word)
  BY <1>0, WordRun
<1>2. ASSUME NEW w \in Symbol
      PROVE  /\ OnName(h[2], w) \in States /\ OnName(h[2], w).mode = IF w = "rbrace" THEN "code" ELSE "brace"
             /\ OnName(h[2], w).syms = h[2].syms /\ OnName(h[2], w).out = h[2].out /\ OnName(h[2], w).bad = h[2].bad
             /\ Opened2(OnName(h[2], w), w)
  <2>1. PICK st \in States : st = h[2] /\ st.mode \in {"IFDEF", "IFNDEF"} /\ st.mode \in Names
    BY <1>0, <1>1
  <2>2. PICK on \in BOOLEAN, next \in Modes :
          /\ next = IF w = "rbrace" THEN "code" ELSE "brace"
          /\ on <=> (w \in st.syms <=> st.mode = "IFDEF")
          /\ OnName(st, w) = Opens(st, next, on)
    BY <2>1, NameOpens
  <2>3. /\ OnName(st, w) \in States /\ OnName(st, w).mode = next
        /\ OnName(st, w).conds = Append(st.conds, [on |-> on, elsed |-> FALSE])
        /\ OnName(st, w).syms = st.syms /\ OnName(st, w).out = st.out /\ OnName(st, w).bad = st.bad
    BY <2>2, OpensIs
  <2>4. Opened2(OnName(h[2], w), w)
    BY <2>1, <2>2, <2>3
  <2>5. QED
    BY ONLY <2>1, <2>2, <2>3, <2>4
<1> HIDE DEF Opened2
<1>3. CASE Word = "none" /\ e > n /\ h[n] = h[2]
  BY <1>0, <1>1, <1>3 DEF Conditioned
<1>4. CASE Word = "none" /\ e <= n /\ h[e] = OnName(h[2], "rbrace")
  <2>1. rest[e].s \in Symbol /\ rest[e].s = "rbrace"
    <3>1. e \in 1..n /\ 2 \in 1..n + 1 /\ rest \in Seq(Cell)
      BY <1>0, <1>1, <1>4 DEF Unread
    <3>2. rest[e].s \in Symbol
      BY <3>1, RunStep
    <3>3. e > n \/ rest[e].s \in {"rbrace"}
      BY <3>1, Ahead
    <3>4. QED
      BY <1>0, <1>4, <3>1, <3>2, <3>3
  <2>2. "rbrace" \in Symbol
    BY <2>1
  <2>3. Opened2(h[e], "rbrace")
    BY <1>2, <1>4, <2>2
  <2>4. "rbrace" \notin h[2].syms /\ "none" \notin h[2].syms
    OBVIOUS
  <2>5. Opened2(h[e], Word)
    BY <1>4, <2>3, <2>4 DEF Opened2
  <2>6. /\ h[e] \in States /\ h[e].mode = "code" /\ h[e].syms = h[2].syms /\ h[e].out = h[2].out /\ h[e].bad = h[2].bad
    BY <1>2, <1>4, <2>2
  <2>7. ~(e > n)
    BY <1>0, <1>1, <1>4
  <2>8. QED
    BY <1>1, <2>5, <2>6, <2>7 DEF Opened2, Conditioned
<1>5. CASE /\ Word \in Symbol \ {"none", "rbrace"}
           /\ e <= n => h[e] \in States /\ h[e].mode = "code" /\ Same(h[e], OnName(h[2], Word))
           /\ e > n => h[n] = OnName(h[2], Word)
  <2>1. /\ OnName(h[2], Word).mode = "brace" /\ Opened2(OnName(h[2], Word), Word)
        /\ OnName(h[2], Word).syms = h[2].syms /\ OnName(h[2], Word).out = h[2].out /\ OnName(h[2], Word).bad = h[2].bad
    BY <1>2, <1>5
  <2>2. CASE e <= n
    <3>1. Opened2(h[e], Word)
      BY <1>5, <2>1, <2>2 DEF Opened2, Same
    <3>2. ~(e > n)
      BY <1>0, <1>1, <2>2
    <3>3. h[e].syms = h[2].syms /\ h[e].out = h[2].out /\ h[e].bad = h[2].bad
      BY <1>5, <2>1, <2>2 DEF Same
    <3>4. QED
      BY <1>1, <1>5, <2>2, <3>1, <3>2, <3>3 DEF Opened2, Conditioned
  <2>3. CASE ~(e <= n)
    BY <1>0, <1>1, <1>5, <2>1, <2>3 DEF Conditioned
  <2>4. QED
    BY <2>2, <2>3
<1>6. QED
  BY <1>1, <1>3, <1>4, <1>5 DEF Conditioned

(* A directive, as far as its name.                                         *)
LEMMA Directed ==
  ASSUME NEW h, Standing(h), status \in {"scanning", "skipping"}, Ch = "lbrace", Directive # "none"
  PROVE  /\ Unread(rest) /\ Run(h) /\ rest \in Seq(Cell) /\ Len(rest) \in Nat /\ Len(rest) > 1 /\ rest[2].s # "rbrace"
         /\ h[0] \in States /\ h[2] \in States
         /\ Directive \in {"IFDEF", "IFNDEF"} \/ (Directive \in {"INCLUDE", "DEFINE", "UNDEF"} /\ status = "scanning") =>
              h[2].mode = Directive /\ Same(h[2], h[0])
         /\ Directive \in {"ELSE", "ENDIF"} =>
              /\ h[2].syms = h[0].syms /\ h[2].out = h[0].out
              /\ h[0].conds = <<>> => h[2].bad
              /\ h[0].conds # <<>> => h[2].bad = h[0].bad
         /\ Directive = "ELSE" /\ h[0].conds # <<>> =>
              /\ h[2].mode = "brace" /\ h[2].conds = Turned(h[0].conds)
              /\ h[2].odd = (h[0].odd \/ h[0].conds[Len(h[0].conds)].elsed)
         /\ Directive = "ENDIF" /\ h[0].conds # <<>> =>
              h[2].mode = (IF status = "scanning" THEN "closing" ELSE "brace") /\ h[2].conds = Front(h[0].conds)
<1>1. /\ Unread(rest) /\ Run(h) /\ rest \in Seq(Cell) /\ Len(rest) \in Nat \ {0} /\ h[0] \in States /\ Ch = rest[1].s
      /\ status = "scanning" <=> Live(h[0])
      /\ h[0].mode = "code" /\ rest # <<>>
  BY StandingParts DEF Standing
<1>2. /\ h[1] \in States /\ Same(h[1], h[0]) /\ h[2] = OnDirective(h[1], Directive)
      /\ Directive \in Kinds /\ Len(rest) > 1 /\ rest[2].s # "rbrace"
  BY <1>1, OpenRun
<1>3. PICK st \in States, d \in Kinds : st = h[1] /\ d = Directive
  BY <1>2
<1>4. Live(st) <=> Live(h[0])
  BY <1>2, <1>3 DEF Live, Same
<1>5. /\ st.conds = h[0].conds /\ st.syms = h[0].syms /\ st.out = h[0].out /\ st.bad = h[0].bad /\ st.odd = h[0].odd
  BY <1>2, <1>3 DEF Same
<1>6. /\ OnDirective(st, d) \in States
      /\ OnDirective(st, d).syms = st.syms /\ OnDirective(st, d).out = st.out
  BY DirectiveStep
<1>7. /\ d = "ELSE" /\ st.conds # <<>> => OnDirective(st, d) = OnElse(st)
      /\ d = "ENDIF" /\ st.conds # <<>> => OnDirective(st, d) = OnEndIf(st)
      /\ d \in {"ELSE", "ENDIF"} /\ st.conds = <<>> => OnDirective(st, d).bad
  BY DirectiveStep
<1>8. d \in {"IFDEF", "IFNDEF"} \/ (d \in {"INCLUDE", "DEFINE", "UNDEF"} /\ Live(st)) =>
        OnDirective(st, d).mode = d /\ Same(OnDirective(st, d), st)
  BY DirectiveStep
<1>9. h[2] = OnDirective(st, d) /\ h[2] \in States /\ h[2].syms = h[0].syms /\ h[2].out = h[0].out
  BY <1>2, <1>3, <1>5, <1>6
<1>10. d \in {"IFDEF", "IFNDEF"} \/ (d \in {"INCLUDE", "DEFINE", "UNDEF"} /\ status = "scanning") =>
         h[2].mode = d /\ Same(h[2], h[0])
  BY <1>1, <1>4, <1>5, <1>8, <1>9 DEF Same
<1>11. d = "ELSE" /\ st.conds # <<>> =>
         /\ h[2].mode = "brace" /\ h[2].conds = Turned(h[0].conds) /\ h[2].bad = h[0].bad
         /\ h[2].odd = (h[0].odd \/ h[0].conds[Len(h[0].conds)].elsed)
  BY <1>5, <1>7, <1>9, TurnSteps
<1>12. d = "ENDIF" /\ st.conds # <<>> =>
         /\ h[2].mode = (IF status = "scanning" THEN "closing" ELSE "brace")
         /\ h[2].conds = Front(h[0].conds) /\ h[2].bad = h[0].bad
  <2>1. ASSUME d = "ENDIF", st.conds # <<>> PROVE h[2] = OnEndIf(st)
    BY <1>7, <1>9, <2>1
  <2>2. ASSUME st.conds # <<>>
        PROVE  /\ OnEndIf(st).mode = (IF Live(st) THEN "closing" ELSE "brace")
               /\ OnEndIf(st).conds = Front(st.conds) /\ OnEndIf(st).bad = st.bad
    BY <2>2, TurnSteps
  <2>3. QED
    BY ONLY <1>1, <1>4, <1>5, <2>1, <2>2
<1>13. QED
  BY ONLY <1>1, <1>2, <1>3, <1>5, <1>7, <1>9, <1>10, <1>11, <1>12

(* Where the pass is behind a directive's name, to the closing brace.       *)
LEMMA PastFits ==
  ASSUME NEW h, Unread(rest), Run(h), Len(rest) > 1, rest[2].s # "rbrace", h[2].mode = "brace",
         ReadCh(To({"rbrace"})), status' \in {"scanning", "skipping"},
         ifdefActive' \in Seq(BOOLEAN), skipDepth' \in Nat, status' = "skipping" => ifdefActive' # <<>>,
         h[2].odd \/ Fits(h[2], status', ifdefActive', skipDepth', definedSyms', tokens')
  PROVE  Moved(h)
<1> DEFINE e == First(rest, 2, {"rbrace"})
<1>0. Len(rest) \in Nat /\ rest \in Seq(Cell) /\ 2 \in 1..Len(rest) + 1 /\ 2 \in 0..Len(rest) /\ rest # <<>>
  BY DEF Unread
<1>1. /\ e \in 2..Len(rest) + 1 /\ (e > Len(rest) \/ rest[e].s = "rbrace")
      /\ \A j \in 2..e - 1 : rest[j].s # "rbrace"
  BY <1>0, Ahead
<1>2. To({"rbrace"}) = (IF e > Len(rest) THEN Len(rest) ELSE e) /\ To({"rbrace"}) \in 0..Len(rest)
  BY <1>0, ToInText
<1> HIDE DEF e
<1>3. e \in 2 + 1..Len(rest) + 1 /\ \A j \in 2 + 1..e - 1 : rest[j].s # "rbrace"
  <2>1. e # 2
    BY <1>0, <1>1
  <2>2. QED
    BY <1>0, <1>1, <2>1
<1>4. /\ e <= Len(rest) => h[e] \in States /\ h[e].mode = "code" /\ Same(h[e], h[2])
      /\ e > Len(rest) => h[Len(rest)] = h[2]
  BY <1>0, <1>1, <1>3, ToBrace
<1>5. PICK k \in 0..Len(rest) : k = To({"rbrace"})
  BY <1>2
<1>6. Same(h[k], h[2]) /\ (k = Len(rest) \/ h[k].mode = "code")
  BY <1>0, <1>1, <1>2, <1>4, <1>5 DEF Same
<1>7. h[k].odd \/ Fits(h[k], status', ifdefActive', skipDepth', definedSyms', tokens')
  <2>1. h[2].odd => h[k].odd
    BY <1>6 DEF Same
  <2>2. QED
    BY <1>6, <2>1, FitsSame
<1>8. QED
  BY <1>5, <1>6, <1>7, MoveFits

(* What the scanner keeps of the innermost conditional.                     *)
LEMMA Innermost ==
  ASSUME NEW h, Standing(h), status \in {"scanning", "skipping"}, ifdefActive # <<>>,
         status = "scanning" \/ skipDepth = 0
  PROVE  /\ h[0].conds \in Seq(Conds) /\ Len(h[0].conds) = Len(ifdefActive) /\ h[0].conds # <<>>
         /\ Len(ifdefActive) \in Nat \ {0} /\ Last(ifdefActive) = ifdefActive[Len(ifdefActive)]
         /\ h[0].conds[Len(h[0].conds)].on <=> (status = "scanning")
         /\ h[0].conds[Len(h[0].conds)].elsed <=> (status = "scanning" <=> ~Last(ifdefActive))
<1>1. /\ h[0] \in States /\ Fits(h[0], status, ifdefActive, skipDepth, definedSyms, tokens)
      /\ ifdefActive \in Seq(BOOLEAN)
  BY StandingParts
<1>2. PICK conds \in Seq(Conds) : conds = h[0].conds
  BY <1>1, StateParts
<1>3. PICK k \in Nat \ {0} : k = Len(ifdefActive) /\ ifdefActive[k] \in BOOLEAN
  BY <1>1
<1>4. Len(conds) = k
  BY <1>1, <1>2, <1>3 DEF Fits
<1>5. conds[k].on \in BOOLEAN /\ conds[k].elsed \in BOOLEAN /\ conds # <<>>
  <2>1. conds[k] \in Conds
    BY <1>3, <1>4
  <2>2. QED
    BY ONLY <1>3, <1>4, <2>1, EmptySeq DEF Conds
<1>6. k \in 1..k /\ ~(k < k)
  BY ONLY k \in Nat \ {0}
<1>7. /\ conds[k].on <=> (k < k \/ status = "scanning")
      /\ conds[k].on <=> (ifdefActive[k] <=> ~conds[k].elsed)
  BY ONLY <1>1, <1>2, <1>3, <1>6 DEF Fits
<1>8. Last(ifdefActive) = ifdefActive[k]
  BY <1>3 DEF Last
<1>9. conds[k].on <=> (status = "scanning")
  BY ONLY <1>6, <1>7
<1>10. conds[k].elsed <=> (status = "scanning" <=> ~ifdefActive[k])
  BY ONLY <1>3, <1>5, <1>7, <1>9
<1>11. QED
  BY ONLY <1>2, <1>3, <1>4, <1>5, <1>8, <1>9, <1>10

(* Turning the innermost conditional exchanges compiling and skipping.      *)
LEMMA FitsTurned ==
  ASSUME NEW m, NEW x, NEW stat \in {"scanning", "skipping"}, NEW other \in {"scanning", "skipping"}, other # stat,
         NEW active \in Seq(BOOLEAN), NEW depth, NEW syms, NEW out,
         m.conds \in Seq(Conds), m.conds # <<>>, Len(m.conds) = Len(active),
         active[Len(active)] <=> (stat = "scanning"),
         m.conds[Len(active)].on <=> (stat = "scanning"),
         Fits(m, stat, active, depth, syms, out),
         x.conds = Turned(m.conds), x.bad = m.bad, x.out = m.out, x.syms = m.syms
  PROVE  Fits(x, other, active, 0, syms, out)
<1>1. PICK k \in Nat \ {0} : k = Len(active)
  <2>1. Len(m.conds) \in Nat \ {0}
    BY ONLY EmptySeq, m.conds \in Seq(Conds), m.conds # <<>>
  <2>2. QED
    BY <2>1
<1>2. PICK c \in Seq(Conds), t \in Seq(Conds) : c = m.conds /\ t = Turned(c) /\ Len(t) = k /\ Len(c) = k
                                               /\ t[k] = [on |-> ~c[k].on, elsed |-> TRUE]
                                               /\ \A i \in 1..k - 1 : t[i] = c[i]
  BY <1>1, TurnedIs
<1>3. \A i \in 1..k : i = k \/ (i \in 1..k - 1 /\ i < k)
  BY ONLY k \in Nat \ {0}
<1>4. ASSUME NEW i \in 1..k
      PROVE  /\ t[i].on <=> (i < k \/ other = "scanning")
             /\ t[i].on <=> (active[i] <=> ~t[i].elsed)
  <2>1. /\ c[i].on <=> (i < k \/ stat = "scanning")
        /\ c[i].on <=> (active[i] <=> ~c[i].elsed)
    BY <1>1, <1>2 DEF Fits
  <2>2. CASE i = k
    <3>1. t[i].on = ~c[k].on /\ t[i].elsed = TRUE /\ ~(i < k)
      BY <1>2, <2>2
    <3>2. (stat = "scanning") <=> ~(other = "scanning")
      OBVIOUS
    <3>3. c[k].on <=> (stat = "scanning")
      BY <1>1, <1>2
    <3>4. active[i] <=> (stat = "scanning")
      BY <1>1, <2>2
    <3>5. QED
      BY ONLY <3>1, <3>2, <3>3, <3>4
  <2>3. CASE i # k
    <3>1. t[i] = c[i] /\ i < k
      BY <1>2, <1>3, <2>3
    <3>2. QED
      BY ONLY <2>1, <3>1
  <2>4. QED
    BY <2>2, <2>3
<1>5. ~x.bad /\ x.out = out /\ x.syms = syms
  BY DEF Fits
<1>6. Len(x.conds) = IF other = "skipping" THEN k + 0 ELSE k
  BY <1>1, <1>2
<1>7. x.conds = t
  BY <1>2
<1>8. QED
  BY ONLY <1>1, <1>4, <1>5, <1>6, <1>7 DEF Fits

(* Ending the innermost conditional.                                        *)
LEMMA FitsEnded ==
  ASSUME NEW m, NEW x, NEW stat \in {"scanning", "skipping"},
         NEW active \in Seq(BOOLEAN), active # <<>>, NEW depth, NEW more, NEW syms, NEW out,
         m.conds \in Seq(Conds), Len(m.conds) = Len(active),
         Fits(m, stat, active, depth, syms, out),
         x.conds = Front(m.conds), x.bad = m.bad, x.out = m.out, x.syms = m.syms
  PROVE  Front(active) \in Seq(BOOLEAN) /\ Fits(x, "scanning", Front(active), more, syms, out)
<1>1. PICK k \in Nat \ {0} : k = Len(active)
  BY EmptySeq
<1>2. PICK c \in Seq(Conds) : c = m.conds /\ Len(c) = k
  BY <1>1
<1>3. Front(c) \in Seq(Conds) /\ Len(Front(c)) = k - 1 /\ \A i \in 1..k - 1 : Front(c)[i] = c[i]
  BY ONLY <1>2, k \in Nat \ {0} DEF Front
<1>4. PICK f \in Seq(Conds) : f = Front(c) /\ Len(f) = k - 1 /\ \A i \in 1..k - 1 : f[i] = c[i]
  BY ONLY <1>3
<1>5. /\ Front(active) \in Seq(BOOLEAN) /\ Len(Front(active)) = k - 1
      /\ \A i \in 1..k - 1 : Front(active)[i] = active[i]
  BY ONLY <1>1, active \in Seq(BOOLEAN) DEF Front
<1>6. PICK a \in Seq(BOOLEAN) : a = Front(active) /\ Len(a) = k - 1 /\ \A i \in 1..k - 1 : a[i] = active[i]
  BY ONLY <1>5
<1>7. ASSUME NEW i \in 1..k - 1
      PROVE  /\ f[i].on <=> (i < k - 1 \/ "scanning" = "scanning")
             /\ f[i].on <=> (a[i] <=> ~f[i].elsed)
  <2>1. i \in 1..k /\ i < k
    BY ONLY k \in Nat \ {0}, i \in 1..k - 1
  <2>2. /\ c[i].on <=> (i < k \/ stat = "scanning")
        /\ c[i].on <=> (active[i] <=> ~c[i].elsed)
    BY <1>1, <1>2, <2>1 DEF Fits
  <2>3. f[i] = c[i] /\ a[i] = active[i]
    BY <1>4, <1>6
  <2>4. QED
    BY ONLY <2>1, <2>2, <2>3
<1>8. ~x.bad /\ x.out = out /\ x.syms = syms
  BY DEF Fits
<1>9. x.conds = f
  BY <1>2, <1>4
<1>10. QED
  BY ONLY <1>4, <1>6, <1>7, <1>8, <1>9 DEF Fits

(* Conditionals inside an inactive block come and go.                       *)
LEMMA FitsDeeper ==
  ASSUME NEW m, NEW x, NEW active \in Seq(BOOLEAN), NEW depth \in Nat, NEW deeper \in Nat, NEW syms, NEW out,
         Fits(m, "skipping", active, depth, syms, out),
         x.bad = m.bad, x.out = m.out, x.syms = m.syms, Len(x.conds) = Len(active) + deeper,
         \A i \in 1..Len(active) : x.conds[i] = m.conds[i]
  PROVE  Fits(x, "skipping", active, deeper, syms, out)
BY DEF Fits

(* A conditional opens.                                                     *)
LEMMA FitsOpened ==
  ASSUME NEW m, NEW x, NEW active \in Seq(BOOLEAN), NEW on \in BOOLEAN, NEW depth, NEW syms, NEW out,
         m.conds \in Seq(Conds), Fits(m, "scanning", active, depth, syms, out),
         x.bad = m.bad, x.out = m.out, x.syms = m.syms, x.conds = Append(m.conds, [on |-> on, elsed |-> FALSE])
  PROVE  Fits(x, IF on THEN "scanning" ELSE "skipping", Append(active, on), 0, syms, out)
<1>1. PICK k \in Nat : k = Len(active)
  OBVIOUS
<1>2. PICK c \in Seq(Conds) : c = m.conds /\ Len(c) = k
  BY <1>1 DEF Fits
<1>3. PICK y \in Conds : y = [on |-> on, elsed |-> FALSE]
  BY DEF Conds
<1>4. PICK t \in Seq(Conds) : t = Append(c, y) /\ Len(t) = k + 1 /\ t[k + 1] = y /\ \A i \in 1..k : t[i] = c[i]
  <2>1. /\ Append(c, y) \in Seq(Conds) /\ Len(Append(c, y)) = k + 1 /\ Append(c, y)[k + 1] = y
        /\ \A i \in 1..k : Append(c, y)[i] = c[i]
    BY ONLY <1>2, k \in Nat, c \in Seq(Conds), y \in Conds
  <2>2. QED
    BY ONLY <2>1
<1>5. PICK a \in Seq(BOOLEAN) : a = Append(active, on) /\ Len(a) = k + 1 /\ a[k + 1] = on /\ \A i \in 1..k : a[i] = active[i]
  <2>1. /\ Append(active, on) \in Seq(BOOLEAN) /\ Len(Append(active, on)) = k + 1 /\ Append(active, on)[k + 1] = on
        /\ \A i \in 1..k : Append(active, on)[i] = active[i]
    BY ONLY <1>1, k \in Nat, active \in Seq(BOOLEAN), on \in BOOLEAN
  <2>2. QED
    BY ONLY <2>1
<1>6. PICK stat : stat = IF on THEN "scanning" ELSE "skipping"
  OBVIOUS
<1>7. ASSUME NEW i \in 1..k + 1
      PROVE  /\ t[i].on <=> (i < k + 1 \/ stat = "scanning")
             /\ t[i].on <=> (a[i] <=> ~t[i].elsed)
  <2>1. CASE i = k + 1
    <3>1. t[i].on = on /\ t[i].elsed = FALSE /\ a[i] = on /\ ~(i < k + 1)
      BY <1>3, <1>4, <1>5, <2>1
    <3>2. on <=> stat = "scanning"
      BY <1>6
    <3>3. QED
      BY ONLY <3>1, <3>2
  <2>2. CASE i # k + 1
    <3>1. i \in 1..k /\ i < k + 1
      BY <2>2
    <3>2. /\ c[i].on <=> (i < k \/ "scanning" = "scanning")
          /\ c[i].on <=> (active[i] <=> ~c[i].elsed)
      BY <1>1, <1>2, <3>1 DEF Fits
    <3>3. t[i] = c[i] /\ a[i] = active[i]
      BY <1>4, <1>5, <3>1
    <3>4. QED
      BY ONLY <3>1, <3>2, <3>3
  <2>3. QED
    BY <2>1, <2>2
<1>8. ~x.bad /\ x.out = out /\ x.syms = syms
  BY DEF Fits
<1>9. x.conds = t
  BY <1>2, <1>3, <1>4
<1>10. Len(t) = IF stat = "skipping" THEN (k + 1) + 0 ELSE k + 1
  BY <1>4
<1>11. QED
  BY ONLY <1>4, <1>5, <1>6, <1>7, <1>8, <1>9, <1>10 DEF Fits

(* An include is skipped, its name in quotes.                               *)
LEMMA IncludeText ==
  ASSUME NEW h, Standing(h), OpenInclude, ~optIncludes
  PROVE  Moved(h) \/ Refused(h)
<1>0. status = "scanning" /\ rest # <<>> /\ Ch = "lbrace" /\ Directive = "INCLUDE"
  BY DEF OpenInclude, Reading
<1>1. /\ Unread(rest) /\ Run(h) /\ rest \in Seq(Cell) /\ Len(rest) \in Nat /\ Len(rest) > 1
      /\ h[0] \in States /\ h[2] \in States /\ h[2].mode = "INCLUDE" /\ Same(h[2], h[0])
  <2>1. Directive # "none"
    BY <1>0
  <2>2. QED
    BY <1>0, <2>1, Directed
<1>2. PICK n \in Nat : n = Len(rest)
  BY <1>1
<1>3. PICK p : p = FirstNot(rest, 3, Blanks)
  OBVIOUS
<1>4. PICK z : z = First(rest, p + 1, {"'"})
  OBVIOUS
<1>5. PICK close : close = First(rest, z + 1, {"rbrace"})
  OBVIOUS
<1>6. /\ p \in 3..n + 1
      /\ p > n => h[n] = h[2]
      /\ p <= n => h[p] = OnName(h[2], rest[p].s) /\ rest[p].s \in Symbol \ {"none"}
  <2>1. h[2].mode \in Names
    BY <1>1 DEF Names
  <2>2. QED
    BY <1>1, <1>2, <1>3, <2>1, NameRun
<1>7. Quoted(p) <=> p <= n /\ rest[p].s = "'" /\ z <= n
  BY <1>2, <1>4 DEF Quoted
<1>8. \/ ~Quoted(p) /\ Error("bad-directive")
      \/ Quoted(p) /\ close > n /\ Error("unterminated")
      \/ Quoted(p) /\ ~(close > n) /\ Skip(close)
  BY <1>2, <1>3, <1>4, <1>5, Zenon DEF OpenInclude
<1>f. ASSUME NEW why, Error(why), why \notin {"scanning", "skipping", "end"}, Faulty(h[n])
      PROVE  Refused(h)
  BY <1>f, <1>2, RefuseFaulty
<1>9. ASSUME p <= n, rest[p].s = "'"
      PROVE  /\ p \in 0..n /\ h[p] \in States /\ h[p].mode = "name" /\ Same(h[p], h[2])
             /\ z \in p + 1..n + 1 /\ (z > n \/ rest[z].s = "'")
             /\ \A j \in p + 1..z - 1 : rest[j].s # "'"
  <2>1. PICK st \in States : st = h[2] /\ st.mode = "INCLUDE" /\ st.mode \in Names
    BY <1>1 DEF Names
  <2>2. PICK w \in Symbol : w = "'" /\ h[p] = OnName(st, w)
    BY <1>6, <1>9, <2>1
  <2>3. OnName(st, w) = Mode(st, "name")
    BY ONLY <2>1, <2>2 DEF OnName
  <2>3a. "name" \in Modes
    BY DEF Modes
  <2>4. h[p] \in States /\ h[p].mode = "name" /\ Same(h[p], h[2])
    BY ONLY <2>1, <2>2, <2>3, <2>3a, ModeSame, st \in States
  <2>5. p + 1 \in 1..Len(rest) + 1 /\ p \in 0..n
    BY <1>2, <1>6, <1>9
  <2>6. /\ z \in p + 1..n + 1 /\ (z > n \/ rest[z].s \in {"'"})
        /\ \A j \in p + 1..z - 1 : rest[j].s \notin {"'"}
    BY <1>1, <1>2, <1>4, <2>5, Ahead
  <2>7. QED
    BY <2>4, <2>5, <2>6
<1>10. ASSUME p <= n, rest[p].s = "'"
       PROVE  /\ z <= n => h[z] \in States /\ h[z].mode = "brace" /\ Same(h[z], h[p])
              /\ z > n => h[n] = h[p]
  <2>1. ASSUME NEW j \in p + 1..z - 1 PROVE MeaningStep(h[p], rest[j]) = h[p]
    <3>1. j \in 1..Len(rest)
      BY <1>2, <1>6, <1>9, <1>10
    <3>2. rest[j] \in Cell /\ rest[j].s # "'"
      BY <1>1, <1>9, <1>10, <3>1
    <3>3. QED
      BY <1>9, <1>10, <3>2, StepIdle
  <2>2. z <= Len(rest) => MeaningStep(h[p], rest[z]) = Mode(h[p], "brace")
    <3>1. ASSUME z <= Len(rest) PROVE rest[z].s = "'" /\ h[p].mode = "name"
      BY <1>2, <1>9, <1>10, <3>1
    <3>2. QED
      BY <3>1, StepIs
  <2>3. /\ Unread(rest) /\ Run(h) /\ p \in 0..Len(rest) /\ z \in p + 1..Len(rest) + 1
        /\ "brace" \in Modes /\ h[p] \in States
    BY <1>1, <1>2, <1>9, <1>10 DEF Modes
  <2>4. QED
    BY ONLY <1>2, <2>1, <2>2, <2>3, ToEnd
<1>11. CASE ~Quoted(p) /\ Error("bad-directive")
  <2>1. CASE p > n
    <3>1. h[n].mode = "INCLUDE"
      BY <1>1, <1>6, <2>1
    <3>2. QED
      BY <1>f, <1>11, <3>1 DEF Faulty
  <2>2. CASE p <= n /\ rest[p].s # "'"
    <3>1. PICK st \in States, w \in Symbol : st = h[2] /\ w = rest[p].s /\ st.mode = "INCLUDE" /\ st.mode \in Names
      BY <1>1, <1>6, <2>2 DEF Names
    <3>2. OnName(st, w).bad
      BY ONLY <2>2, <3>1, NameStep, st \in States, w \in Symbol
    <3>3. h[p].bad /\ p \in 0..Len(rest)
      BY <1>2, <1>6, <2>2, <3>1, <3>2
    <3>4. h[n].bad
      BY <1>1, <1>2, <3>3, RunKeeps
    <3>5. QED
      BY <1>f, <1>11, <3>4 DEF Faulty
  <2>3. CASE p <= n /\ rest[p].s = "'"
    <3>1. z > n
      BY <1>2, <1>7, <1>9, <1>11, <2>3
    <3>2. h[n].mode = "name"
      BY <1>9, <1>10, <2>3, <3>1
    <3>3. QED
      BY <1>f, <1>11, <3>2 DEF Faulty
  <2>4. QED
    BY <1>2, <1>6, <2>1, <2>2, <2>3
<1>12. ASSUME \/ Quoted(p) /\ close > n /\ Error("unterminated")
              \/ Quoted(p) /\ ~(close > n) /\ Skip(close)
       PROVE  Moved(h) \/ Refused(h)
  <2>1. p <= n /\ rest[p].s = "'" /\ z <= n
    BY <1>7, <1>12
  <2>2. /\ h[z] \in States /\ h[z].mode = "brace" /\ Same(h[z], h[p]) /\ Same(h[p], h[2])
        /\ z \in 1..n
    BY <1>2, <1>6, <1>9, <1>10, <2>1
  <2>3. z + 1 \in 1..Len(rest) + 1 /\ z \in 0..Len(rest)
    BY <1>2, <2>2
  <2>4. /\ close \in z + 1..n + 1 /\ (close > n \/ rest[close].s \in {"rbrace"})
        /\ \A j \in z + 1..close - 1 : rest[j].s \notin {"rbrace"}
    BY <1>1, <1>2, <1>5, <2>3, Ahead
  <2>5. /\ close <= n => h[close] \in States /\ h[close].mode = "code" /\ Same(h[close], h[z])
        /\ close > n => h[n] = h[z]
    BY <1>1, <1>2, <2>2, <2>3, <2>4, ToBrace
  <2>6. CASE close > n
    <3>1. Error("unterminated")
      BY <1>12, <2>6
    <3>2. h[n].mode = "brace"
      BY <2>2, <2>5, <2>6
    <3>3. QED
      BY <1>f, <3>1, <3>2 DEF Faulty
  <2>7. CASE ~(close > n)
    <3>1. Skip(close) /\ close <= n /\ close \in 0..Len(rest)
      BY <1>2, <1>12, <2>2, <2>4, <2>7
    <3>2. Same(h[close], h[0]) /\ h[close].mode = "code"
      BY <1>1, <2>2, <2>5, <3>1 DEF Same
    <3>3. QED
      BY <1>0, <3>1, <3>2, MoveSame DEF Skip
  <2>8. QED
    BY <2>6, <2>7
<1>13. QED
  BY ONLY <1>8, <1>11, <1>12

(* Symbols are defined and forgotten.                                       *)
LEMMA DefineText ==
  ASSUME NEW h, Standing(h), Define
  PROVE  Moved(h) \/ Refused(h)
<1>0. status = "scanning" /\ rest # <<>> /\ Ch = "lbrace" /\ Directive \in {"DEFINE", "UNDEF"}
  BY DEF Define, Reading
<1>1. /\ Unread(rest) /\ Run(h) /\ rest \in Seq(Cell) /\ Len(rest) \in Nat /\ Len(rest) > 1 /\ rest[2].s # "rbrace"
      /\ h[0] \in States /\ h[2] \in States /\ h[2].mode = Directive /\ Same(h[2], h[0])
  <2>1. Directive # "none"
    BY <1>0
  <2>2. QED
    BY <1>0, <2>1, Directed
<1>2. /\ Fits(h[0], status, ifdefActive, skipDepth, definedSyms, tokens)
      /\ ifdefActive \in Seq(BOOLEAN) /\ skipDepth \in Nat
  BY <1>0, StandingParts
<1>3. PICK n, e : n \in Nat /\ n = Len(rest) /\ e = First(rest, 2, {"rbrace"}) /\ e = Close
  BY <1>1 DEF Close
<1>4. PICK st \in States : st = h[2] /\ st.mode = Directive /\ st.mode \in Names /\ st.mode \in {"DEFINE", "UNDEF"}
  BY <1>0, <1>1 DEF Names
<1>5. /\ e \in 3..n + 1
      /\ \/ Word = "none" /\ e > n /\ h[n] = st
         \/ Word = "none" /\ e <= n /\ h[e] = OnName(st, "rbrace")
         \/ /\ Word \in Symbol \ {"none", "rbrace"}
            /\ e <= n => h[e] \in States /\ h[e].mode = "code" /\ Same(h[e], OnName(st, Word))
            /\ e > n => h[n] = OnName(st, Word)
  <2>1. h[2].mode \in Conditions
    BY <1>4 DEF Conditions
  <2>2. QED
    BY <1>1, <1>3, <1>4, <2>1, WordRun
<1>6. \/ Word = "none" /\ Error("no-name")
      \/ Word # "none" /\ e > n /\ Error("unterminated")
      \/ /\ Word # "none" /\ ~(e > n) /\ ReadCh(e)
         /\ definedSyms' = IF Directive = "DEFINE" THEN definedSyms \cup {Word} ELSE definedSyms \ {Word}
         /\ UNCHANGED <<optIncludes, ifdefActive, skipDepth, tokens, status, passedBy>>
  BY <1>3, Zenon DEF Define
<1>f. ASSUME NEW why, Error(why), why \notin {"scanning", "skipping", "end"}, Faulty(h[n])
      PROVE  Refused(h)
  BY <1>f, <1>3, RefuseFaulty
<1>7. CASE Word = "none" /\ Error("no-name")
  <2>1. CASE e > n /\ h[n] = st
    <3>1. h[n].mode # "code"
      BY <1>4, <2>1
    <3>2. QED
      BY <1>f, <1>7, <3>1 DEF Faulty
  <2>2. CASE e <= n /\ h[e] = OnName(st, "rbrace")
    <3>1. OnName(st, "rbrace") = Bad(st, "code")
      BY ONLY <1>4 DEF OnName
    <3>2. h[e].bad /\ e \in 0..Len(rest)
      <4>1. "code" \in Modes
        BY DEF Modes
      <4>2. Bad(st, "code").bad
        BY ONLY <4>1, BadIs, st \in States
      <4>3. QED
        BY <1>3, <1>5, <2>2, <3>1, <4>2
    <3>3. h[n].bad
      BY <1>1, <1>3, <3>2, RunKeeps
    <3>4. QED
      BY <1>f, <1>7, <3>3 DEF Faulty
  <2>3. QED
    BY <1>5, <1>7, <2>1, <2>2
<1>8. ASSUME Word # "none"
      PROVE  /\ Word \in Symbol \ {"none", "rbrace"} /\ OnName(st, Word) = Defines(st, "brace", Word)
             /\ e <= n => h[e] \in States /\ h[e].mode = "code" /\ Same(h[e], OnName(st, Word))
             /\ e > n => h[n] = OnName(st, Word)
  <2>1. /\ Word \in Symbol \ {"none", "rbrace"}
        /\ e <= n => h[e] \in States /\ h[e].mode = "code" /\ Same(h[e], OnName(st, Word))
        /\ e > n => h[n] = OnName(st, Word)
    BY <1>5, <1>8
  <2>2. OnName(st, Word) = Defines(st, "brace", Word)
    BY ONLY <1>4, <2>1 DEF OnName
  <2>3. QED
    BY <2>1, <2>2
<1>9. ASSUME Word # "none"
      PROVE  /\ OnName(st, Word).mode = "brace" /\ OnName(st, Word).conds = st.conds /\ OnName(st, Word).out = st.out
             /\ OnName(st, Word).bad = st.bad
             /\ OnName(st, Word).syms = IF st.mode = "DEFINE" THEN st.syms \cup {Word} ELSE st.syms \ {Word}
  <2>1. PICK w \in Symbol : w = Word /\ OnName(st, Word) = Defines(st, "brace", w)
    BY <1>8, <1>9
  <2>2. "brace" \in Modes
    BY DEF Modes
  <2>3. QED
    BY ONLY <2>1, <2>2, DefinesIs, st \in States
<1>10. CASE Word # "none" /\ e > n /\ Error("unterminated")
  <2>1. h[n].mode = "brace"
    BY <1>8, <1>9, <1>10
  <2>2. QED
    BY <1>f, <1>10, <2>1 DEF Faulty
<1>11. CASE /\ Word # "none" /\ ~(e > n) /\ ReadCh(e)
            /\ definedSyms' = IF Directive = "DEFINE" THEN definedSyms \cup {Word} ELSE definedSyms \ {Word}
            /\ UNCHANGED <<optIncludes, ifdefActive, skipDepth, tokens, status, passedBy>>
  <2>1. e <= n /\ e \in 0..Len(rest)
    BY <1>3, <1>5, <1>11
  <2>2. h[e] \in States /\ h[e].mode = "code" /\ Same(h[e], OnName(st, Word))
    BY <1>8, <1>11, <2>1
  <2>3. /\ h[e].conds = h[0].conds /\ h[e].out = h[0].out /\ h[e].bad = h[0].bad
        /\ h[e].syms = IF st.mode = "DEFINE" THEN h[0].syms \cup {Word} ELSE h[0].syms \ {Word}
    BY <1>1, <1>4, <1>9, <1>11, <2>2 DEF Same
  <2>4. h[0].syms = definedSyms
    BY <1>2 DEF Fits
  <2>5. h[e].syms = definedSyms'
    BY <1>4, <1>11, <2>3, <2>4
  <2>6. Fits(h[e], status', ifdefActive', skipDepth', definedSyms', tokens')
    <3>1. Fits(h[e], status, ifdefActive, skipDepth, h[e].syms, tokens)
      BY ONLY <1>2, <2>3 DEF Fits
    <3>2. QED
      BY <1>11, <2>5, <3>1
  <2>7. status' = "scanning" /\ ifdefActive' \in Seq(BOOLEAN) /\ skipDepth' \in Nat /\ ReadCh(e)
    BY <1>0, <1>2, <1>11
  <2>8. QED
    BY <1>1, <2>1, <2>2, <2>6, <2>7, MoveFits
<1>12. QED
  BY ONLY <1>6, <1>7, <1>10, <1>11

(* A conditional opens where its text is compiled.                          *)
LEMMA IfDefText ==
  ASSUME NEW h, Standing(h), IfDef
  PROVE  Moved(h) \/ Refused(h)
<1>0. status = "scanning" /\ rest # <<>> /\ Ch = "lbrace" /\ Directive \in {"IFDEF", "IFNDEF"}
  BY DEF IfDef, Reading
<1>1. /\ Unread(rest) /\ Run(h) /\ rest \in Seq(Cell) /\ Len(rest) \in Nat /\ Len(rest) > 1 /\ rest[2].s # "rbrace"
      /\ h[0] \in States /\ h[2] \in States /\ h[2].mode = Directive /\ Same(h[2], h[0])
  <2>1. Directive # "none"
    BY <1>0
  <2>2. QED
    BY <1>0, <2>1, Directed
<1>2. /\ Fits(h[0], "scanning", ifdefActive, skipDepth, definedSyms, tokens)
      /\ ifdefActive \in Seq(BOOLEAN) /\ skipDepth \in Nat
      /\ definedSyms \subseteq Symbol \ {"none", "rbrace"}
  BY <1>0, StandingParts DEF Standing, KnownSafe
<1>3. PICK n, e : n \in Nat /\ n = Len(rest) /\ e = First(rest, 2, {"rbrace"})
  BY <1>1
<1>4. CASE Error("too-many-nested")
  <2>1. "too-many-nested" \notin {"scanning", "skipping", "end"}
    OBVIOUS
  <2>2. QED
    BY <1>4, <2>1 DEF Refused
<1>5. ASSUME NEW on \in BOOLEAN,
             on <=> ((Word \in definedSyms) <=> (Directive = "IFDEF")),
             ifdefActive' = Append(ifdefActive, on), ReadCh(To({"rbrace"})),
             status' = (IF on THEN "scanning" ELSE "skipping"),
             skipDepth' = 0, UNCHANGED <<definedSyms, tokens>>
      PROVE  Moved(h)
  <2>1. h[2].syms = definedSyms /\ h[2].out = tokens /\ ~h[2].bad /\ h[2].conds = h[0].conds
    BY <1>1, <1>2 DEF Same, Fits
  <2>2. /\ e \in 3..n + 1
        /\ e <= n =>
             /\ h[e] \in States /\ h[e].mode = "code" /\ h[e].syms = h[2].syms /\ h[e].out = h[2].out /\ h[e].bad = h[2].bad
             /\ \E o \in BOOLEAN : /\ o <=> (Word \in h[2].syms <=> h[2].mode = "IFDEF")
                                   /\ h[e].conds = Append(h[2].conds, [on |-> o, elsed |-> FALSE])
        /\ e > n => h[n].out = h[2].out /\ h[n].bad = h[2].bad /\ h[n].mode # "code"
    <3>1. h[2].mode \in {"IFDEF", "IFNDEF"} /\ h[2].syms \subseteq Symbol \ {"none", "rbrace"}
      BY <1>0, <1>1, <1>2, <2>1
    <3>2. Conditioned(h, e)
      BY <1>1, <1>3, <3>1, ConditionRun
    <3>3. QED
      BY ONLY <1>3, <3>2 DEF Conditioned
  <2>3. To({"rbrace"}) = IF e > n THEN n ELSE e
    BY <1>3 DEF To
  <2>4. status' \in {"scanning", "skipping"}
    BY <1>5
  <2>5. CASE e > n
    <3>1. FitsAtEnd(h[n], status', tokens')
      BY <1>5, <2>1, <2>2, <2>5 DEF FitsAtEnd
    <3>2. ReadCh(n) /\ n = Len(rest) /\ n \in 0..Len(rest)
      BY <1>3, <1>5, <2>3, <2>5
    <3>3. QED
      BY ONLY <2>4, <3>1, <3>2 DEF Moved
  <2>6. CASE ~(e > n)
    <3>1. e <= n /\ e \in 0..Len(rest) /\ ReadCh(e)
      BY <1>3, <1>5, <2>2, <2>3, <2>6
    <3>2. h[e].conds = Append(h[0].conds, [on |-> on, elsed |-> FALSE])
      <4>1. PICK o \in BOOLEAN : /\ o <=> (Word \in h[2].syms <=> h[2].mode = "IFDEF")
                                 /\ h[e].conds = Append(h[2].conds, [on |-> o, elsed |-> FALSE])
        BY <2>2, <3>1
      <4>2. o <=> ((Word \in definedSyms) <=> (Directive = "IFDEF"))
        BY ONLY <1>1, <2>1, <4>1
      <4>3. o = on
        BY ONLY <1>5, <4>2, o \in BOOLEAN, on \in BOOLEAN
      <4>4. QED
        BY ONLY <2>1, <4>1, <4>3
    <3>3. h[e].mode = "code" /\ h[e].syms = h[0].syms /\ h[e].out = h[0].out /\ h[e].bad = h[0].bad
      BY <1>1, <2>2, <3>1 DEF Same
    <3>4. h[0].conds \in Seq(Conds)
      BY <1>1, StateParts
    <3>5. Fits(h[e], IF on THEN "scanning" ELSE "skipping", Append(ifdefActive, on), 0, definedSyms, tokens)
      <4>1. PICK m, x : m = h[0] /\ x = h[e]
        OBVIOUS
      <4>2. /\ Fits(m, "scanning", ifdefActive, skipDepth, definedSyms, tokens) /\ m.conds \in Seq(Conds)
            /\ x.bad = m.bad /\ x.out = m.out /\ x.syms = m.syms
            /\ x.conds = Append(m.conds, [on |-> on, elsed |-> FALSE])
        BY ONLY <1>2, <3>2, <3>3, <3>4, <4>1
      <4>3. QED
        BY ONLY <1>2, <4>1, <4>2, FitsOpened, on \in BOOLEAN
    <3>6. Fits(h[e], status', ifdefActive', skipDepth', definedSyms', tokens')
      BY <1>5, <3>5
    <3>7. ifdefActive' \in Seq(BOOLEAN) /\ ifdefActive' # <<>> /\ skipDepth' \in Nat
      BY <1>2, <1>5
    <3>8. QED
      BY ONLY <1>1, <2>4, <3>1, <3>3, <3>6, <3>7, MoveFits
  <2>7. QED
    BY <2>5, <2>6
<1>6. \/ Error("too-many-nested")
      \/ \E on \in BOOLEAN :
           /\ on <=> ((Word \in definedSyms) <=> (Directive = "IFDEF"))
           /\ ifdefActive' = Append(ifdefActive, on) /\ ReadCh(To({"rbrace"}))
           /\ status' = (IF on THEN "scanning" ELSE "skipping")
           /\ skipDepth' = 0 /\ UNCHANGED <<definedSyms, tokens>>
  <2>1. ((Word \in definedSyms) <=> (Directive = "IFDEF")) \in BOOLEAN
    OBVIOUS
  <2>2. QED
    BY <2>1, Zenon DEF IfDef
<1>7. QED
  BY <1>4, <1>5, <1>6

(* {$ELSE}, where its first branch is compiled or was left out.             *)
LEMMA ElseText ==
  ASSUME NEW h, Standing(h), Else
  PROVE  Moved(h) \/ Refused(h)
<1>0. status = "scanning" /\ rest # <<>> /\ Ch = "lbrace" /\ Directive = "ELSE"
  BY DEF Else, Reading
<1>1. /\ Unread(rest) /\ Run(h) /\ rest \in Seq(Cell) /\ Len(rest) \in Nat /\ Len(rest) > 1 /\ rest[2].s # "rbrace"
      /\ h[0] \in States /\ h[2] \in States /\ h[2].syms = h[0].syms /\ h[2].out = h[0].out
      /\ h[0].conds = <<>> => h[2].bad
      /\ h[0].conds # <<>> => /\ h[2].bad = h[0].bad /\ h[2].mode = "brace" /\ h[2].conds = Turned(h[0].conds)
                              /\ h[2].odd = (h[0].odd \/ h[0].conds[Len(h[0].conds)].elsed)
  <2>1. Directive # "none" /\ Directive \in {"ELSE", "ENDIF"}
    BY <1>0
  <2>2. QED
    BY <1>0, <2>1, Directed
<1>2. /\ Fits(h[0], status, ifdefActive, skipDepth, definedSyms, tokens)
      /\ ifdefActive \in Seq(BOOLEAN) /\ skipDepth \in Nat /\ h[0].conds \in Seq(Conds)
  BY <1>0, StandingParts, StateParts
<1>3. PICK n \in Nat : n = Len(rest)
  BY <1>1
<1>f. ASSUME NEW why, Error(why), why \notin {"scanning", "skipping", "end"}, Faulty(h[n])
      PROVE  Refused(h)
  BY <1>f, <1>3, RefuseFaulty
<1>4. \/ ifdefActive = <<>> /\ Error("else-without-ifdef")
      \/ /\ ifdefActive # <<>> /\ Last(ifdefActive) /\ status' = "skipping" /\ skipDepth' = 0
         /\ ReadCh(To({"rbrace"})) /\ UNCHANGED <<definedSyms, ifdefActive, tokens>>
      \/ ifdefActive # <<>> /\ ~Last(ifdefActive) /\ Closed /\ Skip(3)
      \/ ifdefActive # <<>> /\ ~Last(ifdefActive) /\ Error("unterminated")
  BY Zenon DEF Else
<1>5. CASE ifdefActive = <<>> /\ Error("else-without-ifdef")
  <2>1. h[0].conds = <<>>
    <3>1. Len(h[0].conds) = 0
      BY <1>0, <1>2, <1>5 DEF Fits
    <3>2. QED
      BY ONLY <1>2, <3>1, EmptySeq
  <2>2. h[2].bad /\ 2 \in 0..Len(rest)
    BY <1>1, <2>1
  <2>3. h[n].bad
    BY <1>1, <1>3, <2>2, RunKeeps
  <2>4. QED
    BY <1>f, <1>5, <2>3 DEF Faulty
<1>6. ASSUME ifdefActive # <<>>
      PROVE  /\ Len(h[0].conds) = Len(ifdefActive) /\ h[0].conds # <<>>
             /\ Len(ifdefActive) \in Nat \ {0} /\ Last(ifdefActive) = ifdefActive[Len(ifdefActive)]
             /\ h[0].conds[Len(h[0].conds)].on
             /\ h[0].conds[Len(h[0].conds)].elsed <=> ~Last(ifdefActive)
  BY <1>0, <1>6, Innermost
<1>7. CASE /\ ifdefActive # <<>> /\ Last(ifdefActive) /\ status' = "skipping" /\ skipDepth' = 0
           /\ ReadCh(To({"rbrace"})) /\ UNCHANGED <<definedSyms, ifdefActive, tokens>>
  <2>1. PICK m, x : m = h[0] /\ x = h[2]
    OBVIOUS
  <2>2. /\ m.conds \in Seq(Conds) /\ m.conds # <<>> /\ Len(m.conds) = Len(ifdefActive)
        /\ ifdefActive[Len(ifdefActive)] <=> ("scanning" = "scanning")
        /\ m.conds[Len(ifdefActive)].on <=> ("scanning" = "scanning")
        /\ Fits(m, "scanning", ifdefActive, skipDepth, definedSyms, tokens)
        /\ x.conds = Turned(m.conds) /\ x.bad = m.bad /\ x.out = m.out /\ x.syms = m.syms
    BY ONLY <1>0, <1>1, <1>2, <1>6, <1>7, <2>1
  <2>3. Fits(x, "skipping", ifdefActive, 0, definedSyms, tokens)
    BY ONLY <1>2, <2>2, FitsTurned
  <2>4. Fits(h[2], status', ifdefActive', skipDepth', definedSyms', tokens')
    BY <1>7, <2>1, <2>3
  <2>5. /\ status' \in {"scanning", "skipping"} /\ ifdefActive' \in Seq(BOOLEAN) /\ skipDepth' \in Nat
        /\ ifdefActive' # <<>> /\ ReadCh(To({"rbrace"})) /\ h[2].mode = "brace"
    BY <1>1, <1>2, <1>6, <1>7
  <2>6. QED
    BY ONLY <1>1, <2>4, <2>5, PastFits
<1>8. ASSUME ifdefActive # <<>>, ~Last(ifdefActive)
      PROVE  h[2].odd /\ 2 \in 0..Len(rest)
  <2>1. h[0].conds # <<>> /\ h[0].conds[Len(h[0].conds)].elsed
    BY <1>6, <1>8
  <2>2. h[2].odd
    BY ONLY <1>1, <2>1
  <2>3. QED
    BY <1>1, <2>2
<1>9. CASE ifdefActive # <<>> /\ ~Last(ifdefActive) /\ Closed /\ Skip(3)
  <2>1. h[2].odd /\ 3 \in 1..Len(rest) /\ 3 \in 0..Len(rest) /\ 3 - 1 = 2
    BY <1>1, <1>8, <1>9 DEF Closed
  <2>2. h[3] = MeaningStep(h[2], rest[3]) /\ rest[3] \in Cell
    BY <1>1, <2>1, RunStep
  <2>3. h[3].odd
    BY ONLY <1>1, <2>1, <2>2, StepTyped
  <2>4. /\ ReadCh(3) /\ status' = status /\ ifdefActive' = ifdefActive /\ skipDepth' = skipDepth
    BY <1>9 DEF Skip
  <2>5. status' \in {"scanning", "skipping"}
    BY <1>0, <2>4
  <2>6. QED
    BY ONLY <2>1, <2>3, <2>4, <2>5 DEF Moved
<1>10. CASE ifdefActive # <<>> /\ ~Last(ifdefActive) /\ Error("unterminated")
  <2>1. h[n].odd
    BY <1>1, <1>3, <1>8, <1>10, RunKeeps
  <2>2. QED
    BY <1>f, <1>10, <2>1 DEF Faulty
<1>11. QED
  BY ONLY <1>4, <1>5, <1>7, <1>9, <1>10

(* {$ENDIF} where its text is compiled.                                     *)
LEMMA EndIfText ==
  ASSUME NEW h, Standing(h), EndIf
  PROVE  Moved(h) \/ Refused(h)
<1>0. status = "scanning" /\ rest # <<>> /\ Ch = "lbrace" /\ Directive = "ENDIF"
  BY DEF EndIf, Reading
<1>1. /\ Unread(rest) /\ Run(h) /\ rest \in Seq(Cell) /\ Len(rest) \in Nat /\ Len(rest) > 1 /\ rest[2].s # "rbrace"
      /\ h[0] \in States /\ h[2] \in States /\ h[2].syms = h[0].syms /\ h[2].out = h[0].out
      /\ h[0].conds = <<>> => h[2].bad
      /\ h[0].conds # <<>> => h[2].bad = h[0].bad /\ h[2].mode = "closing" /\ h[2].conds = Front(h[0].conds)
  <2>1. Directive # "none" /\ Directive \in {"ELSE", "ENDIF"}
    BY <1>0
  <2>2. QED
    BY <1>0, <2>1, Directed
<1>2. /\ Fits(h[0], status, ifdefActive, skipDepth, definedSyms, tokens)
      /\ ifdefActive \in Seq(BOOLEAN) /\ skipDepth \in Nat /\ h[0].conds \in Seq(Conds)
  BY <1>0, StandingParts, StateParts
<1>3. PICK n \in Nat : n = Len(rest)
  BY <1>1
<1>f. ASSUME NEW why, Error(why), why \notin {"scanning", "skipping", "end"}, Faulty(h[n])
      PROVE  Refused(h)
  BY <1>f, <1>3, RefuseFaulty
<1>4. \/ ifdefActive = <<>> /\ Error("endif-without-ifdef")
      \/ ifdefActive # <<>> /\ ~Closed /\ Error("unterminated")
      \/ /\ ifdefActive # <<>> /\ Closed /\ ifdefActive' = Front(ifdefActive) /\ ReadCh(3)
         /\ UNCHANGED <<definedSyms, skipDepth, tokens, status>>
  BY Zenon DEF EndIf
<1>5. CASE ifdefActive = <<>> /\ Error("endif-without-ifdef")
  <2>1. h[0].conds = <<>>
    <3>1. Len(h[0].conds) = 0
      BY <1>0, <1>2, <1>5 DEF Fits
    <3>2. QED
      BY ONLY <1>2, <3>1, EmptySeq
  <2>2. h[2].bad /\ 2 \in 0..Len(rest)
    BY <1>1, <2>1
  <2>3. h[n].bad
    BY <1>1, <1>3, <2>2, RunKeeps
  <2>4. QED
    BY <1>f, <1>5, <2>3 DEF Faulty
<1>6. ASSUME ifdefActive # <<>>
      PROVE  /\ Len(h[0].conds) = Len(ifdefActive) /\ h[0].conds # <<>> /\ h[2].mode = "closing"
  BY <1>0, <1>1, <1>6, Innermost
<1>7. CASE ifdefActive # <<>> /\ ~Closed /\ Error("unterminated")
  <2>1. CASE n = 2
    <3>1. h[n].mode = "closing"
      BY <1>6, <1>7, <2>1
    <3>2. QED
      BY <1>f, <1>7, <3>1 DEF Faulty
  <2>2. CASE n # 2
    <3>1. 3 \in 1..Len(rest) /\ 3 \in 0..Len(rest) /\ 3 - 1 = 2 /\ rest[3].s # "rbrace"
      BY <1>1, <1>3, <1>7, <2>2 DEF Closed
    <3>2. h[3] = MeaningStep(h[2], rest[3])
      BY <1>1, <3>1, RunStep
    <3>3. h[3] = Bad(h[2], "brace")
      BY <1>6, <1>7, <3>1, <3>2, StepIs
    <3>4. "brace" \in Modes
      BY DEF Modes
    <3>5. h[3].bad
      BY ONLY <1>1, <3>3, <3>4, BadIs
    <3>6. h[n].bad
      BY <1>1, <1>3, <3>1, <3>5, RunKeeps
    <3>7. QED
      BY <1>f, <1>7, <3>6 DEF Faulty
  <2>3. QED
    BY <2>1, <2>2
<1>8. CASE /\ ifdefActive # <<>> /\ Closed /\ ifdefActive' = Front(ifdefActive) /\ ReadCh(3)
           /\ UNCHANGED <<definedSyms, skipDepth, tokens, status>>
  <2>1. 3 \in 1..Len(rest) /\ 3 \in 0..Len(rest) /\ 3 - 1 = 2 /\ rest[3].s = "rbrace"
    BY <1>1, <1>8 DEF Closed
  <2>2. h[3] = MeaningStep(h[2], rest[3])
    BY <1>1, <2>1, RunStep
  <2>3. h[3] = Mode(h[2], "code") /\ "code" \in Modes
    BY <1>6, <1>8, <2>1, <2>2, StepIs DEF Modes
  <2>4. h[3] \in States /\ h[3].mode = "code" /\ Same(h[3], h[2])
    BY ONLY <1>1, <2>3, ModeSame
  <2>5. PICK m, x : m = h[0] /\ x = h[3]
    OBVIOUS
  <2>6. /\ m.conds \in Seq(Conds) /\ Len(m.conds) = Len(ifdefActive)
        /\ Fits(m, "scanning", ifdefActive, skipDepth, definedSyms, tokens)
        /\ x.conds = Front(m.conds) /\ x.bad = m.bad /\ x.out = m.out /\ x.syms = m.syms
    BY ONLY <1>0, <1>1, <1>2, <1>6, <1>8, <2>4, <2>5 DEF Same
  <2>7. Front(ifdefActive) \in Seq(BOOLEAN) /\ Fits(x, "scanning", Front(ifdefActive), skipDepth, definedSyms, tokens)
    BY ONLY <1>2, <1>8, <2>6, FitsEnded
  <2>8. Fits(h[3], status', ifdefActive', skipDepth', definedSyms', tokens')
    BY <1>0, <1>8, <2>5, <2>7
  <2>9. status' = "scanning" /\ ifdefActive' \in Seq(BOOLEAN) /\ skipDepth' \in Nat /\ ReadCh(3)
    BY <1>0, <1>2, <1>8, <2>7
  <2>10. QED
    BY ONLY <1>1, <2>1, <2>4, <2>8, <2>9, MoveFits
<1>9. QED
  BY ONLY <1>4, <1>5, <1>7, <1>8

(* Conditionals inside an inactive block.                                   *)
LEMMA SkipNestedText ==
  ASSUME NEW h, Standing(h), SkipNested
  PROVE  Moved(h)
<1>0. /\ status = "skipping" /\ rest # <<>> /\ Ch = "lbrace" /\ Directive \in {"IFDEF", "IFNDEF", "ELSE", "ENDIF"}
      /\ skipDepth = 0 => Directive \in {"IFDEF", "IFNDEF"}
  BY DEF SkipNested, Skipping, Conditional, EndsBlock
<1>1. /\ ReadCh(To({"rbrace"})) /\ UNCHANGED <<definedSyms, ifdefActive, tokens, status>>
      /\ Directive = "ENDIF" => skipDepth' = skipDepth - 1
      /\ Directive = "ELSE" => skipDepth' = skipDepth
      /\ Directive \in {"IFDEF", "IFNDEF"} => skipDepth' = skipDepth + 1
  <2>1. skipDepth' = CASE Directive = "ENDIF" -> skipDepth - 1 [] Directive = "ELSE" -> skipDepth [] OTHER -> skipDepth + 1
    BY DEF SkipNested
  <2>2. ReadCh(To({"rbrace"})) /\ UNCHANGED <<definedSyms, ifdefActive, tokens, status>>
    BY DEF SkipNested, Pass
  <2>3. QED
    BY ONLY <1>0, <2>1, <2>2
<1>2. /\ Unread(rest) /\ Run(h) /\ rest \in Seq(Cell) /\ Len(rest) \in Nat /\ Len(rest) > 1 /\ rest[2].s # "rbrace"
      /\ h[0] \in States /\ h[2] \in States
      /\ Directive \in {"IFDEF", "IFNDEF"} => h[2].mode = Directive /\ Same(h[2], h[0])
      /\ Directive \in {"ELSE", "ENDIF"} => h[2].syms = h[0].syms /\ h[2].out = h[0].out
      /\ Directive \in {"ELSE", "ENDIF"} /\ h[0].conds # <<>> => h[2].bad = h[0].bad
      /\ Directive = "ELSE" /\ h[0].conds # <<>> => h[2].mode = "brace" /\ h[2].conds = Turned(h[0].conds)
      /\ Directive = "ENDIF" /\ h[0].conds # <<>> => h[2].mode = "brace" /\ h[2].conds = Front(h[0].conds)
  <2>1. Directive # "none"
    BY <1>0
  <2>2. QED
    BY <1>0, <2>1, Directed
<1>3. /\ Fits(h[0], "skipping", ifdefActive, skipDepth, definedSyms, tokens)
      /\ ifdefActive \in Seq(BOOLEAN) /\ ifdefActive # <<>> /\ skipDepth \in Nat /\ h[0].conds \in Seq(Conds)
      /\ definedSyms \subseteq Symbol \ {"none", "rbrace"}
  BY <1>0, StandingParts, StateParts DEF Standing, KnownSafe
<1>4. PICK n, e : n \in Nat /\ n = Len(rest) /\ e = First(rest, 2, {"rbrace"})
  BY <1>2
<1>5. PICK k \in Nat \ {0}, d \in Nat, c \in Seq(Conds) :
        k = Len(ifdefActive) /\ d = skipDepth /\ c = h[0].conds /\ Len(c) = k + d
  <2>1. Len(ifdefActive) \in Nat \ {0}
    BY <1>3, EmptySeq
  <2>2. Len(h[0].conds) = Len(ifdefActive) + skipDepth
    BY <1>3 DEF Fits
  <2>3. QED
    BY <1>3, <2>1, <2>2
<1>6. c # <<>>
  BY <1>5, EmptySeq
<1>7. status' = "skipping" /\ ifdefActive' \in Seq(BOOLEAN) /\ ifdefActive' # <<>>
  BY <1>0, <1>1, <1>3
<1>8. ASSUME NEW x, NEW deeper \in Nat, skipDepth' = deeper,
             x.bad = h[0].bad, x.out = h[0].out, x.syms = h[0].syms, Len(x.conds) = k + deeper,
             \A i \in 1..k : x.conds[i] = c[i]
      PROVE  Fits(x, status', ifdefActive', skipDepth', definedSyms', tokens')
  <2>1. PICK m : m = h[0]
    OBVIOUS
  <2>2. /\ Fits(m, "skipping", ifdefActive, d, definedSyms, tokens)
        /\ x.bad = m.bad /\ x.out = m.out /\ x.syms = m.syms /\ Len(x.conds) = Len(ifdefActive) + deeper
        /\ \A i \in 1..Len(ifdefActive) : x.conds[i] = m.conds[i]
    BY ONLY <1>3, <1>5, <1>8, <2>1
  <2>3. Fits(x, "skipping", ifdefActive, deeper, definedSyms, tokens)
    BY ONLY <1>3, <2>2, FitsDeeper, d \in Nat, deeper \in Nat
  <2>4. QED
    BY ONLY <1>1, <1>7, <1>8, <2>3
<1>9. CASE Directive \in {"IFDEF", "IFNDEF"}
  <2>1. Conditioned(h, e)
    <3>1. h[2].mode \in {"IFDEF", "IFNDEF"} /\ h[2].syms \subseteq Symbol \ {"none", "rbrace"}
      BY <1>2, <1>3, <1>9 DEF Same, Fits
    <3>2. QED
      BY <1>2, <1>4, <3>1, ConditionRun
  <2>2. /\ e \in 3..n + 1
        /\ e <= n =>
             /\ h[e].mode = "code" /\ h[e].syms = h[2].syms /\ h[e].out = h[2].out /\ h[e].bad = h[2].bad
             /\ \E y \in Conds : h[e].conds = Append(h[2].conds, y)
        /\ e > n => h[n].mode # "code"
    <3>1. \A on \in BOOLEAN : [on |-> on, elsed |-> FALSE] \in Conds
      BY DEF Conds
    <3>2. QED
      BY ONLY <1>4, <2>1, <3>1 DEF Conditioned
  <2>3. To({"rbrace"}) = IF e > n THEN n ELSE e
    BY <1>4 DEF To
  <2>4. CASE e > n
    <3>1. FitsAtEnd(h[n], status', tokens')
      BY <1>7, <2>2, <2>4 DEF FitsAtEnd
    <3>2. ReadCh(n) /\ n = Len(rest) /\ n \in 0..Len(rest)
      BY <1>1, <1>4, <2>3, <2>4
    <3>3. QED
      BY ONLY <1>7, <3>1, <3>2 DEF Moved
  <2>5. CASE ~(e > n)
    <3>1. e <= n /\ e \in 0..Len(rest) /\ ReadCh(e)
      BY <1>1, <1>4, <2>2, <2>3, <2>5
    <3>2. PICK y \in Conds : h[e].conds = Append(c, y)
      BY <1>2, <1>5, <1>9, <2>2, <3>1 DEF Same
    <3>3. Len(h[e].conds) = k + (d + 1) /\ \A i \in 1..k : h[e].conds[i] = c[i]
      <4>1. Len(Append(c, y)) = Len(c) + 1 /\ \A i \in 1..Len(c) : Append(c, y)[i] = c[i]
        BY ONLY AppendProperties, c \in Seq(Conds), y \in Conds
      <4>2. \A i \in 1..k : i \in 1..Len(c)
        BY ONLY <1>5, k \in Nat \ {0}, d \in Nat
      <4>3. Len(Append(c, y)) = k + (d + 1)
        BY ONLY <1>5, <4>1, k \in Nat \ {0}, d \in Nat
      <4>4. QED
        BY ONLY <3>2, <4>1, <4>2, <4>3
    <3>4. h[e].mode = "code" /\ h[e].syms = h[0].syms /\ h[e].out = h[0].out /\ h[e].bad = h[0].bad
      BY <1>2, <1>9, <2>2, <3>1 DEF Same
    <3>5. skipDepth' = d + 1 /\ d + 1 \in Nat
      BY <1>1, <1>5, <1>9
    <3>6. Fits(h[e], status', ifdefActive', skipDepth', definedSyms', tokens')
      BY <1>8, <3>3, <3>4, <3>5
    <3>7. QED
      BY <1>2, <1>7, <3>1, <3>4, <3>5, <3>6, MoveFits
  <2>6. QED
    BY <2>4, <2>5
<1>10. ASSUME NEW deeper \in Nat, skipDepth' = deeper, Directive \in {"ELSE", "ENDIF"},
              h[2].mode = "brace", Len(h[2].conds) = k + deeper, \A i \in 1..k : h[2].conds[i] = c[i]
       PROVE  Moved(h)
  <2>1. h[2].bad = h[0].bad /\ h[2].out = h[0].out /\ h[2].syms = h[0].syms
    BY <1>2, <1>5, <1>6, <1>10
  <2>2. Fits(h[2], status', ifdefActive', skipDepth', definedSyms', tokens')
    BY <1>8, <1>10, <2>1
  <2>3. QED
    BY <1>1, <1>2, <1>7, <1>10, <2>2, PastFits
<1>11. CASE Directive = "ELSE"
  <2>1. d \in Nat \ {0} /\ skipDepth' = d
    BY <1>0, <1>1, <1>5, <1>11
  <2>2. h[2].mode = "brace" /\ h[2].conds = Turned(c)
    BY <1>2, <1>5, <1>6, <1>11
  <2>3. Len(Turned(c)) = Len(c) /\ \A i \in 1..Len(c) - 1 : Turned(c)[i] = c[i]
    BY <1>6, TurnedIs
  <2>4. Len(h[2].conds) = k + d /\ \A i \in 1..k : h[2].conds[i] = c[i]
    <3>1. \A i \in 1..k : i \in 1..Len(c) - 1
      BY ONLY <1>5, <2>1, k \in Nat \ {0}
    <3>2. QED
      BY ONLY <1>5, <2>2, <2>3, <3>1
  <2>5. QED
    BY <1>10, <1>11, <2>1, <2>2, <2>4
<1>12. CASE Directive = "ENDIF"
  <2>1. d \in Nat \ {0} /\ skipDepth' = d - 1 /\ d - 1 \in Nat
    BY <1>0, <1>1, <1>5, <1>12
  <2>2. h[2].mode = "brace" /\ h[2].conds = Front(c)
    BY <1>2, <1>5, <1>6, <1>12
  <2>3. Len(Front(c)) = (k + d) - 1 /\ \A i \in 1..(k + d) - 1 : Front(c)[i] = c[i]
    BY ONLY <1>5, c \in Seq(Conds), k \in Nat \ {0}, d \in Nat DEF Front
  <2>4. Len(h[2].conds) = k + (d - 1) /\ \A i \in 1..k : h[2].conds[i] = c[i]
    <3>1. \A i \in 1..k : i \in 1..(k + d) - 1
      BY ONLY <2>1, k \in Nat \ {0}
    <3>2. QED
      BY ONLY <2>1, <2>2, <2>3, <3>1, k \in Nat \ {0}
  <2>5. QED
    BY <1>10, <1>12, <2>1, <2>2, <2>4
<1>13. QED
  BY <1>0, <1>9, <1>11, <1>12

(* The end of an inactive block.                                            *)
LEMMA SkipEndsText ==
  ASSUME NEW h, Standing(h), SkipEnds
  PROVE  Moved(h) \/ Refused(h)
<1>0. /\ status = "skipping" /\ rest # <<>> /\ Ch = "lbrace" /\ Directive \in {"ELSE", "ENDIF"} /\ skipDepth = 0
  BY DEF SkipEnds, Skipping, Conditional, EndsBlock
<1>1. /\ Fits(h[0], "skipping", ifdefActive, skipDepth, definedSyms, tokens)
      /\ ifdefActive \in Seq(BOOLEAN) /\ ifdefActive # <<>> /\ skipDepth \in Nat /\ h[0].conds \in Seq(Conds)
  BY <1>0, StandingParts, StateParts
<1>2. /\ Len(h[0].conds) = Len(ifdefActive) /\ h[0].conds # <<>>
      /\ Len(ifdefActive) \in Nat \ {0} /\ Last(ifdefActive) = ifdefActive[Len(ifdefActive)]
      /\ ~h[0].conds[Len(h[0].conds)].on
      /\ h[0].conds[Len(h[0].conds)].elsed <=> Last(ifdefActive)
  <2>1. status \in {"scanning", "skipping"} /\ (status = "scanning" \/ skipDepth = 0)
    BY <1>0
  <2>2. /\ Len(h[0].conds) = Len(ifdefActive) /\ h[0].conds # <<>>
        /\ Len(ifdefActive) \in Nat \ {0} /\ Last(ifdefActive) = ifdefActive[Len(ifdefActive)]
        /\ h[0].conds[Len(h[0].conds)].on <=> (status = "scanning")
        /\ h[0].conds[Len(h[0].conds)].elsed <=> (status = "scanning" <=> ~Last(ifdefActive))
    BY ONLY <1>1, <2>1, Innermost, Standing(h)
  <2>3. QED
    BY ONLY <1>0, <2>2
<1>3. /\ Unread(rest) /\ Run(h) /\ rest \in Seq(Cell) /\ Len(rest) \in Nat /\ Len(rest) > 1 /\ rest[2].s # "rbrace"
      /\ h[0] \in States /\ h[2] \in States
      /\ h[2].syms = h[0].syms /\ h[2].out = h[0].out /\ h[2].bad = h[0].bad /\ h[2].mode = "brace"
      /\ Directive = "ELSE" => /\ h[2].conds = Turned(h[0].conds)
                               /\ h[2].odd = (h[0].odd \/ h[0].conds[Len(h[0].conds)].elsed)
      /\ Directive = "ENDIF" => h[2].conds = Front(h[0].conds)
  <2>1. Directive # "none"
    BY <1>0
  <2>2. QED
    BY <1>0, <1>2, <2>1, Directed
<1>4. PICK n \in Nat : n = Len(rest)
  BY <1>3
<1>5. \/ Directive = "ELSE" /\ Last(ifdefActive) /\ Error("duplicate-else")
      \/ /\ ~(Directive = "ELSE" /\ Last(ifdefActive)) /\ ReadCh(To({"rbrace"})) /\ status' = "scanning"
         /\ ifdefActive' = (IF Directive = "ELSE" THEN ifdefActive ELSE Front(ifdefActive))
         /\ UNCHANGED <<definedSyms, skipDepth, tokens>>
  BY Zenon DEF SkipEnds
<1>6. CASE Directive = "ELSE" /\ Last(ifdefActive) /\ Error("duplicate-else")
  <2>1. h[2].odd /\ 2 \in 0..Len(rest)
    <3>1. h[0].conds[Len(h[0].conds)].elsed
      BY <1>2, <1>6
    <3>2. h[2].odd
      BY ONLY <1>3, <1>6, <3>1
    <3>3. QED
      BY <1>3, <3>2
  <2>2. h[n].odd
    BY <1>3, <1>4, <2>1, RunKeeps
  <2>3. QED
    BY <1>4, <1>6, <2>2, RefuseFaulty DEF Faulty
<1>7. ASSUME ReadCh(To({"rbrace"})), status' = "scanning", UNCHANGED <<definedSyms, skipDepth, tokens>>,
             ifdefActive' \in Seq(BOOLEAN), Fits(h[2], "scanning", ifdefActive', 0, definedSyms, tokens)
      PROVE  Moved(h)
  <2>1. Fits(h[2], status', ifdefActive', skipDepth', definedSyms', tokens')
    BY <1>0, <1>7
  <2>2. skipDepth' \in Nat
    BY <1>1, <1>7
  <2>3. QED
    BY ONLY <1>3, <1>7, <2>1, <2>2, PastFits
<1>8. CASE /\ Directive = "ELSE" /\ ~Last(ifdefActive) /\ ReadCh(To({"rbrace"})) /\ status' = "scanning"
           /\ ifdefActive' = ifdefActive
           /\ UNCHANGED <<definedSyms, skipDepth, tokens>>
  <2>1. PICK m, x : m = h[0] /\ x = h[2]
    OBVIOUS
  <2>2. /\ m.conds \in Seq(Conds) /\ m.conds # <<>> /\ Len(m.conds) = Len(ifdefActive)
        /\ ifdefActive[Len(ifdefActive)] <=> ("skipping" = "scanning")
        /\ m.conds[Len(ifdefActive)].on <=> ("skipping" = "scanning")
        /\ Fits(m, "skipping", ifdefActive, skipDepth, definedSyms, tokens)
        /\ x.conds = Turned(m.conds) /\ x.bad = m.bad /\ x.out = m.out /\ x.syms = m.syms
    BY ONLY <1>1, <1>2, <1>3, <1>8, <2>1
  <2>3. Fits(x, "scanning", ifdefActive, 0, definedSyms, tokens)
    BY ONLY <1>1, <2>2, FitsTurned
  <2>4. QED
    BY <1>1, <1>7, <1>8, <2>1, <2>3
<1>9. CASE /\ Directive = "ENDIF" /\ ReadCh(To({"rbrace"})) /\ status' = "scanning"
           /\ ifdefActive' = Front(ifdefActive)
           /\ UNCHANGED <<definedSyms, skipDepth, tokens>>
  <2>1. PICK m, x : m = h[0] /\ x = h[2]
    OBVIOUS
  <2>2. /\ m.conds \in Seq(Conds) /\ Len(m.conds) = Len(ifdefActive)
        /\ Fits(m, "skipping", ifdefActive, skipDepth, definedSyms, tokens)
        /\ x.conds = Front(m.conds) /\ x.bad = m.bad /\ x.out = m.out /\ x.syms = m.syms
    BY ONLY <1>1, <1>2, <1>3, <1>9, <2>1
  <2>3. Front(ifdefActive) \in Seq(BOOLEAN) /\ Fits(x, "scanning", Front(ifdefActive), 0, definedSyms, tokens)
    BY ONLY <1>1, <2>2, FitsEnded
  <2>4. QED
    BY <1>7, <1>9, <2>1, <2>3
<1>10. QED
  BY <1>0, <1>5, <1>6, <1>8, <1>9

(* Quotes are counted one after the other.                                  *)
LEMMA QuotesStep ==
  ASSUME NEW text, NEW i \in Nat \ {0}
  PROVE  /\ QuotesTo(text, 1, 1) = 0 /\ QuotesTo(text, 1, i) \in Nat
         /\ QuotesTo(text, 1, i + 1) = QuotesTo(text, 1, i) + (IF QuoteAt(text, 1, i + 1) THEN 1 ELSE 0)
<1> DEFINE Q(k) == {j \in (1 + 1)..k : QuoteAt(text, 1, j)}
<1>0. \A k : QuotesTo(text, 1, k) = Cardinality(Q(k))
  BY DEF QuotesTo
<1>1. Q(1) = {}
  OBVIOUS
<1>2. IsFiniteSet(Q(i))
  <2>1. IsFiniteSet((1 + 1)..i)
    BY FS_Interval
  <2>2. QED
    BY <2>1, FS_Subset
<1>3. i + 1 \notin Q(i) /\ Q(i + 1) = IF QuoteAt(text, 1, i + 1) THEN Q(i) \cup {i + 1} ELSE Q(i)
  <2>1. \A j : j \in (1 + 1)..(i + 1) <=> j \in (1 + 1)..i \/ j = i + 1
    OBVIOUS
  <2>2. i + 1 \notin (1 + 1)..i
    OBVIOUS
  <2>3. QED
    BY <2>1, <2>2
<1> HIDE DEF Q
<1>4. Cardinality(Q(1)) = 0 /\ Cardinality(Q(i)) \in Nat
  BY <1>1, <1>2, FS_EmptySet, FS_CardinalityType
<1>5. Cardinality(Q(i) \cup {i + 1}) = Cardinality(Q(i)) + 1
  BY <1>2, <1>3, FS_AddElement
<1>6. Cardinality(Q(i)) + 0 = Cardinality(Q(i))
  BY ONLY <1>4
<1>7. Cardinality(Q(i + 1)) = Cardinality(Q(i)) + (IF QuoteAt(text, 1, i + 1) THEN 1 ELSE 0)
  BY ONLY <1>3, <1>5, <1>6
<1>8. QED
  BY ONLY <1>0, <1>4, <1>7

(* A text taken cell by cell.                                               *)
LEMMA OneMore ==
  ASSUME NEW s \in Seq(Cell), NEW t \in Seq(Cell), NEW i \in Nat, i + 1 <= Len(t)
  PROVE  /\ s \o SubSeq(t, 1, i) \in Seq(Cell)
         /\ Append(s \o SubSeq(t, 1, i), t[i + 1]) = s \o SubSeq(t, 1, i + 1)
<1>1. PICK k \in Nat, c \in Cell : k = Len(s) /\ c = t[i + 1]
  OBVIOUS
<1>2. PICK u \in Seq(Cell) : u = SubSeq(t, 1, i) /\ Len(u) = i /\ \A j \in 1..i : u[j] = t[j]
  <2>1. SubSeq(t, 1, i) \in Seq(Cell) /\ Len(SubSeq(t, 1, i)) = i /\ \A j \in 1..i : SubSeq(t, 1, i)[j] = t[j]
    OBVIOUS
  <2>2. QED
    BY ONLY <2>1
<1>3. PICK v \in Seq(Cell) : v = SubSeq(t, 1, i + 1) /\ Len(v) = i + 1 /\ \A j \in 1..i + 1 : v[j] = t[j]
  <2>1. /\ SubSeq(t, 1, i + 1) \in Seq(Cell) /\ Len(SubSeq(t, 1, i + 1)) = i + 1
        /\ \A j \in 1..i + 1 : SubSeq(t, 1, i + 1)[j] = t[j]
    OBVIOUS
  <2>2. QED
    BY ONLY <2>1
<1>4. PICK x \in Seq(Cell) : x = s \o u /\ Len(x) = k + i /\ \A j \in 1..k + i : x[j] = IF j <= k THEN s[j] ELSE u[j - k]
  <2>1. s \o u \in Seq(Cell) /\ Len(s \o u) = k + i /\ \A j \in 1..k + i : (s \o u)[j] = IF j <= k THEN s[j] ELSE u[j - k]
    BY ONLY <1>1, <1>2, ConcatProperties, s \in Seq(Cell), u \in Seq(Cell)
  <2>2. QED
    BY ONLY <2>1
<1>5. PICK y \in Seq(Cell) : /\ y = s \o v /\ Len(y) = k + (i + 1)
                             /\ \A j \in 1..k + (i + 1) : y[j] = IF j <= k THEN s[j] ELSE v[j - k]
  <2>1. /\ s \o v \in Seq(Cell) /\ Len(s \o v) = k + (i + 1)
        /\ \A j \in 1..k + (i + 1) : (s \o v)[j] = IF j <= k THEN s[j] ELSE v[j - k]
    BY ONLY <1>1, <1>3, ConcatProperties, s \in Seq(Cell), v \in Seq(Cell)
  <2>2. QED
    BY ONLY <2>1
<1>6. PICK z \in Seq(Cell) : z = Append(x, c) /\ Len(z) = (k + i) + 1 /\ z[(k + i) + 1] = c /\ \A j \in 1..k + i : z[j] = x[j]
  <2>1. Append(x, c) \in Seq(Cell) /\ Len(Append(x, c)) = Len(x) + 1 /\ Append(x, c)[Len(x) + 1] = c
        /\ \A j \in 1..Len(x) : Append(x, c)[j] = x[j]
    BY ONLY AppendProperties, x \in Seq(Cell), c \in Cell
  <2>2. QED
    BY ONLY <1>4, <2>1
<1>7. ASSUME NEW j \in 1..(k + i) + 1 PROVE z[j] = y[j]
  <2>1. CASE j = (k + i) + 1
    <3>1. j - k = i + 1 /\ ~(j <= k) /\ j \in 1..k + (i + 1) /\ i + 1 \in 1..i + 1
      BY <2>1
    <3>2. QED
      BY ONLY <1>1, <1>3, <1>5, <1>6, <2>1, <3>1
  <2>2. CASE j # (k + i) + 1 /\ j <= k
    <3>1. j \in 1..k + i /\ j \in 1..k + (i + 1)
      BY <2>2
    <3>2. QED
      BY ONLY <1>4, <1>5, <1>6, <2>2, <3>1
  <2>3. CASE j # (k + i) + 1 /\ ~(j <= k)
    <3>1. j \in 1..k + i /\ j \in 1..k + (i + 1) /\ j - k \in 1..i /\ j - k \in 1..i + 1
      BY <2>3
    <3>2. QED
      BY ONLY <1>2, <1>3, <1>4, <1>5, <1>6, <2>3, <3>1
  <2>4. QED
    BY <2>1, <2>2, <2>3
<1>8. Len(z) = Len(y) /\ \A j \in 1..Len(z) : z[j] = y[j]
  <2>1. Len(z) = (k + i) + 1 /\ Len(y) = (k + i) + 1
    BY ONLY <1>5, <1>6, k \in Nat, i \in Nat
  <2>2. QED
    BY ONLY <1>7, <2>1
<1>9. z = y
  BY ONLY <1>8, SeqEqual, y \in Seq(Cell), z \in Seq(Cell)
<1>10. QED
  BY ONLY <1>1, <1>2, <1>3, <1>4, <1>5, <1>6, <1>9

(* Where the pass is in a string: in it, or behind a quote that may end it. *)
InString(h, i) ==
  /\ h[i] \in States /\ h[i].conds = h[0].conds /\ h[i].syms = h[0].syms /\ h[i].bad = h[0].bad
  /\ h[i].out = h[0].out \o SubSeq(rest, 1, i)
  /\ QuotesTo(rest, 1, i) % 2 = 0 => h[i].mode = "string"
  /\ QuotesTo(rest, 1, i) % 2 = 1 => h[i].mode = "code" /\ QuoteAt(rest, 1, i)

(* A cell that goes to the parser.                                          *)
LEMMA StringCell ==
  ASSUME Unread(rest), NEW h, Run(h), NEW i \in Nat, i + 1 <= Len(rest), h[0] \in States, Live(h[0]),
         h[i].conds = h[0].conds /\ h[i].syms = h[0].syms /\ h[i].bad = h[0].bad,
         h[i].out = h[0].out \o SubSeq(rest, 1, i),
         NEW m \in Modes, h[i + 1] = Mode(Collect(h[i], rest[i + 1]), m)
  PROVE  /\ h[i + 1] \in States /\ h[i + 1].conds = h[0].conds /\ h[i + 1].syms = h[0].syms /\ h[i + 1].bad = h[0].bad
         /\ h[i + 1].out = h[0].out \o SubSeq(rest, 1, i + 1) /\ h[i + 1].mode = m
<1>1. rest \in Seq(Cell) /\ Len(rest) \in Nat /\ i + 1 \in 1..Len(rest) /\ (i + 1) - 1 = i
  BY DEF Unread
<1>2. h[i] \in States /\ rest[i + 1] \in Cell
  BY <1>1, RunStep
<1>3. PICK st \in States, c \in Cell : st = h[i] /\ c = rest[i + 1]
  BY <1>2
<1>4. Live(st)
  BY <1>3 DEF Live
<1>5. PICK x : x = Collect(st, c)
  OBVIOUS
<1>6. /\ x \in States /\ x.conds = st.conds /\ x.syms = st.syms /\ x.bad = st.bad
      /\ x.out = Append(st.out, c)
  BY ONLY <1>4, <1>5, CollectIs, st \in States, c \in Cell
<1>7. Mode(x, m) \in States /\ Mode(x, m).mode = m /\ Same(Mode(x, m), x)
  BY ONLY <1>6, ModeSame, m \in Modes
<1>8. h[0].out \in Seq(Cell)
  BY StateParts
<1>9. Append(h[0].out \o SubSeq(rest, 1, i), rest[i + 1]) = h[0].out \o SubSeq(rest, 1, i + 1)
  BY <1>1, <1>8, OneMore
<1>10. h[i + 1] = Mode(x, m)
  BY <1>3, <1>5
<1>11. QED
  BY ONLY <1>3, <1>6, <1>7, <1>9, <1>10, h[i].conds = h[0].conds /\ h[i].syms = h[0].syms /\ h[i].bad = h[0].bad,
          h[i].out = h[0].out \o SubSeq(rest, 1, i) DEF Same

(* One cell on in a string.                                                 *)
LEMMA StringStep ==
  ASSUME Unread(rest), NEW h, Run(h), NEW i \in Nat \ {0}, i + 1 <= Len(rest), h[0] \in States, Live(h[0]),
         rest[1].s = "'", InString(h, i), i = 1 \/ ~EndsString(rest, 1, i)
  PROVE  InString(h, i + 1)
<1>1. rest \in Seq(Cell) /\ Len(rest) \in Nat /\ i + 1 \in 1..Len(rest) /\ (i + 1) - 1 = i /\ i \in 0..Len(rest)
  BY DEF Unread
<1>2. PICK q \in Nat : q = QuotesTo(rest, 1, i)
  BY QuotesStep
<1>3. QuotesTo(rest, 1, i + 1) = q + (IF QuoteAt(rest, 1, i + 1) THEN 1 ELSE 0) /\ (i = 1 => q = 0)
  BY <1>2, QuotesStep
<1>4. QuoteAt(rest, 1, i + 1) <=> rest[i + 1].s = "'"
  BY DEF QuoteAt
<1>5. h[i + 1] = MeaningStep(h[i], rest[i + 1]) /\ h[i] \in States
  BY <1>1, RunStep
<1>6. (q % 2 = 0 \/ q % 2 = 1) /\ ((q + 1) % 2 = 1 <=> q % 2 = 0) /\ ((q + 1) % 2 = 0 <=> q % 2 = 1) /\ q + 0 = q
      /\ ~(q % 2 = 0 /\ q % 2 = 1)
  BY ONLY q \in Nat
<1>7. /\ h[i].conds = h[0].conds /\ h[i].syms = h[0].syms /\ h[i].bad = h[0].bad
      /\ h[i].out = h[0].out \o SubSeq(rest, 1, i)
      /\ q % 2 = 0 => h[i].mode = "string"
      /\ q % 2 = 1 => h[i].mode = "code" /\ QuoteAt(rest, 1, i)
  BY <1>2 DEF InString
<1>8. "code" \in Modes /\ "string" \in Modes
  BY DEF Modes
<1>9. ASSUME NEW m \in Modes, h[i + 1] = Mode(Collect(h[i], rest[i + 1]), m)
      PROVE  /\ h[i + 1] \in States /\ h[i + 1].conds = h[0].conds /\ h[i + 1].syms = h[0].syms /\ h[i + 1].bad = h[0].bad
             /\ h[i + 1].out = h[0].out \o SubSeq(rest, 1, i + 1) /\ h[i + 1].mode = m
  BY <1>7, <1>9, StringCell
<1>10. CASE q % 2 = 0
  <2>1. h[i].mode = "string"
    BY <1>7, <1>10
  <2>2. h[i + 1] = Mode(Collect(h[i], rest[i + 1]), IF rest[i + 1].s = "'" THEN "code" ELSE "string")
    BY <1>5, <2>1, StepIs
  <2>3. CASE rest[i + 1].s = "'"
    <3>1. h[i + 1] = Mode(Collect(h[i], rest[i + 1]), "code")
      BY ONLY <2>2, <2>3
    <3>2. QuoteAt(rest, 1, i + 1) /\ QuotesTo(rest, 1, i + 1) % 2 = 1 /\ ~(QuotesTo(rest, 1, i + 1) % 2 = 0)
      BY ONLY <1>3, <1>4, <1>6, <1>10, <2>3, q \in Nat
    <3>3. QED
      BY ONLY <1>8, <1>9, <3>1, <3>2 DEF InString
  <2>4. CASE rest[i + 1].s # "'"
    <3>1. h[i + 1] = Mode(Collect(h[i], rest[i + 1]), "string")
      BY ONLY <2>2, <2>4
    <3>2. QuotesTo(rest, 1, i + 1) % 2 = 0 /\ ~(QuotesTo(rest, 1, i + 1) % 2 = 1)
      BY ONLY <1>3, <1>4, <1>6, <1>10, <2>4, q \in Nat
    <3>3. QED
      BY ONLY <1>8, <1>9, <3>1, <3>2 DEF InString
  <2>5. QED
    BY <2>3, <2>4
<1>11. CASE q % 2 = 1
  <2>1. h[i].mode = "code" /\ QuoteAt(rest, 1, i)
    BY <1>7, <1>11
  <2>2. i # 1
    BY <1>3, <1>6, <1>11
  <2>3. rest[i + 1].s = "'"
    BY <1>2, <1>4, <1>11, <2>1, <2>2 DEF EndsString
  <2>4. h[i + 1] = Mode(Collect(h[i], rest[i + 1]), "string")
    BY <1>5, <2>1, <2>3, StepIs, CodeIs
  <2>5. QuotesTo(rest, 1, i + 1) % 2 = 0 /\ ~(QuotesTo(rest, 1, i + 1) % 2 = 1)
    BY ONLY <1>3, <1>4, <1>6, <1>11, <2>3, q \in Nat
  <2>6. QED
    BY ONLY <1>8, <1>9, <2>4, <2>5 DEF InString
<1>12. QED
  BY <1>6, <1>10, <1>11

(* A string, as far as it has not ended.                                    *)
LEMMA StringRun ==
  ASSUME Unread(rest), rest # <<>>, NEW h, Run(h), h[0].mode = "code", Live(h[0]), rest[1].s = "'",
         NEW e, e = StringEnd(rest, 1)
  PROVE  /\ e \in 2..Len(rest) + 1
         /\ e <= Len(rest) => InString(h, e) /\ h[e].mode = "code"
         /\ e > Len(rest) => h[Len(rest)].mode = "string"
<1>0. Len(rest) \in Nat \ {0} /\ rest \in Seq(Cell) /\ h[0] \in States /\ "string" \in Modes /\ 1 \in 1..Len(rest)
  BY DEF Unread, Run, Modes
<1>1. PICK n \in Nat \ {0} : n = Len(rest)
  BY <1>0
<1>2. /\ e \in 1 + 1..n + 1 /\ (e > n \/ EndsString(rest, 1, e))
      /\ \A j \in 1 + 1..e - 1 : ~EndsString(rest, 1, j)
  BY <1>1, StringEndFound
<1>3. InString(h, 1)
  <2>1. h[1] = Mode(Collect(h[0], rest[1]), "string")
    BY <1>0, RunStep, StepIs, CodeIs
  <2>2. h[0].out = h[0].out \o SubSeq(rest, 1, 0)
    <3>1. h[0].out \in Seq(Cell)
      BY <1>0, StateParts
    <3>2. SubSeq(rest, 1, 0) = <<>>
      BY <1>0
    <3>3. QED
      BY ONLY <3>1, <3>2, ConcatEmptySeq
  <2>3. 0 + 1 = 1 /\ 0 + 1 <= Len(rest) /\ 0 \in Nat
    BY <1>0
  <2>4. /\ h[1] \in States /\ h[1].conds = h[0].conds /\ h[1].syms = h[0].syms /\ h[1].bad = h[0].bad
        /\ h[1].out = h[0].out \o SubSeq(rest, 1, 1) /\ h[1].mode = "string"
    <3>1. PICK i \in Nat : i = 0 /\ i + 1 = 1 /\ i + 1 <= Len(rest)
      BY <2>3
    <3>2. /\ h[i].conds = h[0].conds /\ h[i].syms = h[0].syms /\ h[i].bad = h[0].bad
          /\ h[i].out = h[0].out \o SubSeq(rest, 1, i)
          /\ h[i + 1] = Mode(Collect(h[i], rest[i + 1]), "string")
      BY ONLY <2>1, <2>2, <3>1
    <3>3. /\ h[i + 1] \in States /\ h[i + 1].conds = h[0].conds /\ h[i + 1].syms = h[0].syms /\ h[i + 1].bad = h[0].bad
          /\ h[i + 1].out = h[0].out \o SubSeq(rest, 1, i + 1) /\ h[i + 1].mode = "string"
      BY <1>0, <3>1, <3>2, StringCell
    <3>4. QED
      BY ONLY <3>1, <3>3
  <2>5. QuotesTo(rest, 1, 1) = 0 /\ 0 % 2 = 0 /\ ~(0 % 2 = 1)
    BY QuotesStep
  <2>6. QED
    BY ONLY <2>4, <2>5 DEF InString
<1>4. PICK last \in 1..n : last = IF e > n THEN n ELSE e
  BY <1>1, <1>2
<1> DEFINE T == {i \in 0..last - 1 : InString(h, i + 1)}
<1>5. 0 \in T
  BY <1>3, <1>4
<1>6. ASSUME NEW i \in 0..(last - 1) - 1, i \in T PROVE i + 1 \in T
  <2>1. i + 1 \in Nat \ {0} /\ (i + 1) + 1 <= Len(rest) /\ i + 1 \in 0..last - 1 /\ i + 1 < e
    BY <1>1, <1>2, <1>4
  <2>2. i + 1 = 1 \/ ~EndsString(rest, 1, i + 1)
    BY <1>2, <2>1
  <2>3. InString(h, (i + 1) + 1)
    BY <1>0, <1>6, <2>1, <2>2, StringStep
  <2>4. QED
    BY <2>1, <2>3
<1> HIDE DEF T
<1>7. last - 1 \in T
  <2>1. last - 1 \in Nat /\ last - 1 \in 0..last - 1
    BY <1>4
  <2>2. 0..last - 1 \subseteq T
    BY ONLY <1>5, <1>6, <2>1, CountUp
  <2>3. QED
    BY <2>1, <2>2
<1>8. InString(h, last)
  <2>1. (last - 1) + 1 = last
    BY <1>4
  <2>2. QED
    BY <1>7, <2>1 DEF T
<1>9. CASE e > n
  <2>1. last = n /\ QuotesTo(rest, 1, n) \in Nat
    BY <1>1, <1>4, <1>9, QuotesStep
  <2>2. ~(QuotesTo(rest, 1, n) % 2 = 1)
    <3>1. CASE n = 1
      BY <3>1, QuotesStep
    <3>2. CASE n # 1
      <4>1. n \in 1 + 1..e - 1
        BY <1>2, <1>9, <3>2
      <4>2. ~QuoteAt(rest, 1, n + 1)
        BY <1>1 DEF QuoteAt
      <4>3. QuotesTo(rest, 1, n) % 2 = 1 => QuoteAt(rest, 1, n)
        BY <1>8, <2>1 DEF InString
      <4>4. QED
        BY <1>2, <4>1, <4>2, <4>3 DEF EndsString
    <3>3. QED
      BY <3>1, <3>2
  <2>3. QuotesTo(rest, 1, n) % 2 = 0
    BY <2>1, <2>2
  <2>4. h[n].mode = "string"
    BY <1>8, <2>1, <2>3 DEF InString
  <2>5. QED
    BY <1>1, <1>2, <1>9, <2>4
<1>10. CASE ~(e > n)
  <2>1. last = e /\ EndsString(rest, 1, e)
    BY <1>2, <1>4, <1>10
  <2>2. h[e].mode = "code"
    BY <1>8, <2>1 DEF InString, EndsString
  <2>3. QED
    BY <1>1, <1>2, <1>8, <1>10, <2>1, <2>2
<1>11. QED
  BY <1>9, <1>10

(* A string goes to the parser whole, or is refused.                        *)
LEMMA StringText ==
  ASSUME NEW h, Standing(h), StringToken
  PROVE  Moved(h) \/ Refused(h)
<1>0. status = "scanning" /\ rest # <<>> /\ Ch = "'"
  BY DEF StringToken, Reading
<1>1. /\ Unread(rest) /\ Run(h) /\ h[0].mode = "code" /\ rest[1].s = "'" /\ h[0] \in States /\ Live(h[0])
      /\ rest \in Seq(Cell) /\ Len(rest) \in Nat \ {0}
      /\ Fits(h[0], status, ifdefActive, skipDepth, definedSyms, tokens)
      /\ ifdefActive \in Seq(BOOLEAN) /\ skipDepth \in Nat
  BY <1>0, StandingParts
<1>2. PICK n, e : n \in Nat /\ n = Len(rest) /\ e = StringEnd(rest, 1) /\
                          IF e > Len(rest) THEN Error("unterminated-string") ELSE Deliver(e)
  BY <1>1 DEF StringToken
<1>3. /\ e \in 2..n + 1
      /\ e <= n => InString(h, e) /\ h[e].mode = "code"
      /\ e > n => h[n].mode = "string"
  BY <1>0, <1>1, <1>2, StringRun
<1>4. CASE e > n
  <2>1. Error("unterminated-string") /\ Faulty(h[n])
    BY <1>2, <1>3, <1>4 DEF Faulty
  <2>2. QED
    BY <1>2, <2>1, RefuseFaulty
<1>5. CASE ~(e > n)
  <2>1. Deliver(e) /\ e <= n /\ e \in 0..Len(rest) /\ InString(h, e) /\ h[e].mode = "code"
    BY <1>2, <1>3, <1>5
  <2>2. ReadCh(e) /\ tokens' = tokens \o Cells(e) /\ UNCHANGED <<definedSyms, ifdefActive, skipDepth, status>>
    BY <2>1 DEF Deliver
  <2>3. Cells(e) = SubSeq(rest, 1, e)
    <3>1. ASSUME NEW i \in 1..e PROVE ~IsMark(rest[i])
      <4>1. i \in 1..Len(rest)
        BY <1>2, <2>1
      <4>2. QED
        BY <1>1, <4>1, RunStep DEF IsMark
    <3>2. QED
      BY <1>1, <2>1, <3>1, CellsRead
  <2>4. /\ h[e].conds = h[0].conds /\ h[e].syms = h[0].syms /\ h[e].bad = h[0].bad
        /\ h[e].out = h[0].out \o SubSeq(rest, 1, e)
    BY <2>1 DEF InString
  <2>5. h[0].out = tokens
    BY <1>1 DEF Fits
  <2>6. Fits(h[e], status, ifdefActive, skipDepth, definedSyms, h[e].out)
    BY ONLY <1>1, <2>4 DEF Fits
  <2>7. Fits(h[e], status', ifdefActive', skipDepth', definedSyms', tokens')
    BY ONLY <2>2, <2>3, <2>4, <2>5, <2>6
  <2>8. status' = "scanning" /\ ifdefActive' \in Seq(BOOLEAN) /\ skipDepth' \in Nat
    BY <1>0, <1>1, <2>2
  <2>9. QED
    BY ONLY <1>1, <2>1, <2>2, <2>7, <2>8, MoveFits
<1>6. QED
  BY <1>4, <1>5

(* A text once odd stays so.                                                *)
LEMMA OddKept ==
  ASSUME Unread(rest), NEW h, Run(h), h[0].odd, NEW k \in 0..Len(rest)
  PROVE  h[k].odd
<1> DEFINE n == Len(rest)
           T == {i \in 0..n : h[i].odd}
<1>0. n \in Nat
  BY DEF Unread
<1>1. 0 \in T
  BY <1>0
<1>2. ASSUME NEW i \in 0..n - 1, i \in T PROVE i + 1 \in T
  <2>1. i + 1 \in 1..n /\ (i + 1) - 1 = i
    BY <1>0
  <2>2. h[i + 1] = MeaningStep(h[i], rest[i + 1]) /\ h[i] \in States /\ rest[i + 1] \in Cell
    BY <2>1, RunStep
  <2>3. h[i + 1].odd
    BY <1>2, <2>2, StepTyped
  <2>4. QED
    BY <2>1, <2>3
<1> HIDE DEF T
<1>3. 0..n \subseteq T
  BY ONLY <1>0, <1>1, <1>2, CountUp
<1>4. QED
  BY <1>3 DEF T

(* Of an odd text nothing is said but where the scanner stands.             *)
LEMMA OddText ==
  ASSUME Unread(rest), Unread(buffer), phase = "compile", UNCHANGED <<buffer, phase>>, NEW h, Placed(h),
         h[0].odd, Stands \/ Reads
  PROVE  TextInv'
<1>0. /\ Run(h) /\ Behind \in 0..Len(buffer) /\ Len(buffer) \in Nat /\ Len(rest) = Len(buffer) - Behind
      /\ rest = SubSeq(buffer, Behind + 1, Len(buffer)) /\ Len(rest) \in Nat
  BY DEF Placed, Unread
<1>1. \A k \in 0..Len(rest) : h[k] = Meanings(buffer)[Behind + k] /\ h[k].odd
  BY <1>0, OddKept DEF Placed
<1>2. Meaning(buffer').odd
  <2>1. Behind + Len(rest) = Len(buffer) /\ Len(rest) \in 0..Len(rest)
    BY <1>0
  <2>2. QED
    BY <1>1, <2>1 DEF Meaning
<1>3. /\ Behind' \in 0..Len(buffer') /\ rest' = SubSeq(buffer', Behind' + 1, Len(buffer'))
      /\ Meanings(buffer')[Behind'].odd
  <2>1. CASE Stands
    <3>1. Behind' = Behind /\ rest' = rest
      BY <2>1 DEF Stands, Behind
    <3>2. 0 \in 0..Len(rest) /\ Behind + 0 = Behind
      BY <1>0
    <3>3. Meanings(buffer)[Behind].odd
      BY <1>1, <3>2
    <3>4. QED
      BY <1>0, <3>1, <3>3
  <2>2. CASE Reads
    <3>1. PICK k \in 1..Len(rest) : ReadCh(k)
      BY <2>2 DEF Reads
    <3>2. k \in 0..Len(rest)
      BY <1>0
    <3>3. /\ Behind' \in 0..Len(buffer') /\ rest' = SubSeq(buffer', Behind' + 1, Len(buffer'))
          /\ Meanings(buffer')[Behind'] = h[k]
      BY <3>1, <3>2, ReadPlaced
    <3>4. QED
      BY <1>1, <3>2, <3>3
  <2>3. QED
    BY <2>1, <2>2
<1>4. ActiveText'
  BY ONLY <1>2 DEF ActiveText
<1>5. QED
  BY ONLY <1>3, <1>4, UNCHANGED <<buffer, phase>> DEF TextInv

(* Whatever is read in the text, the scanner moves or refuses as the pass   *)
(* over the cells does.                                                     *)
LEMMA ScanText ==
  ASSUME NEW h, Standing(h), ~optIncludes, ScanNext
  PROVE  Moved(h) \/ Refused(h)
<1>1. CASE Whitespace
  BY <1>1, WhitespaceText
<1>2. CASE BraceComment \/ ParenComment
  BY <1>2, CommentText
<1>3. CASE LineComment
  BY <1>3, LineCommentText
<1>4. CASE StringToken
  BY <1>4, StringText
<1>5. CASE Token
  BY <1>5, TokenText
<1>6. CASE OpenInclude
  BY <1>6, IncludeText
<1>7. CASE Define
  BY <1>7, DefineText
<1>8. CASE IfDef
  BY <1>8, IfDefText
<1>9. CASE Else
  BY <1>9, ElseText
<1>10. CASE EndIf
  BY <1>10, EndIfText
<1>11. CASE SkipText
  BY <1>11, SkipTextText
<1>12. CASE SkipNested
  BY <1>12, SkipNestedText
<1>13. CASE SkipEnds
  BY <1>13, SkipEndsText
<1>14. rest # <<>>
  BY DEF Standing
<1>15. ~EndOfSource /\ ~SkipUnterminated
  BY <1>14 DEF EndOfSource, SkipUnterminated
<1>16. QED
  BY ONLY <1>1, <1>2, <1>3, <1>4, <1>5, <1>6, <1>7, <1>8, <1>9, <1>10, <1>11, <1>12, <1>13, <1>15, ScanNext DEF ScanNext

(* A reader that has stopped does nothing.                                  *)
LEMMA StoppedStays == Stopped => ~ScanNext
<1> SUFFICES ASSUME status \notin {"scanning", "skipping"}, ScanNext PROVE FALSE
  BY DEF Stopped
<1>1. ~Reading /\ ~Skipping /\ status # "scanning" /\ status # "skipping"
  BY DEF Reading, Skipping
<1>2. ~(Whitespace \/ BraceComment \/ ParenComment \/ LineComment \/ StringToken \/ Token)
  BY <1>1 DEF Whitespace, BraceComment, ParenComment, LineComment, StringToken, Token
<1>3. ~(OpenInclude \/ Define \/ IfDef \/ Else \/ EndIf)
  BY <1>1 DEF OpenInclude, Define, IfDef, Else, EndIf
<1>4. ~(EndOfSource \/ SkipText \/ SkipNested \/ SkipEnds \/ SkipUnterminated)
  BY <1>1 DEF EndOfSource, SkipText, SkipNested, SkipEnds, SkipUnterminated
<1>5. QED
  BY ONLY <1>2, <1>3, <1>4, ScanNext DEF ScanNext

(* At the end of the text only the end can be met.                          *)
LEMMA EndSteps ==
  ASSUME rest = <<>>, ScanNext
  PROVE  EndOfSource \/ SkipUnterminated
<1>1. ~Reading /\ ~Skipping
  BY DEF Reading, Skipping
<1>2. ~(Whitespace \/ BraceComment \/ ParenComment \/ LineComment \/ StringToken \/ Token)
  BY <1>1 DEF Whitespace, BraceComment, ParenComment, LineComment, StringToken, Token
<1>3. ~(OpenInclude \/ Define \/ IfDef \/ Else \/ EndIf)
  BY <1>1 DEF OpenInclude, Define, IfDef, Else, EndIf
<1>4. ~(SkipText \/ SkipNested \/ SkipEnds)
  BY <1>1 DEF SkipText, SkipNested, SkipEnds
<1>5. QED
  BY ONLY <1>2, <1>3, <1>4, ScanNext DEF ScanNext

(* There it is met as the pass has found.                                   *)
LEMMA EndText ==
  ASSUME Unread(rest), Unread(buffer), phase = "compile", UNCHANGED <<buffer, phase>>, NEW h, Placed(h),
         rest = <<>>, AgreesAtEnd(h[0]), ScanNext
  PROVE  TextInv'
<1>0. /\ Behind = Len(buffer) /\ Len(rest) = 0 /\ Behind \in 0..Len(buffer)
      /\ rest = SubSeq(buffer, Behind + 1, Len(buffer)) /\ h[0] = Meaning(buffer)
  <2>1. Len(rest) = 0 /\ Len(buffer) \in Nat /\ Behind \in 0..Len(buffer) /\ Len(rest) = Len(buffer) - Behind
    BY DEF Placed
  <2>2. 0 \in 0..Len(rest) /\ Behind = Len(buffer) /\ Behind + 0 = Behind
    BY ONLY <2>1
  <2>3. h[0] = Meanings(buffer)[Behind]
    BY <2>2 DEF Placed
  <2>4. QED
    BY <2>1, <2>2, <2>3 DEF Placed, Meaning
<1>1. CASE EndOfSource
  <2>1. status = "scanning" /\ Error("end")
    BY <1>1 DEF EndOfSource
  <2>2. status' = "end" /\ rest' = rest /\ tokens' = tokens /\ Behind' = Behind
    BY <2>1 DEF Error, Behind
  <2>3. ~h[0].bad /\ h[0].out = tokens
    BY <2>1 DEF AgreesAtEnd
  <2>4. ActiveText'
    BY <1>0, <2>2, <2>3 DEF ActiveText
  <2>5. Stopped'
    BY <2>2 DEF Stopped
  <2>6. QED
    BY ONLY <1>0, <2>2, <2>4, <2>5, UNCHANGED <<buffer, phase>> DEF TextInv
<1>2. CASE SkipUnterminated
  <2>1. status = "skipping" /\ Error("unterminated-ifdef")
    BY <1>2 DEF SkipUnterminated
  <2>2. Faulty(h[Len(rest)])
    BY <1>0, <2>1 DEF AgreesAtEnd, Faulty
  <2>3. Refused(h)
    BY <2>1, <2>2, RefuseFaulty
  <2>4. QED
    BY <2>3, TextKept
<1>3. QED
  BY <1>1, <1>2, EndSteps

(* The text that is handed over is read from its first cell.                *)
LEMMA HandOverText ==
  ASSUME FramesSafe, HandOver
  PROVE  TextInv'
<1>1. CASE outcome # "done"
  <2>1. phase' = "direct"
    BY <1>1 DEF HandOver
  <2>2. QED
    BY <2>1 DEF TextInv
<1>2. CASE outcome = "done"
  <2>1. Read(buffer, FALSE) /\ buffer' = buffer
    BY <1>2 DEF HandOver, expandVars
  <2>2. /\ rest' = buffer /\ definedSyms' = {} /\ ifdefActive' = <<>> /\ skipDepth' = 0
        /\ tokens' = <<>> /\ status' = "scanning"
    BY <2>1 DEF Read
  <2>3. buffer \in Seq(Cell) /\ Len(buffer) \in Nat
    BY DEF FramesSafe, Unread
  <2>4. Behind' = 0 /\ 0 \in 0..Len(buffer')
    BY <2>1, <2>2, <2>3 DEF Behind
  <2>5. rest' = SubSeq(buffer', 0 + 1, Len(buffer'))
    BY <2>1, <2>2, <2>3
  <2>6. Meanings(buffer')[0] = Blank
    BY <2>1, <2>3, MeaningsSteps
  <2>7. AgreesAtEnd(Blank)'
    BY <2>2, BlankState DEF AgreesAtEnd
  <2>8. Agrees(Blank)'
    <3>1. Len(<<>>) = 0 /\ 1..0 = {}
      OBVIOUS
    <3>2. QED
      BY ONLY <2>2, <3>1, BlankState DEF Agrees
  <2>9. ActiveText'
    BY <2>2 DEF ActiveText, Stopped
  <2>10. QED
    BY ONLY <2>4, <2>5, <2>6, <2>7, <2>8, <2>9 DEF TextInv
<1>3. QED
  BY <1>1, <1>2

(* Every step keeps what the invariant says of the text.                    *)
LEMMA NextText ==
  ASSUME TypeInv, TextInv, [Next]_vars
  PROVE  TextInv'
<1>0. FramesSafe /\ Unread(buffer) /\ KnownSafe /\ (phase = "compile" => ~optIncludes)
  <2>1. FramesSafe /\ KnownSafe /\ (phase \in {"compile", "direct"} => optIncludes = (phase = "direct"))
    BY TypeParts
  <2>2. QED
    BY <2>1 DEF FramesSafe
<1>1. CASE Expand
  <2>1. phase' # "compile"
    BY <1>1 DEF Expand
  <2>2. QED
    BY <2>1 DEF TextInv
<1>2. CASE HandOver
  BY <1>0, <1>2, HandOverText
<1>3. CASE Scan
  <2>1. CASE phase = "direct"
    <3>1. phase' # "compile"
      BY <1>3, <2>1 DEF Scan
    <3>2. QED
      BY <3>1 DEF TextInv
  <2>2. CASE phase = "compile"
    <3>1. UNCHANGED <<buffer, phase>> /\ ScanNext /\ ~optIncludes
      BY <1>0, <1>3, <2>2 DEF Scan, expandVars
    <3>2. PICK h : Unread(rest) /\ Placed(h)
      BY <1>0, <2>2, RunAhead
    <3>3. Run(h) /\ h[0] = Meanings(buffer)[Behind]
      <4>1. 0 \in 0..Len(rest) /\ Behind + 0 = Behind
        BY <3>2 DEF Placed
      <4>2. QED
        BY <3>2, <4>1 DEF Placed
    <3>4. ~Stopped
      BY <3>1, StoppedStays
    <3>5. h[0].odd \/ IF rest = <<>> THEN AgreesAtEnd(h[0]) ELSE Agrees(h[0])
      BY <2>2, <3>3, <3>4 DEF TextInv
    <3>6. CASE h[0].odd
      <4>1. ~Opened
        BY <3>1 DEF Opened
      <4>2. Stands \/ Reads
        BY <3>1, <4>1, ScanMoves
      <4>3. QED
        BY <1>0, <2>2, <3>1, <3>2, <3>6, <4>2, OddText
    <3>7. CASE rest = <<>> /\ AgreesAtEnd(h[0])
      BY <1>0, <2>2, <3>1, <3>2, <3>7, EndText
    <3>8. CASE rest # <<>> /\ Agrees(h[0])
      <4>1. Standing(h)
        BY <1>0, <3>2, <3>3, <3>8 DEF Standing
      <4>2. Moved(h) \/ Refused(h)
        BY <3>1, <4>1, ScanText
      <4>3. QED
        BY <1>0, <2>2, <3>1, <3>2, <4>2, TextKept
    <3>9. QED
      BY <3>5, <3>6, <3>7, <3>8
  <2>3. QED
    BY <1>3, <2>1, <2>2 DEF Scan
<1>4. CASE Again \/ Finish
  <2>1. phase' # "compile"
    BY <1>4 DEF Again, Finish
  <2>2. QED
    BY <2>1 DEF TextInv
<1>5. CASE UNCHANGED vars
  <2>1. UNCHANGED <<phase, buffer, rest, definedSyms, ifdefActive, skipDepth, tokens, status>>
    BY <1>5 DEF vars, expandVars, scanVars
  <2>2. Behind' = Behind /\ (Stopped' <=> Stopped) /\ Ch' = Ch
    BY <2>1 DEF Behind, Stopped, Ch
  <2>3. \A m : (AgreesAtEnd(m)' <=> AgreesAtEnd(m)) /\ (Agrees(m)' <=> Agrees(m))
    BY <2>1, <2>2 DEF AgreesAtEnd, Agrees
  <2>4. ActiveText' <=> ActiveText
    BY <2>1, <2>2 DEF ActiveText
  <2>5. QED
    BY ONLY <2>1, <2>2, <2>3, <2>4, TextInv DEF TextInv
<1>6. QED
  BY <1>1, <1>2, <1>3, <1>4, <1>5 DEF Next

-----------------------------------------------------------------------------
(* Whatever the files, their names and the limits, both readers stay within *)
(* their texts and their limits and the compiler's line is true.            *)
THEOREM IncludeStays == Spec => [](TypeInv /\ LinesInv)
<1>1. Init => TypeInv /\ LinesInv
  BY InitTypes DEF LinesInv, Init
<1>2. TypeInv /\ LinesInv /\ [Next]_vars => TypeInv' /\ LinesInv'
  BY NextTypes
<1>3. QED
  BY <1>1, <1>2, PTL DEF Spec

(* Positions lie in their texts, includes and conditionals within their     *)
(* limits, and the character the compiler stands on is never an ended file. *)
THEOREM IncludeTypeCorrect == Spec => []TypeOK
<1>1. TypeInv => TypeOK
  BY DEF TypeInv
<1>2. QED
  BY <1>1, IncludeStays, PTL

(* With -I the line reported is that of the character read, for all trees   *)
(* of files: however includes nest, and whatever conditionals leave out.    *)
THEOREM PositionsKept == Spec => []PositionsTrue
<1>1. ASSUME TypeInv, LinesInv PROVE PositionsTrue
  <2> SUFFICES ASSUME phase = "direct", rest # <<>>
               PROVE  srcLine = Head(rest).l + (IF Ch = "nl" THEN 1 ELSE 0)
    BY DEF PositionsTrue
  <2>1. srcLine = ReadCell(Head(rest).l, Head(rest)) /\ ~IsMark(Head(rest))
    BY <1>1 DEF LinesInv, TypeInv, TypeOK
  <2>2. Head(rest) \in Cell
    BY <1>1 DEF TypeInv, ScanSafe
  <2>3. QED
    BY <2>1, <2>2 DEF ReadCell, Ch, Cell
<1>2. QED
  BY <1>1, IncludeStays, PTL

(* For every tree of files the invariant holds: without -I the scanner      *)
(* knows, wherever it stands, what the pass over the cells has found there. *)
THEOREM IncludeInvariant == Spec => []IInv
<1>1. Init => TypeInv /\ LinesInv /\ TextInv
  BY InitTypes DEF LinesInv, TextInv, Init
<1>2. TypeInv /\ LinesInv /\ TextInv /\ [Next]_vars => TypeInv' /\ LinesInv' /\ TextInv'
  BY NextTypes, NextText
<1>3. QED
  BY <1>1, <1>2, PTL DEF Spec, IInv

(* Of what the host hands over the parser is given what the conditionals    *)
(* select, for all texts: however they nest, and whatever stands between.   *)
THEOREM ActiveTextSelected == Spec => []ActiveText
<1>1. IInv => ActiveText
  BY DEF IInv, TextInv, ActiveText
<1>2. QED
  BY <1>1, IncludeInvariant, PTL
=============================================================================
