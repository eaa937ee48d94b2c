---------------------------- MODULE TailerProofs ----------------------------
(***************************************************************************)
(* Proofs about EveTailer and IngestionStatus for any number of lines,     *)
(* files and failures.  The read loop is a recursive function; what it     *)
(* returns is proved by induction on the cells it has passed.              *)
(***************************************************************************)
EXTENDS Tailer, TLAPS, WellFoundedInduction

Cell == [line : Nat, part : {"head", "tail"}, kind : Kinds]

\* What is written is in order: a line number comes back only as the tail of its head.
Precedes(c, d) ==
    c.line < d.line \/ (c.line = d.line /\ c.part = "head" /\ d.part = "tail")

CellsInv ==
    /\ written \in Nat
    /\ cells \in Seq(Cell)
    /\ \A i \in 1 .. Len(cells) : cells[i].line <= written
    /\ \A i, j \in 1 .. Len(cells) : i < j => Precedes(cells[i], cells[j])
    /\ inode = NoFile => cells = <<>>

\* Where the next poll starts to read.
NextStart == IF inode # knownInode \/ Len(cells) < position THEN 0 ELSE position

\* Line n is newer than everything that was emitted.
Newer(n) == \A i \in 1 .. Len(emitted) : emitted[i] < n

\* What the next poll will find is newer than everything that was emitted, and so is a
\* line whose tail is still to come.
UnreadInv ==
    /\ \A i \in 1 .. Len(cells) : i > NextStart => Newer(cells[i].line)
    /\ HalfOpen => Newer(cells[Len(cells)].line)

\* None of what makes the tailer repeat lines has happened.
Calm == disturbed \cap Repeating = {}

\* A read is then of the file that stat() saw, or of none.
PollInv ==
    /\ tpc \in {"stat", "read", "dead"}
    /\ position \in Nat
    /\ Calm /\ tpc = "read" => inode \in {knownInode, NoFile}

EmittedInv ==
    /\ emitted \in Seq(Nat)
    /\ Calm =>
         /\ \A i, j \in 1 .. Len(emitted) : i < j => emitted[i] < emitted[j]
         /\ \A i \in 1 .. Len(emitted) : emitted[i] <= written
         /\ tpc # "dead" => UnreadInv

\* The counter stops at the threshold, where the status is red.
StatusInv ==
    /\ failures \in 0 .. RedThreshold
    /\ color \in {"green", "red"}
    /\ color = "red" <=> failures = RedThreshold

\* The inductive invariant.
TailerInv == CellsInv /\ PollInv /\ EmittedInv /\ StatusInv

-----------------------------------------------------------------------------
\* Induction over the naturals, for a set in place of a predicate.
LEMMA Least ==
    ASSUME NEW T \in SUBSET Nat, T # {}
    PROVE  \E x \in T : \A y \in T : x <= y
<1>1. PICK x \in T : \A y \in T : ~(<<y, x>> \in OpToRel(<, Nat))
  BY WFMin, NatLessThanWellFounded
<1>2. ASSUME NEW y \in T, y < x
      PROVE  FALSE
  <2>1. <<y, x>> \in OpToRel(<, Nat)
    BY <1>2 DEF OpToRel
  <2>2. QED
    BY <1>1, <2>1
<1>3. QED
  BY <1>2

LEMMA SetInduction ==
    ASSUME NEW T, 0 \in T, \A n \in Nat : n \in T => n + 1 \in T
    PROVE  Nat \subseteq T
<1>1. SUFFICES ASSUME Nat \ T # {} PROVE FALSE
  OBVIOUS
<1>2. PICK x \in Nat \ T : \A y \in Nat \ T : x <= y
  BY <1>1, Least
<1>3. x # 0 /\ x - 1 \in Nat /\ x = (x - 1) + 1
  BY <1>2
<1>4. x - 1 \in T
  BY <1>2, <1>3
<1>5. QED
  BY <1>2, <1>3, <1>4

-----------------------------------------------------------------------------
\* f is what the loop over the lines has put on the queue by each of the first n cells.
IsRead(f, n) ==
    f = [i \in 0 .. n |-> IF i = 0 THEN <<>>
                          ELSE IF i \in LineEnds /\ cells[i].kind = "event"
                               THEN Append(f[i - 1], cells[i].line)
                               ELSE f[i - 1]]

\* EventsRead is that function.
LEMMA EventsReadDef ==
    ASSUME Len(cells) \in Nat
    PROVE  IsRead(EventsRead, Len(cells))
<1> DEFINE T == {n \in Nat : \E f : IsRead(f, n)}
           More(s, i) == IF i \in LineEnds /\ cells[i].kind = "event"
                         THEN Append(s, cells[i].line) ELSE s
<1>1. 0 \in T
  <2>1. IsRead([i \in 0 .. 0 |-> <<>>], 0)
    BY DEF IsRead
  <2>2. QED
    BY <2>1
<1>2. ASSUME NEW n \in Nat, n \in T
      PROVE  n + 1 \in T
  <2>1. PICK f : IsRead(f, n)
    BY <1>2
  <2> DEFINE g == [i \in 0 .. n + 1 |-> IF i = n + 1 THEN More(f[n], n + 1) ELSE f[i]]
  <2>2. \A i \in 0 .. n : f[i] = IF i = 0 THEN <<>> ELSE More(f[i - 1], i)
    BY <2>1 DEF IsRead
  <2> HIDE DEF More
  <2>3. ASSUME NEW i \in 0 .. n + 1
        PROVE  g[i] = IF i = 0 THEN <<>> ELSE More(g[i - 1], i)
    <3>1. CASE i = n + 1
      <4>1. g[i] = More(f[n], i) /\ i # 0 /\ i - 1 = n /\ g[n] = f[n]
        BY <3>1
      <4>2. QED
        BY <4>1
    <3>2. CASE i \in 0 .. n
      <4>1. g[i] = f[i] /\ (i # 0 => i - 1 \in 0 .. n /\ g[i - 1] = f[i - 1])
        BY <3>2
      <4>2. QED
        BY <2>2, <3>2, <4>1
    <3>3. QED
      BY <3>1, <3>2
  <2>4. IsRead(g, n + 1)
    BY <2>3 DEF IsRead, More
  <2>5. QED
    BY <2>4
<1>3. Len(cells) \in T
  <2> HIDE DEF T
  <2>1. QED
    BY <1>1, <1>2, SetInduction
<1>4. \E f : f = [i \in 0 .. Len(cells) |->
                    IF i = 0 THEN <<>>
                    ELSE IF i \in LineEnds /\ cells[i].kind = "event"
                         THEN Append(f[i - 1], cells[i].line)
                         ELSE f[i - 1]]
  BY <1>3 DEF IsRead
<1>5. QED
  BY <1>4 DEF EventsRead, IsRead

\* s has the lines of cells up to k that end a line, in order.
InOrderTo(s, k) ==
    /\ s \in Seq(Nat)
    /\ \A x, y \in 1 .. Len(s) : x < y => s[x] < s[y]
    /\ \A x \in 1 .. Len(s) : \E i \in LineEnds : i <= k /\ s[x] = cells[i].line

\* The loop over the lines keeps their order, wherever it is left.
LEMMA ReadInOrder ==
    ASSUME CellsInv, PollInv, NEW k \in 0 .. Len(cells)
    PROVE  InOrderTo(EventsRead[k], k)
<1> DEFINE f == EventsRead
           T == {n \in Nat : n <= Len(cells) => InOrderTo(f[n], n)}
<1>1. Len(cells) \in Nat /\ IsRead(f, Len(cells))
  BY EventsReadDef DEF CellsInv
<1>2. 0 \in T
  <2>1. f[0] = <<>>
    BY <1>1 DEF IsRead
  <2>2. <<>> \in Seq(Nat) /\ Len(<<>>) = 0
    OBVIOUS
  <2>3. InOrderTo(f[0], 0)
    BY <2>1, <2>2 DEF InOrderTo
  <2>4. QED
    BY <2>3
<1>3. ASSUME NEW n \in Nat, n \in T
      PROVE  n + 1 \in T
  <2> DEFINE m == n + 1
             s == f[n]
  <2>1. SUFFICES ASSUME m <= Len(cells) PROVE InOrderTo(f[m], m)
    OBVIOUS
  <2>2. InOrderTo(s, n) /\ m \in 1 .. Len(cells)
    BY <1>3, <2>1
  <2>3. f[m] = IF m \in LineEnds /\ cells[m].kind = "event"
               THEN Append(s, cells[m].line) ELSE s
    <3>1. m \in 0 .. Len(cells) /\ m # 0 /\ m - 1 = n
      BY <2>1
    <3>2. QED
      BY <1>1, <3>1 DEF IsRead
  <2> HIDE DEF f, s
  <2>4. CASE f[m] = s
    <3>1. \A i : i \in LineEnds /\ i <= n => i <= m
      BY <1>1, <2>2 DEF LineEnds, PollInv
    <3>2. QED
      BY <2>2, <2>4, <3>1 DEF InOrderTo
  <2>5. CASE m \in LineEnds /\ f[m] = Append(s, cells[m].line)
    <3> DEFINE c == cells[m].line
               t == Append(s, c)
               last == Len(s) + 1
    <3>1. c \in Nat /\ cells[m].part = "tail"
      <4>1. cells[m] \in Cell
        BY <2>2 DEF CellsInv
      <4>2. cells[m].part = "tail"
        BY <2>5 DEF LineEnds
      <4>3. QED
        BY <4>1, <4>2 DEF Cell
    <3>2. /\ s \in Seq(Nat) /\ t \in Seq(Nat) /\ Len(s) \in Nat /\ Len(t) = last
          /\ \A x \in 1 .. Len(s) : t[x] = s[x]
          /\ t[last] = c
          /\ \A x \in 1 .. last : x \in 1 .. Len(s) \/ x = last
      <4>1. s \in Seq(Nat)
        BY <2>2 DEF InOrderTo
      <4> HIDE DEF c
      <4>2. Len(s) \in Nat /\ t \in Seq(Nat) /\ Len(t) = last
        BY <3>1, <4>1
      <4>3. t[last] = c /\ \A x \in 1 .. Len(s) : t[x] = s[x]
        BY <3>1, <4>1
      <4>4. \A x \in 1 .. last : x \in 1 .. Len(s) \/ x = last
        BY <4>2
      <4>5. QED
        BY <4>1, <4>2, <4>3, <4>4
    <3>3. ASSUME NEW x \in 1 .. Len(s)
          PROVE  s[x] < c
      <4>1. PICK i \in LineEnds : i <= n /\ s[x] = cells[i].line
        BY <2>2 DEF InOrderTo
      <4>2. i \in 1 .. Len(cells) /\ cells[i].part = "tail" /\ i < m
        BY <1>1, <4>1 DEF LineEnds, PollInv
      <4>3. QED
        BY <2>2, <3>1, <4>1, <4>2 DEF CellsInv, Precedes
    <3>4. \A x, y \in 1 .. last : x < y => t[x] < t[y]
      BY <2>2, <3>2, <3>3 DEF InOrderTo
    <3>5. ASSUME NEW x \in 1 .. last
          PROVE  \E i \in LineEnds : i <= m /\ t[x] = cells[i].line
      <4>1. CASE x = last
        BY <2>5, <3>2, <4>1
      <4>2. CASE x \in 1 .. Len(s)
        <5>1. PICK i \in LineEnds : i <= n /\ s[x] = cells[i].line
          BY <2>2, <4>2 DEF InOrderTo
        <5>2. i <= m
          BY <1>1, <5>1 DEF LineEnds, PollInv
        <5>3. QED
          BY <3>2, <4>2, <5>1, <5>2
      <4>3. QED
        BY <3>2, <4>1, <4>2
    <3>6. QED
      <4> HIDE DEF t
      <4>1. InOrderTo(t, m)
        BY <3>2, <3>4, <3>5 DEF InOrderTo
      <4>2. QED
        BY <2>5, <4>1 DEF t
  <2>6. QED
    BY <2>3, <2>4, <2>5
<1>4. k \in T
  <2>1. k \in Nat
    BY <1>1
  <2> HIDE DEF T
  <2>2. QED
    BY <1>2, <1>3, <2>1, SetInduction
<1>5. QED
  BY <1>1, <1>4

-----------------------------------------------------------------------------
\* Nothing has been repeated, and the tailer may read on.
Orderly == Calm /\ tpc # "dead"

\* Whatever the writer appends to a file is new.
LEMMA Grown ==
    ASSUME TailerInv, inode # NoFile, written' \in Nat, written <= written',
           UNCHANGED <<inode, tpc, position, knownInode, emitted>>,
           Calm' => Calm,
           cells' \in Seq(Cell), Len(cells') > Len(cells),
           \A i \in 1 .. Len(cells) : cells'[i] = cells[i],
           \A i \in 1 .. Len(cells') : i > Len(cells) =>
               /\ cells'[i].line <= written'
               /\ Orderly => Newer(cells'[i].line)
               /\ \A j \in 1 .. i - 1 : Precedes(cells'[j], cells'[i])
    PROVE  CellsInv' /\ PollInv' /\ EmittedInv'
<1> DEFINE L == Len(cells)
           M == Len(cells')
<1>1. /\ L \in Nat /\ M \in Nat /\ written \in Nat
      /\ \A i \in 1 .. M : i \in 1 .. L \/ i > L
      /\ \A i \in 1 .. L : i \in 1 .. M
  BY DEF TailerInv, CellsInv
<1>2. ASSUME NEW i \in 1 .. L
      PROVE  cells[i] \in Cell /\ cells[i].line \in Nat /\ cells[i].line <= written
  <2>1. cells[i] \in Cell
    BY DEF TailerInv, CellsInv
  <2>2. QED
    BY <2>1 DEF TailerInv, CellsInv, Cell
<1>3. CellsInv'
  <2>1. \A i \in 1 .. M : cells'[i].line <= written'
    BY <1>1, <1>2
  <2>2. ASSUME NEW i \in 1 .. M, NEW j \in 1 .. M, i < j
        PROVE  Precedes(cells'[i], cells'[j])
    <3>1. CASE j > L
      <4>1. i \in 1 .. j - 1
        BY <1>1, <2>2
      <4>2. QED
        BY <3>1, <4>1
    <3>2. CASE j \in 1 .. L
      <4>1. i \in 1 .. L
        BY <1>1, <2>2, <3>2
      <4>2. QED
        BY <2>2, <3>2, <4>1 DEF TailerInv, CellsInv
    <3>3. QED
      BY <1>1, <3>1, <3>2
  <2>3. QED
    BY <2>1, <2>2 DEF CellsInv, Precedes
<1>4. PollInv'
  BY DEF TailerInv, PollInv
<1>5. ASSUME Orderly
      PROVE  UnreadInv'
  <2>1. \A n : Newer(n)' <=> \A i \in 1 .. Len(emitted) : emitted[i] < n
    BY DEF Newer
  <2>2. ASSUME NEW i \in 1 .. M, i > NextStart'
        PROVE  \A x \in 1 .. Len(emitted) : emitted[x] < cells'[i].line
    <3>1. CASE i > L
      BY <1>5, <3>1 DEF Newer
    <3>2. CASE i \in 1 .. L
      <4>1. i > NextStart
        BY <1>1, <2>2, <3>2 DEF NextStart, TailerInv, PollInv
      <4>2. QED
        BY <1>5, <3>2, <4>1 DEF Orderly, TailerInv, EmittedInv, UnreadInv, Newer
    <3>3. QED
      BY <1>1, <3>1, <3>2
  <2>3. \A x \in 1 .. Len(emitted) : emitted[x] < cells'[M].line
    <3>1. M \in 1 .. M /\ M > L
      BY <1>1
    <3>2. QED
      BY <1>5, <3>1 DEF Newer
  <2>4. QED
    BY <2>2, <2>3 DEF UnreadInv, Newer
<1>6. EmittedInv'
  <2>1. Calm => \A i \in 1 .. Len(emitted) : emitted[i] <= written'
    <3>1. ASSUME Calm, NEW i \in 1 .. Len(emitted)
          PROVE  emitted[i] <= written'
      <4>1. emitted[i] \in Nat /\ emitted[i] <= written
        BY <3>1 DEF TailerInv, EmittedInv
      <4>2. QED
        BY <1>1, <4>1
    <3>2. QED
      BY <3>1
  <2>2. QED
    BY <1>5, <2>1 DEF TailerInv, EmittedInv, Orderly
<1>7. QED
  BY <1>3, <1>4, <1>6

\* A step that empties the file, or leaves it and what was read of it alone.
LEMMA Emptied ==
    ASSUME TailerInv, cells' = <<>>, written' = written, UNCHANGED <<tpc, position, emitted>>,
           Calm' => Calm,
           Calm' /\ tpc = "read" => inode' \in {knownInode', NoFile}
    PROVE  CellsInv' /\ PollInv' /\ EmittedInv'
<1>1. Len(<<>>) = 0 /\ <<>> \in Seq(Cell)
  OBVIOUS
<1>2. CellsInv'
  BY <1>1 DEF TailerInv, CellsInv
<1>3. PollInv'
  BY DEF TailerInv, PollInv
<1>4. UnreadInv'
  BY <1>1 DEF UnreadInv, HalfOpen
<1>5. QED
  BY <1>2, <1>3, <1>4 DEF TailerInv, EmittedInv

\* What the environment does to the file.
LEMMA EnvironmentKeeps ==
    ASSUME TailerInv, Environment
    PROVE  TailerInv'
<1> DEFINE L == Len(cells)
<1>1. StatusInv' /\ UNCHANGED <<tpc, position, knownInode, emitted>>
  BY DEF TailerInv, StatusInv, Environment, statusVars
<1>2. /\ L \in Nat /\ written \in Nat /\ cells \in Seq(Cell)
      /\ \A i \in 1 .. L : /\ cells[i] \in Cell /\ cells[i].line \in Nat
                           /\ cells[i].line <= written
  <2>1. L \in Nat /\ written \in Nat /\ cells \in Seq(Cell)
    BY DEF TailerInv, CellsInv
  <2>2. \A i \in 1 .. L : cells[i] \in Cell
    BY <2>1
  <2>3. QED
    BY <2>1, <2>2 DEF Cell, TailerInv, CellsInv
<1>3. ASSUME Orderly, NEW n \in Nat, n > written
      PROVE  Newer(n)
  <2>1. ASSUME NEW i \in 1 .. Len(emitted)
        PROVE  emitted[i] < n
    <3>1. emitted[i] \in Nat /\ emitted[i] <= written
      BY <1>3 DEF TailerInv, EmittedInv, Orderly
    <3>2. QED
      BY <1>2, <1>3, <3>1
  <2>2. QED
    BY <2>1 DEF Newer
<1>4. ASSUME NEW k \in Kinds
      PROVE  \A part \in {"head", "tail"} :
                /\ MkCell(written + 1, part, k) \in Cell
                /\ MkCell(written + 1, part, k).line = written + 1
                /\ MkCell(written + 1, part, k).part = part
  BY <1>2 DEF MkCell, Cell
<1>5. ASSUME NEW k \in Kinds, WriteLine(k)
      PROVE  TailerInv'
  <2> DEFINE h == MkCell(written + 1, "head", k)
             t == MkCell(written + 1, "tail", k)
  <2>1. /\ inode # NoFile /\ inode' = inode /\ written' = written + 1
        /\ cells' = cells \o <<h, t>> /\ disturbed' = disturbed
    BY <1>5 DEF WriteLine
  <2>2. h \in Cell /\ t \in Cell /\ h.line = written + 1 /\ t.line = written + 1
        /\ h.part = "head" /\ t.part = "tail"
    BY <1>4
  <2> HIDE DEF h, t
  <2>3. /\ cells' \in Seq(Cell) /\ Len(cells') = L + 2
        /\ \A i \in 1 .. L : cells'[i] = cells[i]
        /\ cells'[L + 1] = h /\ cells'[L + 2] = t
    BY <1>2, <2>1, <2>2
  <2>4. ASSUME NEW i \in 1 .. Len(cells'), i > L
        PROVE  /\ cells'[i].line <= written'
               /\ Orderly => Newer(cells'[i].line)
               /\ \A j \in 1 .. i - 1 : Precedes(cells'[j], cells'[i])
    <3>1. i = L + 1 \/ i = L + 2
      BY <1>2, <2>3, <2>4
    <3>2. cells'[i].line = written + 1
      BY <2>2, <2>3, <3>1
    <3>3. Orderly => Newer(cells'[i].line)
      BY <1>2, <1>3, <3>2
    <3>4. ASSUME NEW j \in 1 .. i - 1
          PROVE  Precedes(cells'[j], cells'[i])
      <4>1. j \in 1 .. L \/ (j = L + 1 /\ i = L + 2)
        BY <1>2, <3>1
      <4>2. CASE j \in 1 .. L
        <5>1. cells'[j].line < written + 1
          BY <1>2, <2>3, <4>2
        <5>2. QED
          BY <3>2, <5>1 DEF Precedes
      <4>3. CASE j = L + 1 /\ i = L + 2
        BY <2>2, <2>3, <4>3 DEF Precedes
      <4>4. QED
        BY <4>1, <4>2, <4>3
    <3>5. QED
      BY <1>2, <2>1, <3>2, <3>3, <3>4
  <2>5. Len(cells') > L /\ written' \in Nat /\ written <= written'
    BY <1>2, <2>1, <2>3
  <2>6. CellsInv' /\ PollInv' /\ EmittedInv'
    BY <1>1, <2>1, <2>3, <2>4, <2>5, Grown DEF Calm
  <2>7. QED
    BY <1>1, <2>6 DEF TailerInv
<1>6. ASSUME NEW k \in Kinds, WriteHead(k)
      PROVE  TailerInv'
  <2> DEFINE h == MkCell(written + 1, "head", k)
  <2>1. /\ inode # NoFile /\ inode' = inode /\ written' = written + 1
        /\ cells' = Append(cells, h) /\ disturbed' = disturbed \cup {"cut"}
    BY <1>6 DEF WriteHead
  <2>2. h \in Cell /\ h.line = written + 1
    BY <1>4
  <2> HIDE DEF h
  <2>3. /\ cells' \in Seq(Cell) /\ Len(cells') = L + 1
        /\ \A i \in 1 .. L : cells'[i] = cells[i]
        /\ cells'[L + 1] = h
    BY <1>2, <2>1, <2>2
  <2>4. ASSUME NEW i \in 1 .. Len(cells'), i > L
        PROVE  /\ cells'[i].line <= written'
               /\ Orderly => Newer(cells'[i].line)
               /\ \A j \in 1 .. i - 1 : Precedes(cells'[j], cells'[i])
    <3>1. i = L + 1 /\ cells'[i].line = written + 1
      BY <1>2, <2>2, <2>3, <2>4
    <3>2. Orderly => Newer(cells'[i].line)
      BY <1>2, <1>3, <3>1
    <3>3. ASSUME NEW j \in 1 .. i - 1
          PROVE  Precedes(cells'[j], cells'[i])
      <4>1. j \in 1 .. L
        BY <1>2, <3>1
      <4>2. cells'[j].line < written + 1
        BY <1>2, <2>3, <4>1
      <4>3. QED
        BY <3>1, <4>2 DEF Precedes
    <3>4. QED
      BY <1>2, <2>1, <3>1, <3>2, <3>3
  <2>5. /\ Len(cells') > L /\ written' \in Nat /\ written <= written'
        /\ Calm' => Calm
    BY <1>2, <2>1, <2>3 DEF Calm
  <2>6. CellsInv' /\ PollInv' /\ EmittedInv'
    BY <1>1, <2>1, <2>3, <2>4, <2>5, Grown DEF Calm
  <2>7. QED
    BY <1>1, <2>6 DEF TailerInv
<1>7. CASE WriteTail
  <2> DEFINE head == cells[L]
             t == MkCell(head.line, "tail", head.kind)
  <2>1. /\ inode # NoFile /\ inode' = inode /\ written' = written
        /\ cells' = Append(cells, t) /\ disturbed' = disturbed /\ HalfOpen
    BY <1>7 DEF WriteTail
  <2>2. L \in 1 .. L /\ head \in Cell /\ head.part = "head"
    BY <1>2, <2>1 DEF HalfOpen
  <2>3. t \in Cell /\ t.line = head.line /\ t.part = "tail"
    BY <2>2 DEF MkCell, Cell
  <2> HIDE DEF t
  <2>4. /\ cells' \in Seq(Cell) /\ Len(cells') = L + 1
        /\ \A i \in 1 .. L : cells'[i] = cells[i]
        /\ cells'[L + 1] = t
    BY <1>2, <2>1, <2>3
  <2>5. ASSUME NEW i \in 1 .. Len(cells'), i > L
        PROVE  /\ cells'[i].line <= written'
               /\ Orderly => Newer(cells'[i].line)
               /\ \A j \in 1 .. i - 1 : Precedes(cells'[j], cells'[i])
    <3>1. i = L + 1 /\ cells'[i].line = head.line /\ cells'[i].part = "tail"
      BY <1>2, <2>3, <2>4, <2>5
    <3>2. Orderly => Newer(cells'[i].line)
      BY <2>1, <3>1 DEF Orderly, TailerInv, EmittedInv, UnreadInv
    <3>3. ASSUME NEW j \in 1 .. i - 1
          PROVE  Precedes(cells'[j], cells'[i])
      <4>1. CASE j = L
        <5>1. cells'[j] = head
          BY <2>2, <2>4, <4>1
        <5>2. QED
          BY <2>2, <3>1, <5>1 DEF Precedes
      <4>2. CASE j \in 1 .. L /\ j < L
        <5>1. cells'[j] = cells[j] /\ Precedes(cells[j], head)
          BY <2>2, <2>4, <4>2 DEF TailerInv, CellsInv
        <5>2. cells[j].line < head.line
          BY <2>2, <5>1 DEF Precedes
        <5>3. QED
          BY <3>1, <5>1, <5>2 DEF Precedes
      <4>3. QED
        BY <1>2, <3>1, <4>1, <4>2
    <3>4. QED
      BY <1>2, <2>1, <2>2, <3>1, <3>2, <3>3
  <2>6. Len(cells') > L /\ written' \in Nat /\ written <= written'
    BY <1>2, <2>1, <2>4
  <2>7. CellsInv' /\ PollInv' /\ EmittedInv'
    BY <1>1, <2>1, <2>4, <2>5, <2>6, Grown DEF Calm
  <2>8. QED
    BY <1>1, <2>7 DEF TailerInv
<1>8. CASE RenameAway \/ Truncate
  <2>1. /\ cells' = <<>> /\ written' = written /\ inode' \in {inode, NoFile}
        /\ Calm' => Calm
    BY <1>8 DEF RenameAway, Truncate, Calm
  <2>2. CellsInv' /\ PollInv' /\ EmittedInv'
    BY <1>1, <2>1, Emptied DEF TailerInv, PollInv
  <2>3. QED
    BY <1>1, <2>2 DEF TailerInv
<1>9. CASE Recreate
  <2>1. /\ cells' = <<>> /\ written' = written
        /\ Calm' => Calm /\ tpc # "read"
    BY <1>9 DEF Recreate, TailerInv, CellsInv, Calm, Repeating
  <2>2. CellsInv' /\ PollInv' /\ EmittedInv'
    BY <1>1, <2>1, Emptied
  <2>3. QED
    BY <1>1, <2>2 DEF TailerInv
<1>10. CASE ChangeAccess
  BY <1>1, <1>10 DEF ChangeAccess, TailerInv, CellsInv, PollInv, EmittedInv, UnreadInv, NextStart,
              Newer, HalfOpen, Calm
<1>11. QED
  BY <1>5, <1>6, <1>7, <1>8, <1>9, <1>10 DEF Environment

-----------------------------------------------------------------------------
\* A read, wherever it is left, goes on from what was emitted before, and a line whose tail
\* is still to come is not in it.
LEMMA ReadEmits ==
    ASSUME TailerInv, tpc = "read", Opens, NEW k \in 0 .. Len(cells),
           emitted' = emitted \o EventsRead[k]
    PROVE  /\ emitted' \in Seq(Nat)
           /\ Calm =>
                /\ \A x, y \in 1 .. Len(emitted') : x < y => emitted'[x] < emitted'[y]
                /\ \A x \in 1 .. Len(emitted') : emitted'[x] <= written
                /\ HalfOpen => \A x \in 1 .. Len(emitted') : emitted'[x] < cells[Len(cells)].line
<1> DEFINE r == EventsRead[k]
           m == Len(emitted)
           L == Len(cells)
<1>1. InOrderTo(r, k)
  BY ReadInOrder DEF TailerInv
<1> HIDE DEF r
<1>2. /\ emitted \in Seq(Nat) /\ r \in Seq(Nat) /\ emitted' \in Seq(Nat)
      /\ m \in Nat /\ Len(r) \in Nat /\ Len(emitted') = m + Len(r)
      /\ \A x \in 1 .. m : emitted'[x] = emitted[x]
      /\ \A x \in 1 .. m + Len(r) : x > m => x - m \in 1 .. Len(r) /\ emitted'[x] = r[x - m]
  <2>1. emitted \in Seq(Nat) /\ r \in Seq(Nat) /\ m \in Nat /\ Len(r) \in Nat
    BY <1>1 DEF InOrderTo, TailerInv, EmittedInv
  <2>2. emitted' = emitted \o r
    BY DEF r
  <2>3. \A x \in 1 .. m + Len(r) : x > m => x - m \in 1 .. Len(r)
    BY <2>1
  <2>4. QED
    BY <2>1, <2>2, <2>3
<1>3. /\ L \in Nat /\ written \in Nat /\ position \in Nat
      /\ \A i \in 1 .. L : /\ cells[i] \in Cell /\ cells[i].line \in Nat
                           /\ cells[i].line <= written
  <2>1. L \in Nat /\ written \in Nat /\ position \in Nat /\ \A i \in 1 .. L : cells[i] \in Cell
    BY DEF TailerInv, CellsInv, PollInv
  <2>2. QED
    BY <2>1 DEF Cell, TailerInv, CellsInv
<1>4. SUFFICES ASSUME Calm
               PROVE  /\ \A x, y \in 1 .. Len(emitted') : x < y => emitted'[x] < emitted'[y]
                      /\ \A x \in 1 .. Len(emitted') : emitted'[x] <= written
                      /\ HalfOpen => \A x \in 1 .. Len(emitted') :
                                         emitted'[x] < cells[L].line
  BY <1>2
<1>5. UnreadInv /\ inode = knownInode
  BY <1>4 DEF TailerInv, EmittedInv, PollInv, Opens
<1>6. ASSUME NEW y \in 1 .. Len(r)
      PROVE  /\ r[y] \in Nat /\ r[y] <= written
             /\ \A x \in 1 .. m : emitted[x] < r[y]
             /\ HalfOpen => r[y] < cells[L].line
  <2>1. PICK i \in LineEnds : i <= k /\ r[y] = cells[i].line
    BY <1>1 DEF InOrderTo
  <2>2. i \in 1 .. L /\ i > position /\ position <= L /\ cells[i].part = "tail"
    BY <1>3, <2>1 DEF LineEnds
  <2>3. Newer(cells[i].line)
    BY <1>3, <1>5, <2>2 DEF UnreadInv, NextStart
  <2>4. HalfOpen => r[y] < cells[L].line
    <3>1. SUFFICES ASSUME HalfOpen PROVE cells[i].line < cells[L].line
      BY <2>1
    <3>2. L \in 1 .. L /\ cells[L].part = "head"
      BY <1>3, <2>2, <3>1 DEF HalfOpen
    <3>3. i < L
      BY <1>3, <2>2, <3>2
    <3>4. Precedes(cells[i], cells[L])
      BY <2>2, <3>2, <3>3 DEF TailerInv, CellsInv
    <3>5. QED
      BY <2>2, <3>2, <3>4 DEF Precedes
  <2>5. QED
    BY <1>3, <2>1, <2>2, <2>3, <2>4 DEF Newer
<1>7. \A x \in 1 .. m + Len(r) : x \in 1 .. m \/ x > m
  BY <1>2
<1>8. ASSUME NEW x \in 1 .. m + Len(r), NEW y \in 1 .. m + Len(r), x < y
      PROVE  emitted'[x] < emitted'[y]
  <2>1. CASE x \in 1 .. m /\ y \in 1 .. m
    BY <1>2, <1>4, <1>8, <2>1 DEF TailerInv, EmittedInv
  <2>2. CASE x \in 1 .. m /\ y > m
    BY <1>2, <1>6, <2>2
  <2>3. CASE x > m /\ y > m
    <3>1. x - m \in 1 .. Len(r) /\ y - m \in 1 .. Len(r) /\ x - m < y - m
      BY <1>2, <1>8, <2>3
    <3>2. QED
      BY <1>1, <1>2, <2>3, <3>1 DEF InOrderTo
  <2>4. QED
    BY <1>2, <1>7, <1>8, <2>1, <2>2, <2>3
<1>9. ASSUME NEW x \in 1 .. m + Len(r)
      PROVE  emitted'[x] <= written /\ (HalfOpen => emitted'[x] < cells[L].line)
  <2>1. CASE x \in 1 .. m
    BY <1>2, <1>4, <1>5, <2>1 DEF TailerInv, EmittedInv, UnreadInv, Newer
  <2>2. CASE x > m
    BY <1>2, <1>6, <2>2
  <2>3. QED
    BY <1>7, <2>1, <2>2
<1>10. QED
  BY <1>2, <1>8, <1>9

\* A failure counts once, and the status is red from the threshold on.
LEMMA FailureCounts ==
    ASSUME StatusInv, record_failure
    PROVE  StatusInv'
<1>1. RedThreshold \in Nat \ {0}
  BY TailerAssumption
<1>2. QED
  BY <1>1 DEF StatusInv, record_failure

LEMMA SuccessResets ==
    ASSUME StatusInv, record_success
    PROVE  StatusInv'
<1>1. RedThreshold \in Nat \ {0}
  BY TailerAssumption
<1>2. QED
  BY <1>1 DEF StatusInv, record_success

\* What a poll does.
LEMMA PollKeeps ==
    ASSUME TailerInv, Poll
    PROVE  TailerInv'
<1> DEFINE L == Len(cells)
<1>1. UNCHANGED fileVars
  BY DEF Poll, PollMissing, PollStatRaises, PollStat, OpenRaises, ReadLines, ReadRaises, ReadDies,
         vars
<1>2. CellsInv' /\ (HalfOpen' <=> HalfOpen) /\ L \in Nat
  BY <1>1 DEF TailerInv, CellsInv, fileVars, HalfOpen
<1>3. ASSUME UNCHANGED <<position, knownInode, emitted, disturbed>>,
             tpc' = tpc \/ (tpc # "dead" /\ tpc' = "stat"), StatusInv'
      PROVE  TailerInv'
  <2>1. PollInv'
    BY <1>1, <1>3 DEF TailerInv, PollInv, fileVars, Calm
  <2>2. EmittedInv'
    BY <1>1, <1>3 DEF TailerInv, EmittedInv, UnreadInv, NextStart, Newer, HalfOpen, fileVars, Calm
  <2>3. QED
    BY <1>2, <1>3, <2>1, <2>2 DEF TailerInv
<1>4. CASE PollMissing
  BY <1>3, <1>4 DEF PollMissing, vars, statusVars, TailerInv, StatusInv
<1>5. CASE PollStatRaises
  BY <1>3, <1>5, FailureCounts DEF PollStatRaises, TailerInv
<1>6. CASE OpenRaises
  BY <1>3, <1>6, FailureCounts DEF OpenRaises, TailerInv
<1>7. CASE PollStat
  <2>1. /\ tpc = "stat" /\ tpc' = "read" /\ emitted' = emitted
        /\ inode' = inode /\ cells' = cells /\ written' = written
        /\ UNCHANGED statusVars
    BY <1>7 DEF PollStat, fileVars
  <2>2. PICK size \in Sizes :
            /\ IF inode # knownInode \/ size < position
               THEN position' = 0 /\ knownInode' = inode
               ELSE UNCHANGED <<position, knownInode>>
            /\ disturbed' = IF LooksCut(size) THEN disturbed \cup {"stale"} ELSE disturbed
    BY <1>7 DEF PollStat, NoteStale
  <2>3. size \in Nat /\ position \in Nat
    BY <1>2, <2>2 DEF Sizes, TailerInv, PollInv
  <2>4. position' \in {0, position} /\ inode = knownInode'
    BY <2>2
  <2>5. Calm' => Calm /\ ~LooksCut(size)
    BY <2>2 DEF Calm, Repeating
  <2>6. ASSUME Calm' PROVE NextStart' = NextStart
    <3>1. NextStart' = IF L < position' THEN 0 ELSE position'
      BY <2>1, <2>4 DEF NextStart
    <3>2. CASE inode # knownInode
      BY <1>2, <2>2, <3>1, <3>2 DEF NextStart
    <3>3. CASE inode = knownInode /\ size < position
      <4>1. L < position
        BY <2>5, <2>6, <3>3, <1>2, <2>3 DEF LooksCut
      <4>2. QED
        BY <1>2, <2>2, <2>3, <3>1, <3>3, <4>1 DEF NextStart
    <3>4. CASE inode = knownInode /\ ~(size < position)
      BY <2>2, <3>1, <3>4 DEF NextStart
    <3>5. QED
      BY <3>2, <3>3, <3>4
  <2>7. PollInv' /\ StatusInv'
    BY <2>1, <2>3, <2>4 DEF TailerInv, PollInv, StatusInv, statusVars
  <2>8. EmittedInv'
    BY <2>1, <2>5, <2>6 DEF TailerInv, EmittedInv, UnreadInv, Newer, HalfOpen
  <2>9. QED
    BY <1>2, <2>7, <2>8 DEF TailerInv
<1>8. CASE ReadLines
  <2>1. /\ tpc = "read" /\ Opens /\ emitted' = emitted \o EventsRead[L] /\ tpc' = "stat"
        /\ position' = (IF L < position THEN position ELSE L)
        /\ inode' = inode /\ cells' = cells /\ written' = written
        /\ disturbed' = disturbed /\ knownInode' = knownInode /\ record_success
    BY <1>8 DEF ReadLines, fileVars
  <2>2. position \in Nat /\ (Calm => inode = knownInode)
    BY <2>1 DEF TailerInv, PollInv, Opens
  <2>3. PollInv' /\ StatusInv'
    BY <1>2, <2>1, <2>2, SuccessResets DEF TailerInv, PollInv
  <2>4. L \in 0 .. L
    BY <1>2
  <2>5. /\ emitted' \in Seq(Nat)
        /\ Calm =>
             /\ \A x, y \in 1 .. Len(emitted') : x < y => emitted'[x] < emitted'[y]
             /\ \A x \in 1 .. Len(emitted') : emitted'[x] <= written
             /\ HalfOpen => \A x \in 1 .. Len(emitted') : emitted'[x] < cells[L].line
    BY <2>1, <2>4, ReadEmits
  <2>6. ASSUME Calm
        PROVE  UnreadInv'
    <3>1. CASE L < position
      <4>1. LineEnds = {}
        BY <1>2, <2>2, <3>1 DEF LineEnds
      <4>2. EventsRead[L] = <<>>
        <5>1. InOrderTo(EventsRead[L], L)
          BY <2>4, ReadInOrder DEF TailerInv
        <5>2. QED
          BY <4>1, <5>1 DEF InOrderTo
      <4>3. emitted' = emitted
        BY <2>1, <4>2 DEF TailerInv, EmittedInv
      <4>4. QED
        BY <2>1, <2>6, <3>1, <4>3 DEF TailerInv, EmittedInv, UnreadInv, Newer, NextStart, HalfOpen
    <3>2. CASE ~(L < position)
      <4>1. NextStart' = L
        BY <1>2, <2>1, <2>2, <2>6, <3>2 DEF NextStart
      <4>2. \A i \in 1 .. L : ~(i > L)
        BY <1>2
      <4>3. QED
        BY <2>1, <2>5, <2>6, <4>1, <4>2 DEF UnreadInv, Newer, HalfOpen
    <3>3. QED
      BY <3>1, <3>2
  <2>7. EmittedInv'
    BY <2>1, <2>5, <2>6 DEF EmittedInv, Calm
  <2>8. QED
    BY <1>2, <2>3, <2>7 DEF TailerInv
<1>9. \A k \in LineEnds : k \in 0 .. L
  BY <1>2 DEF LineEnds, TailerInv, PollInv
<1>10. ASSUME NEW k \in {0} \cup LineEnds, ReadRaises(k)
       PROVE  TailerInv'
  <2>1. /\ tpc = "read" /\ Opens /\ emitted' = emitted \o EventsRead[k] /\ tpc' = "stat"
        /\ "raised" \in disturbed' /\ UNCHANGED <<position, knownInode>> /\ record_failure
    BY <1>10 DEF ReadRaises
  <2>2. k \in 0 .. L
    BY <1>2, <1>9
  <2>3. emitted' \in Seq(Nat)
    BY <2>1, <2>2, ReadEmits
  <2>4. StatusInv' /\ PollInv'
    BY <1>1, <2>1, FailureCounts DEF TailerInv, PollInv, fileVars
  <2>5. QED
    BY <1>2, <2>1, <2>3, <2>4 DEF TailerInv, EmittedInv, Calm, Repeating
<1>11. ASSUME NEW k \in LineEnds, ReadDies(k)
       PROVE  TailerInv'
  <2>1. /\ tpc = "read" /\ Opens /\ emitted' = emitted \o EventsRead[k] /\ tpc' = "dead"
        /\ disturbed' = disturbed /\ UNCHANGED <<position, statusVars>> /\ written' = written
    BY <1>11 DEF ReadDies, fileVars
  <2>2. k \in 0 .. L
    BY <1>9
  <2>3. /\ emitted' \in Seq(Nat)
        /\ Calm =>
             /\ \A x, y \in 1 .. Len(emitted') : x < y => emitted'[x] < emitted'[y]
             /\ \A x \in 1 .. Len(emitted') : emitted'[x] <= written
    BY <2>1, <2>2, ReadEmits
  <2>4. StatusInv' /\ PollInv'
    BY <2>1 DEF TailerInv, PollInv, StatusInv, statusVars
  <2>5. QED
    BY <1>2, <2>1, <2>3, <2>4 DEF TailerInv, EmittedInv, Calm, Repeating
<1>12. QED
  BY <1>4, <1>5, <1>6, <1>7, <1>8, <1>10, <1>11 DEF Poll

-----------------------------------------------------------------------------
\* The tailer, the file and the status keep the invariant.
THEOREM TailerInductive == Spec => []TailerInv
<1>1. Init => TailerInv
  <2>1. SUFFICES ASSUME Init PROVE TailerInv
    OBVIOUS
  <2>2. Len(<<>>) = 0 /\ <<>> \in Seq(Cell) /\ <<>> \in Seq(Nat) /\ RedThreshold \in Nat \ {0}
    BY TailerAssumption
  <2>3. CellsInv /\ PollInv /\ StatusInv
    BY <2>1, <2>2 DEF Init, CellsInv, PollInv, StatusInv
  <2>4. EmittedInv
    BY <2>1, <2>2 DEF Init, EmittedInv, UnreadInv, HalfOpen
  <2>5. QED
    BY <2>3, <2>4 DEF TailerInv
<1>2. TailerInv /\ [Next]_vars => TailerInv'
  <2>1. SUFFICES ASSUME TailerInv, [Next]_vars PROVE TailerInv'
    OBVIOUS
  <2>2. CASE UNCHANGED vars
    BY <2>1, <2>2 DEF vars, fileVars, statusVars, TailerInv, CellsInv, PollInv, StatusInv,
                      EmittedInv, UnreadInv, NextStart, Newer, HalfOpen, Calm
  <2>3. QED
    BY <2>1, <2>2, EnvironmentKeeps, PollKeeps DEF Next
<1>3. QED
  BY <1>1, <1>2, PTL DEF Spec

\* However long the file grows and however often it is rotated, truncated, cut short or made
\* unreadable, EveTailer puts no line on the queue twice or out of order unless a read has
\* raised half-way, a file was put in place between a stat() and its open(), or a stale
\* st_size lay below the position.
THEOREM OrderCorrect == Spec => []InOrderOnce
<1>1. TailerInv => InOrderOnce
  BY DEF TailerInv, EmittedInv, InOrderOnce, Calm
<1>2. QED
  BY <1>1, TailerInductive, PTL

\* For every _RED_THRESHOLD: the status is red exactly while the last so many attempts have
\* all failed.
THEOREM RedCorrect == Spec => []RedMeansFailing
<1>1. TailerInv => RedMeansFailing
  <2>1. RedThreshold \in Nat \ {0}
    BY TailerAssumption
  <2>2. QED
    BY <2>1 DEF TailerInv, StatusInv, RedMeansFailing
<1>2. QED
  BY <1>1, TailerInductive, PTL
=============================================================================
