---------------------------- MODULE WalProofs ----------------------------
(***************************************************************************)
(* Proofs about the write-ahead log, for every set of operations, every    *)
(* policy and every length of the log.                                     *)
(***************************************************************************)
EXTENDS WalPromise, TLAPS, WellFoundedInduction

----------------------------------------------------------------------------
(* What replay reads of a file *)

\* A non-empty set of naturals has a least element.
LEMMA LeastNat ==
    ASSUME NEW T \in SUBSET Nat, T # {}
    PROVE  \E x \in T : \A y \in T : x <= y
<1>1. IsWellFoundedOn(OpToRel(<, Nat), Nat)
  BY NatLessThanWellFounded
<1>2. PICK x \in T : \A y \in T : ~ (<<y, x>> \in OpToRel(<, Nat))
  BY <1>1, WFMin
<1>3. \A y \in T : y < x => <<y, x>> \in OpToRel(<, Nat)
  BY Zenon DEF OpToRel
<1>4. \A y \in T : ~ (y < x)
  BY <1>2, <1>3, Zenon
<1>5. \A y \in T : x <= y
  <2> SUFFICES ASSUME NEW y \in T PROVE x <= y
    OBVIOUS
  <2>1. x \in Nat /\ y \in Nat
    OBVIOUS
  <2>2. ~ (y < x)
    BY <1>4
  <2> HIDE <1>1
  <2> QED BY <2>1, <2>2
<1> QED BY <1>5

\* ReadableLen is what its definition asks for: read_entry_internal stops at the
\* first torn cell, or at the end of the file.
LEMMA ReadableLenFacts ==
    ASSUME NEW f \in Seq(Cell)
    PROVE  /\ ReadableLen(f) \in 0..Len(f)
           /\ \A i \in 1..ReadableLen(f) : f[i] # Torn
           /\ ReadableLen(f) < Len(f) => f[ReadableLen(f) + 1] = Torn
<1> DEFINE Stop(n) == /\ \A i \in 1..n : f[i] # Torn
                      /\ n < Len(f) => f[n + 1] = Torn
           T == {i \in 1..Len(f) : f[i] = Torn}
<1>1. \E n \in 0..Len(f) : Stop(n)
  <2>1. CASE T = {}
    <3>1. Stop(Len(f))
      BY <2>1
    <3> QED BY <3>1
  <2>2. CASE T # {}
    <3>1. PICK x \in T : \A y \in T : x <= y
      <4>1. T \in SUBSET Nat
        OBVIOUS
      <4> HIDE DEF T
      <4> QED BY <4>1, <2>2, LeastNat
    <3>2. Stop(x - 1) /\ x - 1 \in 0..Len(f)
      BY <3>1
    <3> QED BY <3>2
  <2> QED BY <2>1, <2>2
<1>2. ReadableLen(f) = CHOOSE n \in 0..Len(f) : Stop(n)
  BY DEF ReadableLen
<1> HIDE DEF Stop
<1>3. ReadableLen(f) \in 0..Len(f) /\ Stop(ReadableLen(f))
  BY <1>1, <1>2
<1> QED BY <1>3 DEF Stop

\* A cell is replayed if and only if no cell up to it is torn.
LEMMA ReadableIff ==
    ASSUME NEW f \in Seq(Cell), NEW i \in Nat \ {0}
    PROVE  i <= ReadableLen(f) <=> (i <= Len(f) /\ \A j \in 1..i : f[j] # Torn)
<1>1. ASSUME i <= ReadableLen(f)
      PROVE  i <= Len(f) /\ \A j \in 1..i : f[j] # Torn
  BY <1>1, ReadableLenFacts
<1>2. ASSUME i <= Len(f), \A j \in 1..i : f[j] # Torn, ~(i <= ReadableLen(f))
      PROVE  FALSE
  <2>1. ReadableLen(f) \in Nat /\ ReadableLen(f) + 1 \in 1..i /\ ReadableLen(f) < Len(f)
    BY <1>2, ReadableLenFacts
  <2> QED BY <2>1, <1>2, ReadableLenFacts
<1> QED BY <1>1, <1>2

\* The remains of a file: the first n cells, alone or followed by a torn one.
LEMMA RemainsForm ==
    ASSUME NEW f \in Seq(Cell), NEW lo \in Nat, NEW g \in Remains(f, lo)
    PROVE  /\ g \in Seq(Cell)
           /\ \E n \in lo..Len(f) :
                 /\ \A j \in 1..n : g[j] = f[j]
                 /\ Len(g) = n \/ (Len(g) = n + 1 /\ g[n + 1] = Torn)
<1>0. Torn \in Cell
  BY DEF Cell
<1> DEFINE A == {SubSeq(f, 1, n) : n \in lo..Len(f)}
           B == {Append(SubSeq(f, 1, n), Torn) : n \in lo..(Len(f) - 1)}
<1>1. g \in A \/ g \in B
  BY DEF Remains
<1>2. CASE g \in A
  <2>1. PICK n \in lo..Len(f) : g = SubSeq(f, 1, n)
    BY <1>2
  <2>2. n \in Nat /\ n <= Len(f) /\ Len(f) \in Nat
    OBVIOUS
  <2>3. g \in Seq(Cell) /\ Len(g) = n /\ \A j \in 1..n : g[j] = f[j]
    BY <2>1, <2>2
  <2> QED BY <2>3
<1>3. CASE g \in B
  <2>1. PICK n \in lo..(Len(f) - 1) : g = Append(SubSeq(f, 1, n), Torn)
    BY <1>3
  <2>2. n \in Nat /\ n <= Len(f) /\ Len(f) \in Nat
    OBVIOUS
  <2> DEFINE h == SubSeq(f, 1, n)
  <2>3. h \in Seq(Cell) /\ Len(h) = n /\ \A j \in 1..n : h[j] = f[j]
    BY <2>2
  <2>4. g = Append(h, Torn)
    BY <2>1
  <2> HIDE DEF h
  <2>5. g \in Seq(Cell) /\ Len(g) = n + 1 /\ g[n + 1] = Torn /\ \A j \in 1..n : g[j] = h[j]
    BY <1>0, <2>2, <2>3, <2>4
  <2>6. n \in lo..Len(f)
    BY <2>2
  <2>7. \A j \in 1..n : g[j] = f[j]
    BY <2>3, <2>5
  <2> QED BY <2>5, <2>6, <2>7
<1> QED BY <1>1, <1>2, <1>3

\* The readable part of the remains of a file is a part of what was readable.
LEMMA RemainsReadable ==
    ASSUME NEW f \in Seq(Cell), NEW lo \in Nat, NEW g \in Remains(f, lo),
           NEW i \in 1..ReadableLen(g)
    PROVE  i \in 1..ReadableLen(f) /\ g[i] = f[i]
<1>1. g \in Seq(Cell)
  BY RemainsForm
<1>2. PICK n \in lo..Len(f) : /\ \A j \in 1..n : g[j] = f[j]
                              /\ Len(g) = n \/ (Len(g) = n + 1 /\ g[n + 1] = Torn)
  BY RemainsForm
<1>3. i \in Nat \ {0} /\ i <= Len(g) /\ \A j \in 1..i : g[j] # Torn
  BY <1>1, ReadableIff, ReadableLenFacts
<1>4. i <= n
  BY <1>2, <1>3
<1>5. i <= Len(f) /\ g[i] = f[i] /\ \A j \in 1..i : f[j] # Torn
  BY <1>2, <1>3, <1>4
<1>6. i <= ReadableLen(f)
  BY <1>3, <1>5, ReadableIff
<1> QED BY <1>3, <1>5, <1>6, ReadableLenFacts

\* Writing the buffer and then one more cell is writing the buffer with that cell.
LEMMA ConcatAppend ==
    ASSUME NEW f \in Seq(Cell), NEW b \in Seq(Cell), NEW c \in Cell
    PROVE  f \o b \o <<c>> = f \o Append(b, c)
<1> DEFINE l == f \o b \o <<c>>
           r == f \o Append(b, c)
<1>1. /\ l \in Seq(Cell) /\ r \in Seq(Cell)
      /\ Len(l) = Len(f) + Len(b) + 1 /\ Len(r) = Len(f) + Len(b) + 1
      /\ Len(f) \in Nat /\ Len(b) \in Nat
  OBVIOUS
<1>2. ASSUME NEW i \in 1..(Len(f) + Len(b) + 1) PROVE l[i] = r[i]
  <2>1. CASE i <= Len(f)
    BY <1>1, <2>1
  <2>2. CASE i > Len(f) /\ i <= Len(f) + Len(b)
    BY <1>1, <2>2
  <2>3. CASE i = Len(f) + Len(b) + 1
    BY <1>1, <2>3
  <2> QED BY <1>1, <2>1, <2>2, <2>3
<1> HIDE DEF l, r
<1>3. l = r
  BY <1>1, <1>2
<1> QED BY <1>3 DEF l, r

\* Appending to a file does not change what was readable, ...
LEMMA ConcatKeeps ==
    ASSUME NEW f \in Seq(Cell), NEW g \in Seq(Cell), NEW i \in 1..ReadableLen(f)
    PROVE  i \in 1..ReadableLen(f \o g) /\ (f \o g)[i] = f[i]
<1> DEFINE h == f \o g
<1>1. h \in Seq(Cell) /\ Len(h) = Len(f) + Len(g) /\ \A j \in 1..Len(f) : h[j] = f[j]
  OBVIOUS
<1> HIDE DEF h
<1>2. i \in Nat \ {0} /\ i <= Len(f) /\ \A j \in 1..i : f[j] # Torn
  BY ReadableIff, ReadableLenFacts
<1>3. i <= Len(h) /\ h[i] = f[i] /\ \A j \in 1..i : h[j] # Torn
  <2>1. Len(f) \in Nat /\ Len(g) \in Nat
    OBVIOUS
  <2>2. i <= Len(h) /\ i \in 1..Len(f)
    BY <1>1, <1>2, <2>1
  <2>3. ASSUME NEW j \in 1..i PROVE j \in 1..Len(f)
    BY <1>2, <2>1
  <2> QED BY <1>1, <1>2, <2>2, <2>3, Zenon
<1>4. i <= ReadableLen(h)
  BY <1>1, <1>2, <1>3, ReadableIff
<1>5. i \in 1..ReadableLen(h)
  BY <1>1, <1>2, <1>4, ReadableLenFacts
<1> QED BY <1>3, <1>5 DEF h

\* ... and what becomes readable behind it does so only in a file without a torn
\* cell.
LEMMA ConcatReadable ==
    ASSUME NEW f \in Seq(Cell), NEW g \in Seq(Cell), NEW i \in 1..ReadableLen(f \o g)
    PROVE  \/ i \in 1..ReadableLen(f) /\ (f \o g)[i] = f[i]
           \/ Clean(f) /\ i - Len(f) \in 1..Len(g) /\ (f \o g)[i] = g[i - Len(f)]
<1> DEFINE h == f \o g
<1>1. /\ h \in Seq(Cell) /\ Len(h) = Len(f) + Len(g)
      /\ \A j \in 1..Len(f) : h[j] = f[j]
      /\ \A j \in 1..Len(h) : j > Len(f) => h[j] = g[j - Len(f)]
  OBVIOUS
<1>a. i \in 1..ReadableLen(h)
  OBVIOUS
<1> HIDE DEF h
<1>2. i \in Nat \ {0} /\ i <= Len(h) /\ \A j \in 1..i : h[j] # Torn
  BY <1>1, <1>a, ReadableIff, ReadableLenFacts
<1>3. CASE i <= Len(f)
  <2>1. h[i] = f[i] /\ \A j \in 1..i : f[j] # Torn
    BY <1>1, <1>2, <1>3
  <2>2. i <= ReadableLen(f)
    BY <1>2, <1>3, <2>1, ReadableIff
  <2>3. i \in 1..ReadableLen(f)
    BY <1>2, <2>2, ReadableLenFacts
  <2> QED BY <2>1, <2>3 DEF h
<1>4. CASE i > Len(f)
  <2>1. Clean(f)
    BY <1>1, <1>2, <1>4 DEF Clean
  <2>2. i - Len(f) \in 1..Len(g) /\ h[i] = g[i - Len(f)]
    BY <1>1, <1>2, <1>4
  <2> QED BY <2>1, <2>2 DEF h
<1>5. i <= Len(f) \/ i > Len(f)
  BY <1>2
<1> QED BY <1>3, <1>4, <1>5, Zenon

----------------------------------------------------------------------------
(* Numbering *)

\* The readable entries of a file are numbered from 0.
Numbered(f) == \A i \in 1..ReadableLen(f) : f[i].sequence = i - 1

\* The sequence numbers go on after the entries of a file without a torn cell,
\* first in the BufWriter and then with next_sequence.
Continued ==
    (status = "open" /\ Clean(file)) =>
        /\ next_sequence = Len(file) + Len(buffer)
        /\ \A i \in 1..Len(buffer) : buffer[i].sequence = Len(file) + i - 1

\* SequencesConsecutive is not inductive: a power failure can bring back the
\* durable copy, and what is readable next depends on the buffer and on
\* next_sequence.
NumberingInv ==
    /\ TypeOK
    /\ Numbered(file)
    /\ Numbered(durable)
    /\ Continued

\* find_last_sequence of a numbered file is its number of readable entries.
LEMMA FindLastSequence ==
    ASSUME NEW f \in Seq(Cell), Numbered(f)
    PROVE  find_last_sequence(f) = ReadableLen(f)
<1> DEFINE n == ReadableLen(f)
           S == {e.sequence : e \in Replayed(f)}
<1>1. n \in Nat
  BY ReadableLenFacts
<1>2. CASE n = 0
  BY <1>2 DEF find_last_sequence
<1>3. CASE n # 0
  <2>1. \A e \in Replayed(f) : e.sequence \in 0..(n - 1)
    BY <1>1 DEF Replayed, Numbered
  <2>2. f[n] \in Replayed(f) /\ f[n].sequence = n - 1
    BY <1>1, <1>3 DEF Replayed, Numbered
  <2>3. n - 1 \in S /\ \A e \in Replayed(f) : e.sequence <= n - 1
    BY <1>1, <2>1, <2>2
  <2>4. \A m \in S : (\A e \in Replayed(f) : e.sequence <= m) => m = n - 1
    BY <1>1, <2>1, <2>2
  <2> DEFINE top == CHOOSE m \in S : \A e \in Replayed(f) : e.sequence <= m
  <2>5. top = n - 1
    BY <2>3, <2>4
  <2>6. find_last_sequence(f) = 1 + top
    BY <1>3 DEF find_last_sequence
  <2> HIDE DEF top
  <2> QED BY <1>1, <2>5, <2>6
<1> QED BY <1>2, <1>3

\* A file without a torn cell is readable to its end, and only such a file.
LEMMA CleanReadable ==
    ASSUME NEW f \in Seq(Cell)
    PROVE  Clean(f) <=> ReadableLen(f) = Len(f)
BY ReadableLenFacts DEF Clean

\* Entries that continue a numbered file leave it numbered.
LEMMA ConcatNumbered ==
    ASSUME NEW f \in Seq(Cell), NEW g \in Seq(Cell), Numbered(f),
           Clean(f) => \A i \in 1..Len(g) : g[i].sequence = Len(f) + i - 1
    PROVE  Numbered(f \o g)
<1> SUFFICES ASSUME NEW i \in 1..ReadableLen(f \o g)
             PROVE  (f \o g)[i].sequence = i - 1
  BY DEF Numbered
<1>1. CASE i \in 1..ReadableLen(f) /\ (f \o g)[i] = f[i]
  BY <1>1 DEF Numbered
<1>2. CASE Clean(f) /\ i - Len(f) \in 1..Len(g) /\ (f \o g)[i] = g[i - Len(f)]
  <2>1. g[i - Len(f)].sequence = Len(f) + (i - Len(f)) - 1
    BY <1>2
  <2>2. i \in Nat /\ Len(f) \in Nat
    <3>1. f \o g \in Seq(Cell)
      OBVIOUS
    <3> QED BY <3>1, ReadableLenFacts
  <2>3. (f \o g)[i].sequence = Len(f) + (i - Len(f)) - 1
    BY <1>2, <2>1
  <2> QED BY <2>2, <2>3
<1> QED BY <1>1, <1>2, ConcatReadable

\* Remains of a numbered file are numbered.
LEMMA RemainsNumbered ==
    ASSUME NEW f \in Seq(Cell), NEW lo \in Nat, NEW g \in Remains(f, lo), Numbered(f)
    PROVE  Numbered(g)
BY RemainsReadable DEF Numbered

\* What the log would hold with the buffer and one more entry in the file.
LEMMA PendingNumbered ==
    ASSUME NumberingInv, NEW w \in InFlight
    PROVE  /\ file \o buffer \o w \in Seq(Cell)
           /\ Numbered(file \o buffer \o w)
           /\ w \in Seq(Entry)
           /\ status = "closed" => file \o buffer \o w = file
<1>1. file \in Seq(Cell) /\ buffer \in Seq(Entry) /\ buffer \in Seq(Cell) /\ next_sequence \in Nat
  BY DEF NumberingInv, TypeOK, Cell
<1>2. w = << >> \/ (status = "open" /\ \E op \in Op : w = <<NextEntry(op)>>)
  BY DEF InFlight
<1>3. w \in Seq(Entry) /\ w \in Seq(Cell)
  <2>1. \A op \in Op : NextEntry(op) \in Entry
    BY <1>1 DEF NextEntry, Entry
  <2>2. Entry \subseteq Cell
    BY DEF Cell
  <2>3. CASE w = << >>
    BY <2>3
  <2>4. CASE \E op \in Op : w = <<NextEntry(op)>>
    <3>1. PICK e \in Entry : w = <<e>>
      BY <2>1, <2>4
    <3>2. e \in Cell
      BY <2>2
    <3> QED BY <3>1, <3>2
  <2> QED BY <1>2, <2>3, <2>4
<1> DEFINE g == buffer \o w
<1>4. g \in Seq(Cell) /\ file \o buffer \o w = file \o g
  BY <1>1, <1>3
<1>5. ASSUME Clean(file), NEW i \in 1..Len(g)
      PROVE  g[i].sequence = Len(file) + i - 1
  <2>1. CASE w = << >>
    <3>1. g = buffer
      BY <1>1, <2>1
    <3>2. status = "open" \/ buffer = << >>
      BY DEF NumberingInv, TypeOK
    <3> QED BY <1>5, <3>1, <3>2 DEF NumberingInv, Continued
  <2>2. CASE status = "open" /\ \E op \in Op : w = <<NextEntry(op)>>
    <3>1. PICK op \in Op : w = <<NextEntry(op)>>
      BY <2>2
    <3>2. next_sequence = Len(file) + Len(buffer)
          /\ \A j \in 1..Len(buffer) : buffer[j].sequence = Len(file) + j - 1
      BY <1>5, <2>2 DEF NumberingInv, Continued
    <3>3. NextEntry(op).sequence = next_sequence
      BY DEF NextEntry
    <3>4. Len(g) = Len(buffer) + 1 /\ g[Len(buffer) + 1] = NextEntry(op)
          /\ \A j \in 1..Len(buffer) : g[j] = buffer[j]
      BY <1>1, <1>3, <3>1
    <3>5. Len(file) \in Nat /\ Len(buffer) \in Nat
      BY <1>1
    <3> HIDE DEF g
    <3>6. CASE i = Len(buffer) + 1
      BY <3>2, <3>3, <3>4, <3>5, <3>6
    <3>7. CASE i \in 1..Len(buffer)
      BY <3>2, <3>4, <3>7
    <3> QED BY <1>5, <3>4, <3>5, <3>6, <3>7
  <2> QED BY <1>2, <2>1, <2>2
<1>6. Numbered(file \o g)
  <2>1. Numbered(file)
    BY DEF NumberingInv
  <2> HIDE DEF g
  <2> QED BY <1>1, <1>4, <1>5, <2>1, ConcatNumbered
<1>7. status = "closed" => file \o g = file
  BY <1>1, <1>2, <1>3 DEF NumberingInv, TypeOK
<1>8. file \o g \in Seq(Cell)
  BY <1>1, <1>4
<1> HIDE DEF g
<1> QED BY <1>3, <1>4, <1>6, <1>7, <1>8

\* The beginning of a file without a torn cell has none either.
LEMMA CleanConcat ==
    ASSUME NEW f \in Seq(Cell), NEW g \in Seq(Cell), Clean(f \o g)
    PROVE  Clean(f)
<1>1. \A i \in 1..Len(f) : i \in 1..Len(f \o g) /\ (f \o g)[i] = f[i]
  OBVIOUS
<1> QED BY <1>1 DEF Clean

\* An empty file is numbered.
LEMMA EmptyNumbered ==
    ASSUME NEW f \in Seq(Cell), Len(f) = 0
    PROVE  Numbered(f)
<1>1. ReadableLen(f) \in 0..Len(f)
  BY ReadableLenFacts, Zenon
<1>2. ReadableLen(f) = 0
  BY <1>1
<1> QED BY <1>2 DEF Numbered

\* The initial state satisfies the strengthened numbering invariant.
LEMMA InitNumbering ==
    ASSUME Init
    PROVE  NumberingInv
<1>1. TypeOK
  <2>1. << >> \in Seq(Cell) /\ << >> \in Seq(Entry)
    OBVIOUS
  <2> QED BY <2>1, Zenon DEF Init, TypeOK
<1>2. Numbered(file) /\ Numbered(durable)
  <2>1. Len(file) = 0 /\ Len(durable) = 0
    BY DEF Init
  <2> QED BY <1>1, <2>1, EmptyNumbered DEF TypeOK
<1>3. Continued
  BY DEF Init, Continued
<1> QED BY <1>1, <1>2, <1>3 DEF NumberingInv

\* What each step that only moves the buffer into the file preserves.
LEMMA FlushNumbering ==
    ASSUME NumberingInv, NEW p \in Seq(Entry),
           file' = file \o p, buffer' = << >>, status' = status, sync_policy' = sync_policy,
           durable' = durable \/ durable' = file', cut' \in BOOLEAN,
           next_sequence' \in Nat,
           Numbered(file \o p),
           (status = "open" /\ Clean(file)) => next_sequence' = Len(file) + Len(p)
    PROVE  NumberingInv'
<1>1. file \in Seq(Cell) /\ p \in Seq(Cell) /\ durable \in Seq(Cell)
  BY DEF NumberingInv, TypeOK, Cell
<1>2. file' \in Seq(Cell) /\ Len(file') = Len(file) + Len(p)
  BY <1>1
<1>3. TypeOK'
  <2>1. durable' \in Seq(Cell)
    BY <1>1, <1>2
  <2>2. /\ status' \in {"open", "closed"} /\ buffer' \in Seq(Entry)
        /\ sync_policy' \in (IF status' = "open" THEN Policies ELSE {"none"})
    BY DEF NumberingInv, TypeOK
  <2> QED BY <1>2, <2>1, <2>2 DEF TypeOK
<1>4. Numbered(file') /\ Numbered(durable')
  BY DEF NumberingInv
<1>5. Continued'
  <2> SUFFICES ASSUME status' = "open", Clean(file')
               PROVE  next_sequence' = Len(file') + Len(buffer')
    BY DEF Continued
  <2>1. Clean(file)
    BY <1>1, CleanConcat
  <2>2. Len(buffer') = 0 /\ Len(file) \in Nat /\ Len(p) \in Nat
    BY <1>1
  <2>3. next_sequence' = Len(file) + Len(p)
    BY <2>1
  <2> QED BY <1>2, <2>2, <2>3
<1> QED BY <1>3, <1>4, <1>5 DEF NumberingInv, Numbered

\* A file that is left behind when the process is gone.
LEMMA GoneNumbering ==
    ASSUME NumberingInv, Gone, file' \in Seq(Cell), Numbered(file'),
           durable' = durable \/ durable' = file', cut' \in BOOLEAN
    PROVE  NumberingInv'
<1>1. TypeOK'
  BY DEF NumberingInv, TypeOK, Gone
<1>2. Numbered(durable')
  BY DEF NumberingInv
<1>3. Continued'
  BY DEF Continued, Gone
<1> QED BY <1>1, <1>2, <1>3 DEF NumberingInv, Numbered

\* append_put and append_delete keep the numbering, under every policy.
LEMMA AppendNumbering ==
    ASSUME NumberingInv, NEW op \in Op, AppendEntry(op)
    PROVE  NumberingInv'
<1> DEFINE e == NextEntry(op)
           p == Append(buffer, e)
<1>1. file \in Seq(Cell) /\ buffer \in Seq(Entry) /\ next_sequence \in Nat
  BY DEF NumberingInv, TypeOK
<1>2. e \in Entry /\ e.sequence = next_sequence
  BY <1>1 DEF NextEntry, Entry
<1>3. <<e>> \in InFlight
  BY DEF InFlight, AppendEntry
<1>4. status = "open" /\ status' = status /\ sync_policy' = sync_policy
      /\ next_sequence' = next_sequence + 1 /\ maybe_sync(p)
  BY DEF AppendEntry
<1>5. Numbered(file \o buffer \o <<e>>)
  BY <1>3, PendingNumbered
<1> HIDE DEF e
<1>6. p \in Seq(Entry) /\ Len(p) = Len(buffer) + 1 /\ p[Len(buffer) + 1] = e
      /\ \A i \in 1..Len(buffer) : p[i] = buffer[i]
  BY <1>1, <1>2
<1>7. file \o buffer \o <<e>> = file \o p
  <2>1. buffer \in Seq(Cell) /\ e \in Cell
    BY <1>1, <1>2 DEF Cell
  <2> QED BY <1>1, <2>1, ConcatAppend
<1>8. Clean(file) => next_sequence = Len(file) + Len(buffer)
                     /\ \A i \in 1..Len(buffer) : buffer[i].sequence = Len(file) + i - 1
  BY <1>4 DEF NumberingInv, Continued
<1>9. Len(file) \in Nat /\ Len(buffer) \in Nat
  BY <1>1
<1>15. next_sequence' \in Nat
  BY <1>1, <1>4
<1>14. Numbered(file \o p)
  BY <1>5, <1>7
<1> HIDE DEF p
<1>10. Clean(file) => next_sequence' = Len(file) + Len(p)
  BY <1>4, <1>6, <1>8, <1>9
<1>11. CASE sync_policy = "Always" /\ FlushAndFsync(p)
  <2>1. file' = file \o p /\ buffer' = << >> /\ durable' = file' /\ cut' \in BOOLEAN
    BY <1>11 DEF FlushAndFsync
  <2> QED BY <1>4, <1>6, <1>10, <1>14, <1>15, <2>1, FlushNumbering
<1>12. CASE sync_policy = "Interval" /\ Flush(p)
  <2>1. file' = file \o p /\ buffer' = << >> /\ durable' = durable /\ cut' \in BOOLEAN
    BY <1>12 DEF Flush, NumberingInv, TypeOK
  <2> QED BY <1>4, <1>6, <1>10, <1>14, <1>15, <2>1, FlushNumbering
<1>13. CASE buffer' = p /\ UNCHANGED disk
  <2>1. file' = file /\ durable' = durable /\ cut' = cut
    BY <1>13 DEF disk
  <2>2. TypeOK'
    BY <1>1, <1>4, <1>6, <1>13, <2>1 DEF NumberingInv, TypeOK
  <2>3. Continued'
    <3> SUFFICES ASSUME Clean(file)
                 PROVE  /\ next_sequence' = Len(file) + Len(p)
                        /\ \A i \in 1..Len(p) : p[i].sequence = Len(file) + i - 1
      BY <1>13, <2>1 DEF Continued
    <3>1. \A i \in 1..Len(p) : i \in 1..Len(buffer) \/ i = Len(buffer) + 1
      BY <1>6, <1>9
    <3>2. p[Len(buffer) + 1].sequence = Len(file) + (Len(buffer) + 1) - 1
      BY <1>2, <1>6, <1>8, <1>9
    <3> QED BY <1>6, <1>8, <1>10, <3>1, <3>2
  <2> QED BY <2>1, <2>2, <2>3 DEF NumberingInv, Numbered
<1> QED BY <1>4, <1>11, <1>12, <1>13 DEF maybe_sync

\* Every step of the log preserves the invariant.
LEMMA NextNumbering ==
    ASSUME NumberingInv, [Next]_vars
    PROVE  NumberingInv'
<1>0. /\ file \in Seq(Cell) /\ durable \in Seq(Cell) /\ buffer \in Seq(Entry)
      /\ next_sequence \in Nat /\ cut \in BOOLEAN /\ Numbered(file) /\ Numbered(durable)
  BY DEF NumberingInv, TypeOK
<1>a. << >> \in InFlight /\ file \o buffer \o << >> = file \o buffer
  <2>1. buffer \in Seq(Cell)
    BY <1>0 DEF Cell
  <2> QED BY <1>0, <2>1 DEF InFlight
<1>b. Numbered(file \o buffer) /\ file \o buffer \in Seq(Cell)
  BY <1>a, PendingNumbered
<1>1. ASSUME NEW op \in Op, AppendEntry(op)
      PROVE  NumberingInv'
  BY <1>1, AppendNumbering
<1>2. CASE Sync
  <2>1. file' = file \o buffer /\ buffer' = << >> /\ durable' = file' /\ cut' \in BOOLEAN
        /\ status' = status /\ sync_policy' = sync_policy /\ next_sequence' = next_sequence
    BY <1>2 DEF Sync, FlushAndFsync
  <2>2. (status = "open" /\ Clean(file)) => next_sequence' = Len(file) + Len(buffer)
    BY <2>1 DEF NumberingInv, Continued
  <2> QED BY <1>0, <1>b, <2>1, <2>2, FlushNumbering
<1>3. CASE Truncate
  <2>1. TypeOK'
    BY <1>0, <1>3 DEF Truncate, TypeOK, NumberingInv
  <2>2. Numbered(file')
    <3>1. Len(file') = 0
      BY <1>3 DEF Truncate
    <3> QED BY <2>1, <3>1, EmptyNumbered DEF TypeOK
  <2>3. Continued'
    BY <1>3 DEF Truncate, Continued
  <2> QED BY <1>0, <1>3, <2>1, <2>2, <2>3 DEF Truncate, NumberingInv, Numbered
<1>4. CASE Close
  BY <1>0, <1>4, <1>b, GoneNumbering DEF Close
<1>5. ASSUME NEW w \in InFlight, Kill(w)
      PROVE  NumberingInv'
  <2>1. file' \in Remains(file \o buffer \o w, Len(file)) /\ Gone /\ durable' = durable /\ cut' = cut
    BY <1>5 DEF Kill
  <2>2. file \o buffer \o w \in Seq(Cell) /\ Numbered(file \o buffer \o w) /\ Len(file) \in Nat
    BY <1>0, PendingNumbered
  <2>3. file' \in Seq(Cell) /\ Numbered(file')
    BY <2>1, <2>2, RemainsForm, RemainsNumbered
  <2> QED BY <1>0, <2>1, <2>3, GoneNumbering
<1>6. ASSUME NEW w \in InFlight, PowerFailure(w)
      PROVE  NumberingInv'
  <2>1. Gone /\ durable' = file' /\ cut' \in BOOLEAN
    BY <1>6 DEF PowerFailure
  <2> DEFINE lo == IF cut THEN 0 ELSE Len(durable)
  <2>2. file \o buffer \o w \in Seq(Cell) /\ Numbered(file \o buffer \o w) /\ lo \in Nat
    BY <1>0, PendingNumbered
  <2>3. file' \in Remains(file \o buffer \o w, lo) \/ file' = durable
    BY <1>6 DEF PowerFailure
  <2> HIDE DEF lo
  <2>4. file' \in Seq(Cell) /\ Numbered(file')
    BY <1>0, <2>2, <2>3, RemainsForm, RemainsNumbered
  <2> QED BY <2>1, <2>4, GoneNumbering
<1>7. CASE Open
  <2>1. buffer = << >> /\ buffer' = << >> /\ file' = file /\ durable' = durable /\ cut' = cut
        /\ status' = "open" /\ sync_policy' \in Policies /\ next_sequence' = find_last_sequence(file)
    BY <1>7 DEF Open, NumberingInv, TypeOK, disk
  <2>2. next_sequence' = ReadableLen(file) /\ next_sequence' \in Nat
    BY <1>0, <2>1, FindLastSequence, ReadableLenFacts
  <2>3. Continued'
    BY <1>0, <2>1, <2>2, CleanReadable DEF Continued
  <2>4. TypeOK'
    BY <1>0, <2>1, <2>2 DEF TypeOK
  <2> QED BY <1>0, <2>1, <2>3, <2>4 DEF NumberingInv, Numbered
<1>8. CASE UNCHANGED vars
  BY <1>8 DEF vars, disk, NumberingInv, TypeOK, Numbered, Continued
<1> QED BY <1>1, <1>2, <1>3, <1>4, <1>5, <1>6, <1>7, <1>8 DEF Next

\* In every reachable state of the log the variables have their types: an open
\* log has appended only entries, and a closed one has left nothing buffered.
THEOREM TypeCorrect == Spec => []TypeOK
<1>1. Init => NumberingInv
  BY InitNumbering
<1>2. NumberingInv /\ [Next]_vars => NumberingInv'
  BY NextNumbering
<1>3. NumberingInv => TypeOK
  BY DEF NumberingInv
<1> QED BY <1>1, <1>2, <1>3, PTL DEF Spec

\* Replay returns entries numbered 0, 1, 2, ... in every reachable state: append,
\* find_last_sequence and truncate agree on the numbering through every crash,
\* power failure, truncation and reopening.
THEOREM Numbering == Spec => []SequencesConsecutive
<1>1. Init => NumberingInv
  BY InitNumbering
<1>2. NumberingInv /\ [Next]_vars => NumberingInv'
  BY NextNumbering
<1>3. NumberingInv => SequencesConsecutive
  BY DEF NumberingInv, Numbered, SequencesConsecutive
<1> QED BY <1>1, <1>2, <1>3, PTL DEF Spec

----------------------------------------------------------------------------
(* Durability *)

\* Every readable entry stays readable when something is appended, ...
LEMMA ConcatReplayed ==
    ASSUME NEW f \in Seq(Cell), NEW g \in Seq(Cell)
    PROVE  Replayed(f) \subseteq Replayed(f \o g)
<1> SUFFICES ASSUME NEW i \in 1..ReadableLen(f) PROVE f[i] \in Replayed(f \o g)
  BY DEF Replayed
<1>1. i \in 1..ReadableLen(f \o g) /\ (f \o g)[i] = f[i]
  BY ConcatKeeps
<1> HIDE DEF Replayed
<1> QED BY <1>1, Zenon DEF Replayed

\* f begins with the cells of d.
Begins(d, f) == Len(d) <= Len(f) /\ \A i \in 1..Len(d) : f[i] = d[i]

\* ... and when a crash cuts the file off behind it.
LEMMA RemainsReplayed ==
    ASSUME NEW d \in Seq(Cell), NEW f \in Seq(Cell), Begins(d, f), NEW g \in Remains(f, Len(d))
    PROVE  Begins(d, g) /\ Replayed(d) \subseteq Replayed(g)
<1>0. Len(d) \in Nat /\ Len(f) \in Nat
  OBVIOUS
<1>1. PICK n \in Len(d)..Len(f) : /\ \A j \in 1..n : g[j] = f[j]
                                  /\ Len(g) = n \/ (Len(g) = n + 1 /\ g[n + 1] = Torn)
  BY <1>0, RemainsForm
<1>2. Begins(d, g)
  BY <1>0, <1>1 DEF Begins
<1>3. ASSUME NEW i \in 1..ReadableLen(d)
      PROVE  i \in 1..ReadableLen(g) /\ g[i] = d[i]
  <2>1. i \in Nat \ {0} /\ i <= Len(d) /\ \A j \in 1..i : d[j] # Torn
    BY ReadableIff, ReadableLenFacts
  <2>2. i <= Len(g) /\ g[i] = d[i] /\ \A j \in 1..i : g[j] # Torn
    <3>1. Len(d) <= Len(g) /\ \A j \in 1..Len(d) : g[j] = d[j]
      BY <1>2 DEF Begins
    <3>2. Len(g) \in Nat
      BY <1>0, <1>1
    <3>3. ASSUME NEW j \in 1..i PROVE j \in 1..Len(d)
      BY <1>0, <2>1
    <3>4. i <= Len(g) /\ i \in 1..Len(d)
      BY <1>0, <2>1, <3>1, <3>2
    <3> QED BY <2>1, <3>1, <3>3, <3>4, Zenon
  <2>3. g \in Seq(Cell)
    BY <1>0, RemainsForm
  <2>4. i <= ReadableLen(g)
    BY <2>1, <2>2, <2>3, ReadableIff
  <2> QED BY <2>1, <2>2, <2>3, <2>4, ReadableLenFacts
<1>4. Replayed(d) \subseteq Replayed(g)
  BY <1>3, Zenon DEF Replayed
<1> QED BY <1>2, <1>4

\* Without a torn cell before them, all entries are readable.
LEMMA CleanReplayed ==
    ASSUME NEW f \in Seq(Cell), NEW g \in Seq(Entry), Clean(f)
    PROVE  /\ \A i \in 1..Len(f) : f[i] \in Replayed(f \o g)
           /\ \A i \in 1..Len(g) : g[i] \in Replayed(f \o g)
<1> DEFINE h == f \o g
<1>1. g \in Seq(Cell) /\ \A j \in 1..Len(g) : g[j] # Torn
  BY TornAssumption DEF Cell
<1>2. /\ h \in Seq(Cell) /\ Len(h) = Len(f) + Len(g)
      /\ \A j \in 1..Len(f) : h[j] = f[j]
      /\ \A j \in 1..Len(h) : j > Len(f) => h[j] = g[j - Len(f)]
      /\ \A j \in 1..Len(g) : h[Len(f) + j] = g[j]
      /\ Len(f) \in Nat /\ Len(g) \in Nat
  BY <1>1
<1> HIDE DEF h
<1>3. Clean(h)
  <2> SUFFICES ASSUME NEW j \in 1..Len(h) PROVE h[j] # Torn
    BY DEF Clean
  <2>1. CASE j <= Len(f)
    <3>1. j \in 1..Len(f) /\ h[j] = f[j]
      BY <1>2, <2>1
    <3> QED BY <3>1 DEF Clean
  <2>2. CASE j > Len(f)
    <3>1. j - Len(f) \in 1..Len(g) /\ h[j] = g[j - Len(f)]
      BY <1>2, <2>2
    <3> QED BY <1>1, <3>1
  <2> QED BY <1>2, <2>1, <2>2
<1>4. ReadableLen(h) = Len(h)
  BY <1>2, <1>3, CleanReadable
<1>5. \A i \in 1..Len(h) : h[i] \in Replayed(h)
  BY <1>4 DEF Replayed
<1>6. \A i \in 1..Len(f) : i \in 1..Len(h)
  BY <1>2
<1>7. \A i \in 1..Len(g) : Len(f) + i \in 1..Len(h)
  BY <1>2
<1>8. \A i \in 1..Len(f) : f[i] \in Replayed(h)
  BY <1>2, <1>5, <1>6
<1>9. \A i \in 1..Len(g) : g[i] \in Replayed(h)
  BY <1>2, <1>5, <1>7
<1> QED BY <1>8, <1>9 DEF h

\* An acknowledged entry of this session is in the file or in the BufWriter.
SessionStored ==
    \A e \in session : \/ \E i \in 1..Len(file) : file[i] = e
                       \/ \E i \in 1..Len(buffer) : buffer[i] = e

\* SyncedSurvives is not inductive: what a power failure leaves depends on the
\* durable copy, which must hold the promised entries too and be the beginning of
\* the file, unless the file was truncated since; sync() promises what the session
\* appended, which must be in the file or the buffer.
PromiseInv ==
    /\ NumberingInv
    /\ promised \subseteq Replayed(file)
    /\ promised \subseteq Replayed(durable)
    /\ handed \subseteq Replayed(file)
    /\ cut => promised = {}
    /\ ~cut => Begins(durable, file)
    /\ SessionStored

\* In the initial state nothing is promised yet.
LEMMA InitPromise ==
    ASSUME PInit
    PROVE  PromiseInv
<1>1. NumberingInv
  BY InitNumbering DEF PInit
<1>2. Begins(durable, file)
  BY DEF PInit, Init, Begins
<1> QED BY <1>1, <1>2 DEF PInit, Init, PromiseInv, SessionStored

\* A step of WalPromise is a step of Wal.
LEMMA PromiseStep ==
    ASSUME [PNext]_pvars
    PROVE  [Next]_vars
<1>1. CASE PNext
  <2>1. Next
    BY <1>1 DEF PNext, Next, PAppend, PSync, PTruncate, PClose, PKill, PPowerFailure, POpen
  <2> QED BY <2>1
<1>2. CASE UNCHANGED pvars
  BY <1>2 DEF pvars
<1> QED BY <1>1, <1>2

\* A flush with fsync: everything acknowledged before it, and what is newly
\* promised, is in both copies.
LEMMA FsyncPromise ==
    ASSUME PromiseInv, NumberingInv', NEW p \in Seq(Entry), FlushAndFsync(p),
           promised' \subseteq promised \cup Replayed(file'),
           handed' \subseteq handed \cup Replayed(file'), SessionStored'
    PROVE  PromiseInv'
<1>1. file \in Seq(Cell) /\ p \in Seq(Cell) /\ file' = file \o p /\ durable' = file' /\ cut' = FALSE
  BY DEF PromiseInv, NumberingInv, TypeOK, FlushAndFsync, Cell
<1>2. Replayed(file) \subseteq Replayed(file')
  BY <1>1, ConcatReplayed
<1>3. promised' \subseteq Replayed(file') /\ handed' \subseteq Replayed(file')
  BY <1>2 DEF PromiseInv
<1>4. Begins(durable', file')
  <2>1. file' \in Seq(Cell)
    BY <1>1
  <2> QED BY <1>1, <2>1 DEF Begins
<1>5. Replayed(durable') = Replayed(file')
  BY <1>1
<1> QED BY <1>1, <1>3, <1>4, <1>5 DEF PromiseInv, Replayed, Begins

\* A flush without fsync: nothing new is promised, and the durable copy is still
\* the beginning of the file.
LEMMA FlushPromise ==
    ASSUME PromiseInv, NumberingInv', NEW p \in Seq(Entry), file' = file \o p,
           durable' = durable, cut' = cut, promised' = promised,
           handed' \subseteq handed \cup Replayed(file'), SessionStored'
    PROVE  PromiseInv'
<1>1. file \in Seq(Cell) /\ p \in Seq(Cell) /\ durable \in Seq(Cell)
  BY DEF PromiseInv, NumberingInv, TypeOK, Cell
<1>2. Replayed(file) \subseteq Replayed(file')
  BY <1>1, ConcatReplayed
<1>3. promised' \subseteq Replayed(file') /\ handed' \subseteq Replayed(file')
  BY <1>2 DEF PromiseInv
<1>4. ASSUME ~cut PROVE Begins(durable, file')
  <2>1. Begins(durable, file)
    BY <1>4 DEF PromiseInv
  <2>2. Len(file) \in Nat /\ Len(p) \in Nat /\ Len(durable) \in Nat
        /\ Len(file') = Len(file) + Len(p) /\ \A i \in 1..Len(file) : file'[i] = file[i]
    BY <1>1
  <2> QED BY <2>1, <2>2 DEF Begins
<1>5. promised' \subseteq Replayed(durable') /\ (cut' => promised' = {})
  BY DEF PromiseInv
<1>6. ~cut' => Begins(durable, file')
  BY <1>4
<1> QED BY <1>3, <1>5, <1>6 DEF PromiseInv, Begins

\* Flushing what the BufWriter holds, and possibly more, puts the whole session
\* into the file.
LEMMA SessionFlushed ==
    ASSUME PromiseInv, NEW p \in Seq(Entry), Len(buffer) <= Len(p),
           \A i \in 1..Len(buffer) : p[i] = buffer[i], file' = file \o p
    PROVE  \A e \in session : \E i \in 1..Len(file') : file'[i] = e
<1> SUFFICES ASSUME NEW e \in session PROVE \E i \in 1..Len(file') : file'[i] = e
  OBVIOUS
<1>1. file \in Seq(Cell) /\ p \in Seq(Cell) /\ buffer \in Seq(Entry)
  BY DEF PromiseInv, NumberingInv, TypeOK, Cell
<1>2. /\ Len(file) \in Nat /\ Len(p) \in Nat /\ Len(buffer) \in Nat
      /\ Len(file') = Len(file) + Len(p)
      /\ \A i \in 1..Len(file) : file'[i] = file[i]
      /\ \A i \in 1..Len(p) : file'[Len(file) + i] = p[i]
  BY <1>1
<1>3. CASE \E i \in 1..Len(file) : file[i] = e
  <2>1. PICK i \in 1..Len(file) : file[i] = e
    BY <1>3
  <2>2. i \in 1..Len(file') /\ file'[i] = e
    BY <1>2, <2>1
  <2> QED BY <2>2
<1>4. CASE \E i \in 1..Len(buffer) : buffer[i] = e
  <2>1. PICK i \in 1..Len(buffer) : buffer[i] = e
    BY <1>4
  <2>2. Len(file) + i \in 1..Len(file') /\ file'[Len(file) + i] = e
    BY <1>2, <2>1
  <2> QED BY <2>2
<1> QED BY <1>3, <1>4 DEF PromiseInv, SessionStored

\* When the log holds no torn cell, a flush makes the whole session readable.
LEMMA SessionReplayed ==
    ASSUME PromiseInv, Clean(file)
    PROVE  session \subseteq Replayed(file \o buffer)
<1> SUFFICES ASSUME NEW e \in session PROVE e \in Replayed(file \o buffer)
  OBVIOUS
<1>1. file \in Seq(Cell) /\ buffer \in Seq(Entry)
  BY DEF PromiseInv, NumberingInv, TypeOK
<1>2. /\ \A i \in 1..Len(file) : file[i] \in Replayed(file \o buffer)
      /\ \A i \in 1..Len(buffer) : buffer[i] \in Replayed(file \o buffer)
  BY <1>1, CleanReplayed
<1>3. \/ \E i \in 1..Len(file) : file[i] = e
      \/ \E i \in 1..Len(buffer) : buffer[i] = e
  BY DEF PromiseInv, SessionStored
<1> QED BY <1>2, <1>3, Zenon

\* PAppend, under each policy.
LEMMA AppendPromise ==
    ASSUME PromiseInv, NumberingInv', NEW op \in Op, PAppend(op)
    PROVE  PromiseInv'
<1> DEFINE e == NextEntry(op)
           p == Append(buffer, e)
<1>1. /\ file \in Seq(Cell) /\ buffer \in Seq(Entry) /\ e \in Entry
  BY DEF PromiseInv, NumberingInv, TypeOK, NextEntry, Entry
<1>2. /\ maybe_sync(p)
      /\ session' = session \cup {e}
      /\ handed' = handed \cup {x \in {e} : sync_policy # "Never" /\ Clean(file)}
      /\ promised' = promised \cup {x \in {e} : sync_policy = "Always" /\ Clean(file)}
  BY DEF PAppend, AppendEntry
<1> HIDE DEF e
<1>3. /\ p \in Seq(Entry) /\ Len(p) = Len(buffer) + 1 /\ p[Len(buffer) + 1] = e
      /\ \A i \in 1..Len(buffer) : p[i] = buffer[i]
      /\ Len(buffer) \in Nat /\ Len(buffer) + 1 \in 1..Len(p) /\ Len(buffer) <= Len(p)
  BY <1>1
<1> HIDE DEF p
<1>4. Clean(file) => e \in Replayed(file \o p)
  BY <1>1, <1>3, CleanReplayed
<1>5. ASSUME file' = file \o p PROVE SessionStored'
  <2>1. \A x \in session : \E i \in 1..Len(file') : file'[i] = x
    BY <1>3, <1>5, SessionFlushed
  <2>2. \E i \in 1..Len(file') : file'[i] = e
    <3>1. p \in Seq(Cell)
      BY <1>3 DEF Cell
    <3>2. Len(file) + (Len(buffer) + 1) \in 1..Len(file')
          /\ file'[Len(file) + (Len(buffer) + 1)] = p[Len(buffer) + 1]
      BY <1>1, <1>3, <1>5, <3>1
    <3> QED BY <1>3, <3>2
  <2> QED BY <1>2, <2>1, <2>2 DEF SessionStored
<1>6. CASE sync_policy = "Always" /\ FlushAndFsync(p)
  <2>1. file' = file \o p
    BY <1>6 DEF FlushAndFsync
  <2>2. promised' \subseteq promised \cup Replayed(file') /\ handed' \subseteq handed \cup Replayed(file')
    BY <1>2, <1>4, <2>1
  <2> QED BY <1>3, <1>5, <1>6, <2>1, <2>2, FsyncPromise
<1>7. CASE sync_policy = "Interval" /\ Flush(p)
  <2>1. file' = file \o p /\ durable' = durable /\ cut' = cut
    BY <1>7 DEF Flush
  <2>2. promised' = promised /\ handed' \subseteq handed \cup Replayed(file')
    BY <1>2, <1>4, <1>7, <2>1
  <2> QED BY <1>3, <1>5, <2>1, <2>2, FlushPromise
<1>8. CASE sync_policy = "Never" /\ buffer' = p /\ UNCHANGED disk
  <2>1. file' = file /\ durable' = durable /\ cut' = cut
    BY <1>8 DEF disk
  <2>2. promised' = promised /\ handed' = handed
    BY <1>2, <1>8
  <2>3. SessionStored'
    <3>1. \A i \in 1..Len(buffer) : i \in 1..Len(p)
      BY <1>3
    <3>2. \A x \in session : \/ \E i \in 1..Len(file) : file[i] = x
                             \/ \E i \in 1..Len(p) : p[i] = x
      BY <1>3, <3>1, Zenon DEF PromiseInv, SessionStored
    <3> QED BY <1>2, <1>3, <1>8, <2>1, <3>2 DEF SessionStored
  <2> QED BY <2>1, <2>2, <2>3 DEF PromiseInv, Begins, Replayed
<1> QED BY <1>2, <1>6, <1>7, <1>8 DEF maybe_sync

\* What is appended when a crash comes is behind the file's cells.
LEMMA PendingBegins ==
    ASSUME NumberingInv, NEW w \in InFlight
    PROVE  Begins(file, file \o buffer \o w) /\ file \o buffer \o w \in Seq(Cell)
<1>1. file \in Seq(Cell) /\ buffer \in Seq(Cell)
  BY DEF NumberingInv, TypeOK, Cell
<1>2. w \in Seq(Cell)
  BY PendingNumbered DEF Cell
<1> DEFINE h == file \o buffer
<1>3. h \in Seq(Cell) /\ Len(file) <= Len(h) /\ \A i \in 1..Len(file) : h[i] = file[i]
  BY <1>1
<1> HIDE DEF h
<1>4. h \o w \in Seq(Cell) /\ Len(h) <= Len(h \o w) /\ \A i \in 1..Len(h) : (h \o w)[i] = h[i]
  BY <1>2, <1>3
<1>5. Begins(file, h \o w)
  BY <1>1, <1>3, <1>4 DEF Begins
<1> QED BY <1>4, <1>5 DEF h

\* A killed process leaves the file's cells where they were.
LEMMA KillPromise ==
    ASSUME PromiseInv, NumberingInv', PKill
    PROVE  PromiseInv'
<1>1. PICK w \in InFlight : Kill(w)
  BY DEF PKill
<1>2. /\ file' \in Remains(file \o buffer \o w, Len(file)) /\ durable' = durable /\ cut' = cut
      /\ session' = {} /\ handed' = handed /\ promised' = promised
  BY <1>1 DEF Kill, PKill
<1>3. file \in Seq(Cell) /\ durable \in Seq(Cell) /\ file' \in Seq(Cell)
  BY DEF PromiseInv, NumberingInv, TypeOK
<1>4. Begins(file, file') /\ Replayed(file) \subseteq Replayed(file')
  BY <1>2, <1>3, PendingBegins, RemainsReplayed DEF PromiseInv
<1>5. ~cut => Begins(durable, file')
  BY <1>3, <1>4 DEF PromiseInv, Begins
<1>6. promised' \subseteq Replayed(file') /\ handed' \subseteq Replayed(file')
  BY <1>2, <1>4 DEF PromiseInv
<1>7. SessionStored'
  BY <1>2 DEF SessionStored
<1> QED BY <1>2, <1>5, <1>6, <1>7 DEF PromiseInv, Begins, Replayed

\* A power failure leaves the durable cells, unless an unsynced truncation has
\* dropped them, and then nothing is promised.
LEMMA PowerPromise ==
    ASSUME PromiseInv, NumberingInv', PPowerFailure
    PROVE  PromiseInv'
<1>1. PICK w \in InFlight : PowerFailure(w)
  BY DEF PPowerFailure
<1>2. /\ durable' = file' /\ cut' = FALSE /\ session' = {}
      /\ handed' = promised /\ promised' = promised
  BY <1>1 DEF PowerFailure, PPowerFailure
<1>3. file \in Seq(Cell) /\ durable \in Seq(Cell) /\ file' \in Seq(Cell)
  BY DEF PromiseInv, NumberingInv, TypeOK
<1>4. promised \subseteq Replayed(file')
  <2>1. CASE cut
    BY <2>1 DEF PromiseInv
  <2>2. CASE ~cut
    <3>1. file' \in Remains(file \o buffer \o w, Len(durable))
      BY <1>1, <2>2 DEF PowerFailure
    <3>2. Begins(file, file \o buffer \o w) /\ file \o buffer \o w \in Seq(Cell)
      BY PendingBegins DEF PromiseInv
    <3>3. Begins(durable, file \o buffer \o w)
      <4> DEFINE h == file \o buffer \o w
      <4>1. h \in Seq(Cell) /\ Begins(file, h) /\ Begins(durable, file)
        BY <2>2, <3>2 DEF PromiseInv
      <4> HIDE DEF h
      <4>2. Begins(durable, h)
        BY <1>3, <4>1 DEF Begins
      <4> QED BY <4>2 DEF h
    <3>4. Replayed(durable) \subseteq Replayed(file')
      BY <1>3, <3>1, <3>2, <3>3, RemainsReplayed
    <3> QED BY <3>4 DEF PromiseInv
  <2> QED BY <2>1, <2>2
<1>5. Begins(file', file')
  BY <1>3 DEF Begins
<1>6. SessionStored'
  BY <1>2 DEF SessionStored
<1>7. Replayed(durable') = Replayed(file') /\ Begins(durable', file')
  BY <1>2, <1>5
<1> QED BY <1>2, <1>4, <1>6, <1>7 DEF PromiseInv, Begins, Replayed

\* One step per action of WalPromise.
LEMMA NextPromise ==
    ASSUME PromiseInv, [PNext]_pvars
    PROVE  PromiseInv'
<1>0. NumberingInv'
  BY PromiseStep, NextNumbering DEF PromiseInv
<1>a. buffer \in Seq(Entry) /\ file \in Seq(Cell)
  BY DEF PromiseInv, NumberingInv, TypeOK
<1>b. Len(buffer) <= Len(buffer)
  BY <1>a
<1>1. ASSUME NEW op \in Op, PAppend(op) PROVE PromiseInv'
  BY <1>0, <1>1, AppendPromise
<1>2. CASE PSync
  <2>1. FlushAndFsync(buffer) /\ file' = file \o buffer /\ session' = session
        /\ handed' = handed \cup {x \in session : Clean(file)}
        /\ promised' = promised \cup {x \in session : Clean(file)}
    BY <1>2 DEF PSync, Sync, FlushAndFsync
  <2>2. promised' \subseteq promised \cup Replayed(file') /\ handed' \subseteq handed \cup Replayed(file')
    BY <2>1, SessionReplayed
  <2>3. SessionStored'
    BY <1>a, <1>b, <2>1, SessionFlushed DEF SessionStored
  <2> QED BY <1>0, <1>a, <2>1, <2>2, <2>3, FsyncPromise
<1>3. CASE PTruncate
  <2>1. /\ session' = {} /\ handed' = {} /\ promised' = {} /\ durable' = durable
        /\ cut' = (cut \/ durable # << >>) /\ file' = << >>
    BY <1>3 DEF PTruncate, Truncate
  <2>2. ASSUME ~cut' PROVE Begins(durable', file')
    <3>1. durable' = << >>
      BY <2>1, <2>2
    <3>2. Len(durable') = 0 /\ Len(file') = 0
      BY <2>1, <3>1
    <3> QED BY <3>2 DEF Begins
  <2> QED BY <1>0, <2>1, <2>2 DEF PromiseInv, SessionStored, Begins
<1>4. CASE PClose
  <2>1. /\ file' = file \o buffer /\ durable' = durable /\ cut' = cut /\ session' = {}
        /\ handed' = handed \cup {x \in session : Clean(file)} /\ promised' = promised
    BY <1>4 DEF PClose, Close
  <2>2. handed' \subseteq handed \cup Replayed(file')
    BY <2>1, SessionReplayed
  <2>3. SessionStored'
    BY <2>1 DEF SessionStored
  <2> QED BY <1>0, <1>a, <2>1, <2>2, <2>3, FlushPromise
<1>5. CASE PKill
  BY <1>0, <1>5, KillPromise
<1>6. CASE PPowerFailure
  BY <1>0, <1>6, PowerPromise
<1>7. CASE POpen \/ UNCHANGED pvars
  <2>1. UNCHANGED <<buffer, disk, history>>
    BY <1>7 DEF POpen, Open, pvars, vars
  <2> QED BY <1>0, <2>1 DEF disk, history, PromiseInv, SessionStored, Begins, Replayed
<1> QED BY <1>1, <1>2, <1>3, <1>4, <1>5, <1>6, <1>7 DEF PNext

\* Whatever was acknowledged under Always, or before a successful sync(), while
\* the log held no torn cell, is replayed until the log is truncated: for every
\* policy, set of operations and length of the log.
THEOREM SyncedDurable == PSpec => []SyncedSurvives
<1>1. PInit => PromiseInv
  BY InitPromise
<1>2. PromiseInv /\ [PNext]_pvars => PromiseInv'
  BY NextPromise
<1>3. PromiseInv => SyncedSurvives
  BY DEF PromiseInv, SyncedSurvives
<1> QED BY <1>1, <1>2, <1>3, PTL DEF PSpec

\* Whatever was flushed (Interval, sync() or an orderly close) is replayed
\* after every later kill, as long as the power does not fail.
THEOREM FlushedDurable == PSpec => []FlushedSurvives
<1>1. PInit => PromiseInv
  BY InitPromise
<1>2. PromiseInv /\ [PNext]_pvars => PromiseInv'
  BY NextPromise
<1>3. PromiseInv => FlushedSurvives
  BY DEF PromiseInv, FlushedSurvives
<1> QED BY <1>1, <1>2, <1>3, PTL DEF PSpec
============================================================================
