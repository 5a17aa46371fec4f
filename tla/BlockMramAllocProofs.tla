------------------------- MODULE BlockMramAllocProofs -------------------------
(***************************************************************************)
(* Proofs about the block allocator, for any word, window and block sizes, *)
(* all regions, and whatever MRAM holds before init.                       *)
(***************************************************************************)
EXTENDS BlockMramAlloc, BlockDecompProofs

LEMMA Remainder ==
  ASSUME NEW a \in Nat, NEW b \in Nat \ {0}
  PROVE  (a % b) \in 0..(b - 1) /\ a = (a \div b) * b + (a % b)
<1>1. (a % b) \in 0..(b - 1)
  OBVIOUS
<1>2. a = (a \div b) * b + (a % b)
  OBVIOUS
<1> QED BY <1>1, <1>2

(* A bit is found at its word and its place in the word, and nowhere else. *)
LEMMA BitAt ==
  ASSUME NEW i \in Nat
  PROVE  Word(i) \in Nat /\ Bit(i) \in Bits /\ i = Word(i) * WordBits + Bit(i)
<1>1. WordBits \in Nat \ {0}
  BY BlockAssumption
<1>2. i \div WordBits \in Nat /\ (i % WordBits) \in 0..(WordBits - 1)
  BY <1>1, Division, Remainder
<1>3. i = (i \div WordBits) * WordBits + (i % WordBits)
  BY <1>1, Remainder
<1> QED BY <1>2, <1>3 DEF Word, Bit, Bits

LEMMA SameBit ==
  ASSUME NEW i \in Nat, NEW j \in Nat, Word(i) = Word(j), Bit(i) = Bit(j)
  PROVE  i = j
BY BitAt

(* n items in pieces of s: the pieces rounded up hold all of them.         *)
LEMMA RoundUp ==
  ASSUME NEW n \in Nat, NEW s \in Nat \ {0}, NEW w \in Nat, w < n
  PROVE  /\ (n + s - 1) \div s \in Nat
         /\ w \div s \in Nat
         /\ (w \div s) * s \in Nat
         /\ (w \div s) * s <= w
         /\ w < (w \div s) * s + s
         /\ (w \div s) * s + s <= s * ((n + s - 1) \div s)
<1> DEFINE q == w \div s
           e == (n + s - 1) \div s
<1>1. q \in Nat /\ q * s <= w /\ w < (q + 1) * s
  BY Division
<1>2. n + s - 1 \in Nat
  OBVIOUS
<1>3. e \in Nat /\ n + s - 1 < (e + 1) * s
  BY <1>2, Division
<1> HIDE DEF q, e
<1>4. (q + 1) * s = q * s + s /\ (e + 1) * s = e * s + s /\ e * s = s * e
      /\ q * s \in Nat /\ e * s \in Nat
  BY <1>1, <1>3
<1>5. w < e * s
  BY <1>3, <1>4
<1>6. q < e
  BY <1>3, <1>5, QuotientBelow DEF q
<1>7. (q + 1) * s <= e * s
  BY <1>1, <1>3, <1>6, MulMono
<1>8. q * s <= w /\ w < q * s + s /\ q * s + s <= s * e
  BY <1>1, <1>4, <1>7
<1> QED BY <1>1, <1>3, <1>4, <1>8 DEF q, e

(* The word of a bit lies in the map, ...                                  *)
LEMMA WordInMap ==
  ASSUME NEW n \in Nat, NEW i \in 0..(n - 1)
  PROVE  MapWords(n) \in Nat /\ Word(i) \in Nat /\ Word(i) < MapWords(n)
<1>1. WordBits \in Nat \ {0} /\ i \in Nat /\ i < n
  BY BlockAssumption
<1> DEFINE d == n \div WordBits
<1>2. d \in Nat /\ d * WordBits <= n /\ n < (d + 1) * WordBits
  BY <1>1, Division
<1>3. n % WordBits = 0 => n = d * WordBits
  BY <1>1
<1> HIDE DEF d
<1>4. d * WordBits \in Nat /\ (d + 1) * WordBits \in Nat
  BY <1>1, <1>2
<1>5. i \div WordBits < d + 1
  <2>1. i < (d + 1) * WordBits
    BY <1>1, <1>2, <1>4
  <2> QED BY <1>1, <1>2, <2>1, QuotientBelow
<1>6. n % WordBits = 0 => i \div WordBits < d
  <2>1. n % WordBits = 0 => i < d * WordBits
    BY <1>1, <1>3, <1>4
  <2> QED BY <1>1, <1>2, <2>1, QuotientBelow
<1>7. MapWords(n) = IF n % WordBits # 0 THEN d + 1 ELSE d
  BY DEF MapWords, d
<1>8. Word(i) \in Nat /\ Word(i) = i \div WordBits
  BY <1>1, BitAt DEF Word
<1> QED BY <1>2, <1>5, <1>6, <1>7, <1>8

(* ... and the window that is fetched for it is one of those on the map.    *)
From(i) == (Word(i) \div CacheWords) * CacheWords

LEMMA WindowAt ==
  ASSUME NEW n \in Nat, NEW i \in 0..(n - 1)
  PROVE  /\ From(i) \in Nat /\ From(i) <= Word(i) /\ Word(i) < From(i) + CacheWords
         /\ From(i) + CacheWords <= WindowWords(n) /\ WindowWords(n) \in Nat
<1>1. CacheWords \in Nat \ {0} /\ Word(i) \in Nat /\ MapWords(n) \in Nat /\ Word(i) < MapWords(n)
  BY WordInMap, BlockAssumption
<1>2. /\ (MapWords(n) + CacheWords - 1) \div CacheWords \in Nat
      /\ From(i) \in Nat /\ From(i) <= Word(i) /\ Word(i) < From(i) + CacheWords
      /\ From(i) + CacheWords <= WindowWords(n)
  BY <1>1, RoundUp DEF From, WindowWords
<1>3. WindowWords(n) \in Nat
  BY <1>1, <1>2 DEF WindowWords
<1> QED BY <1>2, <1>3

LEMMA FromAt ==
  ASSUME NEW i \in Nat
  PROVE  /\ Word(i) \in Nat /\ From(i) \in Nat
         /\ From(i) <= Word(i) /\ Word(i) < From(i) + CacheWords
<1>1. Word(i) \in Nat /\ Word(i) + 1 \in Nat /\ Word(i) < Word(i) + 1 /\ CacheWords \in Nat \ {0}
  BY BitAt, BlockAssumption
<1> QED BY <1>1, RoundUp DEF From

-----------------------------------------------------------------------------
(* Where the blocks, the words of the map and the windows on it lie.       *)
LEMMA Layout ==
  ASSUME TypeOK, Placed
  PROVE  /\ start \in Nat /\ size \in Nat /\ start <= LastWord + 1 /\ LastWord \in Nat
         /\ CacheWords \in Nat \ {0} /\ BlockWords \in Nat \ {0}
<1>1. start \in Nat /\ size \in Nat /\ BlockWords \in Nat \ {0} /\ LastWord \in Nat
      /\ CacheWords \in Nat \ {0}
  BY BlockAssumption DEF TypeOK
<1>2. size * BlockWords \in Nat
  BY <1>1
<1> QED BY <1>1, <1>2 DEF Placed

LEMMA MapPlace ==
  ASSUME TypeOK, Placed, NEW i \in 0..(size - 1)
  PROVE  /\ i \in Nat /\ Word(i) \in Nat
         /\ From(i) + CacheWords <= WindowWords(size) /\ WindowWords(size) \in Nat
         /\ Word(i) < WindowWords(size)
         /\ Usable => Word(i) < start /\ Word(i) \in Words
<1>1. size \in Nat /\ start \in Nat /\ start <= LastWord + 1 /\ LastWord \in Nat
      /\ CacheWords \in Nat \ {0} /\ i \in Nat
  BY Layout
<1>2. /\ From(i) \in Nat /\ Word(i) < From(i) + CacheWords
      /\ From(i) + CacheWords <= WindowWords(size) /\ WindowWords(size) \in Nat
  BY <1>1, WindowAt
<1>3. MapWords(size) \in Nat /\ Word(i) \in Nat /\ Word(i) < MapWords(size)
  BY <1>1, WordInMap
<1>4. Word(i) < WindowWords(size)
  BY <1>1, <1>2, <1>3
<1>5. Usable => Word(i) < start /\ Word(i) \in Words
  BY <1>1, <1>3 DEF Usable, Words
<1> QED BY <1>1, <1>2, <1>3, <1>4, <1>5

(* The words behind the windows are those of c.                            *)
Behind(d, c) ==
  Initialised => \A w \in Words : w >= WindowWords(size) => d.mram[w] = c.mram[w]

(* Moving the window loses no bit and leaves the words behind it alone.    *)
LEMMA HitGood ==
  ASSUME TypeOK, Placed, NEW c, Good(c), NEW i \in Nat, Initialised => i < size
  PROVE  /\ Good(Hit(c, i)) /\ Inside(Hit(c, i), i) /\ Behind(Hit(c, i), c)
         /\ Usable => \A j \in 0..(size - 1) : MarkedIn(Hit(c, i), j) = MarkedIn(c, j)
<1>1. CASE Inside(c, i)
  BY <1>1 DEF Hit, Behind
<1>2. CASE ~Inside(c, i)
  <2> DEFINE m == IF c.modified = 1 THEN Copied(c.mram, c.offset, c.words, CacheWords) ELSE c.mram
             h == [offset |-> From(i), modified |-> 0, words |-> Fetched(m, From(i)), mram |-> m]
  <2>1. Hit(c, i) = h
    BY <1>2 DEF Hit, From
  <2>2. /\ c.offset \in Nat /\ c.modified \in {0, 1} /\ c.words \in [Window -> SUBSET Bits]
        /\ c.mram \in [Words -> SUBSET Bits]
        /\ Initialised => c.offset + CacheWords <= WindowWords(size)
        /\ c.modified = 0 => \A k \in Window : c.offset + k < start =>
                               c.words[k] = c.mram[c.offset + k]
    BY DEF Good
  <2>3. PICK f \in Nat, o \in Nat, n \in Nat \ {0}, e \in Nat :
          /\ f = From(i) /\ o = c.offset /\ n = CacheWords /\ e = start
          /\ f <= Word(i) /\ Word(i) < f + n /\ e <= LastWord + 1
    BY <2>2, Layout, FromAt
  <2>4. /\ m \in [Words -> SUBSET Bits]
        /\ \A k \in 0..(n - 1) : o + k < e => m[o + k] = c.words[k]
        /\ \A w \in Words : w \notin o..(o + n - 1) => m[w] = c.mram[w]
    <3>1. CASE c.modified = 1
      <4>1. m = [w \in Words |-> IF w \in o..(o + n - 1) THEN c.words[w - o] ELSE c.mram[w]]
        BY <2>3, <3>1 DEF Copied
      <4>2. ASSUME NEW w \in Words, w \in o..(o + n - 1) PROVE w - o \in Window
        BY <2>3, <4>2 DEF Window
      <4>3. m \in [Words -> SUBSET Bits]
        <5> HIDE DEF m
        <5> QED BY <2>2, <4>1, <4>2
      <4>4. ASSUME NEW k \in 0..(n - 1), o + k < e PROVE m[o + k] = c.words[k]
        <5>1. o + k \in Words /\ o + k \in o..(o + n - 1) /\ (o + k) - o = k
          BY <2>3, <4>4, BlockAssumption DEF Words
        <5> HIDE DEF m
        <5> QED BY <4>1, <5>1
      <4> QED BY <4>1, <4>3, <4>4
    <3>2. CASE c.modified = 0
      <4>1. m = c.mram
        BY <3>2
      <4> HIDE DEF m
      <4> QED BY <2>2, <2>3, <3>2, <4>1 DEF Window
    <3> QED BY <2>2, <3>1, <3>2
  <2>5. /\ Fetched(m, f) \in [Window -> SUBSET Bits]
        /\ \A k \in 0..(n - 1) : f + k < e => Fetched(m, f)[k] = m[f + k]
    <3> HIDE DEF m
    <3>1. \A k \in 0..(n - 1) : f + k < e => f + k \in Words
      BY <2>3, BlockAssumption DEF Words
    <3>2. Window = 0..(n - 1)
      BY <2>3 DEF Window
    <3> QED BY <2>4, <3>1, <3>2 DEF Fetched, Junk
  <2> HIDE DEF m
  <2>6. Good(h) /\ Inside(h, i)
    <3>1. Window = 0..(n - 1)
      BY <2>3 DEF Window
    <3>2. Word(i) \in f..(f + n - 1)
      BY <2>3, FromAt
    <3>3. Initialised => f + n <= WindowWords(size)
      <4>1. Initialised => i \in 0..(size - 1)
        BY Layout
      <4> QED BY <2>3, <4>1, MapPlace
    <3>4. h \in [offset : Nat, modified : {0, 1}, words : [Window -> SUBSET Bits],
                 mram : [Words -> SUBSET Bits]]
      BY <2>3, <2>4, <2>5
    <3>5. \A k \in Window : h.offset + k < start => h.words[k] = h.mram[h.offset + k]
      BY <2>3, <2>5, <3>1
    <3>6. Good(h)
      BY <2>3, <3>3, <3>4, <3>5 DEF Good
    <3> QED BY <2>3, <3>2, <3>6 DEF Inside
  <2>7. ASSUME Usable, NEW j \in 0..(size - 1)
        PROVE  MarkedIn(h, j) = MarkedIn(c, j)
    <3>1. Word(j) \in Nat /\ Word(j) \in Words /\ Word(j) < e
      BY <2>3, <2>7, MapPlace
    <3>2. MarkedIn(h, j) = (Bit(j) \in m[Word(j)])
      <4>1. CASE Word(j) \in f..(f + n - 1)
        <5>1. Word(j) - f \in 0..(n - 1) /\ f + (Word(j) - f) = Word(j)
          BY <2>3, <3>1, <4>1
        <5> QED BY <2>3, <2>5, <3>1, <4>1, <5>1 DEF MarkedIn, Inside, IsSet
      <4>2. CASE Word(j) \notin f..(f + n - 1)
        BY <2>3, <4>2 DEF MarkedIn, Inside
      <4> QED BY <4>1, <4>2
    <3>3. MarkedIn(c, j) = (Bit(j) \in m[Word(j)])
      <4>1. CASE Word(j) \in o..(o + n - 1)
        <5>1. Word(j) - o \in 0..(n - 1) /\ o + (Word(j) - o) = Word(j)
          BY <2>3, <3>1, <4>1
        <5> QED BY <2>3, <2>4, <3>1, <4>1, <5>1 DEF MarkedIn, Inside, IsSet
      <4>2. CASE Word(j) \notin o..(o + n - 1)
        BY <2>3, <2>4, <3>1, <4>2 DEF MarkedIn, Inside
      <4> QED BY <4>1, <4>2
    <3> QED BY <3>2, <3>3
  <2>8. Behind(h, c)
    <3>1. ASSUME Initialised, NEW w \in Words, w >= WindowWords(size)
          PROVE  h.mram[w] = c.mram[w]
      <4>1. size \in Nat /\ 0 \in 0..(size - 1)
        BY <3>1, Layout DEF Initialised
      <4>2. PICK q \in Nat : q = WindowWords(size)
        BY <4>1, MapPlace
      <4>3. o + n <= q /\ w >= q /\ w \in Nat
        BY <2>2, <2>3, <3>1, <4>2 DEF Words
      <4>4. w \notin o..(o + n - 1)
        BY <4>3
      <4> QED BY <2>4, <4>4
    <3> QED BY <3>1 DEF Behind
  <2> QED BY <2>1, <2>6, <2>7, <2>8
<1> QED BY <1>1, <1>2

-----------------------------------------------------------------------------
(* A word of the window is replaced by S: only the bits of that word       *)
(* change.                                                                 *)
Edited(c, i, S) == [c EXCEPT !.words[Word(i) - c.offset] = S, !.modified = 1]

LEMMA EditedGood ==
  ASSUME TypeOK, NEW c, Good(c), NEW i \in Nat, Inside(c, i), NEW S \in SUBSET Bits
  PROVE  /\ Good(Edited(c, i, S)) /\ Edited(c, i, S).mram = c.mram
         /\ c.words[Word(i) - c.offset] \in SUBSET Bits
         /\ \A j \in Nat :
              MarkedIn(Edited(c, i, S), j) <=>
                IF Word(j) = Word(i) THEN Bit(j) \in S ELSE MarkedIn(c, j)
         /\ \A j \in Nat :
              Word(j) = Word(i) => (MarkedIn(c, j) <=> Bit(j) \in c.words[Word(i) - c.offset])
<1> DEFINE x == Word(i) - c.offset
           s == [offset |-> c.offset, modified |-> 1, words |-> [c.words EXCEPT ![x] = S],
                 mram |-> c.mram]
<1>1. /\ c.offset \in Nat /\ c.modified \in {0, 1} /\ c.words \in [Window -> SUBSET Bits]
      /\ c.mram \in [Words -> SUBSET Bits]
      /\ Initialised => c.offset + CacheWords <= WindowWords(size)
      /\ c = [offset |-> c.offset, modified |-> c.modified, words |-> c.words, mram |-> c.mram]
  BY DEF Good
<1>2. CacheWords \in Nat /\ \A j \in Nat : Word(j) \in Nat
  BY BlockAssumption, BitAt
<1>3. x \in Window
  <2>1. Word(i) \in c.offset..(c.offset + CacheWords - 1)
    BY DEF Inside
  <2> QED BY <1>1, <1>2, <2>1 DEF Window
<1>4. Edited(c, i, S) = s
  <2> DEFINE d == [c EXCEPT !.words[x] = S]
  <2>1. d = [offset |-> c.offset, modified |-> c.modified, words |-> [c.words EXCEPT ![x] = S],
             mram |-> c.mram]
    <3> HIDE DEF x
    <3> QED BY <1>1
  <2>2. Edited(c, i, S) = [d EXCEPT !.modified = 1]
    BY DEF Edited
  <2> HIDE DEF d, x
  <2>3. [d EXCEPT !.modified = 1] = s
    BY <2>1
  <2> QED BY <2>2, <2>3
<1>5. [c.words EXCEPT ![x] = S] \in [Window -> SUBSET Bits]
  BY <1>1, <1>3
<1>6. Good(s)
  <2> HIDE DEF x
  <2> QED BY <1>1, <1>5 DEF Good
<1>7. ASSUME NEW j \in Nat
      PROVE  MarkedIn(s, j) <=> IF Word(j) = Word(i) THEN Bit(j) \in S ELSE MarkedIn(c, j)
  <2>1. CASE Word(j) = Word(i)
    <3>1. Inside(s, j) /\ s.words[Word(j) - s.offset] = S
      BY <1>1, <1>3, <2>1 DEF Inside
    <3> HIDE DEF s
    <3> QED BY <2>1, <3>1 DEF MarkedIn, IsSet
  <2>2. CASE Word(j) # Word(i) /\ Inside(c, j)
    <3>1. Word(j) - c.offset # x /\ Word(j) - c.offset \in Window
      <4>1. Word(j) \in c.offset..(c.offset + CacheWords - 1)
        BY <2>2 DEF Inside
      <4> QED BY <1>1, <1>2, <2>2, <4>1 DEF Window
    <3>2. Inside(s, j) /\ s.words[Word(j) - s.offset] = c.words[Word(j) - c.offset]
      <4>1. Inside(s, j)
        BY <2>2 DEF Inside
      <4> HIDE DEF x
      <4> QED BY <1>1, <3>1, <4>1
    <3> HIDE DEF s
    <3> QED BY <2>2, <3>2 DEF MarkedIn, IsSet
  <2>3. CASE Word(j) # Word(i) /\ ~Inside(c, j)
    <3>1. ~Inside(s, j) /\ s.mram = c.mram
      BY <2>3 DEF Inside
    <3> HIDE DEF s
    <3> QED BY <2>3, <3>1 DEF MarkedIn
  <2> QED BY <2>1, <2>2, <2>3
<1>8. ASSUME NEW j \in Nat, Word(j) = Word(i)
      PROVE  MarkedIn(c, j) <=> Bit(j) \in c.words[x]
  <2>1. Inside(c, j) /\ Word(j) - c.offset = x
    BY <1>8 DEF Inside
  <2> QED BY <2>1 DEF MarkedIn, IsSet
<1>9. c.words[x] \in SUBSET Bits
  BY <1>1, <1>3
<1>10. s.mram = c.mram
  OBVIOUS
<1> HIDE DEF s
<1> QED BY <1>4, <1>6, <1>7, <1>8, <1>9, <1>10

(* One bit is set or cleared, and no other.                                *)
LEMMA SetGood ==
  ASSUME TypeOK, NEW c, Good(c), NEW i \in Nat, Inside(c, i)
  PROVE  /\ Good(SetBit(c, i)) /\ SetBit(c, i).mram = c.mram
         /\ \A j \in Nat : MarkedIn(SetBit(c, i), j) <=> (j = i \/ MarkedIn(c, j))
<1> DEFINE S == c.words[Word(i) - c.offset] \cup {Bit(i)}
<1>1. Bit(i) \in Bits
  BY BitAt
<1>2. S \in SUBSET Bits
  BY <1>1, EditedGood
<1>3. SetBit(c, i) = Edited(c, i, S)
  <2>1. c = [offset |-> c.offset, modified |-> c.modified, words |-> c.words, mram |-> c.mram]
    BY DEF Good
  <2> QED BY <2>1 DEF SetBit, Edited
<1>4. ASSUME NEW j \in Nat
      PROVE  MarkedIn(Edited(c, i, S), j) <=> (j = i \/ MarkedIn(c, j))
  <2>1. MarkedIn(Edited(c, i, S), j) <=>
          IF Word(j) = Word(i) THEN Bit(j) \in S ELSE MarkedIn(c, j)
    <3> HIDE DEF S
    <3> QED BY <1>2, EditedGood
  <2>2. Word(j) = Word(i) => (MarkedIn(c, j) <=> Bit(j) \in c.words[Word(i) - c.offset])
    BY <1>2, EditedGood
  <2>3. (Word(j) = Word(i) /\ Bit(j) = Bit(i)) => j = i
    BY SameBit
  <2> QED BY <2>1, <2>2, <2>3
<1>5. Good(Edited(c, i, S)) /\ Edited(c, i, S).mram = c.mram
  <2> HIDE DEF S
  <2> QED BY <1>2, EditedGood
<1> HIDE DEF S
<1> QED BY <1>3, <1>4, <1>5

LEMMA ClearGood ==
  ASSUME TypeOK, NEW c, Good(c), NEW i \in Nat, Inside(c, i)
  PROVE  /\ Good(ClearBit(c, i)) /\ ClearBit(c, i).mram = c.mram
         /\ \A j \in Nat : MarkedIn(ClearBit(c, i), j) <=> (j # i /\ MarkedIn(c, j))
<1> DEFINE S == c.words[Word(i) - c.offset] \ {Bit(i)}
<1>1. Bit(i) \in Bits
  BY BitAt
<1>2. S \in SUBSET Bits
  BY <1>1, EditedGood
<1>3. ClearBit(c, i) = Edited(c, i, S)
  <2>1. c = [offset |-> c.offset, modified |-> c.modified, words |-> c.words, mram |-> c.mram]
    BY DEF Good
  <2> QED BY <2>1 DEF ClearBit, Edited
<1>4. ASSUME NEW j \in Nat
      PROVE  MarkedIn(Edited(c, i, S), j) <=> (j # i /\ MarkedIn(c, j))
  <2>1. MarkedIn(Edited(c, i, S), j) <=>
          IF Word(j) = Word(i) THEN Bit(j) \in S ELSE MarkedIn(c, j)
    <3> HIDE DEF S
    <3> QED BY <1>2, EditedGood
  <2>2. Word(j) = Word(i) => (MarkedIn(c, j) <=> Bit(j) \in c.words[Word(i) - c.offset])
    BY <1>2, EditedGood
  <2>3. (Word(j) = Word(i) /\ Bit(j) = Bit(i)) => j = i
    BY SameBit
  <2> QED BY <2>1, <2>2, <2>3
<1>5. Good(Edited(c, i, S)) /\ Edited(c, i, S).mram = c.mram
  <2> HIDE DEF S
  <2> QED BY <1>2, EditedGood
<1> HIDE DEF S
<1> QED BY <1>3, <1>4, <1>5

(* The search from bit i on ends at the first bit that is clear, or behind *)
(* the last.                                                               *)
LEMMA ScanRight ==
  ASSUME TypeOK, Placed, HeadMade, NEW c, Good(c), NEW i \in Nat, i < head.size
  PROVE  /\ Good(Scan(c, i).c) /\ Behind(Scan(c, i).c, c)
         /\ Usable => \A j \in 0..(size - 1) : MarkedIn(Scan(c, i).c, j) = MarkedIn(c, j)
         /\ Scan(c, i).first \in i..head.size
         /\ Usable =>
              \/ /\ Scan(c, i).first = size
                 /\ \A j \in i..(size - 1) : MarkedIn(c, j)
              \/ /\ Scan(c, i).first \in i..(size - 1)
                 /\ ~MarkedIn(c, Scan(c, i).first)
                 /\ \A j \in i..(size - 1) : ~MarkedIn(c, j) => Scan(c, i).first <= j
<1>1. head.size \in Nat /\ (Initialised => head.size = size) /\ (Usable => Initialised)
  BY DEF TypeOK, Heads, HeadMade, Usable
<1> DEFINE free == {j \in i..(head.size - 1) : ~IsSet(Hit(c, j), j)}
<1>2. ASSUME Usable, NEW j \in i..(size - 1)
      PROVE  j \in free <=> ~MarkedIn(c, j)
  <2>1. j \in 0..(size - 1) /\ j \in Nat /\ j < size /\ j \in i..(head.size - 1)
    BY <1>1, <1>2
  <2>2. Inside(Hit(c, j), j) /\ MarkedIn(Hit(c, j), j) = MarkedIn(c, j)
    BY <1>2, <2>1, HitGood
  <2> QED BY <2>1, <2>2 DEF MarkedIn
<1>3. CASE free = {}
  <2>1. Scan(c, i) = [c |-> Hit(c, head.size - 1), first |-> head.size]
    BY <1>3 DEF Scan
  <2>2. head.size - 1 \in Nat /\ (Initialised => head.size - 1 < size)
    BY <1>1
  <2>3. Usable => \A j \in i..(size - 1) : MarkedIn(c, j)
    BY <1>2, <1>3
  <2> HIDE DEF free
  <2>4. Good(Scan(c, i).c) /\ Behind(Scan(c, i).c, c)
        /\ (Usable => \A j \in 0..(size - 1) : MarkedIn(Scan(c, i).c, j) = MarkedIn(c, j))
    BY <2>1, <2>2, HitGood
  <2> QED BY <1>1, <2>1, <2>3, <2>4
<1>4. CASE free # {}
  <2> DEFINE f == CHOOSE j \in free : \A k \in free : j <= k
  <2>1. Scan(c, i) = [c |-> Hit(c, f), first |-> f]
    BY <1>4 DEF Scan
  <2>2. free \subseteq Nat
    BY <1>1
  <2>3. f \in free /\ \A k \in free : f <= k
    <3> HIDE DEF free
    <3>1. \E j \in free : \A k \in free : j <= k
      BY <1>4, <2>2, Least
    <3> QED BY <3>1
  <2>4. f \in i..(head.size - 1)
    BY <2>3
  <2> HIDE DEF f
  <2>5. f \in Nat /\ (Initialised => f < size) /\ f \in i..head.size
    BY <1>1, <2>4
  <2>6. Usable => ~MarkedIn(c, f) /\ \A j \in i..(size - 1) : ~MarkedIn(c, j) => f <= j
    BY <1>1, <1>2, <2>3, <2>4
  <2> HIDE DEF free
  <2>7. Good(Scan(c, i).c) /\ Behind(Scan(c, i).c, c)
        /\ (Usable => \A j \in 0..(size - 1) : MarkedIn(Scan(c, i).c, j) = MarkedIn(c, j))
    BY <2>1, <2>5, HitGood
  <2> QED BY <1>1, <2>1, <2>4, <2>5, <2>6, <2>7
<1> QED BY <1>3, <1>4

-----------------------------------------------------------------------------
(* A range of words is copied into MRAM.                                   *)
LEMMA CopiedRight ==
  ASSUME NEW m \in [Words -> SUBSET Bits], NEW from \in Nat, NEW n \in Nat, NEW f,
         \A k \in 0..(n - 1) : f[k] \in SUBSET Bits
  PROVE  /\ Copied(m, from, f, n) \in [Words -> SUBSET Bits]
         /\ \A k \in 0..(n - 1) : from + k \in Words => Copied(m, from, f, n)[from + k] = f[k]
         /\ \A w \in Words : ~(from <= w /\ w < from + n) => Copied(m, from, f, n)[w] = m[w]
<1>1. Words \subseteq Nat
  BY DEF Words
<1>2. ASSUME NEW w \in Words, w \in from..(from + n - 1)
      PROVE  w - from \in 0..(n - 1)
  BY <1>1, <1>2
<1>3. Copied(m, from, f, n) \in [Words -> SUBSET Bits]
  BY <1>2 DEF Copied
<1>4. ASSUME NEW k \in 0..(n - 1), from + k \in Words
      PROVE  Copied(m, from, f, n)[from + k] = f[k]
  <2>1. from + k \in from..(from + n - 1) /\ (from + k) - from = k
    OBVIOUS
  <2> QED BY <1>4, <2>1 DEF Copied
<1>5. ASSUME NEW w \in Words, ~(from <= w /\ w < from + n)
      PROVE  Copied(m, from, f, n)[w] = m[w]
  <2>1. w \notin from..(from + n - 1)
    BY <1>1, <1>5
  <2> QED BY <2>1 DEF Copied
<1> QED BY <1>3, <1>4, <1>5

-----------------------------------------------------------------------------
LEMMA InitInv ==
  ASSUME Init
  PROVE  IndInv
<1>1. /\ mram = [w \in Words |-> Junk] /\ saved \in Heads /\ head = NewHead(0) /\ start = 0
      /\ size = 0 /\ avail = 0
      /\ cache = [offset |-> 0, modified |-> 0, words |-> [k \in Window |-> {}]]
      /\ held = {} /\ data = [b \in {} |-> Unwritten]
      /\ LastWord \in Nat /\ BlockWords \in Nat
  BY BlockAssumption DEF Init
<1>2. 0..(size - 1) = {} /\ ~Initialised /\ ~Usable
  BY <1>1 DEF Initialised, Usable
<1>3. mram \in [Words -> SUBSET Bits]
  BY <1>1 DEF Junk
<1>4. TypeOK
  <2>1. head \in Heads
    BY <1>1 DEF NewHead, Heads
  <2>2. data \in [0..(size - 1) -> {Unwritten, {}, Bits}]
    BY <1>1, <1>2
  <2> QED BY <1>1, <1>3, <2>1, <2>2 DEF TypeOK
<1>5. WindowInv
  BY <1>1, <1>2, <1>3 DEF WindowInv, Good, Opened, Window
<1>6. Placed
  BY <1>1 DEF Placed
<1> QED BY <1>2, <1>4, <1>5, <1>6 DEF IndInv, HeadMade, MarksAreHolders, HeadRight, BlockDataKept

-----------------------------------------------------------------------------
(* The operations on the bitmap end by storing a good window.              *)
LEMMA Settled ==
  ASSUME TypeOK, Placed, NEW c, Good(c), Stored(c), UNCHANGED <<start, size>>
  PROVE  /\ mram' \in [Words -> SUBSET Bits]
         /\ cache' \in [offset : Nat, modified : {0, 1}, words : [Window -> SUBSET Bits]]
         /\ Placed' /\ WindowInv'
         /\ \A j : j \in Clear' <=> j \in 0..(size - 1) /\ ~MarkedIn(c, j)
<1>1. /\ c.offset \in Nat /\ c.modified \in {0, 1} /\ c.words \in [Window -> SUBSET Bits]
      /\ c.mram \in [Words -> SUBSET Bits]
      /\ c = [offset |-> c.offset, modified |-> c.modified, words |-> c.words, mram |-> c.mram]
  BY DEF Good
<1>2. /\ mram' = c.mram /\ start' = start /\ size' = size
      /\ cache' = [offset |-> c.offset, modified |-> c.modified, words |-> c.words]
  BY DEF Stored
<1>3. Opened' = c
  BY <1>1, <1>2 DEF Opened
<1>4. WindowInv'
  BY <1>2, <1>3 DEF Good, Initialised, WindowInv
<1>5. Placed'
  BY <1>2 DEF Placed
<1>6. \A j : Marked(j)' <=> MarkedIn(c, j)
  BY <1>3 DEF Marked, MarkedIn, Inside, IsSet
<1>7. \A j : j \in Clear' <=> j \in 0..(size - 1) /\ ~MarkedIn(c, j)
  BY <1>2, <1>6 DEF Clear
<1> QED BY <1>1, <1>2, <1>4, <1>5, <1>7

(* What holds in a state with a usable allocator.                          *)
LEMMA Now ==
  ASSUME IndInv, Usable
  PROVE  /\ \A j : j \in Clear <=> j \in 0..(size - 1) /\ ~MarkedIn(Opened, j)
         /\ Clear = (0..(size - 1)) \ held
         /\ IsFiniteSet(Clear) /\ Cardinality(Clear) = avail /\ avail \in Nat
         /\ head.first \in Clear \cup {size} /\ \A i \in Clear : head.first <= i
         /\ head.full = 1 <=> Clear = {}
         /\ head.size = size /\ size \in Nat /\ size > 0 /\ Initialised
<1>1. TypeOK /\ Placed /\ HeadMade /\ MarksAreHolders /\ HeadRight /\ Initialised
  BY DEF IndInv, Usable
<1>2. size \in Nat /\ size > 0 /\ head.size = size /\ avail \in Nat
  BY <1>1 DEF TypeOK, HeadMade, Initialised
<1>3. IsFiniteSet(Clear)
  <2>1. IsFiniteSet(0..(size - 1))
    BY <1>2, FS_Interval
  <2> QED BY <2>1, FS_Subset DEF Clear
<1>4. \A j : j \in Clear <=> j \in 0..(size - 1) /\ ~MarkedIn(Opened, j)
  BY DEF Clear, Marked
<1>5. Clear = (0..(size - 1)) \ held
  BY <1>1 DEF MarksAreHolders
<1>6. /\ Cardinality(Clear) = avail
      /\ head.first \in Clear \cup {size} /\ \A i \in Clear : head.first <= i
      /\ head.full = 1 <=> Clear = {}
  BY <1>1 DEF HeadRight
<1> QED BY <1>1, <1>2, <1>3, <1>4, <1>5, <1>6

LEMMA Ranges ==
  ASSUME NEW s \in Nat, NEW p \in Nat, NEW b \in Nat, NEW z \in Nat, NEW e \in Nat,
         p + b <= z, s + z <= e + 1
  PROVE  \A w \in (s + p)..(s + p + b - 1) : w \in 0..e /\ w >= s + p
OBVIOUS

LEMMA RangesApart ==
  ASSUME NEW s \in Nat, NEW p \in Nat, NEW b \in Nat, NEW u \in Nat, p + b <= u
  PROVE  ((s + p)..(s + p + b - 1)) \cap ((s + u)..(s + u + b - 1)) = {}
OBVIOUS

(* Blocks lie behind the start, apart from each other.                     *)
LEMMA BlocksApart ==
  ASSUME TypeOK, Placed, NEW i \in 0..(size - 1), NEW j \in 0..(size - 1)
  PROVE  /\ \A w \in BlockRange(i) : w \in Words /\ w \in Nat /\ w >= start
                                     /\ w >= start + i * BlockWords
         /\ i * BlockWords \in Nat
         /\ i # j => BlockRange(i) \cap BlockRange(j) = {}
<1> USE BlockAssumption
<1>1. PICK s \in Nat, n \in Nat, b \in Nat \ {0} :
        s = start /\ n = size /\ b = BlockWords /\ s + n * b <= LastWord + 1
  BY Layout DEF Placed
<1>2. ASSUME NEW k \in 0..(n - 1)
      PROVE  k * b \in Nat /\ k * b + b <= n * b
  <2>1. k \in Nat /\ k + 1 \in Nat /\ k + 1 <= n
    OBVIOUS
  <2>2. (k + 1) * b <= n * b
    BY <1>1, <2>1, MulMono
  <2>3. k * b \in Nat /\ (k + 1) * b = k * b + b
    BY <1>1, <2>1
  <2> QED BY <1>1, <2>2, <2>3
<1>3. ASSUME NEW k \in 0..(n - 1), NEW l \in 0..(n - 1), k < l
      PROVE  k * b + b <= l * b
  <2>1. k + 1 \in Nat /\ l \in Nat /\ k + 1 <= l
    BY <1>3
  <2>2. (k + 1) * b <= l * b
    BY <1>1, <2>1, MulMono
  <2> QED BY <2>1, <2>2
<1>4. n * b \in Nat
  BY <1>1
<1>5. i \in 0..(n - 1) /\ j \in 0..(n - 1)
  BY <1>1
<1>6. PICK p \in Nat, u \in Nat :
        /\ p = i * b /\ u = j * b /\ p + b <= n * b
        /\ BlockRange(i) = (s + p)..(s + p + b - 1) /\ BlockRange(j) = (s + u)..(s + u + b - 1)
  BY <1>1, <1>2, <1>5 DEF BlockRange
<1>7. \A w \in BlockRange(i) : w \in 0..LastWord /\ w >= s + p
  BY <1>1, <1>4, <1>6, Ranges
<1>8. i < j => p + b <= u
  BY <1>3, <1>5, <1>6
<1>9. j < i => u + b <= p
  BY <1>3, <1>5, <1>6
<1>10. ASSUME p + b <= u PROVE BlockRange(i) \cap BlockRange(j) = {}
  BY <1>1, <1>6, <1>10, RangesApart
<1>11. ASSUME u + b <= p PROVE BlockRange(j) \cap BlockRange(i) = {}
  BY <1>1, <1>6, <1>11, RangesApart
<1>12. i # j => i < j \/ j < i
  BY <1>5
<1>13. \A w \in BlockRange(i) : w \in Words /\ w \in Nat /\ w >= start /\ w >= start + i * BlockWords
  BY <1>1, <1>6, <1>7 DEF Words
<1> QED BY <1>1, <1>6, <1>8, <1>9, <1>10, <1>11, <1>12, <1>13

(* What holders wrote is kept by a step that leaves the words behind the   *)
(* windows alone.                                                          *)
LEMMA DataStays ==
  ASSUME IndInv, UNCHANGED <<start, size>>,
         Initialised => \A w \in Words : w >= WindowWords(size) => mram'[w] = mram[w],
         \A i \in held' : data'[i] # Unwritten => i \in held /\ data'[i] = data[i]
  PROVE  BlockDataKept'
<1>1. TypeOK /\ Placed /\ BlockDataKept /\ held \subseteq 0..(size - 1)
  BY DEF IndInv, TypeOK
<1>2. (\A i : BlockRange(i)' = BlockRange(i)) /\ Initialised' = Initialised
  BY DEF BlockRange, Initialised
<1>3. ASSUME Initialised, NEW i \in held', start + i * BlockWords >= WindowWords(size),
             data'[i] # Unwritten, NEW w \in BlockRange(i)
      PROVE  mram'[w] = data'[i]
  <2>1. i \in held /\ data'[i] = data[i] /\ i \in 0..(size - 1)
    BY <1>1, <1>3
  <2>2. w \in Words /\ w \in Nat /\ w >= start + i * BlockWords /\ i * BlockWords \in Nat
    BY <1>1, <1>3, <2>1, BlocksApart
  <2>3. w >= WindowWords(size)
    <3>1. start \in Nat /\ WindowWords(size) \in Nat
      BY <1>1, <2>1, Layout, MapPlace
    <3> QED BY <1>3, <2>2, <3>1
  <2>4. mram[w] = data[i]
    BY <1>1, <1>3, <2>1 DEF BlockDataKept, Kept
  <2> QED BY <1>3, <2>1, <2>2, <2>3, <2>4
<1> QED BY <1>2, <1>3 DEF BlockDataKept, Kept, WindowWords

-----------------------------------------------------------------------------
(* block_mram_allocator_alloc when the bitmap has the first available bit:  *)
(* the bit is marked and the next one found.                               *)
LEMMA TakenRight ==
  ASSUME IndInv, NEW i, i = head.first, i < head.size, NEW r,
         r = Scan(SetBit(Hit(Opened, i), i), i), Stored(r.c), UNCHANGED <<start, size>>
  PROVE  /\ mram' \in [Words -> SUBSET Bits]
         /\ cache' \in [offset : Nat, modified : {0, 1}, words : [Window -> SUBSET Bits]]
         /\ Placed' /\ WindowInv' /\ i \in Nat /\ r.first \in i..head.size
         /\ Initialised => \A w \in Words : w >= WindowWords(size) => mram'[w] = mram[w]
         /\ Usable =>
              /\ Clear' = Clear \ {i}
              /\ \/ r.first = size /\ \A j \in Clear' : j < i
                 \/ r.first \in Clear' /\ \A j \in Clear' : j >= i => r.first <= j
<1> DEFINE h == Hit(Opened, i)
           s == SetBit(h, i)
<1>1. /\ TypeOK /\ Placed /\ HeadMade /\ Good(Opened) /\ i \in Nat /\ size \in Nat
      /\ head.size \in Nat
  BY DEF IndInv, WindowInv, TypeOK, Heads
<1>2. /\ Initialised => i < size /\ head.size = size
      /\ Usable => Initialised
  BY <1>1 DEF HeadMade, Usable
<1>3. /\ Good(h) /\ Inside(h, i) /\ Behind(h, Opened)
      /\ Usable => \A j \in 0..(size - 1) : MarkedIn(h, j) = MarkedIn(Opened, j)
  BY <1>1, <1>2, HitGood
<1> HIDE DEF h
<1>4. /\ Good(s) /\ s.mram = h.mram
      /\ \A j \in Nat : MarkedIn(s, j) <=> (j = i \/ MarkedIn(h, j))
  BY <1>1, <1>3, SetGood
<1>5. r = Scan(s, i)
  BY DEF h
<1> HIDE DEF s
<1>6. /\ Good(r.c) /\ Behind(r.c, s) /\ r.first \in i..head.size
      /\ Usable => \A j \in 0..(size - 1) : MarkedIn(r.c, j) = MarkedIn(s, j)
      /\ Usable =>
           \/ /\ r.first = size
              /\ \A j \in i..(size - 1) : MarkedIn(s, j)
           \/ /\ r.first \in i..(size - 1)
              /\ ~MarkedIn(s, r.first)
              /\ \A j \in i..(size - 1) : ~MarkedIn(s, j) => r.first <= j
  BY <1>1, <1>4, <1>5, ScanRight
<1>7. /\ mram' \in [Words -> SUBSET Bits]
      /\ cache' \in [offset : Nat, modified : {0, 1}, words : [Window -> SUBSET Bits]]
      /\ Placed' /\ WindowInv'
      /\ \A j : j \in Clear' <=> j \in 0..(size - 1) /\ ~MarkedIn(r.c, j)
  BY <1>1, <1>6, Settled
<1>8. Initialised => \A w \in Words : w >= WindowWords(size) => mram'[w] = mram[w]
  BY <1>3, <1>4, <1>6 DEF Stored, Opened, Behind
<1>9. ASSUME Usable
      PROVE  /\ Clear' = Clear \ {i}
             /\ \/ r.first = size /\ \A j \in Clear' : j < i
                \/ r.first \in Clear' /\ \A j \in Clear' : j >= i => r.first <= j
  <2>1. \A j : j \in Clear <=> j \in 0..(size - 1) /\ ~MarkedIn(Opened, j)
    BY <1>9, Now
  <2>2. \A j : j \in Clear' <=> j \in 0..(size - 1) /\ ~MarkedIn(s, j)
    BY <1>6, <1>7, <1>9
  <2>3. \A j \in 0..(size - 1) : j \in Nat
    BY <1>1
  <2>4. Clear' = Clear \ {i}
    BY <1>3, <1>4, <1>9, <2>1, <2>2, <2>3
  <2>5. \A j \in Clear' : j \in Nat /\ ~MarkedIn(s, j) /\ (j >= i => j \in i..(size - 1))
    BY <1>1, <2>2
  <2>6. CASE r.first = size /\ \A j \in i..(size - 1) : MarkedIn(s, j)
    BY <1>1, <2>4, <2>5, <2>6
  <2>7. CASE /\ r.first \in i..(size - 1)
             /\ ~MarkedIn(s, r.first)
             /\ \A j \in i..(size - 1) : ~MarkedIn(s, j) => r.first <= j
    <3>1. r.first \in 0..(size - 1)
      BY <1>1, <2>7
    <3> QED BY <2>2, <2>4, <2>5, <2>7, <3>1
  <2> QED BY <1>6, <1>9, <2>6, <2>7
<1> QED BY <1>1, <1>6, <1>7, <1>8, <1>9

LEMMA AllocInv ==
  ASSUME IndInv, Alloc
  PROVE  IndInv'
<1> DEFINE i == head.first
           r == Scan(SetBit(Hit(Opened, i), i), i)
<1>1. /\ avail > 0 /\ avail' = avail - 1 /\ UNCHANGED <<saved, start, size>>
      /\ \/ /\ i < head.size /\ Stored(r.c)
            /\ head' = [head EXCEPT !.first = r.first, !.full = IF r.first = head.size THEN 1 ELSE @]
         \/ i >= head.size /\ UNCHANGED <<mram, cache, head>>
      /\ \/ i < size /\ held' = held \cup {i} /\ data' = [data EXCEPT ![i] = Unwritten]
         \/ i >= size /\ UNCHANGED <<held, data>>
  BY DEF Alloc
<1>2. /\ TypeOK /\ Placed /\ HeadMade /\ WindowInv /\ BlockDataKept
      /\ i \in Nat /\ size \in Nat /\ avail \in Nat /\ head \in Heads /\ saved \in Heads /\ start \in Nat
      /\ data \in [0..(size - 1) -> {Unwritten, {}, Bits}] /\ held \subseteq 0..(size - 1)
  BY DEF IndInv, TypeOK, Heads
<1>3. /\ held' \subseteq 0..(size - 1) /\ data' \in [0..(size - 1) -> {Unwritten, {}, Bits}]
      /\ \A k \in held' : data'[k] # Unwritten => k \in held /\ data'[k] = data[k]
  <2>1. CASE i < size /\ held' = held \cup {i} /\ data' = [data EXCEPT ![i] = Unwritten]
    <3>1. i \in 0..(size - 1)
      BY <1>2, <2>1
    <3> QED BY <1>2, <2>1, <3>1
  <2>2. CASE UNCHANGED <<held, data>>
    BY <1>2, <2>2
  <2> QED BY <1>1, <2>1, <2>2
<1>4. Usable' = Usable /\ Initialised' = Initialised
  BY <1>1 DEF Usable, Initialised, MapWords
<1>5. Usable => /\ Initialised /\ head.size = size /\ i < head.size /\ i < size /\ i \in Clear
  <2> HAVE Usable
  <2>1. /\ Clear = (0..(size - 1)) \ held /\ IsFiniteSet(Clear) /\ Cardinality(Clear) = avail
        /\ i \in Clear \cup {size} /\ \A k \in Clear : i <= k
        /\ head.size = size /\ Initialised
    BY Now
  <2>2. PICK k \in Clear : TRUE
    BY <1>1, <2>1, FS_EmptySet
  <2>3. k \in 0..(size - 1) /\ i <= k
    BY <2>1, <2>2
  <2> QED BY <1>2, <2>1, <2>3
<1>6. CASE i >= head.size /\ UNCHANGED <<mram, cache, head>>
  <2>1. ~Usable
    BY <1>2, <1>5, <1>6 DEF Heads
  <2>2. TypeOK'
    BY <1>1, <1>2, <1>3, <1>6 DEF TypeOK
  <2>3. Placed' /\ HeadMade' /\ WindowInv'
    BY <1>1, <1>2, <1>4, <1>6 DEF Placed, HeadMade, WindowInv, Good, Opened, WindowWords, MapWords
  <2>4. BlockDataKept'
    BY <1>1, <1>3, <1>6, DataStays
  <2> QED BY <1>4, <2>1, <2>2, <2>3, <2>4 DEF IndInv, MarksAreHolders, HeadRight
<1>7. CASE /\ i < head.size /\ Stored(r.c)
           /\ head' = [head EXCEPT !.first = r.first, !.full = IF r.first = head.size THEN 1 ELSE @]
  <2>1. /\ mram' \in [Words -> SUBSET Bits]
        /\ cache' \in [offset : Nat, modified : {0, 1}, words : [Window -> SUBSET Bits]]
        /\ Placed' /\ WindowInv' /\ r.first \in i..head.size
        /\ Initialised => \A w \in Words : w >= WindowWords(size) => mram'[w] = mram[w]
        /\ Usable =>
             /\ Clear' = Clear \ {i}
             /\ \/ r.first = size /\ \A j \in Clear' : j < i
                \/ r.first \in Clear' /\ \A j \in Clear' : j >= i => r.first <= j
    BY <1>1, <1>7, TakenRight
  <2> HIDE DEF r
  <2>2. /\ head'.size = head.size /\ head'.first = r.first /\ head' \in Heads
        /\ head'.full = (IF r.first = head.size THEN 1 ELSE head.full)
        /\ r.first \in Nat /\ r.first <= head.size
    <3>1. r.first \in Nat /\ r.first <= head.size
      BY <1>2, <2>1 DEF Heads
    <3> DEFINE d == [head EXCEPT !.first = r.first]
    <3>2. d.size = head.size /\ d.first = r.first /\ d.full = head.full /\ d \in Heads
      BY <1>2, <3>1 DEF Heads
    <3>3. head' = [d EXCEPT !.full = IF r.first = head.size THEN 1 ELSE @]
      BY <1>7
    <3> HIDE DEF d
    <3>4. /\ head'.size = head.size /\ head'.first = r.first /\ head' \in Heads
          /\ head'.full = (IF r.first = head.size THEN 1 ELSE head.full)
      BY <3>2, <3>3 DEF Heads
    <3> QED BY <3>1, <3>4
  <2>3. TypeOK'
    BY <1>1, <1>2, <1>3, <2>1, <2>2 DEF TypeOK
  <2>4. HeadMade'
    BY <1>1, <1>2, <1>4, <2>2 DEF HeadMade
  <2>5. BlockDataKept'
    BY <1>1, <1>3, <2>1, DataStays
  <2>6. MarksAreHolders' /\ HeadRight'
    <3> SUFFICES ASSUME Usable PROVE MarksAreHolders' /\ HeadRight'
      BY <1>4 DEF MarksAreHolders, HeadRight
    <3>1. /\ Clear = (0..(size - 1)) \ held /\ IsFiniteSet(Clear) /\ Cardinality(Clear) = avail
          /\ \A k \in Clear : i <= k
          /\ (head.full = 1 <=> Clear = {}) /\ head.size = size
      BY Now
    <3>2. i \in Clear /\ i < size /\ held' = held \cup {i}
      BY <1>1, <1>2, <1>5
    <3>3. Clear' = (0..(size - 1)) \ held'
      BY <2>1, <3>1, <3>2
    <3>4. MarksAreHolders'
      BY <1>1, <3>3 DEF MarksAreHolders
    <3>5. Cardinality(Clear') = avail'
      <4>1. Cardinality(Clear \ {i}) = Cardinality(Clear) - 1
        BY <3>1, <3>2, FS_RemoveElement
      <4>2. Clear' = Clear \ {i}
        BY <2>1
      <4> HIDE DEF i
      <4> QED BY <1>1, <3>1, <4>1, <4>2
    <3>6. \A k \in Clear' : k \in Nat /\ k >= i
      BY <1>2, <2>1, <3>1
    <3>7. \A k \in Clear' : ~(k < i)
      BY <1>2, <3>6
    <3>8. CASE r.first = size /\ \A j \in Clear' : j < i
      <4>1. Clear' = {}
        BY <3>7, <3>8
      <4>2. head'.first = size' /\ head'.full = 1 /\ size' = size
        BY <1>1, <2>2, <3>1, <3>8
      <4>3. \A k \in Clear' : head'.first <= k
        BY <4>1
      <4>4. head'.first \in Clear' \cup {size'} /\ (head'.full = 1 <=> Clear' = {})
        BY <4>1, <4>2
      <4>5. avail' = Cardinality(Clear')
        BY <3>5
      <4> QED BY <3>4, <4>3, <4>4, <4>5 DEF HeadRight
    <3>9. CASE r.first \in Clear' /\ \A j \in Clear' : j >= i => r.first <= j
      <4>1. \A j \in Clear' : r.first <= j
        BY <3>6, <3>9
      <4>2. r.first # head.size
        BY <1>2, <3>1, <3>3, <3>9
      <4>3. head'.full # 1 /\ Clear' # {}
        BY <2>2, <3>1, <3>2, <3>9, <4>2
      <4>4. head'.first \in Clear' /\ \A j \in Clear' : head'.first <= j
        BY <2>2, <3>9, <4>1
      <4>5. head'.first \in Clear' \cup {size'} /\ (head'.full = 1 <=> Clear' = {})
        BY <4>3, <4>4
      <4>6. avail' = Cardinality(Clear')
        BY <3>5
      <4> QED BY <3>4, <4>4, <4>5, <4>6 DEF HeadRight
    <3> QED BY <2>1, <3>4, <3>8, <3>9
  <2> QED BY <2>1, <2>3, <2>4, <2>5, <2>6 DEF IndInv
<1> QED BY <1>1, <1>6, <1>7

-----------------------------------------------------------------------------
LEMMA FreeInv ==
  ASSUME IndInv, NEW i \in DOMAIN data, Free(i)
  PROVE  IndInv'
<1> DEFINE h == Hit(Opened, i)
           s == ClearBit(h, i)
<1>1. /\ UNCHANGED <<saved, start, size>>
      /\ held' = held \ {i} /\ data' = [data EXCEPT ![i] = Unwritten]
      /\ \/ /\ i < head.size /\ Cleared(h, i) /\ Stored(s) /\ avail' = avail + 1
            /\ head' = [head EXCEPT !.first = FirstAfterClear(i), !.full = 0]
         \/ i < head.size /\ ~Cleared(h, i) /\ Stored(h) /\ UNCHANGED <<head, avail>>
         \/ i >= head.size /\ UNCHANGED <<mram, cache, head, avail>>
  BY DEF Free
<1>2. /\ TypeOK /\ Placed /\ HeadMade /\ WindowInv /\ Good(Opened)
      /\ size \in Nat /\ avail \in Nat /\ head \in Heads /\ saved \in Heads /\ start \in Nat
      /\ data \in [0..(size - 1) -> {Unwritten, {}, Bits}] /\ held \subseteq 0..(size - 1)
  BY DEF IndInv, TypeOK, WindowInv
<1>3. i \in 0..(size - 1) /\ i \in Nat /\ i < size
  BY <1>2
<1>4. /\ held' \subseteq 0..(size - 1) /\ data' \in [0..(size - 1) -> {Unwritten, {}, Bits}]
      /\ \A k \in held' : data'[k] # Unwritten => k \in held /\ data'[k] = data[k]
  BY <1>1, <1>2
<1>5. /\ Usable' = Usable /\ Initialised' = Initialised
      /\ Usable => Initialised /\ head.size = size
  BY <1>1, <1>2 DEF Usable, Initialised, MapWords, HeadMade
<1>6. /\ Good(h) /\ Inside(h, i) /\ Behind(h, Opened)
      /\ Usable => \A j \in 0..(size - 1) : MarkedIn(h, j) = MarkedIn(Opened, j)
  BY <1>2, <1>3, HitGood
<1>7. Good(s) /\ s.mram = h.mram /\ \A j \in Nat : MarkedIn(s, j) <=> (j # i /\ MarkedIn(h, j))
  <2> HIDE DEF h
  <2> QED BY <1>2, <1>3, <1>6, ClearGood
<1> HIDE DEF h, s
<1>8. CASE i >= head.size /\ UNCHANGED <<mram, cache, head, avail>>
  <2>1. ~Usable
    BY <1>2, <1>3, <1>5, <1>8 DEF Heads
  <2>2. TypeOK'
    BY <1>1, <1>2, <1>4, <1>8 DEF TypeOK
  <2>3. Placed' /\ HeadMade' /\ WindowInv'
    BY <1>1, <1>2, <1>5, <1>8 DEF Placed, HeadMade, WindowInv, Good, Opened, WindowWords, MapWords
  <2>4. BlockDataKept'
    BY <1>1, <1>4, <1>8, DataStays
  <2> QED BY <1>5, <2>1, <2>2, <2>3, <2>4 DEF IndInv, MarksAreHolders, HeadRight
<1>9. CASE i < head.size /\ ~Cleared(h, i) /\ Stored(h) /\ UNCHANGED <<head, avail>>
  <2>1. /\ mram' \in [Words -> SUBSET Bits]
        /\ cache' \in [offset : Nat, modified : {0, 1}, words : [Window -> SUBSET Bits]]
        /\ Placed' /\ WindowInv'
        /\ \A j : j \in Clear' <=> j \in 0..(size - 1) /\ ~MarkedIn(h, j)
    BY <1>1, <1>2, <1>6, <1>9, Settled
  <2>2. TypeOK' /\ HeadMade'
    BY <1>1, <1>2, <1>4, <1>5, <1>9, <2>1 DEF TypeOK, HeadMade
  <2>3. BlockDataKept'
    <3>1. Initialised => \A w \in Words : w >= WindowWords(size) => mram'[w] = mram[w]
      BY <1>6, <1>9 DEF Stored, Opened, Behind
    <3> QED BY <1>1, <1>4, <3>1, DataStays
  <2>4. Usable => Clear' = Clear /\ i \in Clear /\ held' = held
    <3> HAVE Usable
    <3>1. /\ \A j : j \in Clear <=> j \in 0..(size - 1) /\ ~MarkedIn(Opened, j)
          /\ Clear = (0..(size - 1)) \ held
      BY Now
    <3>2. ~MarkedIn(h, i)
      BY <1>6, <1>9 DEF Cleared, MarkedIn
    <3> QED BY <1>1, <1>3, <1>6, <2>1, <3>1, <3>2
  <2>5. MarksAreHolders' /\ HeadRight'
    BY <1>1, <1>5, <1>9, <2>4 DEF IndInv, MarksAreHolders, HeadRight
  <2> QED BY <2>1, <2>2, <2>3, <2>5 DEF IndInv
<1>10. CASE /\ i < head.size /\ Cleared(h, i) /\ Stored(s) /\ avail' = avail + 1
            /\ head' = [head EXCEPT !.first = FirstAfterClear(i), !.full = 0]
  <2>1. /\ mram' \in [Words -> SUBSET Bits]
        /\ cache' \in [offset : Nat, modified : {0, 1}, words : [Window -> SUBSET Bits]]
        /\ Placed' /\ WindowInv'
        /\ \A j : j \in Clear' <=> j \in 0..(size - 1) /\ ~MarkedIn(s, j)
    BY <1>1, <1>2, <1>7, <1>10, Settled
  <2>2. /\ head'.size = head.size /\ head'.full = 0 /\ head' \in Heads
        /\ head'.first = (IF i < head.first THEN i ELSE head.first)
    <3> DEFINE f == IF i < head.first THEN i ELSE head.first
               d == [head EXCEPT !.first = f]
    <3>1. f \in Nat
      BY <1>2, <1>3 DEF Heads
    <3>2. head' = [d EXCEPT !.full = 0]
      BY <1>10 DEF FirstAfterClear
    <3> HIDE DEF f
    <3>3. d.size = head.size /\ d.first = f /\ d \in Heads
      BY <1>2, <3>1 DEF Heads
    <3> HIDE DEF d
    <3>4. head'.size = head.size /\ head'.full = 0 /\ head'.first = f /\ head' \in Heads
      BY <3>2, <3>3 DEF Heads
    <3> QED BY <3>4 DEF f
  <2>3. TypeOK'
    BY <1>1, <1>2, <1>4, <1>10, <2>1, <2>2 DEF TypeOK
  <2>4. HeadMade'
    BY <1>1, <1>2, <1>3, <1>5, <2>2 DEF HeadMade, Heads
  <2>5. BlockDataKept'
    <3>1. Initialised => \A w \in Words : w >= WindowWords(size) => mram'[w] = mram[w]
      BY <1>6, <1>7, <1>10 DEF Stored, Opened, Behind
    <3> QED BY <1>1, <1>4, <3>1, DataStays
  <2>6. MarksAreHolders' /\ HeadRight'
    <3> SUFFICES ASSUME Usable PROVE MarksAreHolders' /\ HeadRight'
      BY <1>5 DEF MarksAreHolders, HeadRight
    <3>1. /\ \A j : j \in Clear <=> j \in 0..(size - 1) /\ ~MarkedIn(Opened, j)
          /\ Clear = (0..(size - 1)) \ held /\ IsFiniteSet(Clear) /\ Cardinality(Clear) = avail
          /\ head.first \in Clear \cup {size} /\ \A k \in Clear : head.first <= k
          /\ head.size = size
      BY Now
    <3>2. MarkedIn(h, i) /\ i \notin Clear
      <4>1. MarkedIn(h, i)
        BY <1>6, <1>10 DEF Cleared, MarkedIn
      <4> QED BY <1>3, <1>6, <3>1, <4>1
    <3>3. Clear' = Clear \cup {i}
      <4>1. \A j \in 0..(size - 1) : j \in Nat
        BY <1>2
      <4> QED BY <1>3, <1>6, <1>7, <2>1, <3>1, <4>1
    <3>4. Cardinality(Clear') = avail'
      <4>1. Cardinality(Clear \cup {i}) = Cardinality(Clear) + 1
        BY <3>1, <3>2, FS_AddElement
      <4> QED BY <1>10, <3>1, <3>3, <4>1
    <3>5. MarksAreHolders'
      BY <1>1, <1>3, <3>1, <3>3 DEF MarksAreHolders
    <3>6. head.first \in Nat /\ \A k \in Clear : k \in Nat
      BY <1>2, <3>1 DEF Heads
    <3>7. \A k \in Clear' : head'.first <= k
      BY <1>3, <2>2, <3>1, <3>3, <3>6
    <3>8. head'.first \in Clear'
      <4>1. CASE i < head.first
        BY <2>2, <3>3, <4>1
      <4>2. CASE ~(i < head.first)
        <5>1. head.first # size
          BY <1>2, <1>3, <4>2
        <5> QED BY <2>2, <3>1, <3>3, <4>2, <5>1
      <4> QED BY <4>1, <4>2
    <3>9. Clear' # {} /\ head'.full # 1
      BY <2>2, <3>8
    <3> QED BY <3>4, <3>5, <3>7, <3>8, <3>9 DEF HeadRight
  <2> QED BY <2>1, <2>3, <2>4, <2>5, <2>6 DEF IndInv
<1> QED BY <1>1, <1>8, <1>9, <1>10

-----------------------------------------------------------------------------
(* A save writes the window back and keeps it: the bits stay.              *)
LEMMA SaveInv ==
  ASSUME IndInv, Save
  PROVE  IndInv'
<1>1. /\ UNCHANGED <<head, start, size, avail, held, data>> /\ saved' = head
      /\ mram' = Copied(mram, cache.offset, cache.words, CacheWords)
      /\ cache' = [cache EXCEPT !.modified = 0]
  BY DEF Save
<1>2. /\ TypeOK /\ Placed /\ HeadMade /\ MarksAreHolders /\ HeadRight /\ head \in Heads
  BY DEF IndInv, TypeOK
<1>3. /\ cache.offset \in Nat /\ cache.words \in [Window -> SUBSET Bits]
      /\ mram \in [Words -> SUBSET Bits]
      /\ cache \in [offset : Nat, modified : {0, 1}, words : [Window -> SUBSET Bits]]
      /\ Initialised => cache.offset + CacheWords <= WindowWords(size)
  BY <1>2 DEF IndInv, WindowInv, Good, Opened, TypeOK
<1>4. PICK o \in Nat, n \in Nat \ {0} : o = cache.offset /\ n = CacheWords
  BY <1>3, BlockAssumption
<1> DEFINE c == [offset |-> o, modified |-> 0, words |-> cache.words, mram |-> mram']
<1>5. /\ start \in Nat /\ start <= LastWord + 1 /\ Words = 0..LastWord /\ LastWord \in Nat
      /\ Window = 0..(n - 1)
  BY <1>2, <1>4, Layout DEF Words, Window
<1>6. /\ mram' \in [Words -> SUBSET Bits]
      /\ \A k \in 0..(n - 1) : o + k \in Words => mram'[o + k] = cache.words[k]
      /\ \A w \in Words : ~(o <= w /\ w < o + n) => mram'[w] = mram[w]
  <2>1. \A k \in 0..(n - 1) : cache.words[k] \in SUBSET Bits
    BY <1>3, <1>5
  <2>2. mram' = Copied(mram, o, cache.words, n)
    BY <1>1, <1>4
  <2> QED BY <1>3, <2>1, <2>2, CopiedRight
<1>7. \A k \in 0..(n - 1) : o + k < start => o + k \in Words
  BY <1>5
<1>8. Good(c)
  BY <1>3, <1>4, <1>5, <1>6, <1>7 DEF Good
<1>9. Stored(c)
  BY <1>1, <1>3, <1>4 DEF Stored
<1>10. ASSUME Usable, NEW j \in 0..(size - 1)
       PROVE  MarkedIn(c, j) <=> MarkedIn(Opened, j)
  <2>1. Word(j) \in Nat /\ Word(j) \in Words
    BY <1>2, <1>10, MapPlace
  <2>2. CASE Word(j) \in o..(o + n - 1)
    <3>1. Inside(c, j) /\ Inside(Opened, j)
      BY <1>4, <2>2 DEF Inside, Opened
    <3> QED BY <1>4, <3>1 DEF MarkedIn, IsSet, Opened
  <2>3. CASE Word(j) \notin o..(o + n - 1)
    <3>1. ~Inside(c, j) /\ ~Inside(Opened, j)
      BY <1>4, <2>3 DEF Inside, Opened
    <3>2. mram'[Word(j)] = mram[Word(j)]
      BY <1>6, <2>1, <2>3
    <3> QED BY <3>1, <3>2 DEF MarkedIn, Opened
  <2> QED BY <2>2, <2>3
<1> HIDE DEF c
<1>11. /\ cache' \in [offset : Nat, modified : {0, 1}, words : [Window -> SUBSET Bits]]
       /\ Placed' /\ WindowInv'
       /\ \A j : j \in Clear' <=> j \in 0..(size - 1) /\ ~MarkedIn(c, j)
  BY <1>1, <1>2, <1>8, <1>9, Settled
<1>12. Usable => Clear' = Clear
  BY <1>10, <1>11 DEF Clear, Marked
<1>13. TypeOK'
  BY <1>1, <1>2, <1>6, <1>11 DEF TypeOK
<1>14. Usable' = Usable /\ Initialised' = Initialised
  BY <1>1 DEF Usable, Initialised, MapWords
<1>15. HeadMade' /\ MarksAreHolders' /\ HeadRight'
  BY <1>1, <1>2, <1>12, <1>14 DEF HeadMade, MarksAreHolders, HeadRight
<1>16. BlockDataKept'
  <2>1. ASSUME Initialised, NEW w \in Words, w >= WindowWords(size) PROVE mram'[w] = mram[w]
    <3>1. 0 \in 0..(size - 1)
      BY <1>2, <2>1, Layout DEF Initialised
    <3>2. PICK q \in Nat : q = WindowWords(size)
      BY <1>2, <3>1, MapPlace
    <3>3. o + n <= q /\ w \in Nat /\ w >= q
      BY <1>3, <1>4, <1>5, <2>1, <3>2
    <3>4. ~(o <= w /\ w < o + n)
      BY <3>3
    <3> QED BY <1>6, <3>4
  <2> QED BY <1>1, <2>1, DataStays
<1> QED BY <1>11, <1>13, <1>15, <1>16 DEF IndInv

-----------------------------------------------------------------------------
(* A holder writes into its own block.                                     *)
LEMMA WriteInv ==
  ASSUME IndInv, NEW i \in DOMAIN data, NEW pattern \in Patterns, Write(i, pattern)
  PROVE  IndInv'
<1>1. /\ i \in held /\ UNCHANGED <<saved, head, cache, start, size, avail, held>>
      /\ mram' = [w \in Words |-> IF w \in BlockRange(i) THEN pattern ELSE mram[w]]
      /\ data' = [data EXCEPT ![i] = pattern]
  BY DEF Write
<1>2. /\ TypeOK /\ Placed /\ HeadMade /\ WindowInv /\ MarksAreHolders /\ HeadRight /\ BlockDataKept
      /\ pattern \in {{}, Bits}
  BY PatternAssumption DEF IndInv
<1>3. i \in 0..(size - 1)
  BY <1>1, <1>2 DEF TypeOK
<1>4. mram' \in [Words -> SUBSET Bits]
  BY <1>1, <1>2 DEF TypeOK
<1>5. \A w \in Words : w < start => mram'[w] = mram[w]
  <2> TAKE w \in Words
  <2> HAVE w < start
  <2>1. w \notin BlockRange(i)
    <3>1. w \in Nat /\ start \in Nat
      BY <1>2, Layout DEF Words
    <3>2. w \in BlockRange(i) => w >= start
      BY <1>2, <1>3, BlocksApart
    <3> QED BY <3>1, <3>2
  <2> QED BY <1>1, <2>1
<1>6. TypeOK'
  <2>1. data' \in [0..(size - 1) -> {Unwritten, {}, Bits}]
    BY <1>1, <1>2 DEF TypeOK
  <2> QED BY <1>1, <1>2, <1>4, <2>1 DEF TypeOK
<1>7. /\ Placed' /\ Usable' = Usable /\ Initialised' = Initialised
      /\ WindowWords(size)' = WindowWords(size)
  BY <1>1, <1>2 DEF Placed, Usable, Initialised, MapWords, WindowWords
<1>8. WindowInv'
  <2>1. Good(Opened)
    BY <1>2 DEF WindowInv
  <2>2. cache.offset \in Nat
    BY <2>1 DEF Good, Opened
  <2>3. ASSUME NEW k \in Window, cache.offset + k < start
        PROVE  mram'[cache.offset + k] = mram[cache.offset + k]
    <3>1. cache.offset + k \in Words
      BY <1>2, <2>2, <2>3, Layout DEF Words, Window
    <3> QED BY <1>5, <2>3, <3>1
  <2>4. Good(Opened)'
    BY <1>1, <1>4, <1>7, <2>1, <2>3 DEF Good, Opened
  <2> QED BY <2>4 DEF WindowInv
<1>9. Usable => Clear' = Clear
  <2> HAVE Usable
  <2>1. ASSUME NEW j \in 0..(size - 1) PROVE Marked(j)' <=> Marked(j)
    <3>1. Word(j) \in Words /\ Word(j) < start
      BY <1>2, MapPlace
    <3>2. mram'[Word(j)] = mram[Word(j)]
      BY <1>5, <3>1
    <3> QED BY <1>1, <3>2 DEF Marked, MarkedIn, Inside, IsSet, Opened
  <2> QED BY <1>1, <2>1 DEF Clear
<1>10. HeadMade' /\ MarksAreHolders' /\ HeadRight'
  BY <1>1, <1>2, <1>7, <1>9 DEF HeadMade, MarksAreHolders, HeadRight
<1>11. BlockDataKept'
  <2>1. ASSUME Initialised, NEW j \in held, start + j * BlockWords >= WindowWords(size),
               data'[j] # Unwritten, NEW w \in BlockRange(j)
        PROVE  mram'[w] = data'[j]
    <3>1. j \in 0..(size - 1) /\ data \in [0..(size - 1) -> {Unwritten, {}, Bits}]
      BY <1>2 DEF TypeOK
    <3>2. w \in Words
      BY <1>2, <2>1, <3>1, BlocksApart
    <3>3. CASE j = i
      BY <1>1, <2>1, <3>1, <3>2, <3>3
    <3>4. CASE j # i
      <4>1. w \notin BlockRange(i)
        BY <1>2, <1>3, <2>1, <3>1, <3>4, BlocksApart
      <4>2. data'[j] = data[j] /\ mram'[w] = mram[w]
        BY <1>1, <3>1, <3>2, <3>4, <4>1
      <4>3. mram[w] = data[j]
        BY <1>2, <2>1, <4>2 DEF BlockDataKept, Kept
      <4> QED BY <4>2, <4>3
    <3> QED BY <3>3, <3>4
  <2>2. \A j : BlockRange(j)' = BlockRange(j)
    BY <1>1 DEF BlockRange
  <2> QED BY <1>1, <1>7, <2>1, <2>2 DEF BlockDataKept, Kept
<1> QED BY <1>6, <1>7, <1>8, <1>10, <1>11 DEF IndInv

-----------------------------------------------------------------------------
(* What init makes of a region: where the blocks begin and how many they    *)
(* are.                                                                    *)
LEMMA Made ==
  ASSUME NEW region \in Regions, region >= Reserved(region)
  PROVE  /\ Blocks(region) \in Nat /\ Base(region) - HeadWords \in Nat
         /\ (Base(region) - HeadWords) + Blocks(region) * BlockWords <= LastWord + 1
<1> USE BlockAssumption
<1>1. PICK b \in Nat \ {0}, h \in Nat, l \in Nat :
        b = BlockWords /\ h = HeadWords /\ l = LastWord
  OBVIOUS
<1>2. region \in Nat /\ region <= h + l + 1
  BY <1>1
<1>3. region \div b \in Nat
  BY <1>1, <1>2, Division
<1>4. ReservedWords(region \div b) \in Nat
  <2> DEFINE n == (region \div b) \div WordBits
  <2>1. n \in Nat
    BY <1>3, Division
  <2> HIDE DEF n
  <2>2. ReservedWords(region \div b) = IF n % WordBits # 0 THEN n + 1 ELSE n
    BY DEF ReservedWords, n
  <2> QED BY <2>1, <2>2
<1>5. PICK r \in Nat : r = Reserved(region) /\ h <= r
  BY <1>1, <1>4 DEF Reserved
<1>6. PICK a \in Nat : a = Base(region) /\ r <= a
  BY <1>5 DEF Base, Align8
<1>7. a <= region
  BY <1>6, RegionAssumption
<1>8. region - a \in Nat
  BY <1>2, <1>6, <1>7
<1>9. PICK n \in Nat, nb \in Nat : n = Blocks(region) /\ nb = n * b /\ nb <= region - a
  <2>1. Blocks(region) = (region - a) \div b
    BY <1>1, <1>6 DEF Blocks
  <2>2. (region - a) \div b \in Nat /\ ((region - a) \div b) * b <= region - a
    BY <1>8, Division
  <2> QED BY <2>1, <2>2
<1>10. a - h \in Nat /\ (a - h) + nb <= l + 1
  BY <1>2, <1>5, <1>6, <1>7, <1>9
<1> QED BY <1>1, <1>6, <1>9, <1>10

(* The map is cleared in pieces: all of its words, as far as MRAM goes.     *)
LEMMA MapCleared ==
  ASSUME NEW m \in [Words -> SUBSET Bits], NEW n \in Nat
  PROVE  LET new == Copied(m, 0, [k \in Nat |-> {}], ClearedWords(n)) IN
         /\ new \in [Words -> SUBSET Bits]
         /\ \A j \in 0..(n - 1) : Word(j) \in Words => new[Word(j)] = {}
<1> USE BlockAssumption
<1> DEFINE zero == [k \in Nat |-> {}]
           cleared == ClearedWords(n)
           new == Copied(m, 0, zero, cleared)
<1>1. MapWords(n) \in Nat
  <2>1. n \div WordBits \in Nat
    BY Division
  <2> QED BY <2>1 DEF MapWords
<1>2. cleared \in Nat
  <2>1. MapWords(n) + InitWords - 1 \in Nat
    BY <1>1
  <2>2. (MapWords(n) + InitWords - 1) \div InitWords \in Nat
    BY <2>1, Division
  <2> QED BY <2>2 DEF ClearedWords
<1>3. ASSUME NEW j \in 0..(n - 1) PROVE Word(j) \in Nat /\ Word(j) < cleared
  <2>1. Word(j) \in Nat /\ Word(j) < MapWords(n)
    BY WordInMap
  <2>2. /\ (Word(j) \div InitWords) * InitWords \in Nat
        /\ Word(j) < (Word(j) \div InitWords) * InitWords + InitWords
        /\ (Word(j) \div InitWords) * InitWords + InitWords
             <= InitWords * ((MapWords(n) + InitWords - 1) \div InitWords)
    BY <1>1, <2>1, RoundUp
  <2> DEFINE u == (Word(j) \div InitWords) * InitWords
  <2>3. u \in Nat /\ Word(j) < u + InitWords /\ u + InitWords <= cleared
    BY <2>2 DEF ClearedWords
  <2> HIDE DEF u, cleared
  <2> QED BY <1>2, <2>1, <2>3
<1> HIDE DEF cleared
<1>4. \A k \in 0..(cleared - 1) : k \in Nat /\ zero[k] = {} /\ 0 + k = k
  BY <1>2
<1> HIDE DEF zero
<1>5. /\ new \in [Words -> SUBSET Bits]
      /\ \A k \in 0..(cleared - 1) : k \in Words => new[k] = {}
  <2>1. \A k \in 0..(cleared - 1) : 0 + k \in Words => new[0 + k] = zero[k]
    BY <1>2, <1>4, CopiedRight
  <2>2. new \in [Words -> SUBSET Bits]
    BY <1>2, <1>4, CopiedRight
  <2> HIDE DEF new
  <2> QED BY <1>4, <2>1, <2>2
<1> HIDE DEF new
<1>6. \A j \in 0..(n - 1) : Word(j) \in Words => new[Word(j)] = {}
  BY <1>2, <1>3, <1>5
<1> QED BY <1>5, <1>6 DEF new, zero, cleared

LEMMA CreateInv ==
  ASSUME IndInv, NEW region \in Regions, Create(region)
  PROVE  IndInv'
<1>1. /\ size = 0 /\ region >= Reserved(region) /\ size' = Blocks(region)
      /\ start' = Base(region) - HeadWords /\ avail' = size' /\ head' = saved'
      /\ \/ /\ size' <= BitmapMax /\ saved' = NewHead(size')
            /\ mram' = Copied(mram, 0, [k \in Nat |-> {}], ClearedWords(size'))
         \/ size' > BitmapMax /\ saved' = saved /\ mram' = mram
      /\ cache' = [offset |-> 0, modified |-> 0, words |-> Fetched(mram', 0)]
      /\ data' = [b \in 0..(size' - 1) |-> Unwritten] /\ held' = held
  BY DEF Create
<1>2. /\ size' \in Nat /\ start' \in Nat /\ start' + size' * BlockWords <= LastWord + 1
      /\ BitmapMax \in Nat
  BY <1>1, Made, BlockAssumption
<1>3. PICK n \in Nat, e \in Nat, l \in Nat, c \in Nat \ {0} :
         n = size' /\ e = start' /\ l = LastWord /\ c = CacheWords /\ e <= l + 1
  <2>1. BlockWords \in Nat /\ LastWord \in Nat /\ CacheWords \in Nat \ {0}
    BY BlockAssumption
  <2>2. \A b, n, e, l \in Nat : e + n * b <= l + 1 => e <= l + 1
    BY SMTT(30)
  <2>3. start' <= LastWord + 1
    BY <1>2, <2>1, <2>2
  <2> QED BY <1>2, <2>1, <2>3
<1>4. held = {} /\ mram \in [Words -> SUBSET Bits] /\ saved \in Heads
  <2>1. 0..(size - 1) = {}
    BY <1>1
  <2> QED BY <2>1 DEF IndInv, TypeOK
<1>5. mram' \in [Words -> SUBSET Bits] /\ saved' \in Heads
  BY <1>1, <1>2, <1>4, MapCleared DEF NewHead, Heads
<1>6. \A k \in Window : Fetched(mram', 0)[k] = (IF k \in Words THEN mram'[k] ELSE Junk)
  <2>1. \A k \in Window : 0 + k = k
    BY DEF Window
  <2> QED BY <2>1 DEF Fetched
<1>7. Fetched(mram', 0) \in [Window -> SUBSET Bits]
  BY <1>5, <1>6 DEF Fetched, Junk
<1>8. TypeOK'
  <2>1. cache' \in [offset : Nat, modified : {0, 1}, words : [Window -> SUBSET Bits]]
    BY <1>1, <1>7
  <2>2. data' \in [0..(size' - 1) -> {Unwritten, {}, Bits}]
    BY <1>1
  <2> QED BY <1>1, <1>2, <1>4, <1>5, <2>1, <2>2 DEF TypeOK
<1>9. Placed'
  BY <1>2 DEF Placed
<1>10. ASSUME Initialised'
      PROVE  /\ size' > 0 /\ saved' = NewHead(size')
             /\ mram' = Copied(mram, 0, [k \in Nat |-> {}], ClearedWords(size'))
             /\ WindowWords(size') \in Nat /\ CacheWords <= WindowWords(size')
  <2>1. size' > 0 /\ ~(size' > BitmapMax) /\ 0 \in 0..(size' - 1)
    <3>1. n \in 1..BitmapMax
      BY <1>10, <1>3 DEF Initialised
    <3>2. n > 0 /\ ~(n > BitmapMax) /\ 0 \in 0..(n - 1)
      BY <1>2, <3>1
    <3> QED BY <1>3, <3>2
  <2>2. /\ From(0) \in Nat /\ WindowWords(size') \in Nat
        /\ From(0) + CacheWords <= WindowWords(size')
    BY <1>2, <2>1, WindowAt
  <2> QED BY <1>1, <2>1, <2>2, BlockAssumption
<1>11. HeadMade'
  BY <1>1, <1>2, <1>10 DEF HeadMade, NewHead
<1>12. WindowInv'
  <2>3. \A k \in Window : 0 + k < start' => Fetched(mram', 0)[k] = mram'[0 + k]
    <3>1. \A k \in Window : 0 + k < e => k \in Words /\ 0 + k = k
      BY <1>3 DEF Words, Window
    <3> QED BY <1>6, <1>3, <3>1
  <2>4. Opened' = [offset |-> 0, modified |-> 0, words |-> Fetched(mram', 0), mram |-> mram']
    BY <1>1 DEF Opened
  <2>5. Initialised' => 0 + CacheWords <= WindowWords(size')
    BY <1>10, BlockAssumption
  <2>6. WindowWords(size)' = WindowWords(size')
    BY DEF WindowWords, MapWords
  <2> QED BY <1>5, <1>7, <2>3, <2>4, <2>5, <2>6 DEF WindowInv, Good
<1>13. MarksAreHolders' /\ HeadRight'
  <2> SUFFICES ASSUME Usable' PROVE MarksAreHolders' /\ HeadRight'
    BY DEF MarksAreHolders, HeadRight
  <2>1. Initialised'
    BY DEF Usable
  <2>2. \A j \in 0..(size' - 1) : Word(j) \in Words /\ Word(j) \in Nat /\ mram'[Word(j)] = {}
    <3> TAKE j \in 0..(size' - 1)
    <3>1. Word(j) \in Nat /\ Word(j) < MapWords(size') /\ MapWords(size') \in Nat
      BY <1>2, WordInMap
    <3>3. MapWords(size') <= start'
      BY DEF Usable, MapWords
    <3>4. Word(j) \in Words
      BY <1>3, <3>1, <3>3 DEF Words
    <3> QED BY <1>2, <1>4, <1>10, <2>1, <3>1, <3>4, MapCleared
  <2>3. \A j \in 0..(size' - 1) : ~Marked(j)'
    <3> TAKE j \in 0..(size' - 1)
    <3>1. Opened'.offset = 0 /\ Opened'.words = Fetched(mram', 0) /\ Opened'.mram = mram'
      BY <1>1 DEF Opened
    <3>2. Word(j) \in Words /\ Word(j) - 0 = Word(j)
      BY <2>2
    <3>3. Word(j) \in 0..(0 + CacheWords - 1) => Word(j) \in Window
      <4>1. Word(j) \in Nat /\ (Word(j) \in 0..(0 + c - 1) => Word(j) \in 0..(c - 1))
        BY <2>2
      <4> QED BY <1>3, <4>1 DEF Window
    <3> QED BY <1>6, <2>2, <3>1, <3>2, <3>3 DEF Marked, MarkedIn, Inside, IsSet
  <2>4. Clear' = 0..(size' - 1)
    BY <2>3 DEF Clear
  <2>5. MarksAreHolders'
    BY <1>1, <1>4, <2>4 DEF MarksAreHolders
  <2>6. Cardinality(Clear') = size'
    <3>1. n > 0
      BY <1>10, <1>3, <2>1
    <3>2. 0 \in Int /\ n - 1 \in Int /\ ~(0 > n - 1) /\ (n - 1) - 0 + 1 = n
      BY <3>1
    <3> QED BY <1>3, <2>4, <3>2, FS_Interval
  <2>7. 0 \in Clear' /\ \A k \in Clear' : 0 <= k
    <3>1. n > 0
      BY <1>10, <1>3, <2>1
    <3>2. 0 \in 0..(n - 1) /\ \A k \in 0..(n - 1) : 0 <= k
      BY <3>1
    <3> QED BY <1>3, <2>4, <3>2
  <2>8. head'.first = 0 /\ head'.full = 0 /\ avail' = size'
    BY <1>1, <1>10, <2>1 DEF NewHead
  <2>9. HeadRight'
    BY <2>6, <2>7, <2>8 DEF HeadRight
  <2> QED BY <2>5, <2>9
<1>14. BlockDataKept'
  BY <1>1, <1>4 DEF BlockDataKept
<1> QED BY <1>8, <1>9, <1>11, <1>12, <1>13, <1>14 DEF IndInv

-----------------------------------------------------------------------------
LEMMA NextInv ==
  ASSUME IndInv, [Next]_vars
  PROVE  IndInv'
<1>1. CASE Next
  <2>1. ASSUME NEW region \in Regions, Create(region) PROVE IndInv'
    BY <2>1, CreateInv
  <2>2. CASE Alloc
    BY <2>2, AllocInv
  <2>3. CASE Save
    BY <2>3, SaveInv
  <2>4. ASSUME NEW i \in DOMAIN data, Free(i) PROVE IndInv'
    BY <2>4, FreeInv
  <2>5. ASSUME NEW i \in DOMAIN data, NEW pattern \in Patterns, Write(i, pattern) PROVE IndInv'
    BY <2>5, WriteInv
  <2> QED BY <1>1, <2>1, <2>2, <2>3, <2>4, <2>5 DEF Next
<1>2. CASE UNCHANGED vars
  <2>1. UNCHANGED <<mram, saved, head, cache, start, size, avail, held, data>>
    BY <1>2 DEF vars
  <2>2. TypeOK' /\ Placed'
    BY <2>1 DEF IndInv, TypeOK, Placed
  <2>3. HeadMade' /\ WindowInv'
    BY <2>1 DEF IndInv, HeadMade, WindowInv, Good, Opened, Initialised, WindowWords, MapWords
  <2>4. MarksAreHolders' /\ HeadRight'
    BY <2>1 DEF IndInv, MarksAreHolders, HeadRight, Usable, Initialised, MapWords, Clear, Marked,
                MarkedIn, Inside, IsSet, Opened
  <2>5. BlockDataKept'
    BY <2>1 DEF IndInv, BlockDataKept, Kept, BlockRange, Initialised, WindowWords, MapWords
  <2> QED BY <2>2, <2>3, <2>4, <2>5 DEF IndInv
<1> QED BY <1>1, <1>2

(* The invariant of the allocator: bitmap, head, window and blocks agree in *)
(* every reachable state (all of block_mram_alloc.c and bitmap.c), for all  *)
(* regions and whatever the window carries of the blocks.                  *)
THEOREM Invariance == Spec => []IndInv
<1>1. Init => IndInv
  BY InitInv
<1>2. IndInv /\ [Next]_vars => IndInv'
  BY NextInv
<1> QED BY <1>1, <1>2, PTL DEF Spec

(* Where the bitmap has been made and lies in front of the blocks, no block *)
(* is handed out twice and none is lost: block_mram_allocator_alloc and     *)
(* _free and the moving window keep the marks right.                       *)
THEOREM MarksRight == Spec => []MarksAreHolders
<1>1. IndInv => MarksAreHolders
  BY DEF IndInv
<1> QED BY <1>1, Invariance, PTL

(* first_avail, full and avail agree with the bitmap, so that an alloc with *)
(* avail > 0 finds a block (bitmap_cache_set, bitmap_cache_clear).         *)
THEOREM HeadAgrees == Spec => []HeadRight
<1>1. IndInv => HeadRight
  BY DEF IndInv
<1> QED BY <1>1, Invariance, PTL

(* No operation of the allocator, and no other holder, writes into a block  *)
(* that somebody holds, if it lies behind the windows on the map.          *)
THEOREM HoldersUndisturbed == Spec => []BlockDataKept
<1>1. IndInv => BlockDataKept
  BY DEF IndInv
<1> QED BY <1>1, Invariance, PTL
=============================================================================
