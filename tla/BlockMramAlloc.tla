---------------------------- MODULE BlockMramAlloc ----------------------------
(***************************************************************************)
(* The allocator of equal blocks (dpu/sto/block_mram_alloc.c) and the      *)
(* bitmap it keeps in front of its blocks (dpu/sto/bitmap.c).  The bitmap  *)
(* lies in MRAM; WRAM holds its head and a window of MAP_CACHE_SIZE words  *)
(* of the map, which is written back when another part of the map is       *)
(* needed.  Operations run under the allocator's mutex (save by the care   *)
(* of its caller), so that each is one step here.                          *)
(*                                                                         *)
(* MRAM is a function from word numbers, counted from the first word of    *)
(* the map, to the set of bits that are 1 in the word.  The struct in front *)
(* of the map, with bitmap_head, lies below word 0.  Neither is written     *)
(* before the first init: MRAM then holds whatever was there.              *)
(*                                                                         *)
(* Definitions with a suffix, as Hit_NoWriteBack, are faulty variants for  *)
(* the runs that show what a property catches.                             *)
(***************************************************************************)
EXTENDS Integers, FiniteSets

CONSTANTS
  WordBits,    \* INT_BITS
  CacheWords,  \* MAP_CACHE_SIZE
  InitWords,   \* BITMAP_INIT_BUFFER_SIZE
  BitmapMax,   \* BITMAP_SIZE_MAX
  MinBlock,    \* the block size asked for, in words
  HeadWords,   \* sizeof(struct _bitmap), in words
  Regions,     \* sizes of the region an allocator is made for, in words
  FoundHeads,  \* what MRAM may hold where bitmap_head is going to be
  LastWord,    \* bound: the last word of MRAM that is modelled
  MaxAvail,    \* bound: free is not called with more blocks available
  Patterns     \* bound: what holders write into the words of a block

(* next_power, below its limit 2^31: block_size is rounded up. *)
Powers == {2 ^ k : k \in 0..30}
NextPower(n) == CHOOSE p \in Powers : n <= p /\ p < 2 * n
BlockWords == NextPower(MinBlock)

(* bitmap_head; first stands for first_avail. *)
Heads == [size : Nat, first : Nat, full : Nat]
NewHead(n) == [size |-> n, first |-> 0, full |-> 0]

ASSUME BlockAssumption ==
  /\ WordBits \in Nat \ {0} /\ CacheWords \in Nat \ {0} /\ InitWords \in Nat \ {0}
  /\ BitmapMax \in Nat
  /\ MinBlock \in Nat \ {0} /\ HeadWords \in Nat
  /\ BlockWords \in Nat \ {0}          \* MinBlock is within the limit of next_power
  /\ LastWord \in Nat /\ MaxAvail \in Nat
  /\ Regions \subseteq 0..(HeadWords + LastWord + 1)
  /\ FoundHeads \subseteq Heads

Bits  == 0..(WordBits - 1)
ASSUME PatternAssumption == Patterns \subseteq {{}, Bits}

Words == 0..LastWord
Junk  == Bits               \* what an MRAM word holds before it is written
Window == 0..(CacheWords - 1)

VARIABLES
  mram,    \* words of MRAM
  saved,   \* bitmap_head in MRAM
  head,    \* cache.bitmap_head
  cache,   \* the window: [offset, modified, words]
  start,   \* allocator->start
  size,    \* allocator->size; an allocator without blocks is as none
  avail,   \* allocator->avail
  held,    \* history variable: blocks handed out and not freed since
  data     \* history variable: what the holder of a block wrote last

vars == <<mram, saved, head, cache, start, size, avail, held, data>>

Unwritten == {WordBits}      \* no set of bits

TypeOK ==
  /\ mram \in [Words -> SUBSET Bits]
  /\ saved \in Heads /\ head \in Heads
  /\ cache \in [offset : Nat, modified : {0, 1}, words : [Window -> SUBSET Bits]]
  /\ start \in Nat /\ size \in Nat /\ avail \in Nat
  /\ held \subseteq 0..(size - 1)
  /\ data \in [0..(size - 1) -> {Unwritten, {}, Bits}]

Init ==
  /\ mram = [w \in Words |-> Junk]
  /\ saved \in FoundHeads
  /\ head = NewHead(0)
  /\ cache = [offset |-> 0, modified |-> 0, words |-> [k \in Window |-> {}]]
  /\ start = 0
  /\ size = 0
  /\ avail = 0
  /\ held = {}
  /\ data = [b \in {} |-> Unwritten]

-----------------------------------------------------------------------------
(* MRAM transfers: the words of a range, those past LastWord left alone.    *)

Copied(m, from, words, n) ==
  [w \in Words |-> IF w \in from..(from + n - 1) THEN words[w - from] ELSE m[w]]

Fetched(m, from) == [k \in Window |-> IF from + k \in Words THEN m[from + k] ELSE Junk]

-----------------------------------------------------------------------------
(* block_mram_allocator_init                                               *)

(* bitmap_dpu_size, in words of the map: the remainder is taken of the      *)
(* number of words, not of the number of bits.                             *)
ReservedWords(bits) ==
  LET n == bits \div WordBits IN IF n % WordBits # 0 THEN n + 1 ELSE n

(* map_size of bitmap_dpu_init *)
MapWords(bits) ==
  IF bits % WordBits # 0 THEN bits \div WordBits + 1 ELSE bits \div WordBits

Align8(words) == IF words % 2 = 0 THEN words ELSE words + 1

(* bitmap_dpu_init clears the map in pieces of InitWords. *)
ClearedWords(bits) ==
  InitWords * ((MapWords(bits) + InitWords - 1) \div InitWords)

(* Where the blocks begin, behind the struct and the storage for its map,   *)
(* and how many there are.                                                 *)
Reserved(region) == HeadWords + ReservedWords(region \div BlockWords)
Base(region)     == Align8(Reserved(region))
Blocks(region)   == (region - Base(region)) \div BlockWords

(* No region is so short behind its bitmap that aligning the bitmap's size  *)
(* takes more than the region has: with the sizes of the code only regions *)
(* of 32 blocks and more have a map at all.                                *)
ASSUME RegionAssumption ==
  \A region \in Regions : region >= Reserved(region) => Base(region) <= region

(* bitmap_dpu_init refuses a bitmap of more than BITMAP_SIZE_MAX bits,      *)
(* which nobody notices: the head and the map are then those found in MRAM. *)
Create(region) ==
  /\ size = 0
  /\ region >= Reserved(region)
  /\ size' = Blocks(region)
  /\ start' = Base(region) - HeadWords
  /\ avail' = size'
  /\ \/ /\ size' <= BitmapMax
        /\ saved' = NewHead(size')
        /\ mram' = Copied(mram, 0, [k \in Nat |-> {}], ClearedWords(size'))
     \/ /\ size' > BitmapMax
        /\ UNCHANGED <<saved, mram>>
  /\ head' = saved'
  /\ cache' = [offset |-> 0, modified |-> 0, words |-> Fetched(mram', 0)]
  /\ data' = [b \in 0..(size' - 1) |-> Unwritten]
  /\ UNCHANGED held

-----------------------------------------------------------------------------
(* The cached bitmap.  c stands for a window together with MRAM:           *)
(* [offset, modified, words, mram].                                        *)

Word(i) == i \div WordBits
Bit(i)  == i % WordBits

Inside(c, i) == Word(i) \in c.offset..(c.offset + CacheWords - 1)

Hit_NoWriteBack(c, i) ==
  IF Inside(c, i) THEN c
  ELSE LET from == (Word(i) \div CacheWords) * CacheWords
       IN [offset |-> from, modified |-> 0, words |-> Fetched(c.mram, from),
           mram |-> c.mram]

(* bitmap_cache_hit: the window moves to the word of bit i. *)
Hit(c, i) ==
  IF Inside(c, i) THEN c
  ELSE LET m == IF c.modified = 1
                  THEN Copied(c.mram, c.offset, c.words, CacheWords) ELSE c.mram
           from == (Word(i) \div CacheWords) * CacheWords
       IN [offset |-> from, modified |-> 0, words |-> Fetched(m, from), mram |-> m]

IsSet(c, i) == Bit(i) \in c.words[Word(i) - c.offset]

SetBit(c, i) ==
  [c EXCEPT !.words[Word(i) - c.offset] = @ \cup {Bit(i)}, !.modified = 1]
ClearBit(c, i) ==
  [c EXCEPT !.words[Word(i) - c.offset] = @ \ {Bit(i)}, !.modified = 1]

(* The loop of bitmap_cache_set: bits are tested from i on, through the     *)
(* window, up to the first that is 0.  The window has bit i and moves       *)
(* forward only, and is written back at most at its first move, so that it  *)
(* ends where a test of the last bit alone would have brought it.          *)
Scan(c, i) ==
  LET free == {j \in i..(head.size - 1) : ~IsSet(Hit(c, j), j)}
  IN IF free = {}
       THEN [c |-> Hit(c, head.size - 1), first |-> head.size]
       ELSE LET j == CHOOSE j \in free : \A k \in free : j <= k
            IN [c |-> Hit(c, j), first |-> j]

Opened == [offset |-> cache.offset, modified |-> cache.modified,
           words |-> cache.words, mram |-> mram]

Stored(c) ==
  /\ mram' = c.mram
  /\ cache' = [offset |-> c.offset, modified |-> c.modified, words |-> c.words]

-----------------------------------------------------------------------------
(* block_mram_allocator_alloc: the first available block is marked and the  *)
(* next one looked for, unless the bitmap does not have that bit.  It is    *)
(* handed out if the allocator has that block; else the answer is null.     *)
Alloc ==
  /\ avail > 0
  /\ LET i == head.first
         r == Scan(SetBit(Hit(Opened, i), i), i)
     IN /\ \/ /\ i < head.size
              /\ Stored(r.c)
              /\ head' = [head EXCEPT !.first = r.first,
                                      !.full = IF r.first = head.size THEN 1 ELSE @]
           \/ /\ i >= head.size
              /\ UNCHANGED <<mram, cache, head>>
        /\ \/ /\ i < size
              /\ held' = held \cup {i}
              /\ data' = [data EXCEPT ![i] = Unwritten]
           \/ /\ i >= size
              /\ UNCHANGED <<held, data>>
  /\ avail' = avail - 1
  /\ UNCHANGED <<saved, start, size>>

(* Whether bitmap_cache_clear has cleared the bit; else it reports an error *)
(* and block_mram_allocator_block_free does not count the block.           *)
Cleared_Always(c, i) == TRUE
Cleared(c, i) == IsSet(c, i)

FirstAfterClear_Kept(i) == head.first
FirstAfterClear(i) == IF i < head.first THEN i ELSE head.first

(* block_mram_allocator_free, also of a block that is free already. *)
Free(i) ==
  /\ avail < MaxAvail
  /\ LET c == Hit(Opened, i) IN
       \/ /\ i < head.size
          /\ Cleared(c, i)
          /\ Stored(ClearBit(c, i))
          /\ head' = [head EXCEPT !.first = FirstAfterClear(i), !.full = 0]
          /\ avail' = avail + 1
       \/ /\ i < head.size
          /\ ~Cleared(c, i)
          /\ Stored(c)
          /\ UNCHANGED <<head, avail>>
       \/ /\ i >= head.size
          /\ UNCHANGED <<mram, cache, head, avail>>
  /\ held' = held \ {i}
  /\ data' = [data EXCEPT ![i] = Unwritten]
  /\ UNCHANGED <<saved, start, size>>

(* block_mram_allocator_save *)
Save ==
  /\ size > 0
  /\ saved' = head
  /\ mram' = Copied(mram, cache.offset, cache.words, CacheWords)
  /\ cache' = [cache EXCEPT !.modified = 0]
  /\ UNCHANGED <<head, start, size, avail, held, data>>

(* The words of a block, by block_mram_allocator_block_addr. *)
BlockRange_Asked(i) == (start + i * MinBlock)..(start + i * MinBlock + BlockWords - 1)
BlockRange(i) == (start + i * BlockWords)..(start + i * BlockWords + BlockWords - 1)

(* The holder of a block writes to it. *)
Write(i, pattern) ==
  /\ i \in held
  /\ mram' = [w \in Words |-> IF w \in BlockRange(i) THEN pattern ELSE mram[w]]
  /\ data' = [data EXCEPT ![i] = pattern]
  /\ UNCHANGED <<saved, head, cache, start, size, avail, held>>

Next ==
  \/ \E region \in Regions : Create(region)
  \/ Alloc \/ Save
  \/ \E i \in DOMAIN data : Free(i) \/ \E pattern \in Patterns : Write(i, pattern)

Spec == Init /\ [][Next]_vars

-----------------------------------------------------------------------------
(* Properties.                                                             *)

(* bitmap_dpu_init has made the bitmap; ... *)
Initialised == size \in 1..BitmapMax

(* ... and its map lies in front of the blocks, so that no holder writes    *)
(* into it.  An allocator without either may hand out blocks that are      *)
(* taken.                                                                  *)
Usable == Initialised /\ MapWords(size) <= start

(* The bits as the program sees them: those of the window before MRAM's.    *)
MarkedIn(c, i) == IF Inside(c, i) THEN IsSet(c, i) ELSE Bit(i) \in c.mram[Word(i)]
Marked(i) == MarkedIn(Opened, i)

Clear == {i \in 0..(size - 1) : ~Marked(i)}

(* A block is marked exactly while somebody holds it, wherever the window   *)
(* has wandered and whatever it has written over behind the map: no block   *)
(* is handed out twice and none is lost.                                   *)
MarksAreHolders == Usable => Clear = (0..(size - 1)) \ held

(* first_avail is the first bit that is 0, the bitmap is full exactly when  *)
(* there is none, and avail counts the free blocks, so that an alloc with  *)
(* avail > 0 finds one.                                                    *)
HeadRight ==
  Usable =>
    /\ head.first \in Clear \cup {size} /\ \A i \in Clear : head.first <= i
    /\ head.full = 1 <=> Clear = {}
    /\ avail = Cardinality(Clear)

(* The words of all windows on the map.  They may be more than the map has, *)
(* and reach into the first blocks.                                        *)
WindowWords(bits) == CacheWords * ((MapWords(bits) + CacheWords - 1) \div CacheWords)

Kept(i) == data[i] # Unwritten => \A w \in BlockRange(i) : mram[w] = data[i]

(* What the holder of a block behind the last window wrote stays there,     *)
(* whatever the others do and wherever the window is written back.         *)
BlockDataKept ==
  Initialised => \A i \in held : start + i * BlockWords >= WindowWords(size) => Kept(i)

(* The invariant of the proofs.  The blocks lie within MRAM; ...           *)
Placed == start + size * BlockWords <= LastWord + 1

(* ... the head is the bitmap's; ...                                       *)
HeadMade == Initialised => head.size = size /\ head.first <= size

(* ... the window is one of those on the map, and shows what MRAM holds in  *)
(* front of the blocks unless it has been modified.                        *)
Good(c) ==
  /\ c \in [offset : Nat, modified : {0, 1}, words : [Window -> SUBSET Bits],
            mram : [Words -> SUBSET Bits]]
  /\ Initialised => c.offset + CacheWords <= WindowWords(size)
  /\ c.modified = 0 => \A k \in Window : c.offset + k < start =>
                          c.words[k] = c.mram[c.offset + k]

WindowInv == Good(Opened)

(* The bitmap, its head and the blocks agree, and none behind the windows   *)
(* is overwritten.                                                         *)
IndInv ==
  TypeOK /\ Placed /\ HeadMade /\ WindowInv /\ MarksAreHolders /\ HeadRight /\ BlockDataKept

-----------------------------------------------------------------------------
(* What a comment of the code says, and the code does not do.              *)

(* The storage bitmap_dpu_size asks for holds the map, so that the blocks   *)
(* begin behind it.                                                        *)
StorageHoldsMap == Initialised => MapWords(size) <= start
=============================================================================
