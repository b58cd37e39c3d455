---------------------------- MODULE CacheProofs ------------------------------
(* For every hierarchy that HierarchyAssumption allows, every DRAM and every     *)
(* content: L2 includes L1, no line that can be dropped is the only copy of a     *)
(* write, and the whole is one memory (Memory). The operators of Cache say what   *)
(* the code does to a state of the hierarchy; the lemmas say what a write to the  *)
(* layers from one on, and a fetch from them, leave (Wrote, Fetched), from the    *)
(* DRAM up, so that L1 over L2 and L2 over the DRAM are one argument.             *)
EXTENDS Cache, TLAPS

------------------------------------------------------------------------------
(* Arithmetic of blocks and sets.                                                *)

\* Quotient and remainder.
LEMMA Euclid ==
  ASSUME NEW b \in Nat, NEW s \in Nat \ {0}
  PROVE  /\ b \div s \in Nat
         /\ b % s \in 0 .. s - 1
         /\ b = (b \div s) * s + (b % s)
  OBVIOUS

\* A number has one quotient and one remainder.
LEMMA EuclidUnique ==
  ASSUME NEW t \in Nat, NEW s \in Nat \ {0}, NEW x \in 0 .. s - 1
  PROVE  /\ (t * s + x) \div s = t
         /\ (t * s + x) % s = x
  OBVIOUS

\* A smaller block has no greater tag.
LEMMA DivIsMonotonic ==
  ASSUME NEW a \in Nat, NEW b \in Nat, a <= b, NEW s \in Nat \ {0}
  PROVE  a \div s <= b \div s
  OBVIOUS

\* Numbers with the same remainder by a multiple of s have the same remainder by s.
LEMMA ModOfMultiple ==
  ASSUME NEW s \in Nat \ {0}, NEW z \in Nat \ {0}, z % s = 0,
         NEW a \in Nat, NEW b \in Nat, a % z = b % z
  PROVE  a % s = b % s
<1> DEFINE k == z \div s
           r == a % z
<1>1. k \in Nat /\ r \in Nat /\ z = k * s
  <2>1. k \in Nat /\ z = k * s + (z % s)
    BY Euclid
  <2>2. r \in Nat
    BY Euclid
  <2> HIDE DEF k, r
  <2> QED
    BY <2>1, <2>2
<1>2. ASSUME NEW c \in Nat, c % z = r
      PROVE  c % s = r % s
  <2> DEFINE q == c \div z
             y == r \div s
             x == r % s
  <2>1. q \in Nat /\ c = q * z + r
    BY <1>2, Euclid
  <2>2. y \in Nat /\ x \in 0 .. s - 1 /\ r = y * s + x
    BY <1>1, Euclid
  <2> HIDE DEF k, r, q, y, x
  <2>3. c = (q * k + y) * s + x /\ q * k + y \in Nat
    BY <1>1, <2>1, <2>2
  <2>4. c % s = x
    BY <2>2, <2>3, EuclidUnique
  <2> QED
    BY <2>4 DEF x
<1> QED
  BY <1>2

------------------------------------------------------------------------------

(* States of the hierarchy, with the layers of `caches`.                        *)

Sets(n) == 0 .. caches[n].sets - 1
Tags(n) == 0 .. (DramBlocks - 1) \div caches[n].sets
LineOf(n) == [valid : BOOLEAN, dirty : BOOLEAN, tag : Tags(n)]

Typed(s) ==
  /\ DOMAIN s = {"dram", "line", "data", "mru"}
  /\ s.dram \in [Blocks -> Contents]
  /\ DOMAIN s.line = Levels /\ DOMAIN s.data = Levels /\ DOMAIN s.mru = Levels
  /\ \A n \in Levels :
       /\ s.line[n] \in [Slots(n) -> LineOf(n)]
       /\ s.data[n] \in [Slots(n) -> Contents]
       /\ s.mru[n] \in [Sets(n) -> 0 .. caches[n].ways - 1]

\* The one or two layers, and that the first is direct mapped.
LEMMA Geometry ==
  ASSUME caches \in Hierarchies
  PROVE  /\ Len(caches) \in {1, 2} /\ DramBlocks \in Nat \ {0}
         /\ 1 \in Levels /\ caches[1].ways = 1 /\ Len(caches) + 1 \notin Levels
         /\ \A n \in Levels : n \in {1, 2} /\ caches[n].sets \in Nat \ {0} /\ caches[n].ways \in {1, 2}
  BY HierarchyAssumption DEF Levels

\* The second layer has a multiple of the sets of the first.
LEMMA Ratio ==
  ASSUME caches \in Hierarchies, NEW n \in Levels, n + 1 \in Levels
  PROVE  n = 1 /\ caches[2].sets % caches[1].sets = 0
  BY HierarchyAssumption DEF Levels

\* Blocks are numbered.
LEMMA BlocksAreNumbers == Blocks \subseteq Nat
  BY HierarchyAssumption DEF Blocks

\* The tag of a line of initCache is within bounds.
LEMMA TagsFromZero ==
  ASSUME caches \in Hierarchies, NEW n \in Levels
  PROVE  0 \in Tags(n) /\ Tags(n) \subseteq Nat
<1>0. caches[n].sets \in Nat \ {0} /\ DramBlocks - 1 \in Nat
  BY Geometry
<1>1. (DramBlocks - 1) \div caches[n].sets \in Nat
  BY <1>0, Euclid
<1> QED
  BY <1>1 DEF Tags

\* The tag and the set of a block are within bounds, and name the block.
LEMMA TagAndSet ==
  ASSUME caches \in Hierarchies, NEW n \in Levels, NEW b \in Blocks
  PROVE  /\ Tag(n, b) \in Tags(n) /\ SetIndex(n, b) \in Sets(n)
         /\ Tag(n, b) * caches[n].sets + SetIndex(n, b) = b
<1>0. caches[n].sets \in Nat \ {0}
  BY Geometry
<1>1. PICK z \in Nat \ {0} : z = caches[n].sets
  BY <1>0
<1>2. DramBlocks \in Nat \ {0} /\ b \in Nat /\ b <= DramBlocks - 1 /\ DramBlocks - 1 \in Nat
  BY HierarchyAssumption DEF Blocks
<1>3. b \div z <= (DramBlocks - 1) \div z
  BY <1>2, DivIsMonotonic
<1>4. (DramBlocks - 1) \div z \in Nat
  BY <1>2, Euclid
<1>5. b \div z \in Nat /\ b % z \in 0 .. z - 1 /\ b = (b \div z) * z + (b % z)
  BY <1>2, Euclid
<1> QED
  BY <1>1, <1>3, <1>4, <1>5 DEF Tag, SetIndex, Tags, Sets

\* The slots of a block are those of its set.
LEMMA Place ==
  ASSUME caches \in Hierarchies, NEW n \in Levels, NEW b \in Blocks
  PROVE  /\ \A i : i \in SlotsOf(n, b) <=> i \in Slots(n) /\ i \div caches[n].ways = SetIndex(n, b)
         /\ \A i \in SlotsOf(n, b) :
              /\ i % caches[n].ways \in 0 .. caches[n].ways - 1
              /\ i = SetIndex(n, b) * caches[n].ways + (i % caches[n].ways)
<1>0. /\ caches[n].sets \in Nat \ {0} /\ caches[n].ways \in {1, 2}
      /\ SetIndex(n, b) \in 0 .. caches[n].sets - 1
  BY Geometry, TagAndSet DEF Sets
<1>1. PICK z \in Nat \ {0}, w \in {1, 2}, x \in Nat :
        /\ z = caches[n].sets /\ w = caches[n].ways
        /\ x = SetIndex(n, b) /\ x \in 0 .. z - 1
  BY <1>0
<1>2. SlotsOf(n, b) = {x * w + k : k \in 0 .. w - 1} /\ Slots(n) = 0 .. z * w - 1
  BY <1>1 DEF SlotsOf, Slots
<1>3. /\ \A i : i \in SlotsOf(n, b) <=> i \in Slots(n) /\ i \div w = x
      /\ \A i \in SlotsOf(n, b) : i % w \in 0 .. w - 1 /\ i = x * w + (i % w)
  <2>1. CASE w = 1
    <3>1. SlotsOf(n, b) = {x} /\ Slots(n) = 0 .. z - 1
      BY <2>1, <1>2
    <3> QED
      BY <2>1, <3>1, <1>1
  <2>2. CASE w = 2
    <3>1. SlotsOf(n, b) = {2 * x, 2 * x + 1} /\ Slots(n) = 0 .. 2 * z - 1
      BY <2>2, <1>2
    <3>2. \A i \in Nat : i \div 2 = x <=> i = 2 * x \/ i = 2 * x + 1
      OBVIOUS
    <3>3. \A i \in SlotsOf(n, b) : i \in Slots(n) /\ i \in Nat
      BY <3>1, <1>1, SMTT(30)
    <3>4. \A i \in Slots(n) : i \in Nat
      BY <3>1
    <3>5. (2 * x) % 2 = 0 /\ (2 * x + 1) % 2 = 1
      OBVIOUS
    <3>6. \A i \in SlotsOf(n, b) : i % w \in 0 .. w - 1 /\ i = x * w + (i % w)
      BY <2>2, <3>1, <3>5
    <3>7. \A i : i \in SlotsOf(n, b) <=> i \in Slots(n) /\ i \div w = x
      BY <2>2, <3>1, <3>2, <3>3, <3>4
    <3> QED
      BY <3>6, <3>7
  <2> QED
    BY <2>1, <2>2
<1> QED
  BY <1>1, <1>3

\* A new mark of use changes the mru of one set.
LEMMA MarkUsedEffect ==
  ASSUME caches \in Hierarchies,
         NEW s, Typed(s), NEW n \in Levels, NEW b \in Blocks,
         NEW i, i % caches[n].ways \in 0 .. caches[n].ways - 1,
         NEW t, t = MarkUsed(s, n, b, i)
  PROVE  /\ Typed(t)
         /\ t.dram = s.dram /\ t.line = s.line /\ t.data = s.data
         /\ \A k \in Levels \ {n} : t.mru[k] = s.mru[k]
         /\ t.mru[n][SetIndex(n, b)] = i % caches[n].ways
         /\ \A x \in Sets(n) \ {SetIndex(n, b)} : t.mru[n][x] = s.mru[n][x]
<1> DEFINE x == SetIndex(n, b)
<1>0. x \in Sets(n)
  BY TagAndSet
<1>1. t = [s EXCEPT !.mru = [s.mru EXCEPT ![n] = [s.mru[n] EXCEPT ![x] = i % caches[n].ways]]]
  BY DEF MarkUsed
<1>2. /\ DOMAIN t = DOMAIN s /\ t.dram = s.dram /\ t.line = s.line /\ t.data = s.data
      /\ t.mru = [s.mru EXCEPT ![n] = [s.mru[n] EXCEPT ![x] = i % caches[n].ways]]
  BY <1>1 DEF Typed
<1> QED
  BY <1>0, <1>2 DEF Typed

\* Slot i of layer n takes the line l and the contents x.
Put(s, n, i, l, x) == [s EXCEPT !.line[n][i] = l, !.data[n][i] = x]

\* A line and its contents change one slot.
LEMMA PutEffect ==
  ASSUME caches \in Hierarchies,
         NEW s, Typed(s), NEW n \in Levels, NEW i \in Slots(n),
         NEW l \in LineOf(n), NEW x \in Contents,
         NEW t, t = Put(s, n, i, l, x)
  PROVE  /\ Typed(t)
         /\ t.dram = s.dram /\ t.mru = s.mru
         /\ \A k \in Levels \ {n} : t.line[k] = s.line[k] /\ t.data[k] = s.data[k]
         /\ t.line[n][i] = l /\ t.data[n][i] = x
         /\ \A j \in Slots(n) \ {i} : t.line[n][j] = s.line[n][j] /\ t.data[n][j] = s.data[n][j]
<1>2. /\ DOMAIN t = DOMAIN s /\ t.dram = s.dram /\ t.mru = s.mru
      /\ t.line = [s.line EXCEPT ![n] = [s.line[n] EXCEPT ![i] = l]]
      /\ t.data = [s.data EXCEPT ![n] = [s.data[n] EXCEPT ![i] = x]]
  BY DEF Typed, Put
<1> QED
  BY <1>2 DEF Typed

------------------------------------------------------------------------------
(* What a layer stores. *)

Block(s, n, i) == s.line[n][i].tag * caches[n].sets + (i \div caches[n].ways)

At(s, n, i, c) == s.line[n][i].valid /\ Block(s, n, i) = c

Stores(s, n, c) == \E i \in Slots(n) : At(s, n, i, c)

Unique(s, n) ==
  \A i, j \in Slots(n) :
    s.line[n][i].valid =>
      /\ Block(s, n, i) \in Blocks
      /\ At(s, n, j, Block(s, n, i)) => i = j

\* The layers from n on that have c, and what they and the DRAM say of c (SeenFrom).
Holders(s, n, c) == {k \in n .. Len(caches) : \E i \in SlotsOf(k, c) : Hit(s, k, i, c)}

See(s, n, c) ==
  IF Holders(s, n, c) = {} THEN s.dram[c]
  ELSE LET k == Min(Holders(s, n, c))
       IN  s.data[k][CHOOSE i \in SlotsOf(k, c) : Hit(s, k, i, c)]

\* A slot is in one of the sets of its layer, as one of its ways.
LEMMA SetOfSlot ==
  ASSUME caches \in Hierarchies, NEW n \in Levels, NEW i \in Slots(n)
  PROVE  /\ i \in Nat /\ i \div caches[n].ways \in Sets(n)
         /\ i % caches[n].ways \in 0 .. caches[n].ways - 1
<1>0. caches[n].sets \in Nat \ {0} /\ caches[n].ways \in {1, 2}
  BY Geometry
<1>1. PICK z \in Nat \ {0}, w \in {1, 2} : z = caches[n].sets /\ w = caches[n].ways
  BY <1>0
<1>2. i \in 0 .. z * w - 1
  BY <1>1 DEF Slots
<1>3. i \in Nat /\ i \div w \in 0 .. z - 1 /\ i % w \in 0 .. w - 1
  <2>1. CASE w = 1
    BY <2>1, <1>2
  <2>2. CASE w = 2
    BY <2>2, <1>2
  <2> QED
    BY <2>1, <2>2
<1> QED
  BY <1>1, <1>3 DEF Sets

\* The look-up of a block finds the slot that has it.
LEMMA Lookup ==
  ASSUME caches \in Hierarchies, NEW s, Typed(s), NEW n \in Levels, NEW c \in Blocks, NEW i
  PROVE  i \in SlotsOf(n, c) /\ Hit(s, n, i, c) <=> i \in Slots(n) /\ At(s, n, i, c)
<1>0. caches[n].sets \in Nat \ {0}
  BY Geometry
<1>1. PICK z \in Nat \ {0} : z = caches[n].sets
  BY <1>0
<1>2. PICK t \in Nat, x \in Nat :
        /\ t = Tag(n, c) /\ x = SetIndex(n, c)
        /\ x \in 0 .. z - 1 /\ t * z + x = c
  <2>1. Tag(n, c) \in Nat /\ SetIndex(n, c) \in 0 .. z - 1 /\ SetIndex(n, c) \in Nat
    BY <1>1, BlocksAreNumbers, Euclid DEF Tag, SetIndex
  <2> QED
    BY <1>1, <2>1, TagAndSet
<1>3. ASSUME i \in SlotsOf(n, c), Hit(s, n, i, c)
      PROVE  i \in Slots(n) /\ At(s, n, i, c)
  BY <1>1, <1>2, <1>3, Place DEF Hit, At, Block
<1>4. ASSUME i \in Slots(n), At(s, n, i, c)
      PROVE  i \in SlotsOf(n, c) /\ Hit(s, n, i, c)
  <2>1. PICK y \in Nat : y = i \div caches[n].ways /\ y \in 0 .. z - 1
    BY <1>1, <1>4, SetOfSlot DEF Sets
  <2>2. s.line[n][i].tag \in Nat
    <3>0. DramBlocks - 1 \in Nat
      BY HierarchyAssumption
    <3>1. (DramBlocks - 1) \div z \in Nat
      BY <3>0, Euclid
    <3> QED
      BY <3>1, <1>1, <1>4 DEF Typed, LineOf, Tags
  <2>3. PICK u \in Nat : u = s.line[n][i].tag
    BY <2>2
  <2>4. u * z + y = c
    BY <1>1, <1>4, <2>1, <2>3 DEF At, Block
  <2>5. u = t /\ y = x
    <3>1. (u * z + y) \div z = u /\ (u * z + y) % z = y
      BY <2>1, EuclidUnique
    <3>0. x \in 0 .. z - 1
      BY <1>2
    <3>2. (t * z + x) \div z = t /\ (t * z + x) % z = x
      BY <3>0, EuclidUnique
    <3> QED
      BY <3>1, <3>2, <1>2, <2>4
  <2> QED
    BY <1>2, <1>4, <2>1, <2>3, <2>5, Place DEF At, Hit
<1> QED
  BY <1>3, <1>4

\* The least of a set of numbers.
LEMMA MinIsLeast ==
  ASSUME NEW S \in SUBSET Int, NEW k \in S, \A y \in S : k <= y
  PROVE  Min(S) = k
<1>1. \A x \in S : (\A y \in S : x <= y) => x = k
  OBVIOUS
<1>2. \E x \in S : \A y \in S : x <= y
  OBVIOUS
<1> DEFINE P(x) == \A y \in S : x <= y
<1>3. Min(S) = CHOOSE x \in S : P(x)
  BY DEF Min
<1> HIDE DEF P
<1>4. \A x \in S : P(x) => x = k
  BY <1>1 DEF P
<1>5. \E x \in S : P(x)
  BY <1>2 DEF P
<1> QED
  BY <1>3, <1>4, <1>5

\* A set of layers has a least one.
LEMMA MinIsIn ==
  ASSUME NEW S, S \subseteq {1, 2}, S # {}
  PROVE  Min(S) \in S
<1>0. S \in SUBSET Int /\ \A y \in S : y = 1 \/ y = 2
  OBVIOUS
<1>1. CASE 1 \in S
  BY <1>0, <1>1, MinIsLeast
<1>2. CASE 1 \notin S
  <2>0. \A y \in S : y = 2
    BY <1>0, <1>2
  <2>1. PICK y \in S : TRUE
    OBVIOUS
  <2>2. 2 \in S /\ \A z \in S : 2 <= z
    BY <2>0, <2>1
  <2> QED
    BY <1>0, <2>2, MinIsLeast
<1> QED
  BY <1>1, <1>2

\* A block that a layer stores is found, and what is seen of it is there.
LEMMA Found ==
  ASSUME caches \in Hierarchies, NEW s, Typed(s), NEW n \in Levels, NEW c \in Blocks,
         Unique(s, n), NEW i \in Slots(n), At(s, n, i, c)
  PROVE  /\ BlockIndex(s, n, c) = i /\ Hit(s, n, i, c) /\ i \in SlotsOf(n, c)
         /\ See(s, n, c) = s.data[n][i]
<1>1. i \in SlotsOf(n, c) /\ Hit(s, n, i, c)
  BY Lookup
<1>2. \A j \in SlotsOf(n, c) : Hit(s, n, j, c) => j = i
  BY Lookup DEF Unique, At
<1>3. i \in Int
  BY SetOfSlot
<1>4. {j \in SlotsOf(n, c) : Hit(s, n, j, c)} = {i}
  BY <1>1, <1>2
<1>5. BlockIndex(s, n, c) = i
  <2>1. Min({i}) = i
    BY <1>3, MinIsLeast
  <2> QED
    BY <1>4, <2>1 DEF BlockIndex
<1>6. (CHOOSE j \in SlotsOf(n, c) : Hit(s, n, j, c)) = i
  BY <1>1, <1>2
<1>7. Min(Holders(s, n, c)) = n /\ n \in Holders(s, n, c)
  <2>1. n \in Int /\ Len(caches) \in Int /\ n <= Len(caches)
    BY Geometry DEF Levels
  <2>2. n \in Holders(s, n, c) /\ Holders(s, n, c) \in SUBSET Int /\ \A y \in Holders(s, n, c) : n <= y
    BY <1>1, <2>1 DEF Holders
  <2> QED
    BY <2>2, MinIsLeast
<1> QED
  BY <1>1, <1>5, <1>6, <1>7 DEF See

\* Of a block that a layer does not store, a victim is taken, and the next layer says
\* what is seen.
LEMMA NotFound ==
  ASSUME caches \in Hierarchies, NEW s, Typed(s), NEW n \in Levels, NEW c \in Blocks,
         ~ Stores(s, n, c)
  PROVE  /\ BlockIndex(s, n, c) \in SlotsOf(n, c) /\ ~ Hit(s, n, BlockIndex(s, n, c), c)
         /\ See(s, n, c) = See(s, n + 1, c)
<1>1. \A j \in SlotsOf(n, c) : ~ Hit(s, n, j, c)
  BY Lookup DEF Stores
<1>2. BlockIndex(s, n, c) = Victim(s, n, c)
  BY <1>1 DEF BlockIndex
<1>3. Victim(s, n, c) \in SlotsOf(n, c)
  <2>0. caches[n].ways \in {1, 2}
    BY Geometry
  <2>1. SetIndex(n, c) \in Sets(n)
    BY TagAndSet
  <2>2. s.mru[n][SetIndex(n, c)] \in 0 .. caches[n].ways - 1
    BY <2>1 DEF Typed
  <2>3. PICK w \in {1, 2}, y \in 0 .. 1 : w = caches[n].ways /\ y = s.mru[n][SetIndex(n, c)]
    BY <2>0, <2>2
  <2>4. (y + 1) % w \in 0 .. w - 1
    <3>1. CASE w = 1
      BY <3>1
    <3>2. CASE w = 2
      BY <3>2
    <3> QED
      BY <3>1, <3>2
  <2> QED
    BY <2>3, <2>4 DEF Victim, SlotsOf
<1>4. Holders(s, n, c) = Holders(s, n + 1, c)
  <2>1. n \in Int /\ Len(caches) \in Int /\ n <= Len(caches)
    BY Geometry DEF Levels
  <2>2. n .. Len(caches) = {n} \cup (n + 1 .. Len(caches))
    BY <2>1
  <2> QED
    BY <1>1, <2>2 DEF Holders
<1> QED
  BY <1>1, <1>2, <1>3, <1>4 DEF See

\* Behind the caches is the DRAM.
LEMMA SeeDram ==
  ASSUME caches \in Hierarchies, NEW s, NEW c
  PROVE  See(s, Len(caches) + 1, c) = s.dram[c]
<1>1. Len(caches) + 1 .. Len(caches) = {}
  BY Geometry
<1> QED
  BY <1>1 DEF See, Holders

------------------------------------------------------------------------------
(* The invariant of the layers, and what a write and a fetch do to the layers    *)
(* from one on.                                                                  *)

\* The slot of c in layer n that was used last is where c is.
Newest(s, n, c) == SetIndex(n, c) * caches[n].ways + s.mru[n][SetIndex(n, c)]

\* A block of layer n is in the next one, in the slot of its set used last.
Included(s, n) ==
  n + 1 \in Levels =>
    \A i \in Slots(n) : s.line[n][i].valid =>
      At(s, n + 1, Newest(s, n + 1, Block(s, n, i)), Block(s, n, i))

\* A clean line is a copy of what is seen behind it.
Copied(s, n) ==
  \A i \in Slots(n) :
    s.line[n][i].valid /\ ~ s.line[n][i].dirty => s.data[n][i] = See(s, n + 1, Block(s, n, i))

Layer(s, n) == Unique(s, n) /\ Included(s, n) /\ Copied(s, n)

\* The layers from n on.
Sound(s, n) == \A k \in Levels : k >= n => Layer(s, k)

\* The layers before n are the same in s and t.
SameBefore(s, t, n) ==
  \A k \in Levels : k < n => t.line[k] = s.line[k] /\ t.data[k] = s.data[k] /\ t.mru[k] = s.mru[k]

\* The contents of the layers from n on are the same.
SameFrom(s, t, n) ==
  /\ t.dram = s.dram
  /\ \A k \in Levels : k >= n => t.line[k] = s.line[k] /\ t.data[k] = s.data[k]

\* What is seen from a layer depends on the layers from there on only.
LEMMA SeeSame ==
  ASSUME caches \in Hierarchies, NEW s, NEW t, NEW n \in Nat \ {0}, SameFrom(s, t, n)
  PROVE  \A k \in Nat : k >= n => \A c : See(t, k, c) = See(s, k, c)
<1> SUFFICES ASSUME NEW k \in Nat, k >= n, NEW c
             PROVE  See(t, k, c) = See(s, k, c)
  OBVIOUS
<1>0. Len(caches) \in {1, 2}
  BY Geometry
<1>1. \A j \in k .. Len(caches) : j \in Levels /\ j >= n
  BY <1>0 DEF Levels
<1>2. \A j \in k .. Len(caches) : \A i : Hit(t, j, i, c) <=> Hit(s, j, i, c)
  BY <1>1 DEF SameFrom, Hit
<1>3. Holders(t, k, c) = Holders(s, k, c)
  BY <1>2 DEF Holders
<1>4. CASE Holders(s, k, c) = {}
  BY <1>3, <1>4 DEF See, SameFrom
<1>5. CASE Holders(s, k, c) # {}
  <2> DEFINE j == Min(Holders(s, k, c))
  <2>1. j \in k .. Len(caches)
    <3>1. \A y \in k .. Len(caches) : y \in {1, 2}
      BY <1>1, Geometry
    <3>2. Holders(s, k, c) \subseteq {1, 2}
      BY <3>1 DEF Holders
    <3>3. j \in Holders(s, k, c)
      BY <3>2, <1>5, MinIsIn
    <3> QED
      BY <3>3 DEF Holders
  <2> HIDE DEF j
  <2>2. \A i : Hit(t, j, i, c) <=> Hit(s, j, i, c)
    BY <1>2, <2>1
  <2>3. (CHOOSE i \in SlotsOf(j, c) : Hit(t, j, i, c)) = (CHOOSE i \in SlotsOf(j, c) : Hit(s, j, i, c))
    BY <2>2
  <2>4. t.data[j] = s.data[j]
    BY <1>1, <2>1 DEF SameFrom
  <2>5. See(s, k, c) = s.data[j][CHOOSE i \in SlotsOf(j, c) : Hit(s, j, i, c)]
    BY <1>5 DEF See, j
  <2>6. See(t, k, c) = t.data[j][CHOOSE i \in SlotsOf(j, c) : Hit(t, j, i, c)]
    <3>1. Holders(t, k, c) # {} /\ j = Min(Holders(t, k, c))
      BY <1>3, <1>5 DEF j
    <3> QED
      BY <3>1 DEF See
  <2> QED
    BY <2>3, <2>4, <2>5, <2>6
<1> QED
  BY <1>4, <1>5

\* A write of x over block c leaves t, the layers from n on being sound.
Wrote(s, t, n, c, x) ==
  /\ Typed(t) /\ Sound(t, n) /\ SameBefore(s, t, n)
  /\ See(t, n, c) = x
  /\ \A d \in Blocks \ {c} : See(t, n, d) = See(s, n, d)

\* Layer n has the same blocks in the same slots.
SamePlaces(s, t, n) ==
  n \in Levels =>
    /\ t.mru[n] = s.mru[n]
    /\ \A i \in Slots(n) : /\ t.line[n][i].valid = s.line[n][i].valid
                           /\ t.line[n][i].tag = s.line[n][i].tag

\* The slot used last in the set of a block is one of those of the block.
LEMMA NewestIsSlot ==
  ASSUME caches \in Hierarchies, NEW s, Typed(s), NEW n \in Levels, NEW c \in Blocks
  PROVE  Newest(s, n, c) \in SlotsOf(n, c) /\ Newest(s, n, c) \in Slots(n)
<1>1. SetIndex(n, c) \in Sets(n)
  BY TagAndSet
<1>2. s.mru[n][SetIndex(n, c)] \in 0 .. caches[n].ways - 1
  BY <1>1 DEF Typed
<1>3. Newest(s, n, c) \in SlotsOf(n, c)
  BY <1>2 DEF Newest, SlotsOf
<1> QED
  BY <1>3, Place

\* A slot that has a block takes new contents, and is marked dirty.
LEMMA Overwritten ==
  ASSUME caches \in Hierarchies, NEW s, Typed(s), NEW n \in Levels, Sound(s, n),
         NEW c \in Blocks, NEW i \in Slots(n), At(s, n, i, c),
         NEW x \in Contents, NEW l \in LineOf(n), l.valid, l.dirty, l.tag = s.line[n][i].tag,
         NEW t, t = Put(s, n, i, l, x)
  PROVE  Wrote(s, t, n, c, x) /\ SamePlaces(s, t, n)
<1>1. /\ Typed(t)
      /\ t.dram = s.dram /\ t.mru = s.mru
      /\ \A k \in Levels \ {n} : t.line[k] = s.line[k] /\ t.data[k] = s.data[k]
      /\ t.line[n][i] = l /\ t.data[n][i] = x
      /\ \A j \in Slots(n) \ {i} : t.line[n][j] = s.line[n][j] /\ t.data[n][j] = s.data[n][j]
  BY PutEffect
<1>2. /\ n \in Nat \ {0} /\ n + 1 \in Nat \ {0}
      /\ \A k \in Levels : k \in Nat
  BY Geometry
<1>3. SameFrom(s, t, n + 1)
  BY <1>1, <1>2 DEF SameFrom
<1>4. \A k \in Nat : k >= n + 1 => \A d : See(t, k, d) = See(s, k, d)
  BY <1>2, <1>3, SeeSame
<1>5. \A k \in Levels : \A j \in Slots(k) :
        t.line[k][j].valid = s.line[k][j].valid /\ t.line[k][j].tag = s.line[k][j].tag
  <2>1. s.line[n][i] \in [valid : BOOLEAN, dirty : BOOLEAN, tag : Tags(n)]
    BY DEF Typed, LineOf
  <2>2. s.line[n][i].valid = TRUE
    BY <2>1 DEF At
  <2>3. l.valid = TRUE
    BY DEF LineOf
  <2>4. t.line[n][i].valid = s.line[n][i].valid /\ t.line[n][i].tag = s.line[n][i].tag
    BY <1>1, <2>2, <2>3
  <2>5. \A k \in Levels : \A j \in Slots(k) :
          k # n \/ j # i => t.line[k][j] = s.line[k][j]
    BY <1>1
  <2> QED
    BY <2>4, <2>5
<1>6. \A k \in Levels : \A j \in Slots(k) : \A d :
        Block(t, k, j) = Block(s, k, j) /\ (At(t, k, j, d) <=> At(s, k, j, d))
  BY <1>5 DEF At, Block
<1>7. \A k \in Levels : k >= n => Unique(t, k)
  BY <1>5, <1>6 DEF Unique, Sound, Layer
<1>8. See(t, n, c) = x
  <2>1. Typed(t) /\ Unique(t, n) /\ At(t, n, i, c)
    BY <1>1, <1>2, <1>6, <1>7
  <2>2. See(t, n, c) = t.data[n][i]
    BY <2>1, Found
  <2> QED
    BY <1>1, <2>2
<1>9. ASSUME NEW d \in Blocks \ {c}
      PROVE  See(t, n, d) = See(s, n, d)
  <2>1. CASE \E j \in Slots(n) : At(s, n, j, d)
    <3>1. PICK j \in Slots(n) : At(s, n, j, d)
      BY <2>1
    <3>2. j # i
      BY <3>1 DEF At
    <3>3. Unique(s, n) /\ Unique(t, n) /\ At(t, n, j, d)
      BY <1>2, <1>6, <1>7, <3>1 DEF Sound, Layer
    <3>4. Typed(t)
      BY <1>1
    <3>5. See(s, n, d) = s.data[n][j]
      BY <3>1, <3>3, Found
    <3>6. See(t, n, d) = t.data[n][j]
      BY <3>3, <3>4, Found
    <3> QED
      BY <1>1, <3>2, <3>5, <3>6
  <2>2. CASE ~ Stores(s, n, d)
    <3>1. ~ Stores(t, n, d)
      BY <1>6, <2>2 DEF Stores
    <3>2. See(t, n + 1, d) = See(s, n + 1, d)
      BY <1>2, <1>4
    <3> QED
      BY <1>1, <2>2, <3>1, <3>2, NotFound
  <2> QED
    BY <2>1, <2>2 DEF Stores
<1>10. ASSUME NEW k \in Levels, k >= n
       PROVE  Included(t, k) /\ Copied(t, k)
  <2>0. Layer(s, k)
    BY <1>10 DEF Sound
  <2>1. Included(t, k)
    <3> SUFFICES ASSUME k + 1 \in Levels, NEW j \in Slots(k), t.line[k][j].valid
                 PROVE  At(t, k + 1, Newest(t, k + 1, Block(t, k, j)), Block(t, k, j))
      BY DEF Included
    <3> DEFINE d == Block(s, k, j)
    <3>1. s.line[k][j].valid /\ Block(t, k, j) = d
      BY <1>5, <1>6
    <3>2. d \in Blocks
      BY <2>0, <3>1 DEF Layer, Unique
    <3>3. At(s, k + 1, Newest(s, k + 1, d), d)
      BY <2>0, <3>1 DEF Layer, Included
    <3>4. Newest(t, k + 1, d) = Newest(s, k + 1, d)
      BY <1>1 DEF Newest
    <3>5. Newest(s, k + 1, d) \in Slots(k + 1)
      BY <3>2, NewestIsSlot
    <3> HIDE DEF d
    <3> QED
      BY <1>6, <3>1, <3>3, <3>4, <3>5
  <2>2. Copied(t, k)
    <3> SUFFICES ASSUME NEW j \in Slots(k), t.line[k][j].valid, ~ t.line[k][j].dirty
                 PROVE  t.data[k][j] = See(t, k + 1, Block(t, k, j))
      BY DEF Copied
    <3>1. k + 1 \in Nat /\ k + 1 >= n + 1
      BY <1>2, <1>10
    <3>2. t.line[k][j] = s.line[k][j] /\ t.data[k][j] = s.data[k][j]
      BY <1>1
    <3>3. s.data[k][j] = See(s, k + 1, Block(s, k, j))
      BY <2>0, <3>2 DEF Layer, Copied
    <3> QED
      BY <1>4, <1>6, <3>1, <3>2, <3>3
  <2> QED
    BY <2>1, <2>2
<1>11. SameBefore(s, t, n)
  BY <1>1, <1>2 DEF SameBefore
<1>12. SamePlaces(s, t, n)
  BY <1>1, <1>5 DEF SamePlaces
<1> QED
  BY <1>1, <1>7, <1>8, <1>9, <1>10, <1>11, <1>12 DEF Wrote, Sound, Layer

\* writeBack to a layer that has the block, as inclusion promises, or to the DRAM.
LEMMA WriteBackWrites ==
  ASSUME caches \in Hierarchies, NEW s, Typed(s), NEW n \in 1 .. Len(caches) + 1, Sound(s, n),
         NEW c \in Blocks, n \in Levels => Stores(s, n, c), NEW x \in Contents,
         NEW t, t = WriteBack(s, n, c, x)
  PROVE  Wrote(s, t, n, c, x) /\ SamePlaces(s, t, n)
<1>1. CASE n \in Levels
  <2>1. PICK i \in Slots(n) : At(s, n, i, c)
    BY <1>1 DEF Stores
  <2>2. Unique(s, n)
    BY <1>1, Geometry DEF Sound, Layer
  <2>3. BlockIndex(s, n, c) = i
    BY <1>1, <2>1, <2>2, Found
  <2> DEFINE l == [s.line[n][i] EXCEPT !.dirty = TRUE]
  <2>4. s.line[n][i] \in [valid : BOOLEAN, dirty : BOOLEAN, tag : Tags(n)]
    BY <1>1 DEF Typed, LineOf
  <2>5. l \in LineOf(n) /\ l.valid = s.line[n][i].valid /\ l.dirty = TRUE /\ l.tag = s.line[n][i].tag
    BY <2>4 DEF LineOf
  <2>6. WriteBack(s, n, c, x) = Put(s, n, i, l, x)
    BY <1>1, <2>3 DEF WriteBack, Put
  <2> HIDE DEF l
  <2>7. l.valid /\ l.dirty
    BY <2>1, <2>5 DEF At
  <2> QED
    BY <1>1, <2>1, <2>5, <2>6, <2>7, Overwritten
<1>2. CASE n \notin Levels
  <2>0. n = Len(caches) + 1 /\ n \in Nat \ {0} /\ \A k \in Levels : k < n /\ k \in Nat
    BY <1>2, Geometry DEF Levels
  <2>1. t = [s EXCEPT !.dram = [s.dram EXCEPT ![c] = x]]
    BY <1>2 DEF WriteBack
  <2>2. /\ DOMAIN t = DOMAIN s /\ t.line = s.line /\ t.data = s.data /\ t.mru = s.mru
        /\ t.dram = [s.dram EXCEPT ![c] = x]
    BY <2>1 DEF Typed
  <2>3. Typed(t)
    BY <2>2 DEF Typed
  <2>4. See(t, n, c) = x
    BY <2>0, <2>2, SeeDram DEF Typed
  <2>5. \A d \in Blocks \ {c} : See(t, n, d) = See(s, n, d)
    BY <2>0, <2>2, SeeDram DEF Typed
  <2>6. Sound(t, n) /\ SameBefore(s, t, n)
    BY <2>0, <2>2 DEF Sound, SameBefore
  <2> QED
    BY <1>2, <2>3, <2>4, <2>5, <2>6 DEF Wrote, SamePlaces
<1> QED
  BY <1>1, <1>2

\* What is sound from a layer on is so from the next.
LEMMA SoundBehind ==
  ASSUME caches \in Hierarchies, NEW s, NEW n \in Levels, Sound(s, n)
  PROVE  Sound(s, n + 1) /\ Layer(s, n)
  BY Geometry DEF Sound

\* Before a fetch of b, layer n gives up the block it has where b will go.
Drops(s, n, b, c) ==
  LET i == BlockIndex(s, n, b)
  IN  ~ Hit(s, n, i, b) /\ At(s, n, i, c)

\* The state t that SaveVictim leaves.
Saved(s, t, n, b) ==
  /\ Typed(t) /\ Sound(t, n + 1) /\ SameBefore(s, t, n + 1) /\ SamePlaces(s, t, n + 1)
  /\ \A c \in Blocks :
       See(t, n + 1, c) = IF Drops(s, n, b, c) THEN See(s, n, c) ELSE See(s, n + 1, c)

\* The look-up returns a slot of the block's set.
LEMMA BlockIndexIsSlot ==
  ASSUME caches \in Hierarchies, NEW s, Typed(s), NEW n \in Levels, Sound(s, n), NEW b \in Blocks
  PROVE  BlockIndex(s, n, b) \in SlotsOf(n, b) /\ BlockIndex(s, n, b) \in Slots(n)
<1>1. Unique(s, n)
  BY SoundBehind DEF Layer
<1>2. BlockIndex(s, n, b) \in SlotsOf(n, b)
  BY <1>1, Found, NotFound DEF Stores
<1> QED
  BY <1>2, Place

\* Before the fetch from the next layer, fetch writes back a dirty victim; a clean one
\* is a copy already. Then all that layer n will forget is seen in the next.
LEMMA VictimIsSaved ==
  ASSUME caches \in Hierarchies, NEW s, Typed(s), NEW n \in Levels, Sound(s, n),
         NEW b \in Blocks, NEW t, t = SaveVictim(s, n, b)
  PROVE  Saved(s, t, n, b)
<1> DEFINE i == BlockIndex(s, n, b)
           v == Block(s, n, i)
<1>0. Layer(s, n) /\ Sound(s, n + 1)
  BY SoundBehind
<1>1. i \in SlotsOf(n, b) /\ i \in Slots(n) /\ i \div caches[n].ways = SetIndex(n, b)
  BY BlockIndexIsSlot, Place
<1>2. CASE Saves(s, n, b)
  <2>1. ~ Hit(s, n, i, b) /\ s.line[n][i].valid /\ s.line[n][i].dirty
    BY <1>2 DEF Saves
  <2>2. v \in Blocks
    BY <1>0, <1>1, <2>1 DEF Layer, Unique
  <2>3. Recuperate(n, s.line[n][i].tag, b) = v
    BY <1>1 DEF Recuperate, Block
  <2>4. t = WriteBack(s, n + 1, v, s.data[n][i])
    BY <1>2, <2>3 DEF SaveVictim
  <2>5. s.data[n][i] \in Contents
    BY <1>1 DEF Typed
  <2>6. n + 1 \in Levels => Stores(s, n + 1, v)
    BY <1>0, <1>1, <2>1, <2>2, NewestIsSlot DEF Layer, Included, Stores
  <2>7. n + 1 \in 1 .. Len(caches) + 1
    BY Geometry DEF Levels
  <2>8. At(s, n, i, v)
    BY <2>1 DEF At
  <2> HIDE DEF v, i
  <2>9. Wrote(s, t, n + 1, v, s.data[n][i]) /\ SamePlaces(s, t, n + 1)
    BY <1>0, <2>2, <2>4, <2>5, <2>6, <2>7, WriteBackWrites
  <2>10. See(s, n, v) = s.data[n][i]
    BY <1>0, <1>1, <2>2, <2>8, Found DEF Layer
  <2>11. \A c \in Blocks : Drops(s, n, b, c) <=> c = v
    BY <2>1, <2>8 DEF Drops, At, i
  <2> QED
    BY <2>2, <2>9, <2>10, <2>11 DEF Wrote, Saved
<1>3. CASE ~ Saves(s, n, b)
  <2>1. t = s
    BY <1>3 DEF SaveVictim
  <2>2. ASSUME NEW c \in Blocks, Drops(s, n, b, c)
        PROVE  See(s, n + 1, c) = See(s, n, c)
    <3>1. ~ Hit(s, n, i, b) /\ At(s, n, i, c) /\ c = v
      BY <2>2 DEF Drops, At
    <3>2. s.line[n][i].valid /\ ~ s.line[n][i].dirty
      BY <1>3, <3>1 DEF Saves, At
    <3> HIDE DEF i
    <3>3. s.data[n][i] = See(s, n + 1, c)
      BY <1>0, <1>1, <3>1, <3>2 DEF Layer, Copied
    <3>4. See(s, n, c) = s.data[n][i]
      BY <1>0, <1>1, <3>1, Found DEF Layer
    <3> QED
      BY <3>3, <3>4
  <2>3. SameBefore(s, s, n + 1) /\ SamePlaces(s, s, n + 1)
    BY DEF SameBefore, SamePlaces
  <2> QED
    BY <1>0, <2>1, <2>2, <2>3 DEF Saved
<1> QED
  BY <1>2, <1>3

\* A fetch of b from layer n on returns x, and changes nothing that can be seen. The
\* block is then in the slot of its set used last, and the other sets are as before.
Fetched(s, t, n, b, x) ==
  /\ Typed(t) /\ Sound(t, n) /\ SameBefore(s, t, n)
  /\ x = See(s, n, b) /\ x \in Contents
  /\ \A c \in Blocks : See(t, n, c) = See(s, n, c)
  /\ n \in Levels =>
       /\ At(t, n, Newest(t, n, b), b)
       /\ \A c \in Blocks : SetIndex(n, c) # SetIndex(n, b) =>
            /\ Newest(t, n, c) = Newest(s, n, c)
            /\ At(s, n, Newest(s, n, c), c) => At(t, n, Newest(s, n, c), c)

\* Being sound depends on the lines, the data and the mru of the next layers.
LEMMA SoundSame ==
  ASSUME caches \in Hierarchies, NEW s, NEW t, Typed(s), NEW n \in Nat \ {0}, SameFrom(s, t, n),
         \A k \in Levels : k > n => t.mru[k] = s.mru[k],
         Sound(s, n)
  PROVE  Sound(t, n)
<1> SUFFICES ASSUME NEW k \in Levels, k >= n
             PROVE  Layer(t, k)
  BY DEF Sound
<1>0. Layer(s, k) /\ k \in Nat /\ n \in Nat /\ k + 1 \in Nat
  BY Geometry DEF Sound
<1>1. \A j \in Levels : j >= n => t.line[j] = s.line[j] /\ t.data[j] = s.data[j]
  BY DEF SameFrom
<1>2. \A j \in Levels : j >= n => \A i, c :
        Block(t, j, i) = Block(s, j, i) /\ (At(t, j, i, c) <=> At(s, j, i, c))
  BY <1>1 DEF Block, At
<1>3. Unique(t, k)
  BY <1>0, <1>1, <1>2 DEF Layer, Unique
<1>4. \A c : See(t, k + 1, c) = See(s, k + 1, c)
  BY <1>0, SeeSame
<1>5. Copied(t, k)
  BY <1>0, <1>1, <1>2, <1>4 DEF Layer, Copied
<1>6. Included(t, k)
  <2> SUFFICES ASSUME k + 1 \in Levels, NEW i \in Slots(k), t.line[k][i].valid
               PROVE  At(t, k + 1, Newest(t, k + 1, Block(t, k, i)), Block(t, k, i))
    BY DEF Included
  <2>1. s.line[k][i].valid
    BY <1>1
  <2>2. At(s, k + 1, Newest(s, k + 1, Block(s, k, i)), Block(s, k, i))
    BY <1>0, <2>1 DEF Layer, Included
  <2>3. t.mru[k + 1] = s.mru[k + 1] /\ k + 1 >= n
    BY <1>0
  <2>4. \A c : Newest(t, k + 1, c) = Newest(s, k + 1, c)
    BY <2>3 DEF Newest
  <2> QED
    BY <1>2, <2>2, <2>3, <2>4
<1> QED
  BY <1>3, <1>5, <1>6 DEF Layer

\* The DRAM returns the block.
LEMMA FetchDramFetches ==
  ASSUME caches \in Hierarchies, NEW s, Typed(s), NEW b \in Blocks,
         NEW r, r = FetchDram(s, b)
  PROVE  Fetched(s, r.state, Len(caches) + 1, b, r.contents)
<1>1. r.state = s /\ r.contents = s.dram[b]
  BY DEF FetchDram
<1>2. Sound(s, Len(caches) + 1) /\ Len(caches) + 1 \notin Levels
  BY Geometry DEF Sound, Levels
<1>3. s.dram[b] \in Contents
  BY DEF Typed
<1>4. SameBefore(s, s, Len(caches) + 1)
  BY DEF SameBefore
<1> QED
  BY <1>1, <1>2, <1>3, <1>4, SeeDram DEF Fetched

\* A hit moves the mark of use only.
LEMMA HitFetches ==
  ASSUME caches \in Hierarchies, NEW s, Typed(s), NEW n \in Levels, Sound(s, n), NEW b \in Blocks,
         NEW i, i = BlockIndex(s, n, b), Hit(s, n, i, b),
         NEW t, t = MarkUsed(s, n, b, i)
  PROVE  Fetched(s, t, n, b, s.data[n][i])
<1>0. n \in Nat \ {0} /\ Layer(s, n) /\ \A k \in Levels : k \in Nat
  BY Geometry, SoundBehind
<1>1. i \in Slots(n) /\ i \in SlotsOf(n, b) /\ At(s, n, i, b)
  <2>1. Stores(s, n, b)
    BY NotFound
  <2>2. PICK j \in Slots(n) : At(s, n, j, b)
    BY <2>1 DEF Stores
  <2> QED
    BY <1>0, <2>2, Found DEF Layer
<1>2. /\ i % caches[n].ways \in 0 .. caches[n].ways - 1
      /\ i = SetIndex(n, b) * caches[n].ways + (i % caches[n].ways)
  BY <1>1, Place
<1>3. /\ Typed(t)
      /\ t.dram = s.dram /\ t.line = s.line /\ t.data = s.data
      /\ \A k \in Levels \ {n} : t.mru[k] = s.mru[k]
      /\ t.mru[n][SetIndex(n, b)] = i % caches[n].ways
      /\ \A x \in Sets(n) \ {SetIndex(n, b)} : t.mru[n][x] = s.mru[n][x]
  BY <1>2, MarkUsedEffect
<1>4. SameFrom(s, t, n)
  BY <1>3 DEF SameFrom
<1>5. Sound(t, n)
  BY <1>0, <1>3, <1>4, SoundSame
<1>6. \A c : See(t, n, c) = See(s, n, c)
  BY <1>0, <1>4, SeeSame
<1>7. s.data[n][i] = See(s, n, b) /\ s.data[n][i] \in Contents
  BY <1>0, <1>1, Found DEF Layer, Typed
<1>8. \A j, c : At(t, n, j, c) <=> At(s, n, j, c)
  BY <1>3 DEF At, Block
<1>9. At(t, n, Newest(t, n, b), b)
  <2>1. Newest(t, n, b) = i
    BY <1>2, <1>3 DEF Newest
  <2> QED
    BY <1>1, <1>8, <2>1
<1>10. \A c \in Blocks : SetIndex(n, c) # SetIndex(n, b) => Newest(t, n, c) = Newest(s, n, c)
  BY <1>3, TagAndSet DEF Newest
<1>11. SameBefore(s, t, n)
  BY <1>0, <1>3 DEF SameBefore
<1> QED
  BY <1>3, <1>5, <1>6, <1>7, <1>8, <1>9, <1>10, <1>11 DEF Fetched

\* A miss puts the block, fetched from the next layer, in the place of the victim v
\* has saved. What the fetch evicts from the next layer is not in this one: it would
\* be in the set of b there, so in the set of b here, where the victim was alone.
LEMMA MissFetches ==
  ASSUME caches \in Hierarchies, NEW s, Typed(s), NEW n \in Levels, Sound(s, n), NEW b \in Blocks,
         NEW i, i = BlockIndex(s, n, b), ~ Hit(s, n, i, b),
         NEW v, Saved(s, v, n, b),
         NEW q, NEW y, Fetched(v, q, n + 1, b, y),
         NEW f, f = Put(q, n, i, Filled(n, b), y),
         NEW t, t = MarkUsed(f, n, b, i)
  PROVE  Fetched(s, t, n, b, y)
<1>0. /\ n \in Nat \ {0} /\ n + 1 \in Nat \ {0} /\ Layer(s, n) /\ \A k \in Levels : k \in Nat
      /\ n \in Nat
  BY Geometry, SoundBehind
<1>1. ~ Stores(s, n, b)
  BY <1>0, Found DEF Stores, Layer
<1>2. /\ i \in SlotsOf(n, b) /\ i \in Slots(n) /\ i % caches[n].ways \in 0 .. caches[n].ways - 1
      /\ i = SetIndex(n, b) * caches[n].ways + (i % caches[n].ways)
      /\ i \div caches[n].ways = SetIndex(n, b)
  <2>1. i \in SlotsOf(n, b)
    BY <1>1, NotFound
  <2> QED
    BY <2>1, Place
<1>3. /\ Typed(q) /\ Sound(q, n + 1) /\ y = See(v, n + 1, b) /\ y \in Contents
      /\ \A c \in Blocks : See(q, n + 1, c) = See(v, n + 1, c)
  BY DEF Fetched
<1>4. \A k \in Levels : k <= n => q.line[k] = s.line[k] /\ q.data[k] = s.data[k] /\ q.mru[k] = s.mru[k]
  <2>1. SameBefore(s, v, n + 1) /\ SameBefore(v, q, n + 1)
    BY DEF Saved, Fetched
  <2>2. \A k \in Levels : k <= n => k < n + 1
    BY <1>0
  <2> QED
    BY <2>1, <2>2 DEF SameBefore
<1>5. Filled(n, b) \in LineOf(n) /\ Filled(n, b).valid /\ Filled(n, b).tag = Tag(n, b)
  BY TagAndSet DEF Filled, LineOf
<1>6. /\ Typed(f)
      /\ f.dram = q.dram /\ f.mru = q.mru
      /\ \A k \in Levels \ {n} : f.line[k] = q.line[k] /\ f.data[k] = q.data[k]
      /\ f.line[n][i] = Filled(n, b) /\ f.data[n][i] = y
      /\ \A j \in Slots(n) \ {i} : f.line[n][j] = q.line[n][j] /\ f.data[n][j] = q.data[n][j]
  BY <1>2, <1>3, <1>5, PutEffect
<1>7. /\ Typed(t)
      /\ t.dram = f.dram /\ t.line = f.line /\ t.data = f.data
      /\ \A k \in Levels \ {n} : t.mru[k] = f.mru[k]
      /\ t.mru[n][SetIndex(n, b)] = i % caches[n].ways
      /\ \A x \in Sets(n) \ {SetIndex(n, b)} : t.mru[n][x] = f.mru[n][x]
  BY <1>2, <1>6, MarkUsedEffect
<1>8. /\ t.line[n][i] = Filled(n, b) /\ t.data[n][i] = y
      /\ \A j \in Slots(n) \ {i} : t.line[n][j] = s.line[n][j] /\ t.data[n][j] = s.data[n][j]
      /\ \A x \in Sets(n) \ {SetIndex(n, b)} : t.mru[n][x] = s.mru[n][x]
  BY <1>0, <1>4, <1>6, <1>7
<1>9. SameFrom(q, t, n + 1) /\ \A k \in Levels : k > n => t.mru[k] = q.mru[k]
  BY <1>0, <1>6, <1>7 DEF SameFrom
<1>10. \A k \in Nat : k >= n + 1 => \A c : See(t, k, c) = See(q, k, c)
  BY <1>0, <1>9, SeeSame
<1>11. Sound(t, n + 1)
  BY <1>0, <1>3, <1>9, SoundSame
<1>12. \A c \in Blocks :
         See(t, n + 1, c) = IF Drops(s, n, b, c) THEN See(s, n, c) ELSE See(s, n + 1, c)
  BY <1>0, <1>3, <1>10 DEF Saved
<1>13. At(t, n, i, b) /\ Block(t, n, i) = b
  BY <1>2, <1>5, <1>8, TagAndSet DEF At, Block
<1>14. \A j \in Slots(n) \ {i} :
         Block(t, n, j) = Block(s, n, j) /\ \A c : At(t, n, j, c) <=> At(s, n, j, c)
  BY <1>8 DEF At, Block
<1>15. Unique(t, n)
  <2>1. \A j \in Slots(n) \ {i} : ~ At(t, n, j, b)
    BY <1>1, <1>14 DEF Stores
  <2>2. \A j \in Slots(n) \ {i} : t.line[n][j].valid =>
          /\ Block(t, n, j) \in Blocks /\ Block(t, n, j) # b
          /\ \A k \in Slots(n) \ {i} : At(t, n, k, Block(t, n, j)) => k = j
    BY <1>0, <1>8, <1>14, <2>1 DEF Layer, Unique, At
  <2> QED
    BY <1>13, <2>1, <2>2 DEF Unique, At
<1>16. \A c \in Blocks : Drops(s, n, b, c) <=> At(s, n, i, c)
  BY DEF Drops
<1>17. y = See(s, n, b)
  <2>1. ~ Drops(s, n, b, b)
    BY <1>1, <1>2, <1>16 DEF Stores
  <2>2. See(v, n + 1, b) = See(s, n + 1, b)
    BY <2>1 DEF Saved
  <2>3. See(s, n, b) = See(s, n + 1, b)
    BY <1>1, NotFound
  <2> QED
    BY <1>3, <2>2, <2>3
<1>18. ASSUME NEW c \in Blocks
       PROVE  See(t, n, c) = See(s, n, c)
  <2>0. Unique(s, n)
    BY <1>0 DEF Layer
  <2>1. CASE c = b
    <3>1. See(t, n, b) = t.data[n][i]
      BY <1>2, <1>7, <1>13, <1>15, Found
    <3> QED
      BY <1>8, <1>17, <2>1, <3>1
  <2>2. CASE c # b /\ \E j \in Slots(n) \ {i} : At(s, n, j, c)
    <3>1. PICK j \in Slots(n) \ {i} : At(s, n, j, c)
      BY <2>2
    <3>2. At(t, n, j, c)
      BY <1>14, <3>1
    <3>3. See(s, n, c) = s.data[n][j]
      BY <2>0, <3>1, Found
    <3>4. See(t, n, c) = t.data[n][j]
      BY <1>7, <1>15, <3>2, Found
    <3> QED
      BY <1>8, <3>3, <3>4
  <2>3. CASE c # b /\ ~ \E j \in Slots(n) \ {i} : At(s, n, j, c)
    <3>1. ~ Stores(t, n, c)
      BY <1>13, <1>14, <2>3 DEF Stores, At
    <3>2. See(t, n, c) = See(t, n + 1, c)
      BY <1>7, <3>1, NotFound
    <3>3. CASE At(s, n, i, c)
      BY <1>12, <1>16, <3>2, <3>3
    <3>4. CASE ~ At(s, n, i, c)
      <4>1. ~ Stores(s, n, c)
        BY <2>3, <3>4 DEF Stores
      <4>2. See(s, n, c) = See(s, n + 1, c)
        BY <4>1, NotFound
      <4> QED
        BY <1>12, <1>16, <3>2, <3>4, <4>2
    <3> QED
      BY <3>3, <3>4
  <2> QED
    BY <2>1, <2>2, <2>3
<1>19. Copied(t, n)
  <2> SUFFICES ASSUME NEW j \in Slots(n), t.line[n][j].valid, ~ t.line[n][j].dirty
               PROVE  t.data[n][j] = See(t, n + 1, Block(t, n, j))
    BY DEF Copied
  <2>1. CASE j = i
    <3>1. See(t, n + 1, b) = See(v, n + 1, b)
      BY <1>0, <1>3, <1>10
    <3> QED
      BY <1>3, <1>8, <1>13, <2>1, <3>1
  <2>2. CASE j # i
    <3> DEFINE c == Block(s, n, j)
    <3>1. /\ Block(t, n, j) = c /\ s.line[n][j].valid /\ ~ s.line[n][j].dirty
          /\ t.data[n][j] = s.data[n][j]
      BY <1>8, <1>14, <2>2
    <3>2. c \in Blocks /\ s.data[n][j] = See(s, n + 1, c)
      BY <1>0, <3>1 DEF Layer, Copied, Unique
    <3>3. ~ At(s, n, i, c)
      BY <1>0, <1>2, <2>2, <3>1 DEF Layer, Unique
    <3> HIDE DEF c
    <3> QED
      BY <1>12, <1>16, <3>1, <3>2, <3>3
  <2> QED
    BY <2>1, <2>2
<1>20. Included(t, n)
  <2> SUFFICES ASSUME n + 1 \in Levels, NEW j \in Slots(n), t.line[n][j].valid
               PROVE  At(t, n + 1, Newest(t, n + 1, Block(t, n, j)), Block(t, n, j))
    BY DEF Included
  <2>1. n = 1 /\ caches[2].sets % caches[1].sets = 0 /\ caches[1].ways = 1
    BY Ratio, Geometry
  <2>2. \A c : Newest(t, n + 1, c) = Newest(q, n + 1, c)
    BY <1>0, <1>9 DEF Newest
  <2>3. \A k, c : At(t, n + 1, k, c) <=> At(q, n + 1, k, c)
    BY <1>0, <1>9 DEF SameFrom, At, Block
  <2>4. CASE j = i
    <3>1. At(q, n + 1, Newest(q, n + 1, b), b)
      BY DEF Fetched
    <3> QED
      BY <1>13, <2>2, <2>3, <2>4, <3>1
  <2>5. CASE j # i
    <3>0. PICK c : c = Block(s, n, j)
      OBVIOUS
    <3>1. Block(t, n, j) = c /\ s.line[n][j].valid /\ At(s, n, j, c)
      BY <1>8, <1>14, <2>5, <3>0 DEF At
    <3>2. c \in Blocks /\ At(s, n + 1, Newest(s, n + 1, c), c)
      BY <1>0, <3>0, <3>1 DEF Layer, Included, Unique
    <3>3. Newest(v, n + 1, c) = Newest(s, n + 1, c)
      BY DEF Saved, SamePlaces, Newest
    <3>4. At(v, n + 1, Newest(v, n + 1, c), c)
      <4>1. Newest(s, n + 1, c) \in Slots(n + 1)
        BY <3>2, NewestIsSlot
      <4> QED
        BY <3>2, <3>3, <4>1 DEF Saved, SamePlaces, At, Block
    <3>5. SetIndex(n, c) # SetIndex(n, b)
      <4>1. j \in SlotsOf(n, c)
        BY <3>1, <3>2, Lookup
      <4>2. SlotsOf(n, c) = {SetIndex(n, c)} /\ SlotsOf(n, b) = {SetIndex(n, b)}
        <5>1. SetIndex(n, c) \in Nat /\ SetIndex(n, b) \in Nat
          BY <3>2, Geometry, TagAndSet DEF Sets
        <5> QED
          BY <2>1, <5>1 DEF SlotsOf
      <4> QED
        BY <1>2, <2>5, <4>1, <4>2
    <3>6. SetIndex(n + 1, c) # SetIndex(n + 1, b)
      <4>1. caches[1].sets \in Nat \ {0} /\ caches[2].sets \in Nat \ {0}
        BY <2>1, Geometry
      <4>2. b \in Nat /\ c \in Nat
        BY <3>2, BlocksAreNumbers
      <4>3. c % caches[2].sets = b % caches[2].sets => c % caches[1].sets = b % caches[1].sets
        BY <2>1, <4>1, <4>2, ModOfMultiple
      <4>4. 1 + 1 = 2
        OBVIOUS
      <4> QED
        BY <2>1, <3>5, <4>3, <4>4 DEF SetIndex
    <3>7. At(q, n + 1, Newest(q, n + 1, c), c)
      BY <3>2, <3>4, <3>6 DEF Fetched
    <3> QED
      BY <2>2, <2>3, <3>1, <3>7
  <2> QED
    BY <2>4, <2>5
<1>21. Sound(t, n)
  <2>1. \A k \in Levels : k >= n => k = n \/ k >= n + 1
    BY <1>0
  <2> QED
    BY <1>11, <1>15, <1>19, <1>20, <2>1 DEF Sound, Layer
<1>22. SameBefore(s, t, n)
  BY <1>0, <1>4, <1>6, <1>7 DEF SameBefore
<1>23. At(t, n, Newest(t, n, b), b)
  BY <1>2, <1>7, <1>13 DEF Newest
<1>24. ASSUME NEW c \in Blocks, SetIndex(n, c) # SetIndex(n, b)
       PROVE  /\ Newest(t, n, c) = Newest(s, n, c)
              /\ At(s, n, Newest(s, n, c), c) => At(t, n, Newest(s, n, c), c)
  <2>1. Newest(t, n, c) = Newest(s, n, c)
    BY <1>8, <1>24, TagAndSet DEF Newest
  <2>2. Newest(s, n, c) \in SlotsOf(n, c)
    BY NewestIsSlot
  <2>3. Newest(s, n, c) \in Slots(n) \ {i}
    BY <1>2, <1>24, <2>2, Place
  <2> QED
    BY <1>14, <2>1, <2>3
<1> QED
  BY <1>3, <1>7, <1>17, <1>18, <1>21, <1>22, <1>23, <1>24 DEF Fetched

\* fetch on a cache, from a next layer that fetches.
LEMMA LoadFetches ==
  ASSUME caches \in Hierarchies, NEW s, Typed(s), NEW n \in Levels, Sound(s, n), NEW b \in Blocks,
         NEW next, Fetched(SaveVictim(s, n, b), next.state, n + 1, b, next.contents),
         NEW r, r = Load(s, n, b, next)
  PROVE  Fetched(s, r.state, n, b, r.contents)
<1>0. PICK i, v, q, y :
        /\ i = BlockIndex(s, n, b) /\ v = SaveVictim(s, n, b)
        /\ q = next.state /\ y = next.contents
  OBVIOUS
<1>1. CASE Hit(s, n, i, b)
  <2>1. r.state = MarkUsed(s, n, b, i) /\ r.contents = s.data[n][i]
    BY <1>0, <1>1 DEF Load
  <2> QED
    BY <1>0, <1>1, <2>1, HitFetches
<1>2. CASE ~ Hit(s, n, i, b)
  <2> DEFINE f == Put(q, n, i, Filled(n, b), y)
  <2>1. r.state = MarkUsed(f, n, b, i) /\ r.contents = f.data[n][i]
    BY <1>0, <1>2 DEF Load, Put
  <2>2. i \in Slots(n)
    BY <1>0, BlockIndexIsSlot
  <2>3. Typed(q) /\ y \in Contents
    BY <1>0 DEF Fetched
  <2>4. Filled(n, b) \in LineOf(n)
    BY TagAndSet DEF Filled, LineOf
  <2>5. f.data[n][i] = y
    BY <2>2, <2>3, <2>4, PutEffect
  <2>6. Saved(s, v, n, b)
    BY <1>0, VictimIsSaved
  <2> HIDE DEF f
  <2>7. f = Put(q, n, i, Filled(n, b), y)
    BY DEF f
  <2>8. Fetched(s, r.state, n, b, y)
    BY <1>0, <1>2, <2>1, <2>6, <2>7, MissFetches
  <2> QED
    BY <2>1, <2>5, <2>8
<1> QED
  BY <1>1, <1>2

\* fetch from what is behind L1: the DRAM, or L2 over the DRAM.
LEMMA FetchSecondFetches ==
  ASSUME caches \in Hierarchies, NEW s, Typed(s), Sound(s, 2), NEW b \in Blocks,
         NEW r, r = FetchSecond(s, b)
  PROVE  Fetched(s, r.state, 2, b, r.contents)
<1>1. CASE Len(caches) = 1
  <2>1. r = FetchDram(s, b) /\ Len(caches) + 1 = 2
    BY <1>1 DEF FetchSecond
  <2> QED
    BY <2>1, FetchDramFetches
<1>2. CASE Len(caches) = 2
  <2>0. 2 \in Levels /\ Len(caches) + 1 = 2 + 1
    BY <1>2 DEF Levels
  <2>1. PICK v, g, f : v = SaveVictim(s, 2, b) /\ g = FetchDram(v, b) /\ f = Load(s, 2, b, g)
    OBVIOUS
  <2>2. Typed(v)
    BY <2>0, <2>1, VictimIsSaved DEF Saved
  <2>3. Fetched(v, g.state, 2 + 1, b, g.contents)
    BY <2>0, <2>1, <2>2, FetchDramFetches
  <2>4. Fetched(s, f.state, 2, b, f.contents)
    BY <2>0, <2>1, <2>3, LoadFetches
  <2>5. r = [f EXCEPT !.time = @ + caches[2].read]
    BY <1>2, <2>1 DEF FetchSecond
  <2>6. DOMAIN f = {"state", "contents", "time"}
    BY <2>1 DEF Load
  <2>7. r.state = f.state /\ r.contents = f.contents
    BY <2>5, <2>6
  <2> QED
    BY <2>4, <2>7
<1> QED
  BY <1>1, <1>2, Geometry

\* fetch on the whole hierarchy.
LEMMA FetchFetches ==
  ASSUME caches \in Hierarchies, NEW s, Typed(s), Sound(s, 1), NEW b \in Blocks,
         NEW r, r = Fetch(s, b)
  PROVE  Fetched(s, r.state, 1, b, r.contents)
<1>0. 1 \in Levels /\ 1 + 1 = 2
  BY Geometry
<1>1. PICK v, g : v = SaveVictim(s, 1, b) /\ g = FetchSecond(v, b)
  OBVIOUS
<1>2. Typed(v) /\ Sound(v, 2)
  BY <1>0, <1>1, VictimIsSaved DEF Saved
<1>3. Fetched(v, g.state, 1 + 1, b, g.contents)
  BY <1>0, <1>1, <1>2, FetchSecondFetches
<1> QED
  BY <1>0, <1>1, <1>3, LoadFetches DEF Fetch

\* The slot that was looked up before the fetch is the one the fetch fills.
LEMMA SlotOfFirst ==
  ASSUME caches \in Hierarchies, NEW s, Typed(s), Sound(s, 1), NEW b \in Blocks,
         NEW t, NEW x, Fetched(s, t, 1, b, x)
  PROVE  BlockIndex(s, 1, b) \in Slots(1) /\ At(t, 1, BlockIndex(s, 1, b), b)
<1>0. 1 \in Levels /\ caches[1].ways = 1
  BY Geometry
<1>1. BlockIndex(s, 1, b) \in SlotsOf(1, b) /\ BlockIndex(s, 1, b) \in Slots(1)
  BY <1>0, BlockIndexIsSlot
<1>2. At(t, 1, Newest(t, 1, b), b) /\ Typed(t)
  BY <1>0 DEF Fetched
<1>3. Newest(t, 1, b) \in SlotsOf(1, b)
  BY <1>0, <1>2, NewestIsSlot
<1>4. SlotsOf(1, b) = {SetIndex(1, b)}
  <2>1. SetIndex(1, b) \in Nat
    BY <1>0, Geometry, TagAndSet DEF Sets
  <2> QED
    BY <1>0, <2>1 DEF SlotsOf
<1> QED
  BY <1>1, <1>2, <1>3, <1>4

------------------------------------------------------------------------------
(* What the steps do.                                                            *)

\* As initCache leaves the lines.
NothingValid(s) == \A n \in Levels : \A i \in Slots(n) : ~ s.line[n][i].valid

\* A block that every layer passes on is seen in the DRAM.
LEMMA ThroughToDram ==
  ASSUME caches \in Hierarchies, NEW s, NEW b,
         \A n \in Levels : See(s, n, b) = See(s, n + 1, b)
  PROVE  See(s, 1, b) = s.dram[b]
<1>1. Len(caches) \in {1, 2} /\ \A n \in 1 .. Len(caches) : n \in Levels
  BY Geometry DEF Levels
<1>2. See(s, 1, b) = See(s, Len(caches) + 1, b)
  <2>1. CASE Len(caches) = 1
    BY <1>1, <2>1
  <2>2. CASE Len(caches) = 2
    <3>1. See(s, 1, b) = See(s, 1 + 1, b) /\ See(s, 2, b) = See(s, 2 + 1, b)
      BY <1>1, <2>2
    <3> QED
      BY <2>2, <3>1
  <2> QED
    BY <1>1, <2>1, <2>2
<1> QED
  BY <1>2, SeeDram

\* When no line is valid, all is seen in the DRAM.
LEMMA EmptyIsSound ==
  ASSUME caches \in Hierarchies, NEW s, Typed(s), NothingValid(s)
  PROVE  Sound(s, 1) /\ \A b \in Blocks : See(s, 1, b) = s.dram[b]
<1>1. \A n \in Levels : n \in {1, 2} /\ Layer(s, n)
  BY Geometry DEF NothingValid, Layer, Unique, Included, Copied
<1>2. ASSUME NEW b \in Blocks
      PROVE  See(s, 1, b) = s.dram[b]
  <2>1. \A n \in Levels : ~ Stores(s, n, b)
    BY DEF NothingValid, Stores, At
  <2>2. \A n \in Levels : See(s, n, b) = See(s, n + 1, b)
    BY <2>1, NotFound
  <2> QED
    BY <2>2, ThroughToDram
<1> QED
  BY <1>1, <1>2 DEF Sound

\* After the first initialisation no line is valid.
LEMMA InitState ==
  ASSUME Init
  PROVE  /\ caches \in Hierarchies /\ Typed(m) /\ NothingValid(m)
         /\ \A b \in Blocks : m.dram[b] = [w \in Words |-> Zero]
<1> DEFINE zero == [w \in Words |-> Zero]
<1>0. caches \in Hierarchies /\ zero \in Contents
  BY HierarchyAssumption DEF Init, Contents
<1>1. /\ DOMAIN m = {"dram", "line", "data", "mru"}
      /\ m.dram = [b \in Blocks |-> zero]
      /\ m.line = [n \in Levels |-> [i \in Slots(n) |-> NewLine]]
      /\ m.data = [n \in Levels |-> [i \in Slots(n) |-> zero]]
      /\ m.mru = [n \in Levels |-> [x \in 0 .. caches[n].sets - 1 |-> caches[n].ways - 1]]
  BY DEF Init
<1>2. ASSUME NEW n \in Levels
      PROVE  NewLine \in LineOf(n)
  <2>1. 0 \in Tags(n)
    BY <1>0, TagsFromZero
  <2> QED
    BY <2>1 DEF NewLine, LineOf
<1>3. \A n \in Levels : caches[n].ways - 1 \in 0 .. caches[n].ways - 1
  BY <1>0, Geometry
<1> HIDE DEF zero
<1>4. Typed(m)
  BY <1>0, <1>1, <1>2, <1>3 DEF Typed, Sets
<1>5. NothingValid(m)
  BY <1>1 DEF NothingValid, NewLine
<1> QED
  BY <1>0, <1>1, <1>4, <1>5 DEF zero

\* The state that write leaves.
AfterWrite(s, b, w, x) ==
  LET i == BlockIndex(s, 1, b)
  IN  [Fetch(s, b).state EXCEPT !.line[1][i].dirty = TRUE, !.data[1][i][w] = x]

\* A write changes the word it is of, and no other.
LEMMA WriteState ==
  ASSUME caches \in Hierarchies, NEW s, Typed(s), Sound(s, 1),
         NEW b \in Blocks, NEW w \in Words, NEW x \in Values,
         NEW t, t = AfterWrite(s, b, w, x)
  PROVE  /\ Typed(t) /\ Sound(t, 1)
         /\ See(t, 1, b) = [See(s, 1, b) EXCEPT ![w] = x]
         /\ \A d \in Blocks \ {b} : See(t, 1, d) = See(s, 1, d)
<1>0. 1 \in Levels
  BY Geometry
<1>1. PICK f, y, i : /\ f = Fetch(s, b).state /\ y = Fetch(s, b).contents
                      /\ i = BlockIndex(s, 1, b)
  OBVIOUS
<1>2. Fetched(s, f, 1, b, y)
  BY <1>1, FetchFetches
<1>3. i \in Slots(1) /\ At(f, 1, i, b)
  BY <1>1, <1>2, SlotOfFirst
<1>4. Typed(f) /\ Sound(f, 1) /\ Unique(f, 1) /\ \A d \in Blocks : See(f, 1, d) = See(s, 1, d)
  BY <1>0, <1>2, SoundBehind DEF Fetched, Layer
<1> DEFINE l == [f.line[1][i] EXCEPT !.dirty = TRUE]
           z == [f.data[1][i] EXCEPT ![w] = x]
<1>5. f.line[1][i] \in [valid : BOOLEAN, dirty : BOOLEAN, tag : Tags(1)] /\ f.data[1][i] \in [Words -> Values]
  BY <1>0, <1>3, <1>4 DEF Typed, LineOf, Contents
<1>6. /\ l \in LineOf(1) /\ l.valid = f.line[1][i].valid /\ l.dirty = TRUE
      /\ l.tag = f.line[1][i].tag /\ z \in Contents
  BY <1>5 DEF LineOf, Contents
<1>7. t = Put(f, 1, i, l, z)
  BY <1>1 DEF Put, AfterWrite
<1>8. z = [See(s, 1, b) EXCEPT ![w] = x]
  <2>1. See(f, 1, b) = f.data[1][i]
    BY <1>0, <1>3, <1>4, Found
  <2> QED
    BY <1>4, <2>1
<1> HIDE DEF l, z
<1>9. l.valid /\ l.dirty
  BY <1>3, <1>6 DEF At
<1>10. Wrote(f, t, 1, b, z)
  BY <1>0, <1>3, <1>4, <1>6, <1>7, <1>9, Overwritten
<1> QED
  BY <1>4, <1>8, <1>10 DEF Wrote

\* After a new initialisation no line is valid, and the DRAM is as before.
LEMMA ResetState ==
  ASSUME caches \in Hierarchies, Typed(m), Reset
  PROVE  Typed(m') /\ NothingValid(m') /\ m'.dram = m.dram
<1>1. /\ DOMAIN m' = {"dram", "line", "data", "mru"}
      /\ m'.dram = m.dram /\ m'.data = m.data
      /\ m'.line = [n \in Levels |-> [i \in Slots(n) |-> [m.line[n][i] EXCEPT !.valid = FALSE]]]
      /\ m'.mru = [n \in Levels |-> [x \in 0 .. caches[n].sets - 1 |-> caches[n].ways - 1]]
  BY DEF Reset, Typed
<1>2. \A n \in Levels : \A i \in Slots(n) :
        m.line[n][i] \in [valid : BOOLEAN, dirty : BOOLEAN, tag : Tags(n)]
  BY DEF Typed, LineOf
<1>3. \A n \in Levels : \A i \in Slots(n) :
        m'.line[n][i] \in [valid : BOOLEAN, dirty : BOOLEAN, tag : Tags(n)] /\ m'.line[n][i].valid = FALSE
  <2> SUFFICES ASSUME NEW n \in Levels, NEW i \in Slots(n)
               PROVE  /\ m'.line[n][i] \in [valid : BOOLEAN, dirty : BOOLEAN, tag : Tags(n)]
                      /\ m'.line[n][i].valid = FALSE
    OBVIOUS
  <2>1. m'.line[n][i] = [m.line[n][i] EXCEPT !.valid = FALSE]
    BY <1>1
  <2> QED
    BY <1>2, <2>1
<1>4. \A n \in Levels : caches[n].ways - 1 \in 0 .. caches[n].ways - 1
  BY Geometry
<1>5. Typed(m')
  BY <1>1, <1>3, <1>4 DEF Typed, LineOf, Sets
<1> QED
  BY <1>1, <1>3, <1>5 DEF NothingValid

\* The inductive invariant of Cache.
Inv == caches \in Hierarchies /\ Typed(m) /\ Sound(m, 1)

\* What is seen after a step that leaves state t.
LEMMA SeePrimed ==
  ASSUME NEW t, caches' = caches, m' = t, NEW n, NEW c
  PROVE  See(m, n, c)' = See(t, n, c)
  BY DEF See, Holders, SlotsOf, Hit, Tag, SetIndex

\* The invariant after a step that leaves state t.
LEMMA Primed ==
  ASSUME NEW t, caches' = caches, m' = t, caches \in Hierarchies, Typed(t), Sound(t, 1)
  PROVE  Inv'
<1>1. Typed(m)'
  BY DEF Typed, Levels, Slots, Sets, LineOf, Tags
<1>2. Levels' = Levels /\ \A k : Slots(k)' = Slots(k)
  BY DEF Levels, Slots
<1>3. ASSUME NEW k \in Levels, k >= 1
      PROVE  Unique(m, k)' /\ Included(m, k)' /\ Copied(m, k)'
  <2>0. Unique(t, k) /\ Included(t, k) /\ Copied(t, k)
    BY <1>3 DEF Sound, Layer
  <2>1. Unique(m, k)'
    BY <2>0 DEF Unique, At, Block, Slots
  <2>2. Included(m, k)'
    BY <2>0, ZenonT(30) DEF Included, At, Block, Slots, Levels, Newest, SetIndex
  <2>3. Copied(m, k)'
    <3> SUFFICES ASSUME NEW i \in Slots(k), t.line[k][i].valid, ~ t.line[k][i].dirty,
                        NEW c, c = Block(t, k, i)
                 PROVE  t.data[k][i] = See(m, k + 1, c)'
      BY <1>2 DEF Copied, Block
    <3>1. See(m, k + 1, c)' = See(t, k + 1, c)
      BY SeePrimed
    <3> QED
      BY <2>0, <3>1 DEF Copied
  <2> QED
    BY <2>1, <2>2, <2>3
<1>4. Sound(m, 1)'
  BY <1>2, <1>3 DEF Sound, Layer
<1> QED
  BY <1>1, <1>4 DEF Inv

\* A read returns what is seen, and changes nothing that is.
LEMMA ReadStep ==
  ASSUME Inv, NEW b \in Blocks, NEW w \in Words, Read(b, w)
  PROVE  /\ Inv' /\ \A c \in Blocks : See(m, 1, c)' = See(m, 1, c)
         /\ out' = [kind |-> "word", block |-> b, word |-> w, value |-> See(m, 1, b)[w]]
<1>1. PICK f : f = Fetch(m, b)
  OBVIOUS
<1>2. Fetched(m, f.state, 1, b, f.contents)
  BY <1>1, FetchFetches DEF Inv
<1>3. PICK t : t = f.state
  OBVIOUS
<1>4. Typed(t) /\ Sound(t, 1) /\ f.contents = See(m, 1, b) /\ \A c \in Blocks : See(t, 1, c) = See(m, 1, c)
  BY <1>2, <1>3 DEF Fetched
<1>5. m' = t /\ caches' = caches /\ out' = [kind |-> "word", block |-> b, word |-> w, value |-> f.contents[w]]
  BY <1>1, <1>3 DEF Read
<1>6. Inv'
  BY <1>4, <1>5, Primed DEF Inv
<1>7. \A c : See(m, 1, c)' = See(t, 1, c)
  BY <1>5, SeePrimed
<1> QED
  BY <1>4, <1>5, <1>6, <1>7

\* A write changes what is seen of its word.
LEMMA WriteStep ==
  ASSUME Inv, NEW b \in Blocks, NEW w \in Words, NEW x \in Values, Write(b, w, x)
  PROVE  /\ Inv' /\ See(m, 1, b)' = [See(m, 1, b) EXCEPT ![w] = x]
         /\ \A c \in Blocks \ {b} : See(m, 1, c)' = See(m, 1, c)
         /\ out' = [kind |-> "write", block |-> b]
<1>1. PICK t : t = AfterWrite(m, b, w, x)
  OBVIOUS
<1>2. m' = t /\ caches' = caches /\ out' = [kind |-> "write", block |-> b]
  BY <1>1 DEF Write, AfterWrite
<1>3. /\ Typed(t) /\ Sound(t, 1)
      /\ See(t, 1, b) = [See(m, 1, b) EXCEPT ![w] = x]
      /\ \A d \in Blocks \ {b} : See(t, 1, d) = See(m, 1, d)
  BY <1>1, WriteState DEF Inv
<1>4. Inv'
  BY <1>2, <1>3, Primed DEF Inv
<1>5. \A c : See(m, 1, c)' = See(t, 1, c)
  BY <1>2, SeePrimed
<1> QED
  BY <1>2, <1>3, <1>4, <1>5

\* After a new initialisation the DRAM is what is seen.
LEMMA ResetStep ==
  ASSUME Inv, Reset
  PROVE  Inv' /\ (\A c \in Blocks : See(m, 1, c)' = m.dram[c]) /\ out' = None
<1>1. PICK t : t = m'
  OBVIOUS
<1>2. m' = t /\ caches' = caches /\ out' = None
  BY <1>1 DEF Reset
<1>3. Typed(t) /\ NothingValid(t) /\ t.dram = m.dram
  BY <1>1, ResetState DEF Inv
<1>4. Sound(t, 1) /\ \A c \in Blocks : See(t, 1, c) = t.dram[c]
  BY <1>3, EmptyIsSound DEF Inv
<1>5. Inv'
  BY <1>2, <1>3, <1>4, Primed DEF Inv
<1>6. \A c : See(m, 1, c)' = See(t, 1, c)
  BY <1>2, SeePrimed
<1> QED
  BY <1>2, <1>3, <1>4, <1>5, <1>6

\* A step that changes no variable.
LEMMA StutterStep ==
  ASSUME Inv, UNCHANGED vars
  PROVE  Inv' /\ (\A c \in Blocks : See(m, 1, c)' = See(m, 1, c)) /\ out' = out
<1>1. PICK t : t = m'
  OBVIOUS
<1>2. m' = t /\ t = m /\ caches' = caches /\ out' = out
  BY <1>1 DEF vars
<1>3. Inv'
  BY <1>2, Primed DEF Inv
<1>4. \A c : See(m, 1, c)' = See(t, 1, c)
  BY <1>2, SeePrimed
<1> QED
  BY <1>2, <1>3, <1>4

\* At the start every word is zero.
LEMMA InitInv == Init => Inv /\ \A b \in Blocks : See(m, 1, b) = [w \in Words |-> Zero]
  BY InitState, EmptyIsSound DEF Inv

\* The inductive invariant: the types, and every layer sound. Inclusion alone is not
\* inductive: that L2 may evict a block rests on the way its set was used, and the
\* refinement rests on the lines that are clean being copies.
THEOREM Invariance == Spec => []Inv
<1>1. Init => Inv
  BY InitInv
<1>2. Inv /\ [Next]_vars => Inv'
  BY ReadStep, WriteStep, ResetStep, StutterStep DEF Next, Access
<1> QED
  BY <1>1, <1>2, PTL DEF Spec

------------------------------------------------------------------------------

\* What the properties of Cache call seen.
LEMMA SeenIsSee ==
  ASSUME NEW n, NEW b
  PROVE  SeenFrom(n, b) = See(m, n, b) /\ SeenFrom(n, b)' = See(m, n, b)'
  BY DEF SeenFrom, See, Holders

\* The block that a slot holds.
LEMMA SlotBlocks ==
  ASSUME NEW n, NEW i, NEW b
  PROVE  BlockOf(n, i) = Block(m, n, i) /\ (Holds(n, i, b) <=> At(m, n, i, b))
  BY DEF BlockOf, Holds, Block, At

\* Lines, tags, contents and marks of use keep their types: a tag is always that of
\* a block of the DRAM.
THEOREM TypeInvariance == Spec => []TypeOK
<1>1. Inv => TypeOK
  BY DEF Inv, Typed, TypeOK, LineOf, Tags, Sets
<1> QED
  BY <1>1, Invariance, PTL

\* Two slots of a layer never hold the same block, and every block of L1 is in L2 in the
\* slot of its set used last, where writeBack marks a line without a look at its tag.
THEOREM InclusionKept == Spec => []Inclusion
<1>1. Inv => OneSlotPerBlock
  <2> SUFFICES ASSUME Inv
               PROVE  OneSlotPerBlock
    OBVIOUS
  <2>1. \A n \in Levels : Unique(m, n)
    BY Geometry DEF Inv, Sound, Layer
  <2> SUFFICES ASSUME NEW n \in Levels, NEW i \in Slots(n), NEW j \in Slots(n), m.line[n][i].valid
               PROVE  /\ BlockOf(n, i) \in Blocks
                      /\ Holds(n, j, BlockOf(n, i)) => i = j
    BY DEF OneSlotPerBlock
  <2>2. PICK c : c = Block(m, n, i)
    OBVIOUS
  <2>3. c \in Blocks /\ (At(m, n, j, c) => i = j)
    BY <2>1, <2>2 DEF Unique
  <2>4. BlockOf(n, i) = c /\ (Holds(n, j, c) <=> At(m, n, j, c))
    BY <2>2, SlotBlocks
  <2> QED
    BY <2>3, <2>4
<1>2. ASSUME Inv, Len(caches) = 2, NEW i \in Slots(1), m.line[1][i].valid,
             NEW c, c = BlockOf(1, i)
      PROVE  Holds(2, SetIndex(2, c) * caches[2].ways + m.mru[2][SetIndex(2, c)], c)
  <2>1. 1 \in Levels /\ 1 + 1 \in Levels /\ 1 + 1 = 2
    BY <1>2, Geometry DEF Inv, Levels
  <2>2. Included(m, 1)
    BY <1>2, <2>1 DEF Inv, Sound, Layer
  <2>3. c = Block(m, 1, i)
    BY <1>2, SlotBlocks
  <2>4. At(m, 2, Newest(m, 2, c), c)
    BY <1>2, <2>1, <2>2, <2>3 DEF Included
  <2> QED
    BY <2>4, SlotBlocks DEF Newest
<1>3. Inv => Inclusion
  BY <1>1, <1>2 DEF Inclusion
<1> QED
  BY <1>3, Invariance, PTL

\* A line that is not dirty is a copy of what the layers behind it hold: fetch may drop
\* it without a write.
THEOREM CleanCopies == Spec => []CleanIsCopied
<1>1. ASSUME Inv, NEW n \in Levels, NEW i \in Slots(n), m.line[n][i].valid, ~ m.line[n][i].dirty
      PROVE  m.data[n][i] = SeenFrom(n + 1, BlockOf(n, i))
  <2>1. Copied(m, n)
    BY <1>1, Geometry DEF Inv, Sound, Layer
  <2>2. PICK c : c = Block(m, n, i)
    OBVIOUS
  <2>3. m.data[n][i] = See(m, n + 1, c)
    BY <1>1, <2>1, <2>2 DEF Copied
  <2>4. See(m, n + 1, c) = SeenFrom(n + 1, c) /\ c = BlockOf(n, i)
    BY <2>2, SeenIsSee, SlotBlocks
  <2> QED
    BY <2>3, <2>4
<1>2. Inv => CleanIsCopied
  BY <1>1 DEF CleanIsCopied
<1> QED
  BY <1>2, Invariance, PTL

------------------------------------------------------------------------------

\* initCache, called again, loses no block but those written and not yet saved.
THEOREM ResetLosesDirty == Spec => ResetLosesOnlyDirty
<1>1. ASSUME Inv, Reset, NEW b \in Blocks,
             \A n \in Levels : \A i \in Slots(n) : Holds(n, i, b) => ~ m.line[n][i].dirty
      PROVE  SeenFrom(1, b)' = SeenFrom(1, b)
  <2>1. ASSUME NEW n \in Levels
        PROVE  See(m, n, b) = See(m, n + 1, b)
    <3>0. Layer(m, n) /\ caches \in Hierarchies /\ Typed(m)
      BY <1>1, Geometry DEF Inv, Sound
    <3>1. CASE ~ Stores(m, n, b)
      BY <3>0, <3>1, NotFound
    <3>2. CASE Stores(m, n, b)
      <4>1. PICK i \in Slots(n) : At(m, n, i, b)
        BY <3>2 DEF Stores
      <4>2. ~ m.line[n][i].dirty
        BY <1>1, <4>1, SlotBlocks
      <4>3. m.data[n][i] = See(m, n + 1, b)
        BY <3>0, <4>1, <4>2 DEF Layer, Copied, At
      <4>4. See(m, n, b) = m.data[n][i]
        BY <3>0, <4>1, Found DEF Layer
      <4> QED
        BY <4>3, <4>4
    <3> QED
      BY <3>1, <3>2
  <2>2. See(m, 1, b) = m.dram[b]
    BY <1>1, <2>1, ThroughToDram DEF Inv
  <2>3. See(m, 1, b)' = m.dram[b]
    BY <1>1, ResetStep
  <2> QED
    BY <2>2, <2>3, SeenIsSee
<1>2. Inv /\ [Next]_vars =>
        [Reset => \A b \in Blocks :
           (\A n \in Levels : \A i \in Slots(n) : Holds(n, i, b) => ~ m.line[n][i].dirty)
             => SeenFrom(1, b)' = SeenFrom(1, b)]_vars
  BY <1>1
<1> QED
  BY <1>2, Invariance, PTL DEF Spec, ResetLosesOnlyDirty

\* The memory that the hierarchy is.
Seen == [b \in Blocks |-> SeenFrom(1, b)]

\* Every hierarchy implements one memory: a read returns the last value written, and an
\* access to one address changes no other, whatever it evicts.
THEOREM Implementation == Spec => Coherent
<1>1. Init => Memory!Init
  <2> SUFFICES ASSUME Init
               PROVE  Memory!Init
    OBVIOUS
  <2>1. \A b \in Blocks : SeenFrom(1, b) = [w \in Words |-> Zero]
    BY InitInv, SeenIsSee
  <2>2. out = [kind |-> "none"]
    BY DEF Init, None
  <2> QED
    BY <2>1, <2>2 DEF Memory!Init, Memory!None
<1>2. ASSUME Inv, NEW b \in Blocks, NEW w \in Words, Read(b, w)
      PROVE  Memory!Read(b, w)
  <2>1. \A c \in Blocks : SeenFrom(1, c)' = SeenFrom(1, c)
    BY <1>2, ReadStep, SeenIsSee
  <2>2. out' = [kind |-> "word", block |-> b, word |-> w, value |-> SeenFrom(1, b)[w]]
    BY <1>2, ReadStep, SeenIsSee
  <2>3. Seen' = Seen /\ Seen[b] = SeenFrom(1, b)
    BY <2>1 DEF Seen
  <2> QED
    BY <2>2, <2>3 DEF Memory!Read, Memory!Word, Seen
<1>3. ASSUME Inv, NEW b \in Blocks, NEW w \in Words, NEW x \in Values, Write(b, w, x)
      PROVE  Memory!Write(b, w, x)
  <2>1. \A c \in Blocks \ {b} : SeenFrom(1, c)' = SeenFrom(1, c)
    BY <1>3, WriteStep, SeenIsSee
  <2>2. out' = [kind |-> "write", block |-> b] /\ SeenFrom(1, b)' = [SeenFrom(1, b) EXCEPT ![w] = x]
    BY <1>3, WriteStep, SeenIsSee
  <2>3. Seen' = [Seen EXCEPT ![b][w] = x]
    BY <2>1, <2>2 DEF Seen
  <2> QED
    BY <2>2, <2>3 DEF Memory!Write, Memory!Written, Seen
<1>4. ASSUME Inv, Reset
      PROVE  Memory!Reset
  <2>1. \A c \in Blocks : SeenFrom(1, c)' \in Contents
    BY <1>4, ResetStep, SeenIsSee DEF Inv, Typed
  <2>2. out' = [kind |-> "none"]
    BY <1>4, ResetStep DEF None
  <2> QED
    BY <2>1, <2>2 DEF Memory!Reset, Memory!None, Contents
<1>5. ASSUME Inv, UNCHANGED vars
      PROVE  UNCHANGED Memory!vars
  <2>1. \A c \in Blocks : SeenFrom(1, c)' = SeenFrom(1, c)
    BY <1>5, StutterStep, SeenIsSee
  <2>2. out' = out
    BY <1>5, StutterStep
  <2> QED
    BY <2>1, <2>2 DEF Memory!vars
<1>6. Inv /\ [Next]_vars => [Memory!Next]_Memory!vars
  BY <1>2, <1>3, <1>4, <1>5 DEF Next, Access, Memory!Next
<1> QED
  BY <1>1, <1>6, Invariance, PTL DEF Spec, Coherent, Memory!Spec

=============================================================================
