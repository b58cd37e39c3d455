------------------------------- MODULE Cache ---------------------------------
(* The memory hierarchies of 3rd year/CO/lab1: a DRAM behind one cache (task    *)
(* 4.1) or two (task 4.2), the second one two way associative in task 4.3. The  *)
(* three programs differ in initCache only; here `caches` is the hierarchy that *)
(* initCache links together, L1 first. An address is a block and a word in it.  *)
EXTENDS Integers, Sequences, FiniteSetsExt

CONSTANTS
  DramBlocks,       \* DRAM_SIZE / BLOCK_SIZE
  Words,            \* offsets of the words of a block
  Values, Zero,     \* contents of a word, the one of a buffer at the start
  DramTime,         \* [read, write]
  Hierarchies       \* sequences of [sets, ways, read, write]

Blocks == 0 .. DramBlocks - 1

ASSUME HierarchyAssumption ==
  /\ DramBlocks \in Nat \ {0}
  /\ Zero \in Values
  /\ \A h \in Hierarchies :
       /\ Len(h) \in {1, 2}
       /\ \A n \in 1 .. Len(h) :
            h[n].sets \in Nat \ {0} /\ h[n].ways \in {1, 2}
       /\ h[1].ways = 1
       /\ Len(h) = 2 => h[2].sets % h[1].sets = 0

VARIABLES
  caches,           \* the hierarchy, fixed by the program
  m,                \* dram: contents; line, data, mru: one function for each cache
  out               \* what the last operation accessed, and the word it read

vars == <<caches, m, out>>

Levels == 1 .. Len(caches)
Slots(n) == 0 .. caches[n].sets * caches[n].ways - 1
Contents == [Words -> Values]

None == [kind |-> "none"]

------------------------------------------------------------------------------
(* Where a block goes: MemoryLayerGetTag, AssociativeCacheGetSetIndex,          *)
(* MemoryLayerGetBlockIndex and MemoryLayerRecuperateAddress.                   *)

TagWhole(n, b) == b                \* a bug: the size of the layer is left out
Tag(n, b) == b \div caches[n].sets
SetIndex(n, b) == b % caches[n].sets
RecuperateTag(n, oldTag, b) == oldTag * caches[n].sets   \* a bug: no set index
Recuperate(n, oldTag, b) == oldTag * caches[n].sets + SetIndex(n, b)

SlotsOf(n, b) == {SetIndex(n, b) * caches[n].ways + k : k \in 0 .. caches[n].ways - 1}

\* Slot i of layer n is valid and has the tag of block b.
Hit(s, n, i, b) == s.line[n][i].valid /\ s.line[n][i].tag = Tag(n, b)

\* The slot a block that is not stored would take.
Victim(s, n, b) ==
  SetIndex(n, b) * caches[n].ways
    + ((s.mru[n][SetIndex(n, b)] + 1) % caches[n].ways)

\* The slot that stores the block, or that it would take.
BlockIndex(s, n, b) ==
  LET stored == {i \in SlotsOf(n, b) : Hit(s, n, i, b)}
  IN  IF stored = {} THEN Victim(s, n, b) ELSE Min(stored)

------------------------------------------------------------------------------
(* Layer Len(caches) + 1 is the DRAM.                                           *)

Time(n) == IF n \in Levels THEN caches[n] ELSE DramTime

\* A bug: the line is not marked dirty.
WriteBackClean(s, n, b, contents) ==
  IF n \in Levels
  THEN [s EXCEPT !.data[n][BlockIndex(s, n, b)] = contents]
  ELSE [s EXCEPT !.dram[b] = contents]

WriteBack(s, n, b, contents) ==
  IF n \in Levels
  THEN LET i == BlockIndex(s, n, b)
       IN  [s EXCEPT !.line[n][i].dirty = TRUE, !.data[n][i] = contents]
  ELSE [s EXCEPT !.dram[b] = contents]

\* A bug: the line is not marked valid.
FilledInvalid(n, b) ==
  [valid |-> FALSE, dirty |-> FALSE, tag |-> Tag(n, b)]

Filled(n, b) == [valid |-> TRUE, dirty |-> FALSE, tag |-> Tag(n, b)]

\* A bug: the slot used is not recorded.
MarkNothing(s, n, b, i) == s

\* Slot i of the set of b is the most recently used.
MarkUsed(s, n, b, i) ==
  [s EXCEPT !.mru[n][SetIndex(n, b)] = i % caches[n].ways]

FetchDram(s, b) == [state |-> s, contents |-> s.dram[b], time |-> DramTime.read]

\* fetch on cache n, before it turns to the next layer: a miss on a dirty line saves
\* its block there.
Saves(s, n, b) ==
  LET i == BlockIndex(s, n, b)
  IN  ~ Hit(s, n, i, b) /\ s.line[n][i].valid /\ s.line[n][i].dirty

SaveVictim(s, n, b) ==
  LET i == BlockIndex(s, n, b)
  IN  IF Saves(s, n, b)
      THEN WriteBack(s, n + 1, Recuperate(n, s.line[n][i].tag, b), s.data[n][i])
      ELSE s

\* The whole of fetch on cache n, when the fetch from the next layer returns `next`,
\* which a hit has no use for. The time of the cache's own read is left to the
\* caller (`instant` in the code).
Load(s, n, b, next) ==
  LET i == BlockIndex(s, n, b)
      hit == Hit(s, n, i, b)
      filled == IF hit THEN s
                ELSE [next.state EXCEPT !.line[n][i] = Filled(n, b),
                                        !.data[n][i] = next.contents]
  IN  [state |-> MarkUsed(filled, n, b, i),
       contents |-> filled.data[n][i],
       time |-> (IF Saves(s, n, b) THEN Time(n + 1).write ELSE 0)
                  + (IF hit THEN 0 ELSE next.time)]

FetchSecond(s, b) ==
  IF Len(caches) = 1 THEN FetchDram(s, b)
  ELSE LET f == Load(s, 2, b, FetchDram(SaveVictim(s, 2, b), b))
       IN  [f EXCEPT !.time = @ + caches[2].read]

Fetch(s, b) == Load(s, 1, b, FetchSecond(SaveVictim(s, 1, b), b))

------------------------------------------------------------------------------

NewLine == [valid |-> FALSE, dirty |-> FALSE, tag |-> 0]

\* The program has called initCache once; the buffers are global, hence zero.
Init ==
  /\ caches \in Hierarchies
  /\ LET zero == [w \in Words |-> Zero]
     IN  m = [dram |-> [b \in Blocks |-> zero],
              line |-> [n \in Levels |-> [i \in Slots(n) |-> NewLine]],
              data |-> [n \in Levels |-> [i \in Slots(n) |-> zero]],
              mru |-> [n \in Levels |-> [x \in 0 .. caches[n].sets - 1 |-> caches[n].ways - 1]]]
  /\ out = None

Read(b, w) ==
  LET f == Fetch(m, b)
  IN  /\ m' = f.state
      /\ out' = [kind |-> "word", block |-> b, word |-> w, value |-> f.contents[w]]
      /\ UNCHANGED caches

\* A bug: the line is not marked dirty.
WriteClean(b, w, v) ==
  LET i == BlockIndex(m, 1, b)
  IN  /\ m' = [Fetch(m, b).state EXCEPT !.data[1][i][w] = v]
      /\ out' = [kind |-> "write", block |-> b]
      /\ UNCHANGED caches

\* The slot is looked up before the fetch and used after it.
Write(b, w, v) ==
  LET i == BlockIndex(m, 1, b)
  IN  /\ m' = [Fetch(m, b).state EXCEPT !.line[1][i].dirty = TRUE, !.data[1][i][w] = v]
      /\ out' = [kind |-> "write", block |-> b]
      /\ UNCHANGED caches

\* What an access adds to the counter `time`, which no branch of the code reads.
ReadTime(b) == Fetch(m, b).time + caches[1].read
WriteTime(b) == Fetch(m, b).time + caches[1].write

\* initCache again, as SimpleProgram does before each of its rounds: every line
\* becomes invalid, dirty or not; buffers, tags and dirty bits keep their values.
Reset ==
  /\ m' = [m EXCEPT
       !.line = [n \in Levels |-> [i \in Slots(n) |-> [m.line[n][i] EXCEPT !.valid = FALSE]]],
       !.mru = [n \in Levels |-> [x \in 0 .. caches[n].sets - 1 |-> caches[n].ways - 1]]]
  /\ out' = None
  /\ UNCHANGED caches

\* An address past the DRAM ends the program (exit) and is not a step.
Access(b) == \E w \in Words : Read(b, w) \/ \E v \in Values : Write(b, w, v)

Next == Reset \/ \E b \in Blocks : Access(b)

Spec == Init /\ [][Next]_vars

------------------------------------------------------------------------------

TypeOK ==
  /\ caches \in Hierarchies
  /\ m.dram \in [Blocks -> Contents]
  /\ DOMAIN m.line = Levels /\ DOMAIN m.data = Levels /\ DOMAIN m.mru = Levels
  /\ \A n \in Levels :
       /\ m.line[n] \in [Slots(n) ->
            [valid : BOOLEAN, dirty : BOOLEAN, tag : 0 .. (DramBlocks - 1) \div caches[n].sets]]
       /\ m.data[n] \in [Slots(n) -> Contents]
       /\ m.mru[n] \in [0 .. caches[n].sets - 1 -> 0 .. caches[n].ways - 1]

\* The block that slot i of layer n holds.
BlockOf(n, i) == m.line[n][i].tag * caches[n].sets + i \div caches[n].ways

Holds(n, i, b) == m.line[n][i].valid /\ BlockOf(n, i) = b

\* Two slots of a layer never hold the same block (the lookup of
\* MemoryLayerGetBlockIndex tries both ways before it takes a victim), and every
\* block held is one of the DRAM.
OneSlotPerBlock ==
  \A n \in Levels : \A i, j \in Slots(n) :
    m.line[n][i].valid =>
      /\ BlockOf(n, i) \in Blocks
      /\ Holds(n, j, BlockOf(n, i)) => i = j

\* Every block of L1 is in L2, in the slot of its set used last. writeBack relies
\* on it: it marks the line the address maps to, without a look at its tag.
Inclusion ==
  /\ OneSlotPerBlock
  /\ Len(caches) = 2 =>
       \A i \in Slots(1) : m.line[1][i].valid =>
         LET x == SetIndex(2, BlockOf(1, i))
         IN  Holds(2, x * caches[2].ways + m.mru[2][x], BlockOf(1, i))

\* What layer n and those behind it say of block b.
SeenFrom(n, b) ==
  LET holders == {k \in n .. Len(caches) : \E i \in SlotsOf(k, b) : Hit(m, k, i, b)}
  IN  IF holders = {} THEN m.dram[b]
      ELSE LET k == Min(holders)
           IN  m.data[k][CHOOSE i \in SlotsOf(k, b) : Hit(m, k, i, b)]

\* A line that is not dirty is a copy of what the layers behind it hold: it can be
\* dropped without a write, as fetch does.
CleanIsCopied ==
  \A n \in Levels : \A i \in Slots(n) :
    (m.line[n][i].valid /\ ~ m.line[n][i].dirty)
      => m.data[n][i] = SeenFrom(n + 1, BlockOf(n, i))

Memory == INSTANCE Memory WITH
  mem <- [b \in Blocks |-> SeenFrom(1, b)],
  answer <- out

\* Every hierarchy implements one memory: a read returns the last value written,
\* and an access to one address (its misses and evictions) changes no other.
Coherent == Memory!Spec

\* A new initialisation loses no block but those written and not yet saved, the
\* dirty ones: initCache invalidates the lines and leaves the DRAM alone.
ResetLosesOnlyDirty ==
  [][Reset => \A b \in Blocks :
       (\A n \in Levels : \A i \in Slots(n) : Holds(n, i, b) => ~ m.line[n][i].dirty)
         => SeenFrom(1, b)' = SeenFrom(1, b)]_vars

\* After an access, hit or miss, read or write, the block is in L1: the next access
\* to it is a hit, and costs one read or write of L1.
RepeatIsHit ==
  out.kind # "none" =>
    /\ ReadTime(out.block) = caches[1].read
    /\ WriteTime(out.block) = caches[1].write

==============================================================================
