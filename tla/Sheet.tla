-------------------------------- MODULE Sheet --------------------------------
(***************************************************************************)
(* The spreadsheet of 2nd year/OOP/xxl-core: cells that observe the cells  *)
(* they refer to, ranges that keep their value until one of these cells    *)
(* says that it has changed, and the cut buffer, a second storage into     *)
(* which cells are copied with all they refer to.                          *)
(*                                                                         *)
(* The positions are those of one column.  The contents are integers,      *)
(* references, a sum (ADD) of two of these, and a product over an interval *)
(* (PRODUCT); strings and the other operations go the same ways.  A        *)
(* content that is inserted in an interval is one object in all its cells, *)
(* which matters for a range: its id stands for the object.  A reference   *)
(* of a cell to itself, directly or not, ends the program: update has no   *)
(* end and overflows the stack.                                            *)
(***************************************************************************)
EXTENDS Integers, Sequences, FiniteSets, SequencesExt, FiniteSetsExt

CONSTANTS Rows,     \* the positions are 1..Rows
          Inputs,   \* contents that the user enters
          Null      \* of Java

ASSUME SheetAssumption == Rows \in Nat \ {0}

Positions == 1..Rows
Interval == {i \in Positions \X Positions : i[1] <= i[2]}
\* Interval#iterator.
Walk(i) == [k \in 1..(i[2] - i[1] + 1) |-> i[1] + k - 1]
Ids == 1..(2 * Rows)
Result == [updated |-> FALSE, value |-> Null]

VARIABLES
  sheet, buffer,   \* _storage of the Spreadsheet and of its CutBuffer: cells by position
  ranges,          \* _updated and _content of the ranges
  area,            \* _interval of the CutBuffer
  alive
vars == <<sheet, buffer, ranges, area, alive>>

Init ==
  /\ sheet = [p \in Positions |-> Null] /\ buffer = sheet
  /\ ranges = [i \in Ids |-> Result]
  /\ area = Null /\ alive = TRUE

Num(n) == [kind |-> "int", n |-> n]
Ref(p) == [kind |-> "ref", at |-> p]
Add(x, y) == [kind |-> "add", x |-> x, y |-> y]
Product(i) == [kind |-> "range", on |-> i, id |-> 0]   \* id 0: not yet an object

\* What a content refers to, in the order in which initialize and destroy go through it.
RECURSIVE Uses(_)
Uses(c) ==
  CASE c.kind = "int" -> <<>>
    [] c.kind = "ref" -> <<c.at>>
    [] c.kind = "add" -> Uses(c.x) \o Uses(c.y)
    [] c.kind = "range" -> Walk(c.on)

IsRange(cells, p) == cells[p] # Null /\ cells[p].content # Null /\ cells[p].content.kind = "range"
IdsIn(cells) == {cells[p].content.id : p \in {q \in Positions : IsRange(cells, q)}}
-----------------------------------------------------------------------------
\* A storage, with the ranges and the ids that the other storage uses.
Store(cells, other) == [cells |-> cells, ranges |-> ranges, other |-> IdsIn(other), alive |-> TRUE]

NewCell == [content |-> Null, observers |-> {}]
\* TreeStorage#get.
Get(cells, p) == IF cells[p] = Null THEN [cells EXCEPT ![p] = NewCell] ELSE cells

\* A bug: a cell that nobody uses any more stays.
DeleteIfFreeNever(cells, p) == cells

\* TreeStorage#deleteIfFree and Cell#deletable.
DeleteIfFree(cells, p) == IF cells[p] = NewCell THEN [cells EXCEPT ![p] = Null] ELSE cells

\* Content#initialize.
Initialize(cells, p, c) ==
  FoldLeft(LAMBDA s, q : [Get(s, q) EXCEPT ![q].observers = @ \cup {p}], cells, Uses(c))

\* A bug: the cell is taken away although others observe it.
DestroyOthers(cells, p, c) ==
  FoldLeft(LAMBDA s, q : [Get(s, q) EXCEPT ![q] = IF @.content = Null THEN Null
                                                    ELSE [@ EXCEPT !.observers = @ \ {p}]], cells, Uses(c))

\* Content#destroy.
Destroy(cells, p, c) ==
  FoldLeft(LAMBDA s, q : DeleteIfFree([Get(s, q) EXCEPT ![q].observers = @ \ {p}], q), cells, Uses(c))

\* The cells that Cell#notifyObservers comes to, directly or not.
Reached(cells, p) ==
  FoldLeft(LAMBDA s, k : s \cup UNION {cells[q].observers : q \in {r \in s : cells[r] # Null}},
           cells[p].observers, Walk(<<1, Rows>>))

\* Range#update of these cells.
Signal(st, ps) ==
  LET told == IdsIn([p \in Positions |-> IF p \in ps THEN st.cells[p] ELSE Null])
  IN [st EXCEPT !.ranges = [i \in Ids |-> IF i \in told THEN [@[i] EXCEPT !.updated = TRUE] ELSE @[i]]]

\* A bug: the cells that observe this one are told, and not the ones that observe these.
InsertTellsNear(st, p, c) ==
  LET old == Get(st.cells, p)
      free == IF old[p].content = Null THEN old ELSE Destroy(old, p, old[p].content)
      new == Initialize([free EXCEPT ![p].content = c], p, c)
  IN IF p \in Reached(new, p) THEN [st EXCEPT !.alive = FALSE]
     ELSE Signal([st EXCEPT !.cells = new], {p} \cup new[p].observers)

\* Cell#insert, by TreeStorage#insert.
Insert(st, p, c) ==
  LET old == Get(st.cells, p)
      free == IF old[p].content = Null THEN old ELSE Destroy(old, p, old[p].content)
      new == Initialize([free EXCEPT ![p].content = c], p, c)
      reached == Reached(new, p)
  IN IF p \in reached THEN [st EXCEPT !.alive = FALSE]
     ELSE Signal([st EXCEPT !.cells = new], {p} \cup reached)

\* A bug: the observers are not told.
DeleteQuietly(st, p) ==
  IF st.cells[p] = Null \/ st.cells[p].content = Null THEN st
  ELSE LET free == [Destroy(st.cells, p, st.cells[p].content) EXCEPT ![p].content = Null]
       IN [st EXCEPT !.cells = DeleteIfFree(free, p)]

\* TreeStorage#delete and Cell#delete.
Delete(st, p) ==
  IF st.cells[p] = Null \/ st.cells[p].content = Null THEN st
  ELSE LET free == [Destroy(st.cells, p, st.cells[p].content) EXCEPT ![p].content = Null]
           told == Signal([st EXCEPT !.cells = free], Reached(free, p))
       IN [told EXCEPT !.cells = DeleteIfFree(@, p)]

\* A new object for a range, with the value of the one it is a copy of.
NewRange(st, on, value) ==
  LET id == Min(Ids \ (IdsIn(st.cells) \cup st.other))
  IN [st |-> [st EXCEPT !.ranges[id] = [updated |-> FALSE, value |-> value]],
      c |-> [kind |-> "range", on |-> on, id |-> id]]

\* Content#copyTo and Cell#copyTo: from the cells of src to position p of the storage st,
\* with what the content refers to if deps.
RECURSIVE CopyContent(_, _, _, _, _), CopyCell(_, _, _, _, _)
CopyContent(src, c, st, p, deps) ==
  LET all == IF deps THEN FoldLeft(LAMBDA s, q : CopyCell(src, q, s, q, TRUE), st, Uses(c)) ELSE st
  IN CASE ~st.alive -> st
       [] c.kind = "int" -> Insert(st, p, c)
       [] c.kind = "ref" -> Insert(all, p, c)
       [] c.kind = "add" -> Insert(CopyContent(src, c.y, CopyContent(src, c.x, st, p, deps), p, deps), p, c)
       [] c.kind = "range" -> LET new == NewRange(all, c.on, st.ranges[c.id].value) IN Insert(new.st, p, new.c)
CopyCell(src, q, st, p, deps) ==
  IF src[q] = Null \/ src[q].content = Null THEN st ELSE CopyContent(src, src[q].content, st, p, deps)
-----------------------------------------------------------------------------
\* getInteger of a cell, with the ranges as it leaves them.
RECURSIVE Read(_, _, _), ReadContent(_, _, _)
Read(cells, rs, p) ==
  IF cells[p] = Null \/ cells[p].content = Null THEN [value |-> Null, ranges |-> rs]
  ELSE ReadContent(cells, rs, cells[p].content)

\* ProductRange#execute: a cell without an integer ends it.
Execute(cells, rs, i) ==
  FoldLeft(LAMBDA r, q :
             IF r.value = Null THEN r
             ELSE LET x == Read(cells, r.ranges, q)
                  IN [x EXCEPT !.value = IF @ = Null THEN Null ELSE @ * r.value],
           [value |-> 1, ranges |-> rs], Walk(i))

ReadContent(cells, rs, c) ==
  CASE c.kind = "int" -> [value |-> c.n, ranges |-> rs]
    [] c.kind = "ref" -> Read(cells, rs, c.at)
    [] c.kind = "add" ->
         LET x == ReadContent(cells, rs, c.x)
             y == ReadContent(cells, x.ranges, c.y)
         IN [y EXCEPT !.value = IF x.value = Null \/ @ = Null THEN Null ELSE x.value + @]
    [] c.kind = "range" ->
         IF ~rs[c.id].updated THEN [value |-> rs[c.id].value, ranges |-> rs]
         ELSE LET x == Execute(cells, [rs EXCEPT ![c.id].updated = FALSE], c.on)
              IN [x EXCEPT !.ranges[c.id].value = x.value]
-----------------------------------------------------------------------------
\* The objects are named again after the first cell that has them; those in no cell are
\* forgotten.
First(cells, id) == Min({p \in Positions : IsRange(cells, p) /\ cells[p].content.id = id})
Named(cells, base) ==
  [p \in Positions |-> IF IsRange(cells, p) THEN [cells[p] EXCEPT !.content.id = base + First(cells, @)] ELSE cells[p]]
Kept(rs, s, b) ==
  [i \in Ids |-> LET p == IF i <= Rows THEN i ELSE i - Rows
                     cells == IF i <= Rows THEN s ELSE b
                 IN IF IsRange(cells, p) /\ First(cells, cells[p].content.id) = p THEN rs[cells[p].content.id] ELSE Result]
Become(rs, s, b) ==
  sheet' = Named(s, 0) /\ buffer' = Named(b, Rows) /\ ranges' = Kept(rs, s, b)

\* (\E names a value, so that TLC computes it once.)
Change(after) ==
  \E st \in {after} :
    /\ UNCHANGED area
    /\ alive' = st.alive
    /\ IF st.alive THEN Become(st.ranges, st.cells, buffer) ELSE UNCHANGED <<sheet, buffer, ranges>>

\* Spreadsheet#insertContents.
InsertContents(i, c) ==
  LET st == Store(sheet, buffer)
      new == IF c.kind = "range" THEN NewRange(st, c.on, Null) ELSE [st |-> st, c |-> c]
  IN /\ alive
     /\ Change(FoldLeft(LAMBDA s, p : IF s.alive THEN Insert(s, p, new.c) ELSE s, new.st, Walk(i)))

\* Spreadsheet#delete.
DeleteAll(i) == alive /\ Change(FoldLeft(Delete, Store(sheet, buffer), Walk(i)))

\* CutBuffer#copy.
Copied(i) ==
  FoldLeft(LAMBDA s, p : CopyCell(sheet, p, s, p, TRUE),
           [Store(buffer, sheet) EXCEPT !.cells = [p \in Positions |-> Null]], Walk(i))

\* Spreadsheet#copy.
Copy(i) ==
  /\ alive /\ area' = i
  /\ \E new \in {Copied(i)} : Become(new.ranges, sheet, new.cells)
  /\ UNCHANGED alive

\* Spreadsheet#cut.
Cut(i) ==
  /\ alive /\ area' = i
  /\ \E new \in {Copied(i)} :
     \E left \in {FoldLeft(Delete, [Store(sheet, new.cells) EXCEPT !.ranges = new.ranges], Walk(i))} :
       Become(left.ranges, left.cells, new.cells)
  /\ UNCHANGED alive

Length(i) == i[2] - i[1]
\* Interval#offset: the positions of the sheet and of the buffer that belong together.
Pairs(i) == {<<i[1] + k, area[1] + k>> : k \in 0..(IF i[1] + Length(area) > Rows THEN Rows - i[1] ELSE Length(area))}

\* A bug: an empty position of the buffer is skipped.
PasteOneKept(st, to, from) == CopyCell(buffer, from, st, to, FALSE)

\* One round of CutBuffer#paste.
PasteOne(st, to, from) ==
  IF buffer[from] = Null THEN Delete(st, to) ELSE CopyCell(buffer, from, st, to, FALSE)

\* The sheet after CutBuffer#paste.
Pasted(i) ==
  LET one(st, p) == IF st.alive THEN PasteOne(st, p, area[1] + p - i[1]) ELSE st
  IN FoldLeft(one, Store(sheet, buffer), SetToSortSeq({pair[1] : pair \in Pairs(i)}, <))

CanPaste(i) == alive /\ area # Null /\ (i[1] # i[2] => Length(i) = Length(area))

\* Spreadsheet#paste.
Paste(i) == CanPaste(i) /\ Change(Pasted(i))

\* Spreadsheet#view and showCutBuffer compute what is to be computed.
View(cells, i) ==
  /\ alive
  /\ ranges' = FoldLeft(LAMBDA rs, p : Read(cells, rs, p).ranges, ranges, Walk(i))
  /\ UNCHANGED <<sheet, buffer, area, alive>>

Next ==
  \/ \E i \in Interval, c \in Inputs : InsertContents(i, c)
  \/ \E i \in Interval : DeleteAll(i) \/ Copy(i) \/ Cut(i) \/ Paste(i)
  \/ \E p \in Positions : View(sheet, <<p, p>>)   \* a longer view is several of these
  \/ area # Null /\ View(buffer, area)

Spec == Init /\ [][Next]_vars
-----------------------------------------------------------------------------
\* The values have their types, and no cell is kept that has no content and that no other
\* cell observes.
TypeOK ==
  /\ \A p \in Positions :
       /\ sheet[p] # Null => sheet[p].observers \subseteq Positions /\ sheet[p] # NewCell
       /\ buffer[p] # Null => buffer[p].observers \subseteq Positions /\ buffer[p] # NewCell
  /\ \A i \in Ids : ranges[i].updated \in BOOLEAN /\ ranges[i].value \in Int \cup {Null}
  /\ area \in Interval \cup {Null} /\ alive \in BOOLEAN

\* The value of a cell from the contents alone.
RECURSIVE Meaning(_, _), MeaningOf(_, _)
Meaning(cells, c) ==
  CASE c.kind = "int" -> c.n
    [] c.kind = "ref" -> MeaningOf(cells, c.at)
    [] c.kind = "add" -> LET x == Meaning(cells, c.x) y == Meaning(cells, c.y)
                         IN IF x = Null \/ y = Null THEN Null ELSE x + y
    [] c.kind = "range" -> LET all == [k \in DOMAIN Walk(c.on) |-> MeaningOf(cells, Walk(c.on)[k])]
                           IN IF \E k \in DOMAIN all : all[k] = Null THEN Null
                              ELSE FoldLeft(LAMBDA x, y : x * y, 1, all)
MeaningOf(cells, p) ==
  IF cells[p] = Null \/ cells[p].content = Null THEN Null ELSE Meaning(cells, cells[p].content)

\* A cell never shows an old value: what getInteger answers, from the values the ranges
\* keep, is what the contents say now, in the sheet and in the cut buffer.
NothingStale ==
  \A p \in Positions :
    /\ Read(sheet, ranges, p).value = MeaningOf(sheet, p)
    /\ Read(buffer, ranges, p).value = MeaningOf(buffer, p)

\* A cell is observed by exactly the cells whose content refers to it, however contents
\* were replaced, shared, copied and deleted.
ObserversExact ==
  \A cells \in {sheet, buffer} : \A p, q \in Positions :
    (cells[p] # Null /\ q \in cells[p].observers)
      <=> (cells[q] # Null /\ cells[q].content # Null /\ p \in ToSet(Uses(cells[q].content)))

Shape(cells, p) ==
  IF cells[p] = Null \/ cells[p].content = Null THEN Null
  ELSE IF cells[p].content.kind = "range" THEN <<cells[p].content.on>> ELSE <<cells[p].content>>

\* Where the buffer has a cell that is empty, but that another of its cells refers to.
Observed(p) == buffer[p] # Null /\ buffer[p].content = Null

\* A paste gives the sheet what the buffer has, position by position, empty positions too,
\* as far as the sheet goes, and changes nothing else.  (Not so for an empty cell of the
\* buffer that another of its cells refers to: what was in the sheet stays there.)
PasteIsCopy ==
  \A i \in Interval : CanPaste(i) =>
    LET after == Pasted(i)
    IN after.alive =>
         /\ \A pair \in Pairs(i) :
              Shape(after.cells, pair[1]) = IF Observed(pair[2]) THEN Shape(sheet, pair[1]) ELSE Shape(buffer, pair[2])
         /\ \A p \in Positions \ {pair[1] : pair \in Pairs(i)} : Shape(after.cells, p) = Shape(sheet, p)
=============================================================================
