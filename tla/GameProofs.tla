----------------------------- MODULE GameProofs -----------------------------
(***************************************************************************)
(* Proofs about the game of 3rd year/CN.                                   *)
(*                                                                         *)
(* The server and its files (GameServer), for any players, connections,    *)
(* colors, sizes and numbers of starts of the server: the values have      *)
(* their types, a game that goes on is kept, told trials are on disk and a *)
(* win is scored once.                                                     *)
(*                                                                         *)
(* The player (GamePlayer), for any colors, any number of commands and of  *)
(* repetitions: a try that is sent several times, because it or its answer *)
(* was lost or late, is one trial (PlayerInv); and while no datagram is    *)
(* late the client and the server agree on the game, and the player is     *)
(* told the truth (Whole, which uses PlayerInv, and that the comparison is *)
(* right).                                                                 *)
(***************************************************************************)
EXTENDS GameServer, GamePlayer, FiniteSetTheorems, SequenceTheorems, WellFoundedInduction, TLAPS


\* A file with a header, which is also what a process keeps of a game it has read.
Headed == [head : {TRUE}, id : Games, key : Guesses, start : Times, dur : Durations,
           trials : Seq(Guesses), end : {NoEnd} \cup [why : Reasons, at : Times]]
IsGame(f) == f \in Headed /\ Len(f.trials) <= MaxTrials

Boards == {b \in Seq(Entries) : Len(b) <= TopScores}

ReadsFile == {"parse", "end", "trial", "header"}
EndsGame == {"append", "end", "move", "score", "materialize"}
HasGame == EndsGame \cup {"found", "trial", "answer"}
Places == HasGame \cup {"idle", "find", "create", "parse", "header"}

LastIsKey(g) == g.trials # <<>> /\ Last(g.trials) = g.key

Frame(q) ==
  LET r == proc[q] IN
  /\ "pc" \in DOMAIN r /\ r.pc \in Places
  /\ r.pc # "idle" =>
       /\ "req" \in DOMAIN r /\ r.req.p \in Players
       /\ r.req.kind \in (IF q = Parent THEN {"SNG", "TRY", "QUT"} ELSE {"STR"})
       /\ r.req.kind = "SNG" =>
            r.req.key \in Guesses /\ r.req.dur \in Durations /\ r.req.start \in Times /\ made < MaxGames
       /\ r.req.kind = "TRY" => r.req.guess \in Guesses
  /\ r.pc \in {"find", "create", "header"} => r.req.kind = "SNG"
  /\ r.pc = "trial" => r.req.kind = "TRY"
  /\ r.pc = "answer" => r.req.kind \in {"TRY", "QUT"}
  /\ r.pc \in ReadsFile => "fd" \in DOMAIN r /\ r.fd \in Inodes
  /\ r.pc \in HasGame =>
       /\ "gm" \in DOMAIN r /\ IsGame(r.gm) /\ r.gm.id <= made
       /\ r.pc \in {"found", "trial"} /\ r.gm.end = NoEnd => ~LastIsKey(r.gm) /\ Len(r.gm.trials) < MaxTrials
  /\ r.pc = "trial" => r.gm.end = NoEnd
  /\ r.pc \in EndsGame =>
       /\ "back" \in DOMAIN r /\ r.gm.end # NoEnd
       /\ r.back \in (IF r.req.kind \in {"TRY", "QUT"} THEN {"found", "answer"} ELSE {"found"})

Types ==
  /\ file = [i \in Inodes |-> file[i]]
  /\ \A i \in Inodes : file[i] = Blank \/ (IsGame(file[i]) /\ file[i].id <= made)
  /\ active \in [Players -> Inodes \cup {None}]
  /\ records \in [Players -> [Times -> Inodes \cup {None}]]
  /\ scores = [b \in Boots |-> scores[b]] /\ \A b \in Boots : scores[b] = None \/ scores[b] \in Boards
  /\ now \in Times /\ up \in BOOLEAN /\ boot \in Boots
  /\ proc = [q \in Procs |-> proc[q]]
  /\ board \in [Procs -> [boot : Boots, list : Boards]]
  /\ made \in 0..MaxGames
  /\ told \in [Games -> 0..MaxTrials] /\ won \in [Games -> 0..MaxTrials]
  /\ \A g \in Games : g > made => told[g] = 0 /\ won[g] = 0
  /\ ~up => proc[Parent] = Idle

\* A header is in one file, and a file is active for one player.
Names ==
  /\ \A i, j \in Inodes : file[i].head /\ file[j].head /\ file[i].id = file[j].id => i = j
  /\ \A p, s \in Players : active[p] # None /\ active[p] = active[s] => p = s

ActiveHas(p) == active[p] # None /\ file[active[p]].head

\* The file that a process has open, or the game it has read, is of its player.
Owner(q) ==
  \A p \in Players :
    /\ proc[q].pc \in ReadsFile /\ active[p] = proc[q].fd => p = Player(q)
    /\ proc[q].pc \in HasGame /\ ActiveHas(p) /\ file[active[p]].id = proc[q].gm.id => p = Player(q)

\* What the parent has read is the game of its player, as far as there is one: only the
\* parent writes headers and trials.
InStep ==
  LET r == proc[Parent]
      i == active[Player(Parent)]
  IN /\ r.pc \in {"parse", "end", "trial"} /\ ActiveHas(Player(Parent)) => i = r.fd
     /\ r.pc = "header" => ~file[r.fd].head
     /\ r.pc = "create" /\ ActiveHas(Player(Parent)) => file[i].end # NoEnd
     /\ r.pc \in HasGame /\ ActiveHas(Player(Parent)) =>
          /\ file[i].id = r.gm.id
          /\ file[i].end = NoEnd => file[i].trials = r.gm.trials
          /\ r.pc \in {"move", "score", "materialize", "found"} /\ r.gm.end # NoEnd => file[i].end # NoEnd
     /\ r.pc = "trial" /\ file[r.fd].head => file[r.fd].id = r.gm.id
     /\ r.pc \in {"found", "trial"} /\ r.gm.end = NoEnd =>
          /\ won[r.gm.id] = 0
          /\ \A k \in Inodes : file[k].head /\ file[k].id = r.gm.id =>
               file[k].trials = r.gm.trials /\ file[k].key = r.gm.key

ToldOnDisk ==
  \A p \in Players : ActiveHas(p) /\ file[active[p]].end = NoEnd =>
    told[file[active[p]].id] <= Len(file[active[p]].trials)

\* The parent may find the game in this file.
MayBeRead(i) ==
  \/ \E p \in Players : active[p] = i
  \/ proc[Parent].pc = "parse" /\ proc[Parent].fd = i

\* A game that was won in a file has its trials, and one that was won has the key there
\* as long as it has no end.
WonOnDisk ==
  /\ \A i \in Inodes : file[i].head /\ LastIsKey(file[i]) => won[file[i].id] = Len(file[i].trials)
  /\ \A i \in Inodes :
       file[i].head /\ file[i].end = NoEnd /\ won[file[i].id] # 0 /\ MayBeRead(i) => LastIsKey(file[i])

Wins(q) ==
  /\ proc[q].pc \in {"append", "end", "move"} /\ proc[q].gm.end.why = "WON" =>
       /\ won[proc[q].gm.id] = Len(proc[q].gm.trials) /\ Len(proc[q].gm.trials) # 0
       /\ \A k \in DOMAIN board[q].list : board[q].list[k].game # proc[q].gm.id
  /\ proc[q].pc = "parse" /\ file[proc[q].fd].head =>
       \A k \in DOMAIN board[q].list : board[q].list[k].game # file[proc[q].fd].id

\* No active game is in a scoreboard, and what is there is right.
ListOK(list) ==
  /\ \A k \in DOMAIN list :
       /\ won[list[k].game] = list[k].tries
       /\ \A p \in Players : ActiveHas(p) => file[active[p]].id # list[k].game
  /\ \A k, l \in DOMAIN list : list[k].game = list[l].game => k = l

ListsOK ==
  /\ \A q \in Procs : ListOK(board[q].list)
  /\ \A b \in Boots : scores[b] # None => ListOK(scores[b])

\* What holds of a process.
Mine(q) == Frame(q) /\ Owner(q) /\ Wins(q) /\ (q = Parent => InStep)

Inv ==
  /\ Types /\ Names /\ \A q \in Procs : Mine(q)
  /\ ToldOnDisk /\ WonOnDisk /\ ListsOK

------------------------------------------------------------------------------
\* There is always an inode that is not in use.
LEMMA RangeIsSmall ==
  ASSUME NEW S, IsFiniteSet(S), NEW f, f = [x \in S |-> f[x]]
  PROVE  /\ IsFiniteSet({f[x] : x \in S})
         /\ Cardinality({f[x] : x \in S}) <= Cardinality(S)
<1>1. f \in Surjection(S, {f[x] : x \in S})
  BY DEF Surjection
<1> QED BY <1>1, FS_Surjection

\* The sets that are counted are finite.
LEMMA Sizes ==
  /\ IsFiniteSet(Procs) /\ IsFiniteSet(Players) /\ IsFiniteSet(Players \X Times)
  /\ Cardinality(Procs) \in Nat /\ Cardinality(Players) \in Nat /\ Cardinality(Players \X Times) \in Nat
<1>1. IsFiniteSet(Times)
  BY ServerAssumption, FS_Interval DEF Times
<1>2. IsFiniteSet(Procs)
  BY ServerAssumption, FS_AddElement DEF Procs
<1>3. IsFiniteSet(Players \X Times)
  BY <1>1, ServerAssumption, FS_Product
<1> QED BY <1>2, <1>3, ServerAssumption, FS_CardinalityType

\* There is an inode without a name and without a process that has it open.
LEMMA FreeInodeIsFree ==
  /\ FreeInode \in Inodes
  /\ \A p \in Players : active[p] # FreeInode
  /\ \A q \in Procs : "fd" \in DOMAIN proc[q] => proc[q].fd # FreeInode
<1> DEFINE A == {active[p] : p \in Players}
           R == {records[p][t] : p \in Players, t \in Times}
           S == {q \in Procs : "fd" \in DOMAIN proc[q]}
           F == {proc[q].fd : q \in S}
           a == [p \in Players |-> active[p]]
           r == [x \in Players \X Times |-> records[x[1]][x[2]]]
           f == [q \in S |-> proc[q].fd]
           used == A \cup R \cup F
<1> HIDE DEF a, r, f
<1>1. IsFiniteSet(A) /\ Cardinality(A) <= Cardinality(Players)
  <2>1. a = [x \in Players |-> a[x]] /\ A = {a[x] : x \in Players}
    BY DEF a
  <2> HIDE DEF A
  <2>2. IsFiniteSet({a[x] : x \in Players}) /\ Cardinality({a[x] : x \in Players}) <= Cardinality(Players)
    BY <2>1, Sizes, RangeIsSmall
  <2> QED BY <2>1, <2>2
<1>2. IsFiniteSet(R) /\ Cardinality(R) <= Cardinality(Players \X Times)
  <2>1. r = [x \in Players \X Times |-> r[x]] /\ R = {r[x] : x \in Players \X Times}
    <3>1. r = [x \in Players \X Times |-> r[x]]
      BY DEF r
    <3>2. ASSUME NEW x \in Players \X Times PROVE r[x] \in R
      BY DEF r
    <3>3. ASSUME NEW p \in Players, NEW t \in Times PROVE records[p][t] \in {r[x] : x \in Players \X Times}
      <4>1. <<p, t>> \in Players \X Times /\ r[<<p, t>>] = records[p][t]
        BY DEF r
      <4> QED BY <4>1
    <3> QED BY <3>1, <3>2, <3>3
  <2> QED BY <2>1, Sizes, RangeIsSmall
<1>3. IsFiniteSet(F) /\ Cardinality(F) <= Cardinality(Procs)
  <2>1. f = [x \in S |-> f[x]] /\ F = {f[x] : x \in S}
    BY DEF f
  <2>2. IsFiniteSet(S) /\ Cardinality(S) <= Cardinality(Procs) /\ Cardinality(S) \in Nat
    BY Sizes, FS_Subset, FS_CardinalityType
  <2>3. IsFiniteSet(F) /\ Cardinality(F) <= Cardinality(S) /\ Cardinality(F) \in Nat
    BY <2>1, <2>2, RangeIsSmall, FS_CardinalityType
  <2> QED BY <2>2, <2>3, Sizes
<1>4. IsFiniteSet(used)
      /\ Cardinality(used) <= Cardinality(Players) + Cardinality(Players \X Times) + Cardinality(Procs)
      /\ Cardinality(used) \in Nat
  <2> HIDE DEF A, R, F
  <2>1. IsFiniteSet(A \cup R) /\ Cardinality(A \cup R) <= Cardinality(A) + Cardinality(R)
        /\ Cardinality(A) \in Nat /\ Cardinality(R) \in Nat /\ Cardinality(A \cup R) \in Nat
    <3>1. IsFiniteSet(A \cap R) /\ IsFiniteSet(A \cup R)
          /\ Cardinality(A \cup R) = Cardinality(A) + Cardinality(R) - Cardinality(A \cap R)
      BY <1>1, <1>2, FS_Intersection, FS_Union
    <3>2. /\ Cardinality(A) \in Nat /\ Cardinality(R) \in Nat
          /\ Cardinality(A \cap R) \in Nat /\ Cardinality(A \cup R) \in Nat
      BY <1>1, <1>2, <3>1, FS_CardinalityType
    <3> QED BY <3>1, <3>2
  <2>2. IsFiniteSet(used) /\ Cardinality(used) <= Cardinality(A \cup R) + Cardinality(F)
        /\ Cardinality(F) \in Nat /\ Cardinality(used) \in Nat
    <3> DEFINE AR == A \cup R
    <3> HIDE DEF AR
    <3>1. IsFiniteSet(AR \cap F) /\ IsFiniteSet(AR \cup F)
          /\ Cardinality(AR \cup F) = Cardinality(AR) + Cardinality(F) - Cardinality(AR \cap F)
      BY <2>1, <1>3, FS_Intersection, FS_Union DEF AR
    <3>2. /\ Cardinality(F) \in Nat /\ Cardinality(AR) \in Nat
          /\ Cardinality(AR \cap F) \in Nat /\ Cardinality(AR \cup F) \in Nat
      BY <2>1, <1>3, <3>1, FS_CardinalityType DEF AR
    <3>3. used = AR \cup F
      BY DEF AR
    <3> QED BY <3>1, <3>2, <3>3 DEF AR
  <2> QED BY <2>1, <2>2, <1>1, <1>2, <1>3, Sizes
<1>5. \E i \in Inodes : i \notin used
  <2>1. Cardinality(Inodes) = Cardinality(Players) + Cardinality(Players \X Times) + Cardinality(Procs) + 1
        /\ IsFiniteSet(Inodes)
    <3> DEFINE N == Cardinality(Players) + Cardinality(Players \X Times) + Cardinality(Procs) + 1
    <3>1. N \in Nat \ {0} /\ Inodes = 1..N
      BY Sizes DEF Inodes
    <3> HIDE DEF N
    <3>2. Cardinality(1..N) = N /\ IsFiniteSet(1..N)
      BY <3>1, FS_Interval
    <3> QED BY <3>1, <3>2 DEF N
  <2>2. CASE Inodes \subseteq used
    <3> HIDE DEF used
    <3>1. Cardinality(Inodes) <= Cardinality(used)
      BY <1>4, <2>2, FS_Subset
    <3> QED BY <3>1, <2>1, <1>4, Sizes
  <2> QED BY <2>2
<1>6. FreeInode = CHOOSE i \in Inodes : i \notin used
  BY DEF FreeInode
<1>7. FreeInode \in Inodes /\ FreeInode \notin used
  <2> HIDE DEF used
  <2> QED BY <1>5, <1>6
<1> QED BY <1>7

------------------------------------------------------------------------------
\* What a step leaves of the frame of its process.
LEMMA StepFields ==
  ASSUME NEW q \in Procs, NEW c, Step(q, c), proc = [r \in Procs |-> proc[r]],
         "pc" \in DOMAIN c
  PROVE  /\ proc' = [r \in Procs |-> proc'[r]]
         /\ \A r \in Procs : r # q => proc'[r] = proc[r]
         /\ DOMAIN proc'[q] = (DOMAIN proc[q] \cup DOMAIN c)
              \ ((IF c.pc \in ReadsFile THEN {} ELSE {"fd"})
                   \cup (IF c.pc \in EndsGame THEN {} ELSE {"back"}))
         /\ "pc" \in DOMAIN proc'[q] /\ proc'[q].pc = c.pc
         /\ \A x \in DOMAIN proc'[q] : proc'[q][x] = IF x \in DOMAIN c THEN c[x] ELSE proc[q][x]
BY DEF Step, ReadsFile, EndsGame

\* A process that finishes is idle; a child leaves its copy of the scoreboard.
LEMMA FinishFields ==
  ASSUME NEW q \in Procs, Finish(q), Types
  PROVE  /\ proc' = [r \in Procs |-> proc'[r]]
         /\ \A r \in Procs : r # q => proc'[r] = proc[r] /\ board'[r] = board[r]
         /\ proc'[q] = Idle
         /\ board' \in [Procs -> [boot : Boots, list : Boards]]
         /\ \A k \in DOMAIN board'[q].list : k \in DOMAIN board[q].list /\ board'[q].list[k] = board[q].list[k]
<1>1. <<>> \in Boards
  BY ServerAssumption DEF Boards
<1>2. proc = [r \in Procs |-> proc[r]] /\ board \in [Procs -> [boot : Boots, list : Boards]]
  BY DEF Types
<1>3. CASE q = Parent
  BY <1>2, <1>3 DEF Finish
<1>4. CASE q # Parent
  <2>1. board[q] \in [boot : Boots, list : Boards] /\ board' = [board EXCEPT ![q].list = <<>>]
        /\ proc' = [proc EXCEPT ![q] = Idle]
    BY <1>2, <1>4 DEF Finish
  <2>2. board'[q] = [board[q] EXCEPT !.list = <<>>] /\ board'[q] \in [boot : Boots, list : Boards]
    BY <1>1, <1>2, <2>1
  <2>3. board'[q].list = <<>> /\ DOMAIN board'[q].list = {}
    BY <2>1, <2>2
  <2> QED BY <1>2, <2>1, <2>2, <2>3
<1> QED BY <1>3, <1>4

\* An idle process claims nothing.
LEMMA IdleIsMine ==
  ASSUME NEW q \in Procs, proc[q] = Idle
  PROVE  Mine(q)
BY DEF Mine, Frame, Owner, Wins, InStep, Idle, Places, ReadsFile, EndsGame, HasGame

------------------------------------------------------------------------------
\* A step of q that writes neither a header nor a trial: what a file says of its game is
\* kept, but for the end, which may come, or the file is blank; a file becomes active
\* blank, and when nobody else uses it.
Quiet(q) ==
  /\ UNCHANGED <<made, won>>
  /\ \A r \in Procs : r # q => proc'[r] = proc[r] /\ board'[r] = board[r]
  /\ \A i \in Inodes : file'[i].head =>
       /\ file[i].head /\ file'[i].id = file[i].id /\ file'[i].key = file[i].key
       /\ file'[i].trials = file[i].trials
       /\ file[i].end # NoEnd => file'[i].end # NoEnd
  /\ \A p \in Players : active'[p] # None /\ active'[p] # active[p] =>
       /\ active'[p] \in Inodes /\ ~file'[active'[p]].head
       /\ \A s \in Players : s # p => active'[s] # active'[p]
       /\ \A r \in Procs : r # q /\ proc[r].pc \in ReadsFile => proc[r].fd # active'[p]

StillOK(list) ==
  /\ \A k \in DOMAIN list :
       /\ won'[list[k].game] = list[k].tries
       /\ \A p \in Players : ActiveHas(p)' => file'[active'[p]].id # list[k].game
  /\ \A k, l \in DOMAIN list : list[k].game = list[l].game => k = l

\* After a quiet step an active file with a header is the one of before, unless its end came.
LEMMA QuietActive ==
  ASSUME Inv, NEW q \in Procs, Quiet(q), NEW p \in Players, ActiveHas(p)'
  PROVE  /\ active'[p] = active[p] /\ active[p] \in Inodes /\ ActiveHas(p)
         /\ file'[active[p]].id = file[active[p]].id /\ file'[active[p]].key = file[active[p]].key
         /\ file'[active[p]].trials = file[active[p]].trials
         /\ file[active[p]].end # NoEnd => file'[active[p]].end # NoEnd
BY DEF Quiet, ActiveHas, Inv, Types

\* ... a list of results stays right,
LEMMA QuietList ==
  ASSUME Inv, NEW q \in Procs, Quiet(q), NEW list, ListOK(list)
  PROVE  StillOK(list)
BY QuietActive DEF Quiet, ListOK, StillOK

\* ... no file has two names,
LEMMA QuietNames ==
  ASSUME Inv, NEW q \in Procs, Quiet(q)
  PROVE  Names'
<1>1. \A i, j \in Inodes : file'[i].head /\ file'[j].head /\ file'[i].id = file'[j].id => i = j
  BY DEF Inv, Names, Quiet
<1>2. \A p, s \in Players : active'[p] # None /\ active'[p] = active'[s] => p = s
  BY DEF Inv, Names, Quiet
<1> QED BY <1>1, <1>2 DEF Names

\* ... and what the other processes claim stays true.
LEMMA QuietOthers ==
  ASSUME Inv, NEW q \in Procs, Quiet(q), NEW r \in Procs, r # q
  PROVE  Mine(r)'
<1>1. proc'[r] = proc[r] /\ board'[r] = board[r] /\ Mine(r) /\ UNCHANGED <<made, won>>
  BY DEF Quiet, Inv
<1>2. Frame(r)'
  BY <1>1 DEF Mine, Frame, IsGame, LastIsKey
<1>3. ASSUME NEW p \in Players
      PROVE  /\ proc'[r].pc \in ReadsFile /\ active'[p] = proc'[r].fd => p = Player(r)'
             /\ proc'[r].pc \in HasGame /\ ActiveHas(p)' /\ file'[active'[p]].id = proc'[r].gm.id
                  => p = Player(r)'
  <2>1. CASE proc'[r].pc \in ReadsFile /\ active'[p] = proc'[r].fd
    <3>1. proc[r].fd \in Inodes /\ None \notin Inodes
      BY <1>1, <2>1, ServerAssumption, Sizes DEF Mine, Frame, Inodes
    <3>2. active'[p] = active[p]
      BY <1>1, <2>1, <3>1 DEF Quiet
    <3> QED BY <1>1, <2>1, <3>2 DEF Mine, Owner, Player, HasGame, ReadsFile
  <2>2. CASE proc'[r].pc \in HasGame /\ ActiveHas(p)' /\ file'[active'[p]].id = proc'[r].gm.id
    BY <1>1, <2>2, QuietActive DEF Mine, Owner, Player
  <2> QED BY <2>1, <2>2 DEF Player
<1>4. Owner(r)'
  BY <1>3 DEF Owner
<1>5. Wins(r)'
  <2>1. proc[r].pc = "parse" => proc[r].fd \in Inodes
    BY <1>1 DEF Mine, Frame, ReadsFile
  <2> QED BY <1>1, <2>1 DEF Mine, Wins, Quiet
<1>6. ASSUME r = Parent PROVE InStep'
  <2> DEFINE P == Player(Parent)
  <2>1. /\ proc'[Parent] = proc[Parent] /\ P' = P /\ InStep /\ UNCHANGED won
        /\ proc[Parent].pc \in Places
        /\ proc[Parent].pc # "idle" => P \in Players
        /\ proc[Parent].pc \in ReadsFile => proc[Parent].fd \in Inodes
    BY <1>1, <1>6 DEF Mine, Frame, Player
  <2>2. proc[Parent].pc # "idle" /\ ActiveHas(P)' =>
          /\ active'[P] = active[P] /\ ActiveHas(P)
          /\ file'[active[P]].id = file[active[P]].id /\ file'[active[P]].trials = file[active[P]].trials
          /\ file[active[P]].end # NoEnd => file'[active[P]].end # NoEnd
    BY <2>1, QuietActive
  <2>3. ActiveHas(P)' <=> active'[P] # None /\ file'[active'[P]].head
    BY <2>1 DEF ActiveHas, Player
  <2>4. \A k \in Inodes : file'[k].head =>
          /\ file[k].head /\ file'[k].id = file[k].id /\ file'[k].key = file[k].key
          /\ file'[k].trials = file[k].trials
    BY DEF Quiet
  <2> HIDE DEF P
  <2>5. Player(Parent) = P /\ Player(Parent)' = P
    BY <2>1 DEF P
  <2> QED BY <2>1, <2>2, <2>3, <2>4, <2>5 DEF InStep, ReadsFile, HasGame, EndsGame, ActiveHas
<1> QED BY <1>2, <1>4, <1>5, <1>6 DEF Mine

\* A quiet step keeps the invariant, if its process claims what is true and lists what is right.
LEMMA QuietKeeps ==
  ASSUME Inv, NEW q \in Procs, Quiet(q), Types', Mine(q)', ToldOnDisk',
         StillOK(board'[q].list),
         \A b \in Boots : scores'[b] # None => StillOK(scores'[b]),
         proc'[Parent].pc = "parse" =>
           proc'[Parent] = proc[Parent] \/ \E p \in Players : active[p] = proc'[Parent].fd
  PROVE  Inv'
<1>1. Names'
  BY QuietNames
<1>2. \A r \in Procs : Mine(r)'
  BY QuietOthers
<1>3. ListsOK'
  <2>1. \A r \in Procs : StillOK(board'[r].list)
    BY QuietList DEF Inv, ListsOK, Quiet
  <2> QED BY <2>1 DEF ListsOK, ListOK, StillOK, ActiveHas
<1>4. WonOnDisk'
  <2>1. \A i \in Inodes : file'[i].head /\ LastIsKey(file'[i]) => won'[file'[i].id] = Len(file'[i].trials)
    BY DEF Inv, WonOnDisk, Quiet, LastIsKey
  <2>2. ASSUME NEW i \in Inodes, file'[i].head, file'[i].end = NoEnd, won'[file'[i].id] # 0, MayBeRead(i)'
        PROVE  LastIsKey(file'[i])
    <3>1. /\ file[i].head /\ file[i].end = NoEnd /\ won[file[i].id] # 0
          /\ file'[i].key = file[i].key /\ file'[i].trials = file[i].trials
      BY <2>2 DEF Quiet
    <3>2. MayBeRead(i)
      <4>1. CASE \E p \in Players : active'[p] = i
        <5>1. PICK p \in Players : active'[p] = i
          BY <4>1
        <5>2. active'[p] # None
          BY <5>1, ServerAssumption, Sizes DEF Inodes
        <5> QED BY <2>2, <5>1, <5>2 DEF Quiet, MayBeRead
      <4>2. CASE proc'[Parent].pc = "parse" /\ proc'[Parent].fd = i
        BY <4>2 DEF MayBeRead
      <4> QED BY <2>2, <4>1, <4>2 DEF MayBeRead
    <3> QED BY <3>1, <3>2 DEF Inv, WonOnDisk, LastIsKey
  <2> QED BY <2>1, <2>2 DEF WonOnDisk
<1> QED BY <1>1, <1>2, <1>3, <1>4 DEF Inv

------------------------------------------------------------------------------
(* Steps that leave the disk alone.                                           *)

\* So does a step that leaves the disk alone.
LEMMA MemoryKeeps ==
  ASSUME Inv, NEW q \in Procs, UNCHANGED <<disk, made, won>>,
         proc' = [r \in Procs |-> proc'[r]],
         \A r \in Procs : r # q => proc'[r] = proc[r] /\ board'[r] = board[r],
         board' \in [Procs -> [boot : Boots, list : Boards]],
         now' \in Times, up' \in BOOLEAN, boot' \in Boots, ~up' => proc'[Parent] = Idle,
         told' \in [Games -> 0..MaxTrials], \A g \in Games : g > made => told'[g] = 0,
         ToldOnDisk', Mine(q)', ListOK(board[q].list) => StillOK(board'[q].list),
         proc'[Parent].pc = "parse" =>
           proc'[Parent] = proc[Parent] \/ \E p \in Players : active[p] = proc'[Parent].fd
  PROVE  Inv'
<1>1. UNCHANGED <<file, active, records, scores, made, won>>
  BY DEF disk
<1>2. Quiet(q)
  BY <1>1 DEF Quiet
<1>3. Types'
  <2>1. Types
    BY DEF Inv
  <2>2. \A i \in Inodes : file'[i] = Blank \/ (IsGame(file'[i]) /\ file'[i].id <= made')
    BY <1>1, <2>1 DEF Types
  <2>3. told' \in [Games -> 0..MaxTrials] /\ \A g \in Games : g > made' => told'[g] = 0 /\ won'[g] = 0
    BY <1>1, <2>1 DEF Types
  <2> QED BY <1>1, <2>1, <2>2, <2>3 DEF Types, IsGame, Headed
<1>4. StillOK(board'[q].list)
  BY DEF Inv, ListsOK
<1>5. \A b \in Boots : scores'[b] # None => StillOK(scores'[b])
  BY <1>1, <1>2, QuietList DEF Inv, ListsOK
<1> QED BY <1>2, <1>3, <1>4, <1>5, QuietKeeps

\* A parent that is at work is one of a server that runs.
LEMMA ParentIsUp ==
  ASSUME Inv, NEW q \in Procs, proc[q].pc # "idle"
  PROVE  q = Parent => up
BY DEF Inv, Types, Idle

\* A step of one process from a place to another one, without a change on disk.
LEMMA GoKeeps ==
  ASSUME Inv, NEW q \in Procs, NEW c, Go(q, c), "pc" \in DOMAIN c,
         UNCHANGED <<disk, now, up, boot, ghosts>>, q = Parent => up, Mine(q)',
         c.pc = "parse" => \E p \in Players : active[p] = proc'[q].fd
  PROVE  Inv'
<1>1. UNCHANGED <<file, active, records, scores, made, told, won, board, now, up, boot>>
  BY DEF Go, disk, ghosts
<1>2. Types
  BY DEF Inv
<1>3. /\ proc' = [r \in Procs |-> proc'[r]] /\ proc'[q].pc = c.pc
      /\ \A r \in Procs : r # q => proc'[r] = proc[r]
  BY <1>2, StepFields DEF Go, Types
<1>4. ToldOnDisk' /\ (ListOK(board[q].list) => StillOK(board'[q].list))
  BY <1>1 DEF Inv, ToldOnDisk, ActiveHas, ListOK, StillOK
<1>5. ~up' => proc'[Parent] = Idle
  <2>1. ~up => proc[Parent] = Idle
    BY <1>2 DEF Types
  <2> QED BY <1>1, <1>3, <2>1 DEF Procs
<1>6. proc'[Parent].pc = "parse" =>
        proc'[Parent] = proc[Parent] \/ \E p \in Players : active[p] = proc'[Parent].fd
  BY <1>3 DEF Procs
<1>7. UNCHANGED <<disk, made, won>> /\ \A g \in Games : g > made => told'[g] = 0
  BY <1>1, <1>2 DEF Types, disk
<1> QED BY <1>1, <1>2, <1>3, <1>4, <1>5, <1>6, <1>7, MemoryKeeps DEF Types

\* A process that finishes.
LEMMA FinishKeeps ==
  ASSUME Inv, NEW q \in Procs, Finish(q), UNCHANGED <<disk, now, boot, made, won>>,
         up' \in BOOLEAN, ~up' => ~up \/ q = Parent,
         told' \in [Games -> 0..MaxTrials], \A g \in Games : g > made => told'[g] = 0, ToldOnDisk'
  PROVE  Inv'
<1>1. Types /\ UNCHANGED <<file, active, won>>
  BY DEF Inv, disk
<1>2. /\ proc' = [r \in Procs |-> proc'[r]]
      /\ \A r \in Procs : r # q => proc'[r] = proc[r] /\ board'[r] = board[r]
      /\ proc'[q] = Idle
      /\ board' \in [Procs -> [boot : Boots, list : Boards]]
      /\ \A k \in DOMAIN board'[q].list : k \in DOMAIN board[q].list /\ board'[q].list[k] = board[q].list[k]
  BY <1>1, FinishFields
<1>3. Mine(q)'
  BY <1>2 DEF Mine, Frame, Owner, Wins, InStep, Idle, Places, ReadsFile, EndsGame, HasGame
<1>4. ListOK(board[q].list) => StillOK(board'[q].list)
  BY <1>1, <1>2 DEF ListOK, StillOK, ActiveHas
<1>5. ~up' => proc'[Parent] = Idle
  BY <1>1, <1>2 DEF Types, Procs
<1>6. proc'[Parent].pc = "parse" => proc'[Parent] = proc[Parent]
  BY <1>2 DEF Procs, Idle
<1> QED BY <1>1, <1>2, <1>3, <1>4, <1>5, <1>6, MemoryKeeps DEF Types

------------------------------------------------------------------------------
(* A request comes in.                                                        *)

\* The requests: a start,
LEMMA BeginKeeps ==
  ASSUME Inv, NEW p \in Players, NEW key \in Guesses, NEW dur \in Durations, Begin(p, key, dur)
  PROVE  Inv'
<1> DEFINE q == Parent
           c == [pc |-> IF active[p] = None THEN "create" ELSE "find",
                 req |-> [kind |-> "SNG", p |-> p, key |-> key, dur |-> dur, start |-> now]]
<1>1. /\ Go(q, c) /\ up /\ UNCHANGED <<disk, now, up, boot, ghosts>> /\ made < MaxGames
      /\ proc = [r \in Procs |-> proc[r]] /\ now \in Times /\ q \in Procs
  BY DEF Begin, Inv, Types, Procs
<1>2. UNCHANGED <<file, active, made, won, board>>
  BY <1>1 DEF disk, ghosts, Go
<1>3. /\ "pc" \in DOMAIN proc'[q] /\ "req" \in DOMAIN proc'[q]
      /\ proc'[q].pc = c.pc /\ proc'[q].req = c.req
  BY <1>1, StepFields DEF Go, ReadsFile, EndsGame
<1>4. "pc" \in DOMAIN c /\ c.pc \in {"create", "find"} /\ c.req.kind = "SNG" /\ c.req.p = p /\ c.req.key = key
      /\ c.req.dur = dur /\ c.req.start = now /\ (c.pc = "create" => active[p] = None)
  OBVIOUS
<1> HIDE DEF c
<1>5. Mine(q)'
  <2>1. Frame(q)'
    BY <1>1, <1>2, <1>3, <1>4 DEF Frame, Places, HasGame, EndsGame, ReadsFile
  <2>2. Owner(q)' /\ Wins(q)'
    BY <1>3, <1>4 DEF Owner, Wins, HasGame, EndsGame, ReadsFile
  <2>3. InStep'
    BY <1>2, <1>3, <1>4 DEF InStep, HasGame, EndsGame, Player, ActiveHas
  <2> QED BY <2>1, <2>2, <2>3 DEF Mine
<1> QED BY <1>1, <1>4, <1>5, GoKeeps

\* A process opens the active file of its player to read it.
LEMMA ParsePlace ==
  ASSUME Inv, NEW q \in Procs, NEW p \in Players, active[p] # None,
         UNCHANGED <<disk, made, won>>,
         proc'[q].pc = "parse", "pc" \in DOMAIN proc'[q], "fd" \in DOMAIN proc'[q],
         "req" \in DOMAIN proc'[q], proc'[q].fd = active[p],
         LET r == proc'[q].req IN
         /\ r.p = p
         /\ r.kind \in (IF q = Parent THEN {"SNG", "TRY", "QUT"} ELSE {"STR"})
         /\ r.kind = "SNG" => r.key \in Guesses /\ r.dur \in Durations /\ r.start \in Times /\ made < MaxGames
         /\ r.kind = "TRY" => r.guess \in Guesses,
         board'[q].list = board[q].list \/ board'[q].list = board[Parent].list
  PROVE  Mine(q)'
<1>1. UNCHANGED <<file, active, made, won>> /\ active[p] \in Inodes /\ Parent \in Procs
  BY DEF disk, Inv, Types, Procs
<1>2. Frame(q)'
  BY <1>1 DEF Frame, Places, HasGame, EndsGame, ReadsFile
<1>3. Owner(q)'
  BY <1>1 DEF Owner, Inv, Names, HasGame, EndsGame, Player
<1>4. Wins(q)'
  <2>1. ListOK(board[q].list) /\ ListOK(board[Parent].list)
    BY <1>1 DEF Inv, ListsOK
  <2> QED BY <1>1, <2>1, SMTT(30) DEF Wins, ListOK, ActiveHas
<1>5. ASSUME q = Parent PROVE InStep'
  BY <1>1, <1>5 DEF InStep, HasGame, EndsGame, Player, ActiveHas
<1> QED BY <1>2, <1>3, <1>4, <1>5 DEF Mine

\* ... a try or a quit,
LEMMA AskKeeps ==
  ASSUME Inv, NEW p \in Players,
         (\E guess \in Guesses, nT \in 1..MaxTrials : AskTry(p, guess, nT)) \/ AskQuit(p)
  PROVE  Inv'
<1>1. PICK r : /\ r.p = p /\ r.kind \in {"TRY", "QUT"} /\ (r.kind = "TRY" => r.guess \in Guesses)
               /\ Go(Parent, [pc |-> "parse", fd |-> active[p], req |-> r])
  <2>1. ASSUME NEW guess \in Guesses, NEW nT \in 1..MaxTrials, AskTry(p, guess, nT)
        PROVE  \E r : /\ r.p = p /\ r.kind \in {"TRY", "QUT"} /\ (r.kind = "TRY" => r.guess \in Guesses)
                      /\ Go(Parent, [pc |-> "parse", fd |-> active[p], req |-> r])
    <3> WITNESS [kind |-> "TRY", p |-> p, guess |-> guess, nT |-> nT]
    <3> QED BY <2>1 DEF AskTry
  <2>2. ASSUME AskQuit(p)
        PROVE  \E r : /\ r.p = p /\ r.kind \in {"TRY", "QUT"} /\ (r.kind = "TRY" => r.guess \in Guesses)
                      /\ Go(Parent, [pc |-> "parse", fd |-> active[p], req |-> r])
    <3> WITNESS [kind |-> "QUT", p |-> p]
    <3> QED BY <2>2 DEF AskQuit
  <2> QED BY <2>1, <2>2
<1> DEFINE q == Parent
           c == [pc |-> "parse", fd |-> active[p], req |-> r]
<1>2. /\ up /\ active[p] # None /\ UNCHANGED <<disk, now, up, boot, ghosts>>
      /\ proc = [x \in Procs |-> proc[x]] /\ q \in Procs
  BY DEF AskTry, AskQuit, Inv, Types, Procs
<1>3. /\ {"pc", "fd", "req"} \subseteq DOMAIN proc'[q]
      /\ proc'[q].pc = "parse" /\ proc'[q].fd = active[p] /\ proc'[q].req = r
  BY <1>1, <1>2, StepFields DEF Go, ReadsFile, EndsGame
<1>4. Mine(q)'
  <2>1. UNCHANGED <<disk, made, won>> /\ board'[q].list = board[q].list
    BY <1>1, <1>2 DEF ghosts, Go
  <2> QED BY <1>1, <1>2, <1>3, <2>1, ParsePlace
<1>5. "pc" \in DOMAIN c
  OBVIOUS
<1> QED BY <1>1, <1>2, <1>3, <1>4, <1>5, GoKeeps

\* A child has the scoreboard of its parent.
LEMMA AskTrialsKeeps ==
  ASSUME Inv, NEW p \in Players, NEW q \in Children, AskTrials(q, p)
  PROVE  Inv'
<1> DEFINE r == [kind |-> "STR", p |-> p]
           c == [pc |-> "parse", fd |-> active[p], req |-> r]
<1>1. /\ active[p] # None /\ UNCHANGED <<disk, now, up, boot, ghosts>> /\ Step(q, c)
      /\ board' = [board EXCEPT ![q] = board[Parent]]
      /\ proc = [x \in Procs |-> proc[x]] /\ q \in Procs /\ Parent \in Procs /\ q # Parent
  BY ServerAssumption DEF AskTrials, Inv, Types, Procs
<1>2. /\ {"pc", "fd", "req"} \subseteq DOMAIN proc'[q]
      /\ proc'[q].pc = "parse" /\ proc'[q].fd = active[p] /\ proc'[q].req = r
      /\ proc' = [x \in Procs |-> proc'[x]] /\ \A x \in Procs : x # q => proc'[x] = proc[x]
  BY <1>1, StepFields DEF ReadsFile, EndsGame
<1>3. /\ board \in [Procs -> [boot : Boots, list : Boards]]
      /\ board' \in [Procs -> [boot : Boots, list : Boards]]
      /\ board'[q] = board[Parent] /\ \A x \in Procs : x # q => board'[x] = board[x]
  <2>1. board \in [Procs -> [boot : Boots, list : Boards]]
    BY DEF Inv, Types
  <2> QED BY <1>1, <2>1
<1>4. Mine(q)'
  <2>1. UNCHANGED <<disk, made, won>>
    BY <1>1 DEF ghosts
  <2> QED BY <1>1, <1>2, <1>3, <2>1, ParsePlace
<1>5. StillOK(board'[q].list) /\ ToldOnDisk'
  <2>1. ListOK(board[Parent].list) /\ ToldOnDisk /\ UNCHANGED <<file, active, told, won>>
    BY <1>1 DEF Inv, ListsOK, disk, ghosts
  <2> QED BY <1>3, <2>1 DEF ListOK, StillOK, ToldOnDisk, ActiveHas
<1>6. /\ now' \in Times /\ up' \in BOOLEAN /\ boot' \in Boots /\ told' \in [Games -> 0..MaxTrials]
      /\ \A g \in Games : g > made => told'[g] = 0
      /\ UNCHANGED <<disk, made, won>>
  BY <1>1 DEF Inv, Types, ghosts
<1>7. ~up' => proc'[Parent] = Idle
  BY <1>1, <1>2 DEF Inv, Types
<1> QED BY <1>1, <1>2, <1>3, <1>4, <1>5, <1>6, <1>7, MemoryKeeps

\* A start that finds a file, or none.
LEMMA FindKeeps ==
  ASSUME Inv, NEW q \in Procs, Find(q)
  PROVE  Inv'
<1> DEFINE p == Player(q)
<1>1. /\ proc[q].pc = "find" /\ UNCHANGED <<disk, now, up, boot, ghosts>>
      /\ proc = [r \in Procs |-> proc[r]] /\ Frame(q)
  BY DEF Find, At, Inv, Types, Mine
<1>2. UNCHANGED <<file, active, made, won>> /\ p \in Players /\ (q = Parent => up)
      /\ "req" \in DOMAIN proc[q] /\ proc[q].req.kind = "SNG" /\ proc[q].req.p = p
  BY <1>1, ParentIsUp DEF disk, ghosts, Frame, Player
<1>3. CASE active[p] = None
  <2> DEFINE c == [pc |-> "create"]
  <2>1. Go(q, c)
    BY <1>3 DEF Find
  <2>2. {"pc", "req"} \subseteq DOMAIN proc'[q] /\ proc'[q].pc = "create" /\ proc'[q].req = proc[q].req
    BY <1>1, <1>2, <2>1, StepFields DEF Go, ReadsFile, EndsGame
  <2>3. Frame(q)'
    BY <1>1, <1>2, <2>2 DEF Frame, Places, HasGame, EndsGame, ReadsFile
  <2>4. Owner(q)' /\ Wins(q)'
    BY <2>2, SMTT(30) DEF Owner, Wins, HasGame, EndsGame, ReadsFile
  <2>5. q = Parent => InStep'
    BY <1>2, <1>3, <2>2 DEF InStep, HasGame, EndsGame, Player, ActiveHas
  <2>6. "pc" \in DOMAIN c /\ c.pc = "create" /\ Mine(q)'
    BY <2>3, <2>4, <2>5 DEF Mine
  <2> QED BY <1>1, <1>2, <2>1, <2>6, GoKeeps
<1>4. CASE active[p] # None
  <2> DEFINE c == [pc |-> "parse", fd |-> active[p]]
  <2>1. Go(q, c)
    BY <1>4 DEF Find
  <2>2. /\ {"pc", "fd", "req"} \subseteq DOMAIN proc'[q] /\ proc'[q].pc = "parse"
        /\ proc'[q].fd = active[p] /\ proc'[q].req = proc[q].req
    BY <1>1, <1>2, <2>1, StepFields DEF Go, ReadsFile, EndsGame
  <2>3. Mine(q)'
    <3>1. UNCHANGED <<disk, made, won>> /\ board'[q].list = board[q].list
      BY <1>1, <2>1 DEF ghosts, Go
    <3> HIDE DEF p
    <3> QED BY <1>1, <1>2, <1>4, <2>2, <3>1, ParsePlace DEF Frame
  <2>4. "pc" \in DOMAIN c
    OBVIOUS
  <2> QED BY <1>1, <1>2, <2>1, <2>2, <2>3, <2>4, GoKeeps
<1> QED BY <1>3, <1>4

------------------------------------------------------------------------------
(* A process has read a game.                                                 *)

\* The fields of a game with a header.
LEMMA GameFields ==
  ASSUME NEW g, IsGame(g)
  PROVE  /\ g.head /\ g.id \in Games /\ g.id \in Nat /\ g.key \in Guesses
         /\ g.start \in Nat /\ g.dur \in Nat
         /\ g.trials \in Seq(Guesses) /\ Len(g.trials) \in 0..MaxTrials
         /\ g.trials = <<>> <=> Len(g.trials) = 0
<1>1. /\ g.head = TRUE /\ g.id \in Games /\ g.key \in Guesses /\ g.start \in Times /\ g.dur \in Durations
      /\ g.trials \in Seq(Guesses) /\ Len(g.trials) <= MaxTrials
  BY DEF IsGame, Headed
<1>2. Len(g.trials) \in Nat /\ (g.trials = <<>> <=> Len(g.trials) = 0)
  BY <1>1, LenProperties, EmptySeq
<1>3. MaxTrials \in Nat /\ Durations \subseteq Nat /\ Games \subseteq Nat /\ Times \subseteq Nat
  BY MastermindAssumption, ServerAssumption DEF Games, Times
<1>4. Len(g.trials) \in 0..MaxTrials
  BY <1>1, <1>2, <1>3
<1>5. g.head
  BY <1>1
<1>6. g.id \in Nat /\ g.start \in Nat /\ g.dur \in Nat
  BY <1>1, <1>3
<1> QED BY <1>1, <1>2, <1>4, <1>5, <1>6, Zenon

\* An active file with a header is a game that was made.
LEMMA ActiveGame ==
  ASSUME Types, NEW p \in Players, ActiveHas(p)
  PROVE  active[p] \in Inodes /\ IsGame(file[active[p]]) /\ file[active[p]].id <= made
BY DEF ActiveHas, Types, Blank

\* What has_ended makes of a game without a last line.
LEMMA EndOfGame ==
  ASSUME NEW g, IsGame(g), now \in Times, g.end = NoEnd
  PROVE  /\ EndTime(g, now) \in Times
         /\ Over(g) => Status(g, now) \in Reasons
         /\ Over(g) => (Status(g, now) = "WON" <=> LastIsKey(g))
         /\ ~Over(g) => ~LastIsKey(g) /\ Len(g.trials) < MaxTrials
<1>1. g.start \in Nat /\ g.dur \in Nat /\ now \in Nat /\ now <= MaxTime /\ MaxTime \in Nat
      /\ Len(g.trials) \in Nat /\ MaxTrials \in Nat
  BY GameFields, ServerAssumption, MastermindAssumption DEF Times
<1>2. EndTime(g, now) \in Times
  BY <1>1 DEF EndTime, Times
<1> QED BY <1>1, <1>2 DEF Over, Status, Reasons, LastIsKey

\* A game with a last line is a game.
LEMMA WithEndIsGame ==
  ASSUME NEW g, IsGame(g), NEW why \in Reasons, NEW t \in Times
  PROVE  LET h == [g EXCEPT !.end = [why |-> why, at |-> t]] IN
         /\ IsGame(h) /\ h.end # NoEnd /\ h.end.why = why /\ h.end.at = t
         /\ h.id = g.id /\ h.trials = g.trials /\ h.key = g.key
<1> DEFINE e == [why |-> why, at |-> t]
           h == [g EXCEPT !.end = e]
<1>1. e \in [why : Reasons, at : Times] /\ e \in [why : Reasons, at : Nat] /\ e.why = why /\ e.at = t
  BY ServerAssumption DEF Times
<1>2. e # NoEnd
  BY <1>1, ServerAssumption
<1> HIDE DEF e
<1>3. h \in Headed /\ h.end = e /\ h.id = g.id /\ h.trials = g.trials /\ h.key = g.key
  BY <1>1 DEF IsGame, Headed
<1>4. IsGame(h) /\ h.end = e /\ h.id = g.id /\ h.trials = g.trials /\ h.key = g.key
  BY <1>3 DEF IsGame
<1> QED BY <1>1, <1>2, <1>4 DEF h, e

\* The fields of a process that is to write the end of a game.
LEMMA EndingFields ==
  ASSUME Types, NEW q \in Procs, NEW h, NEW b,
         Go(q, [pc |-> "append", gm |-> h, back |-> b]) \/ Go(q, [pc |-> "append", back |-> b, gm |-> h]),
         "req" \in DOMAIN proc[q]
  PROVE  /\ {"pc", "req", "gm", "back"} \subseteq DOMAIN proc'[q]
         /\ proc'[q].pc = "append" /\ proc'[q].gm = h /\ proc'[q].back = b /\ proc'[q].req = proc[q].req
<1>1. proc = [r \in Procs |-> proc[r]]
  BY DEF Types
<1>2. CASE Go(q, [pc |-> "append", gm |-> h, back |-> b])
  BY <1>1, <1>2, StepFields DEF Go, ReadsFile, EndsGame
<1>3. CASE Go(q, [pc |-> "append", back |-> b, gm |-> h])
  BY <1>1, <1>3, StepFields DEF Go, ReadsFile, EndsGame
<1> QED BY <1>2, <1>3

\* What a process knows of the file it parses: no other file has its game, and a win is counted.
LEMMA ParseFacts ==
  ASSUME Inv, NEW q \in Procs, Parse(q)
  PROVE  LET g == file[proc[q].fd] IN
         /\ proc[q].pc = "parse" /\ proc[q].fd \in Inodes /\ Frame(q) /\ "req" \in DOMAIN proc[q]
         /\ IsGame(g) /\ g.id <= made /\ now \in Times /\ g.head
         /\ Types /\ (q = Parent => up) /\ UNCHANGED <<disk, now, up, boot, ghosts>>
         /\ UNCHANGED <<file, active, made, won>>
         /\ \A p \in Players : ActiveHas(p) /\ file[active[p]].id = g.id => p = Player(q)
         /\ LastIsKey(g) => won[g.id] = Len(g.trials) /\ Len(g.trials) # 0
         /\ \A k \in DOMAIN board[q].list : board[q].list[k].game # g.id
         /\ q = Parent =>
              /\ ActiveHas(Player(q)) => active[Player(q)] = proc[q].fd
              /\ \A k \in Inodes : file[k].head /\ file[k].id = g.id => k = proc[q].fd
              /\ g.end = NoEnd /\ ~LastIsKey(g) => won[g.id] = 0
<1> DEFINE i == proc[q].fd
           g == file[i]
<1>1. /\ proc[q].pc = "parse" /\ i \in Inodes /\ Frame(q) /\ "req" \in DOMAIN proc[q] /\ g.head
      /\ Types /\ Names /\ Owner(q) /\ Wins(q) /\ WonOnDisk /\ (q = Parent => up /\ InStep)
      /\ UNCHANGED <<disk, now, up, boot, ghosts>> /\ UNCHANGED <<file, active, made, won>>
  <2>1. proc[q].pc = "parse" /\ g.head /\ UNCHANGED <<disk, now, up, boot, ghosts>>
    BY DEF Parse, At
  <2>2. /\ Types /\ Names /\ Owner(q) /\ Wins(q) /\ WonOnDisk /\ Frame(q) /\ (q = Parent => InStep)
    BY DEF Inv, Mine
  <2>3. q = Parent => up
    BY <2>1, ParentIsUp
  <2>4. i \in Inodes /\ "req" \in DOMAIN proc[q]
    BY <2>1, <2>2 DEF Frame, ReadsFile
  <2> QED BY <2>1, <2>2, <2>3, <2>4 DEF disk, ghosts
<1>2. IsGame(g) /\ g.id <= made /\ now \in Times
  BY <1>1 DEF Types, Blank
<1>3. \A p \in Players : ActiveHas(p) => active[p] \in Inodes /\ file[active[p]].head
  BY <1>1 DEF ActiveHas, Types
<1>4. \A p \in Players : ActiveHas(p) /\ file[active[p]].id = g.id => p = Player(q)
  BY <1>1, <1>3 DEF Names, Owner, ReadsFile
<1>5. LastIsKey(g) => won[g.id] = Len(g.trials) /\ Len(g.trials) # 0
  <2>1. g.trials # <<>> => Len(g.trials) # 0
    BY <1>2, EmptySeq DEF IsGame
  <2> QED BY <1>1, <2>1 DEF WonOnDisk, LastIsKey
<1>6. \A k \in DOMAIN board[q].list : board[q].list[k].game # g.id
  BY <1>1 DEF Wins
<1>7. ASSUME q = Parent
      PROVE  /\ ActiveHas(Player(q)) => active[Player(q)] = i
             /\ \A k \in Inodes : file[k].head /\ file[k].id = g.id => k = i
             /\ g.end = NoEnd /\ ~LastIsKey(g) => won[g.id] = 0
  BY <1>1, <1>7 DEF InStep, Names, WonOnDisk, MayBeRead
<1> QED BY <1>1, <1>2, <1>4, <1>5, <1>6, <1>7

\* The file is read, and may be found to be over.
LEMMA ParseKeeps ==
  ASSUME Inv, NEW q \in Procs, Parse(q)
  PROVE  Inv'
<1> DEFINE i == proc[q].fd
           g == file[i]
           P == Player(q)
<1>1. /\ proc[q].pc = "parse" /\ i \in Inodes /\ Frame(q) /\ "req" \in DOMAIN proc[q]
      /\ IsGame(g) /\ g.id <= made /\ now \in Times /\ g.head
      /\ Types /\ (q = Parent => up) /\ UNCHANGED <<disk, now, up, boot, ghosts>>
      /\ UNCHANGED <<file, active, made, won>>
      /\ \A p \in Players : ActiveHas(p) /\ file[active[p]].id = g.id => p = P
      /\ LastIsKey(g) => won[g.id] = Len(g.trials) /\ Len(g.trials) # 0
      /\ \A k \in DOMAIN board[q].list : board[q].list[k].game # g.id
      /\ q = Parent =>
           /\ ActiveHas(P) => active[P] = i
           /\ \A k \in Inodes : file[k].head /\ file[k].id = g.id => k = i
           /\ g.end = NoEnd /\ ~LastIsKey(g) => won[g.id] = 0
  BY ParseFacts
<1>2. CASE Over(g)
  <2> DEFINE h == [g EXCEPT !.end = [why |-> Status(g, now), at |-> EndTime(g, now)]]
             c == [pc |-> "append", gm |-> h, back |-> "found"]
  <2>1. g.end = NoEnd
    BY <1>2 DEF Over
  <2>2. Status(g, now) \in Reasons /\ EndTime(g, now) \in Times /\ (Status(g, now) = "WON" => LastIsKey(g))
    BY <1>1, <1>2, <2>1, EndOfGame
  <2>3. /\ IsGame(h) /\ h.end # NoEnd /\ h.end.why = Status(g, now)
        /\ h.id = g.id /\ h.trials = g.trials /\ h.key = g.key
    BY <1>1, <2>2, WithEndIsGame
  <2>4. Go(q, c)
    BY <1>2 DEF Parse, Ending
  <2> HIDE DEF h
  <2>5. /\ {"pc", "req", "gm", "back"} \subseteq DOMAIN proc'[q]
        /\ proc'[q].pc = "append" /\ proc'[q].gm = h /\ proc'[q].back = "found" /\ proc'[q].req = proc[q].req
    BY <1>1, <2>4, EndingFields
  <2> HIDE DEF g, i
  <2>6. Frame(q)'
    BY <1>1, <2>3, <2>5 DEF Frame, Places, HasGame, EndsGame, ReadsFile
  <2>7. Owner(q)'
    BY <1>1, <2>3, <2>5 DEF Owner, HasGame, EndsGame, ReadsFile, Player, ActiveHas
  <2>8. Wins(q)'
    BY <1>1, <2>2, <2>3, <2>4, <2>5, SMTT(30) DEF Wins, Go
  <2>9. q = Parent => InStep'
    BY <1>1, <2>1, <2>3, <2>5, SMTT(40), ZenonT(40) DEF InStep, HasGame, EndsGame, Player, ActiveHas, g
  <2>10. "pc" \in DOMAIN c /\ c.pc = "append" /\ Mine(q)'
    BY <2>6, <2>7, <2>8, <2>9 DEF Mine
  <2> QED BY <1>1, <2>4, <2>10, GoKeeps
<1>3. CASE ~Over(g)
  <2> DEFINE c == [pc |-> "found", gm |-> g]
  <2>1. Go(q, c)
    BY <1>3 DEF Parse
  <2>2. g.end = NoEnd => ~LastIsKey(g) /\ Len(g.trials) < MaxTrials
    BY <1>1, <1>3, EndOfGame
  <2>3. /\ {"pc", "req", "gm"} \subseteq DOMAIN proc'[q]
        /\ proc'[q].pc = "found" /\ proc'[q].gm = g /\ proc'[q].req = proc[q].req
    <3>1. proc = [r \in Procs |-> proc[r]]
      BY <1>1 DEF Types
    <3> HIDE DEF g, i
    <3> QED BY <1>1, <2>1, <3>1, StepFields DEF Go, ReadsFile, EndsGame
  <2>4. "pc" \in DOMAIN c /\ c.pc = "found"
    OBVIOUS
  <2> HIDE DEF g, i
  <2>5. Frame(q)'
    BY <1>1, <2>2, <2>3 DEF Frame, Places, HasGame, EndsGame, ReadsFile
  <2>6. Owner(q)' /\ Wins(q)'
    BY <1>1, <2>3 DEF Owner, Wins, HasGame, EndsGame, ReadsFile, Player, ActiveHas
  <2>7. q = Parent => InStep'
    <3> SUFFICES ASSUME q = Parent PROVE InStep'
      OBVIOUS
    <3>1. Player(Parent)' = Player(Parent)
      BY <2>3 DEF Player
    <3>2. ActiveHas(Player(Parent))' <=> ActiveHas(Player(Parent))
      BY <1>1, <3>1 DEF ActiveHas
    <3> QED BY <1>1, <2>2, <2>3, <3>1, <3>2 DEF InStep, g
  <2> QED BY <1>1, <2>1, <2>4, <2>5, <2>6, <2>7, GoKeeps DEF Mine
<1> QED BY <1>2, <1>3

\* Steps that end the work of a process and write nothing.
LEMMA NothingToDoKeeps ==
  ASSUME Inv, NEW q \in Procs,
         FoundTrials(q) \/ FoundNoPlay(q) \/ FoundNoTrial(q) \/ ParseFails(q) \/ MoveFails(q)
           \/ (Found(q, "SNG") /\ FoundStart(q) /\ proc[q].gm.end = NoEnd)
           \/ (Found(q, "QUT") /\ FoundQuit(q) /\ proc[q].gm.end # NoEnd)
  PROVE  Inv'
<1>1. /\ Finish(q) /\ UNCHANGED <<disk, now, boot, ghosts>> /\ (up' = up \/ up' = (up /\ q # Parent))
  BY DEF FoundTrials, FoundNoPlay, FoundNoTrial, ParseFails, MoveFails, FoundStart, FoundQuit, Stop
<1>2. /\ up \in BOOLEAN /\ told \in [Games -> 0..MaxTrials] /\ ToldOnDisk
      /\ \A g \in Games : g > made => told[g] = 0
  BY DEF Inv, Types
<1>3. UNCHANGED <<disk, now, boot, made, won>> /\ told' = told /\ ToldOnDisk'
  BY <1>1, <1>2 DEF ghosts, disk, ToldOnDisk, ActiveHas
<1>4. up' \in BOOLEAN /\ (~up' => ~up \/ q = Parent)
  BY <1>1, <1>2
<1> QED BY <1>1, <1>2, <1>3, <1>4, FinishKeeps

\* A server that stops leaves what is on disk.
LEMMA CrashKeeps == ASSUME Inv, Crash PROVE Inv'
<1>1. /\ Finish(Parent) /\ UNCHANGED <<disk, now, boot, ghosts>> /\ up' = FALSE /\ Parent \in Procs
  BY DEF Crash, Procs
<1>2. /\ told \in [Games -> 0..MaxTrials] /\ ToldOnDisk
      /\ \A g \in Games : g > made => told[g] = 0
  BY DEF Inv, Types
<1>3. UNCHANGED <<disk, now, boot, made, won>> /\ told' = told /\ ToldOnDisk'
  BY <1>1, <1>2 DEF ghosts, disk, ToldOnDisk, ActiveHas
<1> QED BY <1>1, <1>2, <1>3, FinishKeeps

\* What is told is what the parent has read or written.
LEMMA TellKeeps ==
  ASSUME Inv, proc[Parent].pc \in {"found", "answer"}, UNCHANGED <<file, active>>,
         told' = [told EXCEPT ![proc[Parent].gm.id] = Len(proc[Parent].gm.trials)]
  PROVE  /\ told' \in [Games -> 0..MaxTrials] /\ ToldOnDisk'
         /\ \A g \in Games : g > made => told'[g] = 0
<1> DEFINE gm == proc[Parent].gm
<1>1. /\ Frame(Parent) /\ Owner(Parent) /\ InStep /\ Types /\ ToldOnDisk /\ proc[Parent].pc \in HasGame
      /\ Player(Parent) \in Players
  <2>1. Parent \in Procs
    BY DEF Procs
  <2>2. /\ Frame(Parent) /\ Owner(Parent) /\ InStep /\ Types /\ ToldOnDisk /\ proc[Parent].pc \in HasGame
    BY <2>1 DEF Inv, Mine, HasGame
  <2> QED BY <2>2 DEF Frame, Player
<1>2. IsGame(gm) /\ gm.id <= made
  BY <1>1 DEF Frame
<1>3. gm.id \in Games /\ Len(gm.trials) \in 0..MaxTrials /\ gm.id \in Nat /\ made \in Nat
  <2>1. made \in Nat
    BY <1>1, ServerAssumption DEF Types
  <2> QED BY <1>2, <2>1, GameFields
<1>4. told \in [Games -> 0..MaxTrials] /\ \A g \in Games : g > made => told[g] = 0
  BY <1>1 DEF Types
<1>5. told' \in [Games -> 0..MaxTrials] /\ told'[gm.id] = Len(gm.trials)
      /\ \A g \in Games : g # gm.id => told'[g] = told[g]
  BY <1>3, <1>4
<1>6. \A g \in Games : g > made => told'[g] = 0
  <2>1. ASSUME NEW g \in Games, g > made PROVE g # gm.id
    BY <1>2, <1>3, <2>1 DEF Games
  <2> QED BY <1>4, <1>5, <2>1
<1>7. ASSUME NEW p \in Players, ActiveHas(p), file[active[p]].end = NoEnd
      PROVE  told'[file[active[p]].id] <= Len(file[active[p]].trials)
  <2> DEFINE f == file[active[p]]
  <2>1. IsGame(f) /\ told[f.id] <= Len(f.trials)
    BY <1>1, <1>7, ActiveGame DEF ToldOnDisk
  <2>2. f.id \in Games /\ Len(f.trials) \in Nat
    BY <2>1, GameFields
  <2>3. CASE f.id = gm.id
    <3>1. p = Player(Parent)
      BY <1>1, <1>7, <2>3 DEF Owner
    <3>2. f.trials = gm.trials
      BY <1>1, <1>7, <3>1 DEF InStep
    <3> QED BY <1>5, <2>2, <2>3, <3>2
  <2>4. CASE f.id # gm.id
    BY <1>5, <2>1, <2>2, <2>4
  <2> QED BY <2>3, <2>4
<1> QED BY <1>5, <1>6, <1>7 DEF ToldOnDisk, ActiveHas

\* The answers to a try.
LEMMA AnswerKeeps ==
  ASSUME Inv, NEW q \in Procs, FoundAgain(q) \/ Answer(q)
  PROVE  Inv'
<1>1. /\ Finish(q) /\ UNCHANGED <<disk, now, up, boot, made, won>> /\ proc[q].pc \in {"found", "answer"}
      /\ \/ told' = told
         \/ /\ proc[q].req.kind = "TRY"
            /\ told' = [told EXCEPT ![proc[q].gm.id] = Len(proc[q].gm.trials)]
  BY DEF FoundAgain, Answer, Found, At
<1>2. up \in BOOLEAN /\ UNCHANGED <<file, active>>
  BY <1>1 DEF Inv, Types, disk
<1>3. CASE told' = told
  <2>1. told' \in [Games -> 0..MaxTrials] /\ ToldOnDisk' /\ \A g \in Games : g > made => told'[g] = 0
    BY <1>2, <1>3 DEF Inv, Types, ToldOnDisk, ActiveHas
  <2> QED BY <1>1, <1>2, <2>1, FinishKeeps
<1>4. CASE proc[q].req.kind = "TRY" /\ told' = [told EXCEPT ![proc[q].gm.id] = Len(proc[q].gm.trials)]
  <2>1. q = Parent
    BY <1>1, <1>4 DEF Inv, Mine, Frame
  <2>2. told' \in [Games -> 0..MaxTrials] /\ ToldOnDisk' /\ \A g \in Games : g > made => told'[g] = 0
    BY <1>1, <1>2, <1>4, <2>1, TellKeeps
  <2> QED BY <1>1, <1>2, <2>2, FinishKeeps
<1> QED BY <1>1, <1>3, <1>4

\* A game that was read ends by its time, or because the player quits.
LEMMA EndFoundKeeps ==
  ASSUME Inv, NEW q \in Procs, proc[q].pc = "found", proc[q].gm.end = NoEnd,
         NEW why \in Reasons \ {"WON"}, NEW t \in Times, NEW b,
         b \in (IF proc[q].req.kind \in {"TRY", "QUT"} THEN {"found", "answer"} ELSE {"found"}),
         UNCHANGED <<disk, now, up, boot, ghosts>>,
         LET h == [proc[q].gm EXCEPT !.end = [why |-> why, at |-> t]] IN
           Go(q, [pc |-> "append", gm |-> h, back |-> b]) \/ Go(q, [pc |-> "append", back |-> b, gm |-> h])
  PROVE  Inv'
<1> DEFINE g == proc[q].gm
           h == [g EXCEPT !.end = [why |-> why, at |-> t]]
           P == Player(q)
<1>1. /\ Types /\ Frame(q) /\ Owner(q) /\ (q = Parent => InStep) /\ (q = Parent => up)
      /\ UNCHANGED <<file, active, made, won, board>>
  <2>1. Types /\ Frame(q) /\ Owner(q) /\ (q = Parent => InStep)
    BY DEF Inv, Mine
  <2>2. UNCHANGED <<file, active, made, won, board>>
    BY DEF disk, ghosts, Go
  <2> QED BY <2>1, <2>2, ParentIsUp
<1>2. IsGame(g) /\ g.id <= made /\ "req" \in DOMAIN proc[q]
  BY <1>1 DEF Frame, HasGame
<1>3. IsGame(h) /\ h.end # NoEnd /\ h.end.why # "WON" /\ h.id = g.id /\ h.trials = g.trials
  BY <1>2, WithEndIsGame
<1>4. Go(q, [pc |-> "append", gm |-> h, back |-> b]) \/ Go(q, [pc |-> "append", back |-> b, gm |-> h])
  OBVIOUS
<1> HIDE DEF h
<1>5. /\ {"pc", "req", "gm", "back"} \subseteq DOMAIN proc'[q]
      /\ proc'[q].pc = "append" /\ proc'[q].gm = h /\ proc'[q].back = b /\ proc'[q].req = proc[q].req
  BY <1>1, <1>2, <1>4, EndingFields
<1>6. Frame(q)'
  BY <1>1, <1>2, <1>3, <1>5 DEF Frame, Places, HasGame, EndsGame, ReadsFile
<1>7. Owner(q)'
  BY <1>1, <1>3, <1>5 DEF Owner, HasGame, EndsGame, ReadsFile, Player, ActiveHas
<1>8. Wins(q)'
  BY <1>3, <1>5 DEF Wins
<1>9. q = Parent => InStep'
  <2> SUFFICES ASSUME q = Parent PROVE InStep'
    OBVIOUS
  <2>1. Player(Parent)' = Player(Parent)
    BY <1>5 DEF Player
  <2>2. ActiveHas(Player(Parent))' <=> ActiveHas(Player(Parent))
    BY <1>1, <2>1 DEF ActiveHas
  <2>3. ActiveHas(Player(Parent)) =>
          LET i == active[Player(Parent)]
          IN  file[i].id = h.id /\ (file[i].end = NoEnd => file[i].trials = h.trials)
    BY <1>1, <1>3 DEF InStep, HasGame, EndsGame
  <2>4. proc'[Parent].pc = "append" /\ proc'[Parent].gm = h
    BY <1>5
  <2> QED BY <1>1, <2>1, <2>2, <2>3, <2>4 DEF InStep
<1>10. Mine(q)'
  BY <1>6, <1>7, <1>8, <1>9 DEF Mine
<1>11. CASE Go(q, [pc |-> "append", gm |-> h, back |-> b])
  <2> DEFINE c == [pc |-> "append", gm |-> h, back |-> b]
  <2>1. Go(q, c) /\ "pc" \in DOMAIN c /\ c.pc = "append"
    BY <1>11
  <2> QED BY <1>1, <1>10, <2>1, GoKeeps
<1>12. CASE Go(q, [pc |-> "append", back |-> b, gm |-> h])
  <2> DEFINE c == [pc |-> "append", back |-> b, gm |-> h]
  <2>1. Go(q, c) /\ "pc" \in DOMAIN c /\ c.pc = "append"
    BY <1>12
  <2> QED BY <1>1, <1>10, <2>1, GoKeeps
<1> QED BY <1>4, <1>11, <1>12

\* ... when it was found.
LEMMA FoundKeeps ==
  ASSUME Inv, NEW q \in Procs, FoundOver(q) \/ FoundStart(q) \/ FoundQuit(q)
  PROVE  Inv'
<1> DEFINE g == proc[q].gm
<1>1. /\ Types /\ Frame(q) /\ now \in Times /\ proc[q].pc = "found" /\ (q = Parent => InStep /\ up)
      /\ UNCHANGED <<disk, now, up, boot, ghosts>>
  <2>1. proc[q].pc = "found" /\ UNCHANGED <<disk, now, up, boot, ghosts>>
    BY DEF FoundOver, FoundStart, FoundQuit, Found, At
  <2>2. Types /\ Frame(q) /\ now \in Times /\ (q = Parent => InStep)
    BY DEF Inv, Mine, Types
  <2> QED BY <2>1, <2>2, ParentIsUp
<1>2. IsGame(g) /\ (g.end = NoEnd => ~LastIsKey(g)) /\ "req" \in DOMAIN proc[q]
  BY <1>1 DEF Frame, HasGame
<1>3. CASE FoundOver(q)
  <2>1. g.end = NoEnd /\ Over(g)
    BY <1>3 DEF FoundOver, Over
  <2>2. Status(g, now) \in Reasons \ {"WON"} /\ EndTime(g, now) \in Times
    BY <1>1, <1>2, <2>1, EndOfGame
  <2>3. Ending(q, g, "found")
    BY <1>3 DEF FoundOver
  <2> QED BY <1>1, <2>1, <2>2, <2>3, EndFoundKeeps DEF Ending
<1>4. CASE FoundQuit(q)
  <2>1. CASE g.end # NoEnd
    BY <1>4, <2>1, NothingToDoKeeps DEF FoundQuit
  <2>2. CASE g.end = NoEnd
    <3>1. EndTime(g, now) \in Times /\ "QUIT" \in Reasons \ {"WON"} /\ proc[q].req.kind = "QUT"
      BY <1>1, <1>2, <1>4, <2>2, EndOfGame DEF Reasons, FoundQuit, Found
    <3>2. Go(q, [pc |-> "append", back |-> "answer",
                 gm |-> [g EXCEPT !.end = [why |-> "QUIT", at |-> EndTime(g, now)]]])
      BY <1>4, <2>2 DEF FoundQuit
    <3> QED BY <1>1, <2>2, <3>1, <3>2, EndFoundKeeps
  <2> QED BY <2>1, <2>2
<1>5. CASE FoundStart(q)
  <2>1. CASE g.end = NoEnd
    BY <1>5, <2>1, NothingToDoKeeps DEF FoundStart
  <2>2. CASE g.end # NoEnd
    <3> DEFINE c == [pc |-> "create"]
    <3>1. Go(q, c) /\ proc[q].req.kind = "SNG" /\ UNCHANGED <<file, active, made, won>>
      BY <1>1, <1>5, <2>2 DEF FoundStart, Found, disk, ghosts
    <3>2. {"pc", "req"} \subseteq DOMAIN proc'[q] /\ proc'[q].pc = "create" /\ proc'[q].req = proc[q].req
      <4>1. proc = [r \in Procs |-> proc[r]]
        BY <1>1 DEF Types
      <4> QED BY <1>2, <3>1, <4>1, StepFields DEF Go, ReadsFile, EndsGame
    <3>3. Frame(q)'
      BY <1>1, <3>1, <3>2, SMTT(30) DEF Frame, Places, HasGame, EndsGame, ReadsFile
    <3>4. Owner(q)' /\ Wins(q)'
      BY <3>2, SMTT(30) DEF Owner, Wins, HasGame, EndsGame, ReadsFile
    <3>5. q = Parent => InStep'
      BY <1>1, <2>2, <3>1, <3>2 DEF InStep, HasGame, EndsGame, Player, ActiveHas
    <3>6. "pc" \in DOMAIN c /\ c.pc = "create" /\ Mine(q)'
      BY <3>3, <3>4, <3>5 DEF Mine
    <3> QED BY <1>1, <3>1, <3>6, GoKeeps
  <2> QED BY <2>1, <2>2
<1> QED BY <1>3, <1>4, <1>5

------------------------------------------------------------------------------
(* A process opens the active file of its player, makes it or empties it.     *)

\* A file that is opened by its active name is the one of that name, or a new one.
LEMMA OpenFacts ==
  ASSUME Inv, NEW p \in Players, NEW i,
         i = IF active[p] = None THEN FreeInode ELSE active[p],
         file' = [file EXCEPT ![i] = Blank] \/ (file' = file /\ active[p] # None),
         active' = [active EXCEPT ![p] = i]
  PROVE  /\ i \in Inodes
         /\ \A k \in Inodes : file'[k] = file[k] \/ (k = i /\ file'[k] = Blank)
         /\ file' = [k \in Inodes |-> file'[k]]
         /\ active' \in [Players -> Inodes \cup {None}] /\ active'[p] = i
         /\ \A s \in Players : s # p => active'[s] = active[s] /\ active[s] # i
         /\ active[p] = None =>
              /\ ~file'[i].head
              /\ \A r \in Procs : proc[r].pc \in ReadsFile => proc[r].fd # i
<1>1. /\ file = [k \in Inodes |-> file[k]] /\ active \in [Players -> Inodes \cup {None}] /\ Names
      /\ \A r \in Procs : Frame(r)
  BY DEF Inv, Types, Mine
<1>2. i \in Inodes /\ i # None
  BY <1>1, FreeInodeIsFree, ServerAssumption, Sizes DEF Inodes
<1>3. \A k \in Inodes : file'[k] = file[k] \/ (k = i /\ file'[k] = Blank)
  BY <1>1, <1>2
<1>4. file' = [k \in Inodes |-> file'[k]]
  BY <1>1, <1>2
<1>5. active' \in [Players -> Inodes \cup {None}] /\ active'[p] = i
  BY <1>1, <1>2
<1>6. ASSUME NEW s \in Players, s # p PROVE active'[s] = active[s] /\ active[s] # i
  BY <1>1, <1>2, <1>6, FreeInodeIsFree DEF Names
<1>7. ASSUME active[p] = None
      PROVE  ~file'[i].head /\ \A r \in Procs : proc[r].pc \in ReadsFile => proc[r].fd # i
  <2>1. file' = [file EXCEPT ![i] = Blank] /\ file'[i] = Blank
    BY <1>1, <1>2, <1>7
  <2>2. ASSUME NEW r \in Procs, proc[r].pc \in ReadsFile PROVE proc[r].fd # i
    BY <1>1, <1>7, <2>2, FreeInodeIsFree DEF Frame
  <2> QED BY <2>1, <2>2 DEF Blank
<1> QED BY <1>2, <1>3, <1>4, <1>5, <1>6, <1>7

\* A process that opens the active file keeps the invariant.
LEMMA OpenKeeps ==
  ASSUME Inv, NEW q \in Procs, Player(q) \in Players, NEW i,
         i = IF active[Player(q)] = None THEN FreeInode ELSE active[Player(q)],
         file' = [file EXCEPT ![i] = Blank] \/ (file' = file /\ active[Player(q)] # None),
         active' = [active EXCEPT ![Player(q)] = i],
         UNCHANGED <<records, scores, now, up, boot, ghosts>>, q = Parent => up,
         NEW c, Go(q, c), "pc" \in DOMAIN c, c.pc # "parse", Mine(q)'
  PROVE  Inv'
<1> DEFINE P == Player(q)
<1>1. /\ i \in Inodes
      /\ \A k \in Inodes : file'[k] = file[k] \/ (k = i /\ file'[k] = Blank)
      /\ file' = [k \in Inodes |-> file'[k]]
      /\ active' \in [Players -> Inodes \cup {None}] /\ active'[P] = i
      /\ \A s \in Players : s # P => active'[s] = active[s] /\ active[s] # i
      /\ active[P] = None =>
           /\ ~file'[i].head
           /\ \A r \in Procs : proc[r].pc \in ReadsFile => proc[r].fd # i
  <2>1. /\ Inv /\ P \in Players /\ i = (IF active[P] = None THEN FreeInode ELSE active[P])
        /\ file' = [file EXCEPT ![i] = Blank] \/ (file' = file /\ active[P] # None)
        /\ active' = [active EXCEPT ![P] = i]
    OBVIOUS
  <2> HIDE DEF P
  <2> QED BY <2>1, OpenFacts
<1> HIDE DEF P
<1>2. Types /\ UNCHANGED <<made, told, won, board, records, scores, now, up, boot>> /\ P \in Players
  BY DEF Inv, ghosts, Go, P
<1>3. /\ proc' = [r \in Procs |-> proc'[r]] /\ proc'[q].pc = c.pc
      /\ \A r \in Procs : r # q => proc'[r] = proc[r]
  BY <1>2, StepFields DEF Go, Types
<1>4. active[P] # None => active[P] = i
  BY DEF P
<1>5. Quiet(q)
  <2>1. \A k \in Inodes : file'[k].head =>
       /\ file[k].head /\ file'[k].id = file[k].id /\ file'[k].key = file[k].key
       /\ file'[k].trials = file[k].trials
       /\ file[k].end # NoEnd => file'[k].end # NoEnd
    BY <1>1 DEF Blank
  <2>2. ASSUME NEW p \in Players, active'[p] # None, active'[p] # active[p]
        PROVE  /\ active'[p] \in Inodes /\ ~file'[active'[p]].head
               /\ \A s \in Players : s # p => active'[s] # active'[p]
               /\ \A r \in Procs : r # q /\ proc[r].pc \in ReadsFile => proc[r].fd # active'[p]
    <3>1. p = P /\ active[P] = None
      BY <1>1, <1>4, <2>2
    <3> QED BY <1>1, <3>1
  <2> QED BY <1>2, <1>3, <2>1, <2>2 DEF Quiet
<1>6. Types'
  <2>1. \A k \in Inodes : file'[k] = Blank \/ (IsGame(file'[k]) /\ file'[k].id <= made)
    BY <1>1, <1>2 DEF Types
  <2>2. ~up' => proc'[Parent] = Idle
    <3>1. ~up => proc[Parent] = Idle
      BY <1>2 DEF Types
    <3> QED BY <1>2, <1>3, <3>1 DEF Procs
  <2> QED BY <1>1, <1>2, <1>3, <2>1, <2>2, ZenonT(30) DEF Types, IsGame, Headed
<1>7. ToldOnDisk'
  <2>1. ASSUME NEW p \in Players, ActiveHas(p)', file'[active'[p]].end = NoEnd
        PROVE  told'[file'[active'[p]].id] <= Len(file'[active'[p]].trials)
    <3>1. active'[p] = active[p] /\ active[p] \in Inodes /\ ActiveHas(p)
      BY <1>5, <2>1, QuietActive
    <3>2. file'[active[p]] = file[active[p]]
      BY <1>1, <2>1, <3>1 DEF Blank, ActiveHas
    <3> QED BY <1>2, <2>1, <3>1, <3>2 DEF Inv, ToldOnDisk
  <2> QED BY <2>1 DEF ToldOnDisk
<1>8. StillOK(board'[q].list) /\ \A b \in Boots : scores'[b] # None => StillOK(scores'[b])
  BY <1>2, <1>5, QuietList DEF Inv, ListsOK
<1>9. proc'[Parent].pc = "parse" => proc'[Parent] = proc[Parent]
  BY <1>3 DEF Procs
<1> QED BY <1>5, <1>6, <1>7, <1>8, <1>9, QuietKeeps

\* Opening to append truncates nothing.
LEMMA AppendingFields ==
  ASSUME Inv, NEW p \in Players, NEW i \in Inodes, Appending(p, i)
  PROVE  /\ i = IF active[p] = None THEN FreeInode ELSE active[p]
         /\ file' = [file EXCEPT ![i] = Blank] \/ (file' = file /\ active[p] # None)
         /\ active' = [active EXCEPT ![p] = i]
<1>1. active \in [Players -> Inodes \cup {None}]
  BY DEF Inv, Types
<1>2. CASE active[p] = None
  BY <1>2 DEF Appending
<1>3. CASE active[p] # None
  <2>1. i = active[p] /\ file' = file /\ active' = active
    BY <1>3 DEF Appending
  <2> QED BY <1>1, <1>3, <2>1
<1> QED BY <1>2, <1>3

\* Opening for the last line, or for a trial.
LEMMA OpenToEndKeeps ==
  ASSUME Inv, NEW q \in Procs, OpenToEnd(q) \/ FoundPlay(q)
  PROVE  Inv'
<1> DEFINE P == Player(q)
           g == proc[q].gm
<1>1. PICK i \in Inodes, pc \in {"end", "trial"} :
        /\ Appending(P, i) /\ Go(q, [pc |-> pc, fd |-> i])
        /\ pc = "end" => proc[q].pc = "append"
        /\ pc = "trial" => proc[q].pc = "found" /\ proc[q].req.kind = "TRY" /\ g.end = NoEnd
  BY DEF OpenToEnd, FoundPlay, Found, At
<1> DEFINE c == [pc |-> pc, fd |-> i]
<1>2. /\ UNCHANGED <<records, scores, now, up, boot, ghosts>> /\ Types
      /\ Frame(q) /\ Owner(q) /\ Wins(q) /\ (q = Parent => InStep)
      /\ proc = [r \in Procs |-> proc[r]]
  BY DEF OpenToEnd, FoundPlay, Inv, Mine, Types
<1>3. /\ proc[q].pc \in HasGame /\ proc[q].pc # "idle" /\ P \in Players /\ {"req", "gm"} \subseteq DOMAIN proc[q]
      /\ (q = Parent => up) /\ UNCHANGED <<board, made, won>>
      /\ pc = "end" => "back" \in DOMAIN proc[q]
  <2>1. proc[q].pc \in HasGame /\ proc[q].pc # "idle"
    BY <1>1 DEF HasGame, EndsGame
  <2>2. P \in Players /\ {"req", "gm"} \subseteq DOMAIN proc[q] /\ (pc = "end" => "back" \in DOMAIN proc[q])
    BY <1>1, <1>2, <2>1 DEF Frame, Player, EndsGame
  <2>3. UNCHANGED <<board, made, won>>
    BY <1>1, <1>2 DEF Go, ghosts
  <2> QED BY <2>1, <2>2, <2>3, ParentIsUp
<1>4. /\ {"pc", "fd", "req", "gm"} \subseteq DOMAIN proc'[q]
      /\ proc'[q].pc = pc /\ proc'[q].fd = i /\ proc'[q].req = proc[q].req /\ proc'[q].gm = g
      /\ pc = "end" => "back" \in DOMAIN proc'[q] /\ proc'[q].back = proc[q].back
  <2> HIDE DEF P
  <2> QED BY <1>1, <1>2, <1>3, StepFields DEF Go, ReadsFile, EndsGame
<1>5. /\ i = IF active[P] = None THEN FreeInode ELSE active[P]
      /\ file' = [file EXCEPT ![i] = Blank] \/ (file' = file /\ active[P] # None)
      /\ active' = [active EXCEPT ![P] = i]
  <2> HIDE DEF P
  <2> QED BY <1>1, <1>3, AppendingFields
<1>6. /\ \A k \in Inodes : file'[k] = file[k] \/ (k = i /\ file'[k] = Blank)
      /\ active'[P] = i /\ \A s \in Players : s # P => active'[s] = active[s] /\ active[s] # i
      /\ active[P] = None => ~file'[i].head
      /\ active[P] # None => active[P] = i
      /\ active \in [Players -> Inodes \cup {None}]
  <2>1. active \in [Players -> Inodes \cup {None}]
    BY <1>2 DEF Types
  <2>2. P \in Players
    BY <1>3
  <2> HIDE DEF P
  <2>3. /\ \A k \in Inodes : file'[k] = file[k] \/ (k = i /\ file'[k] = Blank)
        /\ active'[P] = i /\ \A s \in Players : s # P => active'[s] = active[s] /\ active[s] # i
        /\ active[P] = None => ~file'[i].head
    BY <1>5, <2>2, OpenFacts, ZenonT(30)
  <2> QED BY <1>5, <2>1, <2>3
<1>7. P' = P /\ "pc" \in DOMAIN c /\ c.pc # "parse"
  BY <1>4 DEF Player
<1>8. P = proc[q].req.p
  BY DEF Player
<1> HIDE DEF P, g
<1>9. Player(q) = P /\ Player(q)' = P /\ g = proc[q].gm
  BY <1>7 DEF P, g
<1>10. Frame(q)'
  BY <1>1, <1>2, <1>3, <1>4, <1>9 DEF Frame, Places, HasGame, EndsGame, ReadsFile
<1>11. Owner(q)'
  <2>1. ASSUME NEW p \in Players, ActiveHas(p)', p # P PROVE file'[active'[p]].id # g.id
    <3>1. active'[p] = active[p] /\ active[p] \in Inodes /\ active[p] # i /\ file'[active[p]] = file[active[p]]
      BY <1>6, <2>1 DEF ActiveHas
    <3> QED BY <1>2, <1>3, <1>9, <2>1, <3>1 DEF Owner, ActiveHas
  <2>2. \A p \in Players : active'[p] = i => p = P
    BY <1>6
  <2> QED BY <1>4, <1>9, <2>1, <2>2 DEF Owner
<1>12. Wins(q)'
  BY <1>1, <1>2, <1>3, <1>4, <1>9 DEF Wins
<1>13. ASSUME q = Parent PROVE InStep'
  <2>1. file'[i].head => file'[i] = file[i] /\ active[P] = i /\ ActiveHas(P)
    BY <1>6 DEF Blank, ActiveHas
  <2>2. file'[i].head =>
          /\ file'[i].id = g.id /\ (file'[i].end = NoEnd => file'[i].trials = g.trials)
          /\ proc[q].pc = "found" /\ g.end # NoEnd => file'[i].end # NoEnd
    BY <1>2, <1>3, <1>9, <1>13, <2>1 DEF InStep
  <2>3. \A k \in Inodes : file'[k].head => file'[k] = file[k]
    BY <1>6 DEF Blank
  <2> QED BY <1>1, <1>2, <1>3, <1>4, <1>6, <1>9, <1>13, <2>2, <2>3 DEF InStep, ActiveHas
<1>14. Mine(q)'
  BY <1>10, <1>11, <1>12, <1>13 DEF Mine
<1>15. Go(q, c)
  BY <1>1
<1> HIDE DEF c
<1> QED BY <1>2, <1>3, <1>5, <1>7, <1>9, <1>14, <1>15, OpenKeeps

\* Opening for the header, which empties the file.
LEMMA CreateKeeps ==
  ASSUME Inv, NEW q \in Procs, Create(q)
  PROVE  Inv'
<1> DEFINE P == Player(q)
<1>1. PICK i \in Inodes :
        /\ i = IF active[P] = None THEN FreeInode ELSE active[P]
        /\ file' = [file EXCEPT ![i] = Blank] /\ active' = [active EXCEPT ![P] = i]
        /\ Go(q, [pc |-> "header", fd |-> i])
  BY DEF Create
<1> DEFINE c == [pc |-> "header", fd |-> i]
<1>2. /\ UNCHANGED <<records, scores, now, up, boot, ghosts>> /\ proc[q].pc = "create"
      /\ Frame(q) /\ proc = [r \in Procs |-> proc[r]] /\ file = [k \in Inodes |-> file[k]]
  BY DEF Create, At, Inv, Mine, Types
<1>3. P \in Players /\ "req" \in DOMAIN proc[q] /\ (q = Parent => up) /\ UNCHANGED <<board, made, won>>
  BY <1>1, <1>2, ParentIsUp DEF Frame, Player, Go, ghosts
<1>4. /\ {"pc", "fd", "req"} \subseteq DOMAIN proc'[q]
      /\ proc'[q].pc = "header" /\ proc'[q].fd = i /\ proc'[q].req = proc[q].req
  <2> HIDE DEF P
  <2> QED BY <1>1, <1>2, <1>3, StepFields DEF Go, ReadsFile, EndsGame
<1>5. active'[P] = i /\ \A s \in Players : s # P => active'[s] # i
  <2>1. /\ P \in Players /\ i = (IF active[P] = None THEN FreeInode ELSE active[P])
        /\ file' = [file EXCEPT ![i] = Blank] /\ active' = [active EXCEPT ![P] = i]
    BY <1>1, <1>3
  <2> HIDE DEF P
  <2> QED BY <2>1, OpenFacts, ZenonT(30)
<1>6. ~file'[i].head
  BY <1>1, <1>2 DEF Blank
<1>7. "pc" \in DOMAIN c /\ c.pc # "parse" /\ Go(q, c)
  BY <1>1
<1> HIDE DEF P
<1>8. Player(q) = P /\ Player(q)' = P
  BY <1>4 DEF P, Player
<1>9. Mine(q)'
  <2>1. Frame(q)'
    BY <1>2, <1>3, <1>4 DEF Frame, Places, HasGame, EndsGame, ReadsFile
  <2>2. Owner(q)'
    BY <1>4, <1>5, <1>8 DEF Owner, HasGame, EndsGame
  <2>3. Wins(q)'
    BY <1>4 DEF Wins
  <2>4. q = Parent => InStep'
    BY <1>4, <1>6 DEF InStep, HasGame, EndsGame
  <2> QED BY <2>1, <2>2, <2>3, <2>4 DEF Mine
<1> HIDE DEF c
<1> QED BY <1>1, <1>2, <1>3, <1>7, <1>8, <1>9, OpenKeeps

------------------------------------------------------------------------------
(* A process writes the end of a game and moves its file.                     *)

\* A file after a last line: the first one counts.
LEMMA WithEndFacts ==
  ASSUME NEW f, f = Blank \/ IsGame(f), NEW e \in [why : Reasons, at : Times], e # NoEnd,
         NEW h, h = WithEnd(f, e)
  PROVE  /\ f = Blank => h = Blank
         /\ f # Blank => /\ IsGame(h) /\ h.head /\ h.id = f.id /\ h.key = f.key /\ h.trials = f.trials
                         /\ h.end # NoEnd /\ (f.end # NoEnd => h.end = f.end)
<1>1. CASE f = Blank
  BY <1>1 DEF Blank, WithEnd
<1>2. CASE f # Blank
  <2>1. f \in Headed /\ f.head
    BY <1>2 DEF IsGame, Headed
  <2>2. CASE f.end = NoEnd
    <3>1. h = [f EXCEPT !.end = e]
      BY <2>1, <2>2 DEF WithEnd
    <3>2. h \in Headed /\ h.head /\ h.id = f.id /\ h.key = f.key /\ h.trials = f.trials /\ h.end = e
      BY <2>1, <3>1 DEF Headed
    <3> QED BY <1>2, <2>2, <3>2 DEF IsGame
  <2>3. CASE f.end # NoEnd
    BY <1>2, <2>1, <2>3 DEF WithEnd
  <2> QED BY <2>2, <2>3
<1> QED BY <1>1, <1>2

\* The last line is written.
LEMMA WriteEndKeeps ==
  ASSUME Inv, NEW q \in Procs, WriteEnd(q)
  PROVE  Inv'
<1> DEFINE g == proc[q].gm
           i == proc[q].fd
           c == [pc |-> "move"]
<1>1. /\ proc[q].pc = "end" /\ file' = [file EXCEPT ![i] = WithEnd(@, g.end)] /\ Go(q, c)
      /\ UNCHANGED <<active, records, scores, now, up, boot, ghosts>>
      /\ Types /\ Frame(q) /\ Owner(q) /\ Wins(q) /\ (q = Parent => InStep)
      /\ proc = [r \in Procs |-> proc[r]] /\ file = [k \in Inodes |-> file[k]]
  BY DEF WriteEnd, At, Inv, Mine, Types
<1>2. /\ i \in Inodes /\ IsGame(g) /\ g.end # NoEnd /\ {"req", "gm", "back"} \subseteq DOMAIN proc[q]
      /\ Player(q) \in Players /\ UNCHANGED <<made, told, won, board, records, scores, now, up, boot>>
  <2>1. i \in Inodes /\ IsGame(g) /\ g.end # NoEnd /\ {"req", "gm", "back"} \subseteq DOMAIN proc[q]
        /\ Player(q) \in Players
    BY <1>1 DEF Frame, ReadsFile, HasGame, EndsGame, Player
  <2> QED BY <1>1, <2>1 DEF ghosts, Go
<1>3. /\ {"pc", "req", "gm", "back"} \subseteq DOMAIN proc'[q]
      /\ proc'[q].pc = "move" /\ proc'[q].req = proc[q].req /\ proc'[q].gm = g /\ proc'[q].back = proc[q].back
      /\ proc' = [r \in Procs |-> proc'[r]] /\ \A r \in Procs : r # q => proc'[r] = proc[r]
  BY <1>1, <1>2, StepFields DEF Go, ReadsFile, EndsGame
<1> PICK P \in Players : P = Player(q)
  BY <1>2
<1>4. Player(q) = P /\ Player(q)' = P /\ g = proc[q].gm /\ i = proc[q].fd
  BY <1>3 DEF Player
<1> HIDE DEF g, i
<1>5. file' = [k \in Inodes |-> file'[k]] /\ \A k \in Inodes :
        /\ k # i => file'[k] = file[k]
        /\ k = i => file'[k] = WithEnd(file[k], g.end)
  BY <1>1, <1>2
<1>6. \A k \in Inodes :
        /\ file[k] = Blank => file'[k] = Blank
        /\ file[k] # Blank =>
             /\ IsGame(file'[k]) /\ file'[k].head /\ file'[k].id = file[k].id /\ file'[k].key = file[k].key
             /\ file'[k].trials = file[k].trials /\ (file[k].end # NoEnd => file'[k].end # NoEnd)
             /\ k = i => file'[k].end # NoEnd
  <2> TAKE k \in Inodes
  <2>1. file[k] = Blank \/ IsGame(file[k])
    BY <1>1 DEF Types
  <2>2. CASE k = i
    <3> DEFINE f == file[k]
           e == g.end
    <3>1. e \in [why : Reasons, at : Times] /\ e # NoEnd /\ (f = Blank \/ IsGame(f)) /\ file'[k] = WithEnd(f, e)
      BY <1>2, <1>5, <2>1, <2>2 DEF IsGame, Headed
    <3> HIDE DEF f, e
    <3>2. /\ f = Blank => file'[k] = Blank
          /\ f # Blank => /\ IsGame(file'[k]) /\ file'[k].head /\ file'[k].id = f.id /\ file'[k].key = f.key
                          /\ file'[k].trials = f.trials
                          /\ file'[k].end # NoEnd
      BY <3>1, WithEndFacts
    <3> QED BY <3>1, <3>2 DEF f
  <2>3. CASE k # i
    BY <1>5, <2>1, <2>3, GameFields
  <2> QED BY <2>2, <2>3
<1>7. \A k \in Inodes : file'[k].head =>
        /\ file[k].head /\ file'[k].id = file[k].id /\ file'[k].key = file[k].key
        /\ file'[k].trials = file[k].trials
        /\ file[k].end # NoEnd => file'[k].end # NoEnd
        /\ k = i => file'[k].end # NoEnd
  <2>1. \A k \in Inodes : file[k] # Blank => file[k].head
    BY <1>1, GameFields DEF Types
  <2>2. ~Blank.head
    BY DEF Blank
  <2> QED BY <1>6, <2>1, <2>2
<1>8. Quiet(q)
  BY <1>1, <1>2, <1>3, <1>7 DEF Quiet
<1>9. Types'
  <2>1. \A k \in Inodes : file'[k] = Blank \/ (IsGame(file'[k]) /\ file'[k].id <= made)
    BY <1>1, <1>6 DEF Types
  <2>2. ~up' => proc'[Parent] = Idle
    <3>1. ~up => proc[Parent] = Idle /\ q # Parent
      BY <1>1 DEF Types, Idle
    <3> QED BY <1>2, <1>3, <3>1 DEF Procs
  <2>3. file' = [k \in Inodes |-> file'[k]] /\ proc' = [r \in Procs |-> proc'[r]] /\ active' = active /\ Types
    BY <1>1, <1>3, <1>5
  <2> QED BY <1>2, <2>1, <2>2, <2>3 DEF Types, IsGame, Headed
<1>10. ToldOnDisk'
  BY <1>2, <1>8, QuietActive DEF Inv, ToldOnDisk
<1>11. Mine(q)'
  <2>1. Frame(q)'
    BY <1>1, <1>2, <1>3, <1>4 DEF Frame, Places, HasGame, EndsGame, ReadsFile
  <2>2. Owner(q)'
    BY <1>1, <1>3, <1>4, <1>8, QuietActive DEF Owner, HasGame, EndsGame, ReadsFile
  <2>3. Wins(q)'
    BY <1>1, <1>2, <1>3, <1>4 DEF Wins
  <2>4. ASSUME q = Parent PROVE InStep'
    <3>1. ActiveHas(P)' => /\ active'[P] = active[P] /\ active[P] = i /\ ActiveHas(P)
                           /\ file'[active[P]].id = file[active[P]].id
                           /\ file'[active[P]].trials = file[active[P]].trials
                           /\ file'[active[P]].end # NoEnd
      <4>1. ActiveHas(P)' => ActiveHas(P) /\ active'[P] = active[P] /\ active[P] \in Inodes
        BY <1>2, <1>8, QuietActive
      <4>2. ActiveHas(P) => active[P] = i
        BY <1>1, <1>4, <2>4 DEF InStep
      <4> QED BY <1>7, <4>1, <4>2 DEF ActiveHas
    <3>2. ActiveHas(P) => file[active[P]].id = g.id
      BY <1>1, <1>4, <2>4 DEF InStep, HasGame, EndsGame
    <3> QED BY <1>2, <1>3, <1>4, <2>4, <3>1, <3>2 DEF InStep
  <2> QED BY <2>1, <2>2, <2>3, <2>4 DEF Mine
<1>12. StillOK(board'[q].list) /\ \A b \in Boots : scores'[b] # None => StillOK(scores'[b])
  BY <1>2, <1>8, QuietList DEF Inv, ListsOK
<1>13. proc'[Parent].pc = "parse" => proc'[Parent] = proc[Parent]
  BY <1>3 DEF Procs
<1> QED BY <1>8, <1>9, <1>10, <1>11, <1>12, <1>13, QuietKeeps

\* A list that gets one more entry at m, and may lose its last one.
Extends(new, list, e, m) ==
  \A k \in DOMAIN new :
    /\ k < m => k \in DOMAIN list /\ new[k] = list[k]
    /\ k = m => new[k] = e
    /\ k > m => k - 1 \in DOMAIN list /\ new[k] = list[k - 1]

\* A list with one element more, in place m.
LEMMA InsertAtFields ==
  ASSUME NEW S, NEW list \in Seq(S), NEW e \in S, NEW n \in Nat, Len(list) = n, NEW m \in 1..(n + 1),
         NEW new, new = InsertAt(list, m, e)
  PROVE  new \in Seq(S) /\ Len(new) = n + 1 /\ DOMAIN new = 1..(n + 1) /\ Extends(new, list, e, m)
<1> DEFINE a == SubSeq(list, 1, m - 1)
           b == SubSeq(list, m, n)
<1>1. m \in Int /\ 1 <= m /\ m <= n + 1 /\ Len(list) = n
  OBVIOUS
<1>2. a \in Seq(S) /\ Len(a) = m - 1 /\ \A k \in 1..(m - 1) : a[k] = list[k]
  <2>1. \A k \in 1..(m - 1) : list[k] \in S
    BY <1>1, ElementOfSeq
  <2> QED BY <1>1, <2>1, SubSeqProperties
<1>3. b \in Seq(S) /\ Len(b) = n - m + 1 /\ \A k \in 1..(n - m + 1) : b[k] = list[m + k - 1]
  <2>1. \A k \in m..n : list[k] \in S
    BY <1>1, ElementOfSeq
  <2> QED BY <1>1, <2>1, SubSeqProperties
<1> HIDE DEF a, b
<1>4. <<e>> \in Seq(S) /\ Len(<<e>>) = 1 /\ <<e>>[1] = e
  OBVIOUS
<1> DEFINE c == a \o <<e>>
<1>5. c \in Seq(S) /\ Len(c) = m /\ \A k \in 1..m : c[k] = IF k < m THEN list[k] ELSE e
  BY <1>1, <1>2, <1>4, ConcatProperties
<1> HIDE DEF c
<1>6. c \o b \in Seq(S) /\ Len(c \o b) = n + 1
      /\ \A k \in 1..(n + 1) : (c \o b)[k] = IF k <= m THEN c[k] ELSE b[k - m]
  <2>1. /\ c \o b \in Seq(S) /\ Len(c \o b) = Len(c) + Len(b)
        /\ \A k \in 1..(Len(c) + Len(b)) : (c \o b)[k] = IF k <= Len(c) THEN c[k] ELSE b[k - Len(c)]
    BY <1>3, <1>5, ConcatProperties
  <2>2. Len(c) = m /\ Len(c) + Len(b) = n + 1
    BY <1>1, <1>3, <1>5
  <2> QED BY <2>1, <2>2
<1>7. new = c \o b
  BY <1>1 DEF InsertAt, a, b, c
<1>8. DOMAIN new = 1..(n + 1) /\ DOMAIN list = 1..n
  BY <1>6, <1>7, LenProperties
<1>9. ASSUME NEW k \in 1..(n + 1), k < m PROVE k \in 1..n /\ (c \o b)[k] = list[k]
  BY <1>1, <1>5, <1>6, <1>9
<1>10. (c \o b)[m] = e
  BY <1>1, <1>5, <1>6
<1>11. ASSUME NEW k \in 1..(n + 1), k > m PROVE k - 1 \in 1..n /\ (c \o b)[k] = list[k - 1]
  <2>1. k - m \in 1..(n - m + 1)
    BY <1>1, <1>11
  <2>2. (c \o b)[k] = b[k - m] /\ b[k - m] = list[m + (k - m) - 1] /\ m + (k - m) - 1 = k - 1
    BY <1>1, <1>3, <1>6, <1>11, <2>1, SMTT(30)
  <2> QED BY <1>1, <1>11, <2>2
<1> QED BY <1>6, <1>7, <1>8, <1>9, <1>10, <1>11 DEF Extends

\* A list without its last element.
LEMMA FrontFields ==
  ASSUME NEW S, NEW s \in Seq(S), Len(s) > 0
  PROVE  /\ Front(s) \in Seq(S) /\ Len(Front(s)) = Len(s) - 1
         /\ \A k \in 1..(Len(s) - 1) : Front(s)[k] = s[k]
<1>1. Len(s) \in Nat /\ \A k \in 1..(Len(s) - 1) : s[k] \in S
  BY LenProperties, ElementOfSeq
<1> DEFINE n == Len(s) - 1
<1>2. n \in Nat /\ n - 1 + 1 = n /\ Front(s) = SubSeq(s, 1, n)
  BY <1>1 DEF Front
<1>3. \A k \in 1..n : s[k] \in S
  BY <1>1
<1> HIDE DEF n
<1>4. SubSeq(s, 1, n) \in Seq(S) /\ Len(SubSeq(s, 1, n)) = n /\ \A k \in 1..n : SubSeq(s, 1, n)[k] = s[k]
  BY <1>2, <1>3, SubSeqProperties
<1> QED BY <1>2, <1>4 DEF n

\* The scoreboard with an entry more has its entries in their order, and that one.
LEMMA InsertFields ==
  ASSUME NEW list \in Boards, NEW e \in Entries
  PROVE  /\ Insert(list, e) \in Boards
         /\ \E m \in Nat : Extends(Insert(list, e), list, e, m)
<1> DEFINE better == {i \in DOMAIN list : Score(list[i].tries) >= Score(e.tries)}
           at == Cardinality(better)
           longer == InsertAt(list, at + 1, e)
<1>1. list \in Seq(Entries) /\ Len(list) \in Nat /\ DOMAIN list = 1..Len(list) /\ Len(list) <= TopScores
      /\ TopScores \in Nat \ {0}
  BY LenProperties, ServerAssumption DEF Boards
<1>2. at \in 0..Len(list)
  <2>1. IsFiniteSet(1..Len(list)) /\ Cardinality(1..Len(list)) = Len(list)
    <3> DEFINE n == Len(list)
    <3> HIDE DEF n
    <3>1. n \in Nat
      BY <1>1 DEF n
    <3>2. IsFiniteSet(1..n) /\ Cardinality(1..n) = n
      BY <3>1, FS_Interval
    <3> QED BY <3>2 DEF n
  <2>2. better \subseteq 1..Len(list)
    BY <1>1
  <2> HIDE DEF better
  <2>3. Cardinality(better) <= Len(list) /\ Cardinality(better) \in Nat
    BY <2>1, <2>2, FS_Subset, FS_CardinalityType
  <2> QED BY <1>1, <2>3
<1>3. Insert(list, e) = IF at = TopScores THEN list ELSE IF Len(longer) > TopScores THEN Front(longer) ELSE longer
  BY DEF Insert
<1> HIDE DEF at
<1> DEFINE m == at + 1
<1>4. m \in 1..(Len(list) + 1)
  BY <1>1, <1>2
<1> HIDE DEF m
<1>5. longer \in Seq(Entries) /\ Len(longer) = Len(list) + 1 /\ DOMAIN longer = 1..(Len(list) + 1)
      /\ Extends(longer, list, e, m)
  <2> DEFINE n == Len(list)
  <2>1. n \in Nat /\ Len(list) = n /\ m \in 1..(n + 1) /\ list \in Seq(Entries) /\ longer = InsertAt(list, m, e)
    BY <1>1, <1>4 DEF m
  <2> HIDE DEF n, longer
  <2>2. longer \in Seq(Entries) /\ Len(longer) = n + 1 /\ DOMAIN longer = 1..(n + 1) /\ Extends(longer, list, e, m)
    BY <2>1, InsertAtFields
  <2> QED BY <2>2 DEF n
<1> HIDE DEF longer
<1>6. CASE at = TopScores
  <2>1. Insert(list, e) = list
    BY <1>3, <1>6
  <2>2. Extends(list, list, e, Len(list) + 1)
    BY <1>1 DEF Extends
  <2> QED BY <1>1, <2>1, <2>2
<1>7. CASE at # TopScores /\ Len(longer) <= TopScores
  <2>1. Insert(list, e) = longer
    BY <1>1, <1>3, <1>5, <1>7
  <2> QED BY <1>4, <1>5, <1>7, <2>1 DEF Boards
<1>8. CASE at # TopScores /\ Len(longer) > TopScores
  <2> DEFINE f == Front(longer)
  <2>1. Insert(list, e) = f
    BY <1>3, <1>8
  <2>2. f \in Seq(Entries) /\ Len(f) = Len(list) /\ \A k \in 1..Len(list) : f[k] = longer[k]
    <3>1. Len(longer) > 0 /\ Len(longer) - 1 = Len(list)
      BY <1>1, <1>5
    <3> QED BY <1>5, <3>1, FrontFields
  <2> HIDE DEF f
  <2>3. DOMAIN f = 1..Len(list)
    BY <2>2, LenProperties
  <2>4. Extends(f, list, e, m)
    BY <1>1, <1>4, <1>5, <2>2, <2>3 DEF Extends
  <2> QED BY <1>1, <1>4, <2>1, <2>2, <2>4 DEF Boards
<1> QED BY <1>1, <1>5, <1>6, <1>7, <1>8

\* A win that was not scored makes a scoreboard longer that is right.
LEMMA InsertIsOK ==
  ASSUME Inv, NEW list, list \in Boards, StillOK(list), NEW e \in Entries,
         won'[e.game] = e.tries,
         \A p \in Players : ActiveHas(p)' => file'[active'[p]].id # e.game,
         \A k \in DOMAIN list : list[k].game # e.game
  PROVE  StillOK(Insert(list, e)) /\ Insert(list, e) \in Boards
<1> DEFINE new == Insert(list, e)
<1>1. new \in Boards /\ \E m \in Nat : Extends(new, list, e, m)
  BY InsertFields
<1> HIDE DEF new
<1>2. PICK m \in Nat : Extends(new, list, e, m)
  BY <1>1
<1>3. DOMAIN new = 1..Len(new) /\ Len(new) \in Nat
  BY <1>1, LenProperties DEF Boards
<1>4. \A k \in DOMAIN new : k \in Nat
  BY <1>3
<1>5. \A k \in DOMAIN new :
        \/ k < m /\ k \in DOMAIN list /\ new[k] = list[k]
        \/ k = m /\ new[k] = e
        \/ k > m /\ k - 1 \in DOMAIN list /\ new[k] = list[k - 1]
  BY <1>2, <1>4 DEF Extends
<1>6. ASSUME NEW k \in DOMAIN new
      PROVE  /\ won'[new[k].game] = new[k].tries
             /\ \A p \in Players : ActiveHas(p)' => file'[active'[p]].id # new[k].game
  BY <1>5 DEF StillOK
<1>7. ASSUME NEW k \in DOMAIN new, NEW l \in DOMAIN new, new[k].game = new[l].game
      PROVE  k = l
  <2>1. CASE k = m
    BY <1>4, <1>5, <1>7, <2>1
  <2>2. CASE l = m
    BY <1>4, <1>5, <1>7, <2>2
  <2>3. CASE k # m /\ l # m
    <3>1. PICK i \in DOMAIN list : new[k] = list[i] /\ i = (IF k < m THEN k ELSE k - 1)
      BY <1>4, <1>5, <2>3
    <3>2. PICK j \in DOMAIN list : new[l] = list[j] /\ j = (IF l < m THEN l ELSE l - 1)
      BY <1>4, <1>5, <2>3
    <3>3. i = j
      BY <1>7, <3>1, <3>2 DEF StillOK
    <3> QED BY <1>4, <2>3, <3>1, <3>2, <3>3
  <2> QED BY <2>1, <2>2, <2>3
<1> QED BY <1>1, <1>6, <1>7 DEF StillOK, new

\* The file of a finished game is moved, and a win is listed.
LEMMA MoveKeeps ==
  ASSUME Inv, NEW q \in Procs, Move(q)
  PROVE  Inv'
<1> DEFINE g == proc[q].gm
           list == board[q].list
           e == [game |-> g.id, tries |-> Len(g.trials)]
           longer == IF g.end.why = "WON" THEN Insert(list, e) ELSE list
           c == [pc |-> IF longer = list THEN proc[q].back ELSE "score"]
<1>1. /\ proc[q].pc = "move" /\ active[Player(q)] # None
      /\ records' = [records EXCEPT ![Player(q)][g.end.at] = active[Player(q)]]
      /\ active' = [active EXCEPT ![Player(q)] = None]
      /\ board' = [board EXCEPT ![q].list = longer] /\ Step(q, c)
      /\ UNCHANGED <<file, scores, now, up, boot, ghosts>>
  BY DEF Move, At
<1>2. /\ Types /\ Names /\ Frame(q) /\ Owner(q) /\ Wins(q) /\ ListsOK /\ ToldOnDisk
      /\ proc = [r \in Procs |-> proc[r]]
      /\ board \in [Procs -> [boot : Boots, list : Boards]]
      /\ active \in [Players -> Inodes \cup {None}]
      /\ records \in [Players -> [Times -> Inodes \cup {None}]]
  BY DEF Inv, Mine, Types
<1>3. /\ Player(q) \in Players /\ IsGame(g) /\ g.end # NoEnd
      /\ {"req", "gm", "back"} \subseteq DOMAIN proc[q]
      /\ proc[q].back \in (IF proc[q].req.kind \in {"TRY", "QUT"} THEN {"found", "answer"} ELSE {"found"})
  BY <1>1, <1>2 DEF Frame, HasGame, EndsGame, Player
<1>4. UNCHANGED <<file, scores, now, up, boot, made, told, won>>
  BY <1>1 DEF ghosts
<1> PICK P \in Players : P = Player(q)
  BY <1>3
<1>5. /\ active'[P] = None /\ \A s \in Players : s # P => active'[s] = active[s]
      /\ active' \in [Players -> Inodes \cup {None}]
  BY <1>1, <1>2
<1>6. records' \in [Players -> [Times -> Inodes \cup {None}]]
  <2>1. g.end.at \in Times /\ active[P] \in Inodes \cup {None}
    BY <1>2, <1>3 DEF IsGame, Headed
  <2> DEFINE t == g.end.at
             i == active[P]
  <2> HIDE DEF t, i
  <2>2. records' = [records EXCEPT ![P][t] = i]
    BY <1>1 DEF t, i
  <2>3. t \in Times /\ i \in Inodes \cup {None}
    BY <2>1 DEF t, i
  <2> QED BY <1>2, <2>2, <2>3
<1>7. /\ \A p \in Players : ActiveHas(p)' =>
           active'[p] = active[p] /\ ActiveHas(p) /\ p # P /\ file'[active'[p]] = file[active[p]]
      /\ ~ActiveHas(P)'
  BY <1>4, <1>5 DEF ActiveHas
<1>8. list \in Boards /\ StillOK(list)
  <2>1. list \in Boards /\ ListOK(list)
    BY <1>2 DEF ListsOK
  <2> QED BY <1>4, <1>7, <2>1 DEF ListOK, StillOK
<1>9. longer \in Boards /\ StillOK(longer)
  <2>1. CASE g.end.why = "WON"
    <3>1. won[g.id] = Len(g.trials) /\ Len(g.trials) # 0 /\ \A k \in DOMAIN list : list[k].game # g.id
      BY <1>1, <1>2, <2>1 DEF Wins
    <3>2. e \in Entries /\ e.game = g.id /\ e.tries = Len(g.trials)
      <4>1. g.id \in Games /\ Len(g.trials) \in 0..MaxTrials /\ MaxTrials \in Nat
        BY <1>3, GameFields, MastermindAssumption
      <4>2. Len(g.trials) \in 1..MaxTrials
        BY <3>1, <4>1
      <4> QED BY <4>1, <4>2 DEF Entries
    <3>3. \A p \in Players : ActiveHas(p)' => file'[active'[p]].id # g.id
      BY <1>1, <1>2, <1>7 DEF Owner, HasGame, EndsGame
    <3>4. longer = Insert(list, e)
      BY <2>1
    <3> HIDE DEF e, list, longer
    <3> QED BY <1>4, <1>8, <3>1, <3>2, <3>3, <3>4, InsertIsOK
  <2>2. CASE g.end.why # "WON"
    BY <1>8, <2>2
  <2> QED BY <2>1, <2>2
<1> HIDE DEF longer
<1>10. /\ board' \in [Procs -> [boot : Boots, list : Boards]] /\ board'[q].list = longer
       /\ \A r \in Procs : r # q => board'[r] = board[r]
  BY <1>1, <1>2, <1>9
<1>11. c.pc \in {"found", "answer", "score"} /\ (c.pc = "answer" => proc[q].req.kind \in {"TRY", "QUT"})
       /\ "pc" \in DOMAIN c
  BY <1>3
<1> HIDE DEF c
<1>12. /\ {"pc", "req", "gm"} \subseteq DOMAIN proc'[q] /\ proc'[q].pc = c.pc
       /\ proc'[q].req = proc[q].req /\ proc'[q].gm = g
       /\ c.pc = "score" => "back" \in DOMAIN proc'[q] /\ proc'[q].back = proc[q].back
       /\ proc' = [r \in Procs |-> proc'[r]] /\ \A r \in Procs : r # q => proc'[r] = proc[r]
  <2>1. Step(q, c) /\ proc = [r \in Procs |-> proc[r]] /\ "pc" \in DOMAIN c
    BY <1>1, <1>2, <1>11 DEF c, longer
  <2>2. "pc" \in DOMAIN c /\ "req" \notin DOMAIN c /\ "gm" \notin DOMAIN c /\ "back" \notin DOMAIN c
    BY DEF c
  <2> QED BY <1>3, <2>1, <2>2, StepFields DEF ReadsFile, EndsGame
<1>13. Player(q) = P /\ Player(q)' = P
  BY <1>12 DEF Player
<1>14. Quiet(q)
  BY <1>4, <1>5, <1>10, <1>12 DEF Quiet
<1>15. Types'
  <2>1. ~up' => proc'[Parent] = Idle
    <3>1. ~up => proc[Parent] = Idle /\ q # Parent
      BY <1>1, <1>2 DEF Types, Idle
    <3> QED BY <1>4, <1>12, <3>1 DEF Procs
  <2> QED BY <1>2, <1>4, <1>5, <1>6, <1>10, <1>12, <2>1 DEF Types, IsGame, Headed
<1>16. ToldOnDisk'
  BY <1>2, <1>4, <1>7 DEF ToldOnDisk
<1>17. Mine(q)'
  <2>1. Frame(q)'
    BY <1>1, <1>2, <1>3, <1>4, <1>11, <1>12 DEF Frame, Places, HasGame, EndsGame, ReadsFile
  <2>2. Owner(q)'
    BY <1>1, <1>2, <1>7, <1>11, <1>12, <1>13 DEF Owner, HasGame, EndsGame, ReadsFile
  <2>3. Wins(q)'
    BY <1>11, <1>12 DEF Wins
  <2>4. q = Parent => InStep'
    BY <1>3, <1>7, <1>11, <1>12, <1>13 DEF InStep
  <2> QED BY <2>1, <2>2, <2>3, <2>4 DEF Mine
<1>18. StillOK(board'[q].list) /\ \A b \in Boots : scores'[b] # None => StillOK(scores'[b])
  BY <1>2, <1>4, <1>9, <1>10, <1>14, QuietList DEF ListsOK
<1>19. proc'[Parent].pc = "parse" => proc'[Parent] = proc[Parent]
  BY <1>11, <1>12 DEF Procs
<1> QED BY <1>14, <1>15, <1>16, <1>17, <1>18, <1>19, QuietKeeps

\* The scoreboard is emptied and written.
LEMMA ScoresKeep ==
  ASSUME Inv, NEW q \in Procs, EmptyScores(q) \/ WriteScores(q)
  PROVE  Inv'
<1>1. PICK pc, new :
        /\ scores' = [scores EXCEPT ![board[q].boot] = new] /\ Go(q, [pc |-> pc])
        /\ \/ pc = "materialize" /\ new = <<>> /\ proc[q].pc = "score"
           \/ pc = proc[q].back /\ new = board[q].list /\ proc[q].pc = "materialize"
  BY DEF EmptyScores, WriteScores, At
<1> DEFINE c == [pc |-> pc]
           g == proc[q].gm
<1>2. /\ UNCHANGED <<file, active, records, now, up, boot, made, told, won, board>>
      /\ Types /\ Frame(q) /\ Owner(q) /\ ListsOK /\ ToldOnDisk /\ (q = Parent => InStep)
      /\ proc = [r \in Procs |-> proc[r]] /\ scores = [b \in Boots |-> scores[b]]
      /\ board[q].boot \in Boots /\ board[q].list \in Boards
  <2>1. UNCHANGED <<file, active, records, now, up, boot, made, told, won, board>>
    BY DEF EmptyScores, WriteScores, ghosts, Go
  <2> QED BY <2>1 DEF Inv, Mine, Types
<1>3. /\ Player(q) \in Players /\ {"req", "gm", "back"} \subseteq DOMAIN proc[q] /\ g.end # NoEnd
      /\ proc[q].pc \in {"score", "materialize"}
      /\ proc[q].back \in (IF proc[q].req.kind \in {"TRY", "QUT"} THEN {"found", "answer"} ELSE {"found"})
      /\ pc \in {"found", "answer", "materialize"}
      /\ pc = "answer" => proc[q].req.kind \in {"TRY", "QUT"}
      /\ pc = "materialize" <=> proc[q].pc = "score"
  BY <1>1, <1>2 DEF Frame, HasGame, EndsGame, Player
<1>4. /\ {"pc", "req", "gm"} \subseteq DOMAIN proc'[q] /\ proc'[q].pc = pc
      /\ proc'[q].req = proc[q].req /\ proc'[q].gm = g
      /\ pc = "materialize" => "back" \in DOMAIN proc'[q] /\ proc'[q].back = proc[q].back
      /\ proc' = [r \in Procs |-> proc'[r]] /\ \A r \in Procs : r # q => proc'[r] = proc[r]
  BY <1>1, <1>2, <1>3, StepFields DEF Go, ReadsFile, EndsGame
<1> PICK P \in Players : P = Player(q)
  BY <1>3
<1>5. Player(q) = P /\ Player(q)' = P /\ \A p \in Players : ActiveHas(p)' <=> ActiveHas(p)
  BY <1>2, <1>4 DEF Player, ActiveHas
<1>6. Quiet(q)
  BY <1>2, <1>4 DEF Quiet
<1>7. new \in Boards /\ StillOK(new)
  <2>1. CASE new = <<>>
    BY <2>1, ServerAssumption DEF Boards, StillOK
  <2>2. CASE new = board[q].list
    BY <1>2, <1>6, <2>2, QuietList DEF ListsOK
  <2> QED BY <1>1, <2>1, <2>2
<1>8. /\ scores' = [b \in Boots |-> scores'[b]]
      /\ \A b \in Boots : (scores'[b] = None \/ scores'[b] \in Boards) /\ (scores'[b] # None => StillOK(scores'[b]))
  <2>1. \A b \in Boots : scores'[b] = new \/ scores'[b] = scores[b]
    BY <1>1, <1>2
  <2>2. \A b \in Boots : (scores[b] = None \/ scores[b] \in Boards) /\ (scores[b] # None => StillOK(scores[b]))
    BY <1>2, <1>6, QuietList DEF Types, ListsOK
  <2> QED BY <1>1, <1>2, <1>7, <2>1, <2>2
<1>9. Types'
  <2>1. ~up' => proc'[Parent] = Idle
    <3>1. ~up => proc[Parent] = Idle /\ q # Parent
      BY <1>2, <1>3 DEF Types, Idle
    <3> QED BY <1>2, <1>4, <3>1 DEF Procs
  <2> QED BY <1>2, <1>4, <1>8, <2>1 DEF Types, IsGame, Headed
<1>10. ToldOnDisk'
  BY <1>2 DEF ToldOnDisk, ActiveHas
<1>11. Mine(q)'
  <2>1. Frame(q)'
    BY <1>2, <1>3, <1>4 DEF Frame, Places, HasGame, EndsGame, ReadsFile
  <2>2. Owner(q)'
    BY <1>2, <1>3, <1>4, <1>5 DEF Owner, HasGame, EndsGame, ReadsFile
  <2>3. Wins(q)'
    BY <1>3, <1>4 DEF Wins
  <2>4. q = Parent => InStep'
    BY <1>2, <1>3, <1>4, <1>5 DEF InStep, HasGame, EndsGame
  <2> QED BY <2>1, <2>2, <2>3, <2>4 DEF Mine
<1>12. StillOK(board'[q].list)
  BY <1>2, <1>6, QuietList DEF ListsOK
<1>13. proc'[Parent].pc = "parse" => proc'[Parent] = proc[Parent]
  BY <1>3, <1>4 DEF Procs
<1> QED BY <1>6, <1>8, <1>9, <1>10, <1>11, <1>12, <1>13, QuietKeeps

------------------------------------------------------------------------------
(* The parent starts a game, or adds a trial to one.                          *)

\* What a scoreboard lists was started.
LEMMA ListedIsWon ==
  ASSUME Types, NEW list \in Boards, ListOK(list), NEW k \in DOMAIN list
  PROVE  /\ list[k].game \in Games /\ won[list[k].game] # 0 /\ list[k].game <= made
<1>1. list \in Seq(Entries) /\ k \in 1..Len(list)
  BY LenProperties DEF Boards
<1>2. list[k] \in Entries
  BY <1>1, ElementOfSeq
<1>3. list[k].game \in Games /\ list[k].tries \in 1..MaxTrials
  BY <1>2 DEF Entries
<1>4. won[list[k].game] = list[k].tries /\ list[k].tries # 0
  BY <1>3, MastermindAssumption DEF ListOK
<1>5. made \in Nat /\ list[k].game \in Nat /\ (list[k].game > made => won[list[k].game] = 0)
  BY <1>3, ServerAssumption DEF Types, Games
<1> QED BY <1>3, <1>4, <1>5

\* The header of a new game is written.
LEMMA WriteHeaderKeeps ==
  ASSUME Inv, NEW q \in Procs, WriteHeader(q)
  PROVE  Inv'
<1> DEFINE i == proc[q].fd
           r == proc[q].req
           f == [head |-> TRUE, id |-> made + 1, key |-> r.key, start |-> r.start,
                 dur |-> r.dur, trials |-> <<>>, end |-> NoEnd]
<1>1. /\ proc[q].pc = "header" /\ made' = made + 1 /\ file' = [file EXCEPT ![i] = f] /\ Finish(q)
      /\ UNCHANGED <<active, records, scores, now, up, boot, told, won>>
  BY DEF WriteHeader, At
<1>2. /\ Types /\ Names /\ Frame(q) /\ (q = Parent => InStep) /\ ToldOnDisk /\ WonOnDisk /\ ListsOK
      /\ file = [k \in Inodes |-> file[k]] /\ active \in [Players -> Inodes \cup {None}] /\ made \in Nat
  BY ServerAssumption DEF Inv, Mine, Types
<1>3. q = Parent /\ r.key \in Guesses /\ r.dur \in Durations /\ r.start \in Times /\ made < MaxGames
      /\ i \in Inodes
  <2>1. r.kind = "SNG" /\ r.kind \in (IF q = Parent THEN {"SNG", "TRY", "QUT"} ELSE {"STR"})
    BY <1>1, <1>2 DEF Frame
  <2> QED BY <1>1, <1>2, <2>1 DEF Frame, ReadsFile
<1>4. ~file[i].head
  BY <1>1, <1>2, <1>3 DEF InStep
<1>5. IsGame(f) /\ f.head /\ f.id = made + 1 /\ f.trials = <<>> /\ f.end = NoEnd
  <2>1. made + 1 \in Games
    BY <1>2, <1>3, ServerAssumption DEF Games
  <2>2. <<>> \in Seq(Guesses) /\ Len(<<>>) = 0 /\ 0 <= MaxTrials
    BY MastermindAssumption
  <2> HIDE DEF r
  <2>3. f \in Headed
    BY <1>3, <2>1, <2>2 DEF Headed
  <2> QED BY <2>2, <2>3 DEF IsGame
<1> HIDE DEF f
<1>6. file' = [k \in Inodes |-> file'[k]] /\ file'[i] = f /\ \A k \in Inodes : k # i => file'[k] = file[k]
  BY <1>1, <1>2, <1>3
<1>7. \A k \in Inodes : file[k].head => IsGame(file[k]) /\ file[k].id \in Nat /\ file[k].id <= made /\ k # i
  BY <1>2, <1>4, GameFields DEF Types, Blank
<1>8. /\ proc' = [x \in Procs |-> proc'[x]] /\ board' = board /\ proc'[Parent] = Idle
      /\ \A x \in Procs : x # Parent => proc'[x] = proc[x]
  BY <1>1, <1>2, <1>3, FinishFields DEF Finish
<1>9. \A p \in Players : ActiveHas(p)' => /\ active'[p] = active[p] /\ active[p] \in Inodes
                                          /\ active[p] # i => ActiveHas(p) /\ file'[active[p]] = file[active[p]]
  BY <1>1, <1>2, <1>6 DEF ActiveHas
<1> HIDE DEF i
<1>10. Types'
  <2>1. \A k \in Inodes : file'[k] = Blank \/ (IsGame(file'[k]) /\ file'[k].id <= made')
    <3> TAKE k \in Inodes
    <3>1. CASE k = i
      BY <1>1, <1>2, <1>5, <1>6, <3>1
    <3>2. CASE k # i
      BY <1>1, <1>2, <1>6, <1>7, <3>2, GameFields DEF Types
    <3> QED BY <3>1, <3>2
  <2>2. made' \in 0..MaxGames /\ \A g \in Games : g > made' => told'[g] = 0 /\ won'[g] = 0
    BY <1>1, <1>2, <1>3, ServerAssumption DEF Types, Games
  <2> QED BY <1>1, <1>2, <1>6, <1>8, <2>1, <2>2 DEF Types, IsGame, Headed
<1>11. Names'
  <2>1. ASSUME NEW k \in Inodes, NEW l \in Inodes, file'[k].head, file'[l].head, file'[k].id = file'[l].id
        PROVE  k = l
    <3>1. made + 1 > made
      BY <1>2
    <3> QED BY <1>2, <1>5, <1>6, <1>7, <2>1, <3>1 DEF Names
  <2> QED BY <1>1, <1>2, <2>1 DEF Names
<1>12. ASSUME NEW list \in Boards, ListOK(list), NEW k \in DOMAIN list
       PROVE  list[k].game # made + 1 /\ won'[list[k].game] = list[k].tries
  BY <1>1, <1>2, <1>12, ListedIsWon, SMTT(30) DEF Games, ListOK
<1>13. ListsOK'
  <2>1. ASSUME NEW list \in Boards, ListOK(list) PROVE ListOK(list)'
    <3>1. ASSUME NEW k \in DOMAIN list, NEW p \in Players, ActiveHas(p)'
          PROVE  file'[active'[p]].id # list[k].game
      BY <1>5, <1>6, <1>9, <1>12, <2>1, <3>1 DEF ListOK
    <3> QED BY <1>12, <2>1, <3>1 DEF ListOK
  <2>2. \A x \in Procs : board[x].list \in Boards /\ ListOK(board[x].list)
    BY <1>2 DEF Types, ListsOK
  <2>3. \A b \in Boots : scores[b] # None => scores[b] \in Boards /\ ListOK(scores[b])
    BY <1>2 DEF Types, ListsOK
  <2> QED BY <1>1, <1>8, <2>1, <2>2, <2>3 DEF ListsOK
<1>14. ToldOnDisk'
  <2>1. ASSUME NEW p \in Players, ActiveHas(p)', file'[active'[p]].end = NoEnd
        PROVE  told'[file'[active'[p]].id] <= Len(file'[active'[p]].trials)
    <3>1. CASE active[p] = i
      <4>1. made + 1 \in Games /\ made + 1 > made /\ told[made + 1] = 0 /\ Len(<<>>) = 0
        BY <1>2, <1>3, ServerAssumption DEF Types, Games
      <4> QED BY <1>1, <1>5, <1>6, <1>9, <2>1, <3>1, <4>1
    <3>2. CASE active[p] # i
      BY <1>1, <1>2, <1>9, <2>1, <3>2 DEF ToldOnDisk
    <3> QED BY <3>1, <3>2
  <2> QED BY <2>1 DEF ToldOnDisk
<1>15. WonOnDisk'
  <2>1. ASSUME NEW k \in Inodes, file'[k].head, LastIsKey(file'[k])
        PROVE  won'[file'[k].id] = Len(file'[k].trials)
    BY <1>1, <1>2, <1>5, <1>6, <2>1 DEF WonOnDisk, LastIsKey
  <2>2. ASSUME NEW k \in Inodes, file'[k].head, file'[k].end = NoEnd, won'[file'[k].id] # 0, MayBeRead(k)'
        PROVE  LastIsKey(file'[k])
    <3>1. MayBeRead(k)
      BY <1>1, <1>8, <2>2 DEF MayBeRead, Idle
    <3>2. k # i
      <4>1. made + 1 \in Games /\ made + 1 > made /\ won[made + 1] = 0
        BY <1>2, <1>3, ServerAssumption DEF Types, Games
      <4> QED BY <1>1, <1>5, <1>6, <2>2, <4>1
    <3> QED BY <1>1, <1>2, <1>6, <2>2, <3>1, <3>2 DEF WonOnDisk
  <2> QED BY <2>1, <2>2 DEF WonOnDisk
<1>16. ASSUME NEW x \in Procs PROVE Mine(x)'
  <2>1. CASE x = Parent
    BY <1>8, <2>1 DEF Mine, Frame, Owner, Wins, InStep, Idle, Places, ReadsFile, EndsGame, HasGame
  <2>2. CASE x # Parent
    <3>1. Frame(x) /\ Owner(x) /\ Wins(x) /\ proc'[x] = proc[x] /\ board'[x] = board[x]
      BY <1>8, <2>2 DEF Inv, Mine
    <3>2. Frame(x)'
      <4>1. proc[x].pc # "idle" => proc[x].req.kind = "STR"
        BY <2>2, <3>1 DEF Frame
      <4>2. proc[x].pc \in HasGame => IsGame(proc[x].gm) /\ proc[x].gm.id \in Nat /\ proc[x].gm.id <= made
        BY <3>1, GameFields DEF Frame
      <4>3. proc[x].pc \in HasGame => proc[x].gm.id <= made'
        BY <1>1, <1>2, <4>2
      <4> QED BY <2>2, <3>1, <4>1, <4>3 DEF Frame, IsGame, LastIsKey
    <3>3. Owner(x)'
      <4>1. ASSUME NEW p \in Players, proc[x].pc \in HasGame, ActiveHas(p)', file'[active'[p]].id = proc[x].gm.id
            PROVE  p = Player(x)
        <5>1. proc[x].gm.id \in Nat /\ proc[x].gm.id <= made
          BY <3>1, <4>1, GameFields DEF Frame
        <5>2. active[p] # i
          <6>1. made + 1 # proc[x].gm.id
            BY <1>2, <5>1
          <6>2. active'[p] = active[p]
            BY <1>9, <4>1
          <6> QED BY <1>5, <1>6, <4>1, <6>1, <6>2
        <5> QED BY <1>9, <3>1, <4>1, <5>2 DEF Owner
      <4> QED BY <1>1, <3>1, <4>1 DEF Owner, Player
    <3>4. Wins(x)'
      <4>1. proc[x].pc = "parse" => proc[x].fd \in Inodes
        BY <3>1 DEF Frame, ReadsFile
      <4>2. board[x].list \in Boards /\ ListOK(board[x].list)
        BY <1>2 DEF Types, ListsOK
      <4>3. \A k \in DOMAIN board[x].list : board[x].list[k].game # made + 1
        BY <1>12, <4>2
      <4> QED BY <1>1, <1>5, <1>6, <3>1, <4>1, <4>3 DEF Wins
    <3> QED BY <2>2, <3>2, <3>3, <3>4 DEF Mine
  <2> QED BY <2>1, <2>2
<1> QED BY <1>10, <1>11, <1>13, <1>14, <1>15, <1>16 DEF Inv

PlusTrial(f, guess) == [f EXCEPT !.trials = Append(@, guess)]

\* A game with one more trial is a game.
LEMMA AppendGame ==
  ASSUME NEW f, IsGame(f), Len(f.trials) < MaxTrials, NEW guess \in Guesses,
         NEW h, h = PlusTrial(f, guess)
  PROVE  /\ IsGame(h) /\ h.head /\ h.id = f.id /\ h.key = f.key /\ h.end = f.end
         /\ h.trials = Append(f.trials, guess) /\ Len(h.trials) = Len(f.trials) + 1
         /\ LastIsKey(h) <=> guess = f.key
<1>1. f \in Headed /\ f.trials \in Seq(Guesses) /\ Len(f.trials) \in Nat /\ MaxTrials \in Nat
  BY MastermindAssumption, LenProperties DEF IsGame, Headed
<1> DEFINE t == Append(f.trials, guess)
<1>2. t \in Seq(Guesses) /\ Len(t) = Len(f.trials) + 1 /\ t # <<>> /\ t[Len(f.trials) + 1] = guess
  BY <1>1, AppendProperties
<1>3. h = [f EXCEPT !.trials = t]
  BY DEF PlusTrial
<1>4. Last(t) = guess
  BY <1>2 DEF Last
<1> HIDE DEF t
<1>5. h \in Headed /\ h.head /\ h.id = f.id /\ h.key = f.key /\ h.end = f.end /\ h.trials = t
  BY <1>1, <1>2, <1>3 DEF Headed
<1>6. LastIsKey(h) <=> guess = f.key
  BY <1>2, <1>4, <1>5 DEF LastIsKey
<1>7. Len(t) <= MaxTrials
  BY <1>1, <1>2
<1> QED BY <1>2, <1>5, <1>6, <1>7 DEF IsGame, t

\* A file after a trial: none is added behind a last line.
LEMMA WithTrialFacts ==
  ASSUME NEW f, f = Blank \/ IsGame(f), NEW guess \in Guesses,
         f # Blank /\ f.end = NoEnd => Len(f.trials) < MaxTrials,
         NEW h, h = WithTrial(f, guess)
  PROVE  /\ f = Blank => h = Blank
         /\ f # Blank => /\ IsGame(h) /\ h.head /\ h.id = f.id /\ h.key = f.key /\ h.end = f.end
                         /\ f.end # NoEnd => h = f
                         /\ f.end = NoEnd => h = PlusTrial(f, guess)
<1>1. CASE f = Blank
  BY <1>1 DEF Blank, WithTrial
<1>2. CASE f # Blank
  <2>1. IsGame(f) /\ f.head
    BY <1>2, GameFields
  <2>2. CASE f.end = NoEnd
    <3>1. h = PlusTrial(f, guess)
      BY <2>1, <2>2 DEF WithTrial, PlusTrial
    <3> QED BY <1>2, <2>1, <2>2, <3>1, AppendGame
  <2>3. CASE f.end # NoEnd
    <3>1. h = f
      BY <2>3 DEF WithTrial
    <3> QED BY <1>2, <2>1, <2>3, <3>1
  <2> QED BY <2>2, <2>3
<1> QED BY <1>1, <1>2

\* A trial is written.
LEMMA WriteTrialKeeps ==
  ASSUME Inv, NEW q \in Procs, WriteTrial(q)
  PROVE  Inv'
<1> PICK i, guess, o, g :
      /\ i = proc[q].fd /\ guess = proc[q].req.guess /\ o = proc[q].gm
      /\ g = PlusTrial(o, guess)
  OBVIOUS
<1> DEFINE n == Len(g.trials)
           e == [g EXCEPT !.end = [why |-> Status(g, now), at |-> EndTime(g, now)]]
<1>1. /\ proc[q].pc = "trial" /\ file' = [file EXCEPT ![i] = WithTrial(@, guess)]
      /\ IF Over(g) THEN Go(q, [pc |-> "append", gm |-> e, back |-> "answer"])
                    ELSE Go(q, [pc |-> "answer", gm |-> g])
      /\ won' = IF guess = g.key THEN [won EXCEPT ![g.id] = Len(g.trials)] ELSE won
      /\ UNCHANGED <<active, records, scores, now, up, boot, made, told>>
  BY DEF WriteTrial, At, Ending, PlusTrial
<1>2. /\ Types /\ Names /\ Frame(q) /\ Owner(q) /\ (q = Parent => InStep) /\ ToldOnDisk /\ WonOnDisk /\ ListsOK
      /\ file = [k \in Inodes |-> file[k]] /\ active \in [Players -> Inodes \cup {None}] /\ made \in Nat
      /\ won \in [Games -> 0..MaxTrials] /\ now \in Times /\ proc = [r \in Procs |-> proc[r]]
  BY ServerAssumption DEF Inv, Mine, Types
<1>3. q = Parent /\ guess \in Guesses /\ i \in Inodes /\ proc[q].req.kind = "TRY" /\ Player(q) \in Players
      /\ {"req", "gm"} \subseteq DOMAIN proc[q]
      /\ IsGame(o) /\ o.id <= made /\ o.end = NoEnd /\ Len(o.trials) < MaxTrials
  <2>1. proc[q].req.kind = "TRY" /\ proc[q].req.kind \in (IF q = Parent THEN {"SNG", "TRY", "QUT"} ELSE {"STR"})
    BY <1>1, <1>2 DEF Frame
  <2> QED BY <1>1, <1>2, <2>1 DEF Frame, ReadsFile, HasGame, Player
<1> PICK P \in Players : P = Player(Parent)
  BY <1>3
<1>4. /\ IsGame(g) /\ g.head /\ g.id = o.id /\ g.key = o.key /\ g.end = NoEnd
      /\ g.trials = Append(o.trials, guess) /\ Len(g.trials) = Len(o.trials) + 1
      /\ LastIsKey(g) <=> guess = o.key
  BY <1>3, AppendGame
<1>5. /\ ActiveHas(P) => active[P] = i
      /\ file[i].head => file[i].id = o.id
      /\ won[o.id] = 0
      /\ \A k \in Inodes : file[k].head /\ file[k].id = o.id => file[k].trials = o.trials /\ file[k].key = o.key
      /\ \A p \in Players : ActiveHas(p) /\ file[active[p]].id = o.id => p = P
  BY <1>1, <1>2, <1>3 DEF InStep, Owner, HasGame
<1>6. o.id \in Games /\ o.id \in Nat /\ o.key \in Guesses /\ n \in 1..MaxTrials /\ n \in 0..MaxTrials /\ n # 0
  <2>1. o.id \in Games /\ o.id \in Nat /\ o.key \in Guesses /\ Len(o.trials) \in Nat /\ MaxTrials \in Nat
    BY <1>3, GameFields, MastermindAssumption
  <2>2. n = Len(o.trials) + 1 /\ Len(o.trials) < MaxTrials
    BY <1>3, <1>4
  <2> HIDE DEF n
  <2> QED BY <2>1, <2>2, SMTT(30)
<1>7. file' = [k \in Inodes |-> file'[k]] /\ \A k \in Inodes :
        /\ file[k] = Blank => file'[k] = Blank
        /\ file[k] # Blank => /\ IsGame(file'[k]) /\ file'[k].head /\ file'[k].id = file[k].id
                              /\ file'[k].key = file[k].key /\ file'[k].end = file[k].end
        /\ k # i \/ file[k].end # NoEnd => file'[k] = file[k]
        /\ k = i /\ file[k] # Blank /\ file[k].end = NoEnd => file'[k] = PlusTrial(file[k], guess)
  <2>1. \A k \in Inodes : file[k] = Blank \/ (IsGame(file[k]) /\ file[k].head)
    BY <1>2, GameFields DEF Types
  <2>2. file'[i] = WithTrial(file[i], guess) /\ \A k \in Inodes : k # i => file'[k] = file[k]
    BY <1>1, <1>2, <1>3
  <2> PICK f, h : f = file[i] /\ h = file'[i]
    OBVIOUS
  <2>3. (f = Blank \/ IsGame(f)) /\ (f # Blank /\ f.end = NoEnd => Len(f.trials) < MaxTrials)
        /\ h = WithTrial(f, guess)
    BY <1>3, <1>5, <2>1, <2>2
  <2>4. /\ f = Blank => h = Blank
        /\ f # Blank => /\ IsGame(h) /\ h.head /\ h.id = f.id /\ h.key = f.key /\ h.end = f.end
                        /\ f.end # NoEnd => h = f
                        /\ f.end = NoEnd => h = PlusTrial(f, guess)
    <3>1. guess \in Guesses
      BY <1>3
    <3>2. CASE f = Blank
      BY <2>3, <3>1, <3>2, WithTrialFacts
    <3>3. CASE f # Blank
      <4>1. IsGame(h) /\ h.head /\ h.id = f.id /\ h.key = f.key /\ h.end = f.end
        BY <2>3, <3>1, <3>3, WithTrialFacts
      <4>2. (f.end # NoEnd => h = f) /\ (f.end = NoEnd => h = PlusTrial(f, guess))
        BY <2>3, <3>1, <3>3, WithTrialFacts
      <4> QED BY <3>3, <4>1, <4>2
    <3> QED BY <3>2, <3>3
  <2>5. file' = [k \in Inodes |-> file'[k]]
    BY <1>1, <1>2
  <2> QED BY <2>1, <2>2, <2>4, <2>5
<1>8. /\ proc' = [x \in Procs |-> proc'[x]] /\ \A x \in Procs : x # q => proc'[x] = proc[x]
      /\ board' = board /\ {"pc", "req", "gm"} \subseteq DOMAIN proc'[q]
      /\ proc'[q].pc \in {"append", "answer"} /\ proc'[q].req = proc[q].req
      /\ IsGame(proc'[q].gm) /\ proc'[q].gm.id = o.id /\ proc'[q].gm.trials = g.trials
      /\ proc'[q].pc = "append" =>
           /\ "back" \in DOMAIN proc'[q] /\ proc'[q].back = "answer" /\ proc'[q].gm.end # NoEnd
           /\ proc'[q].gm.end.why = "WON" => LastIsKey(g)
  <2>1. CASE Over(g)
    <3>1. Status(g, now) \in Reasons /\ EndTime(g, now) \in Times /\ (Status(g, now) = "WON" => LastIsKey(g))
      BY <1>2, <1>4, <2>1, EndOfGame
    <3>2. /\ IsGame(e) /\ e.end # NoEnd /\ e.end.why = Status(g, now) /\ e.id = g.id /\ e.trials = g.trials
      <4> PICK why, t : why = Status(g, now) /\ t = EndTime(g, now)
        OBVIOUS
      <4>1. e = [g EXCEPT !.end = [why |-> why, at |-> t]]
        OBVIOUS
      <4>2. IsGame(g) /\ why \in Reasons /\ t \in Times
        BY <1>4, <3>1
      <4> QED BY <4>1, <4>2, WithEndIsGame
    <3> DEFINE c == [pc |-> "append", gm |-> e, back |-> "answer"]
    <3>3. Go(q, c)
      BY <1>1, <2>1
    <3> HIDE DEF e
    <3>4. /\ {"pc", "req", "gm", "back"} \subseteq DOMAIN proc'[q]
          /\ proc'[q].pc = "append" /\ proc'[q].gm = e /\ proc'[q].back = "answer" /\ proc'[q].req = proc[q].req
      BY <1>2, <1>3, <3>3, EndingFields
    <3>5. proc' = [x \in Procs |-> proc'[x]] /\ \A x \in Procs : x # q => proc'[x] = proc[x]
      <4>1. Step(q, c) /\ "pc" \in DOMAIN c
        BY <3>3 DEF Go
      <4> HIDE DEF c
      <4> QED BY <1>2, <4>1, StepFields
    <3>6. board' = board
      BY <3>3, SMTT(30) DEF Go
    <3> QED BY <1>4, <3>1, <3>2, <3>4, <3>5, <3>6
  <2>2. CASE ~Over(g)
    <3>1. Step(q, [pc |-> "answer", gm |-> g]) /\ board' = board
      BY <1>1, <2>2 DEF Go
    <3> QED BY <1>2, <1>3, <1>4, <3>1, StepFields, SMTT(60), ZenonT(40) DEF ReadsFile, EndsGame
  <2> QED BY <2>1, <2>2, SMTT(30)
<1>9. /\ won' \in [Games -> 0..MaxTrials] /\ \A x \in Games : x # o.id => won'[x] = won[x]
      /\ LastIsKey(g) => won'[o.id] = n
      /\ ~LastIsKey(g) => won' = won
  BY <1>1, <1>2, <1>4, <1>6, ZenonT(30)
<1>10. \A p \in Players :
         /\ ActiveHas(p)' <=> ActiveHas(p)
         /\ ActiveHas(p) => active[p] \in Inodes /\ file'[active'[p]].id = file[active[p]].id
  <2>1. \A k \in Inodes : file'[k].head <=> file[k].head
    BY <1>2, <1>7, GameFields DEF Types, Blank
  <2>2. \A k \in Inodes : file[k].head => file[k] # Blank
    BY DEF Blank
  <2> SUFFICES ASSUME NEW p \in Players
               PROVE  /\ ActiveHas(p)' <=> ActiveHas(p)
                      /\ ActiveHas(p) =>
                           active[p] \in Inodes /\ file'[active'[p]].id = file[active[p]].id
    OBVIOUS
  <2>3. active' = active /\ active[p] \in Inodes \cup {None}
    BY <1>1, <1>2
  <2>4. ActiveHas(p)' <=> ActiveHas(p)
    BY <2>1, <2>3 DEF ActiveHas
  <2>5. ASSUME ActiveHas(p)
        PROVE  active[p] \in Inodes /\ file'[active'[p]].id = file[active[p]].id
    <3>1. active[p] \in Inodes /\ file[active[p]].head
      BY <2>3, <2>5 DEF ActiveHas
    <3> QED BY <1>7, <2>2, <2>3, <3>1
  <2> QED BY <2>4, <2>5
<1> HIDE DEF e, n
<1>11. Types'
  <2>1. \A k \in Inodes : file'[k] = Blank \/ (IsGame(file'[k]) /\ file'[k].id <= made')
    BY <1>1, <1>2, <1>7, SMTT(60), ZenonT(40) DEF Types
  <2>2. \A x \in Games : x > made' => told'[x] = 0 /\ won'[x] = 0
    BY <1>1, <1>2, <1>3, <1>6, <1>9 DEF Types, Games
  <2>3. ~up' => proc'[Parent] = Idle
    <3>1. ~up => proc[Parent] = Idle
      BY <1>2 DEF Types
    <3> QED BY <1>1, <1>3, <3>1 DEF Idle
  <2> QED BY <1>1, <1>2, <1>7, <1>8, <1>9, <2>1, <2>2, <2>3, ZenonT(30) DEF Types, IsGame, Headed
<1>12. Names'
  <2>1. \A k \in Inodes : file'[k].head => file[k].head /\ file'[k].id = file[k].id
    BY <1>2, <1>7, GameFields DEF Types, Blank
  <2> QED BY <1>1, <1>2, <2>1 DEF Names
<1>13. ASSUME NEW list \in Boards, ListOK(list), NEW k \in DOMAIN list
       PROVE  list[k].game # o.id /\ won'[list[k].game] = list[k].tries
  BY <1>2, <1>5, <1>9, <1>13, ListedIsWon DEF ListOK
<1>14. ListsOK'
  <2>1. ASSUME NEW list \in Boards, ListOK(list) PROVE ListOK(list)'
    BY <1>10, <1>13, <2>1 DEF ListOK
  <2>2. \A x \in Procs : board[x].list \in Boards /\ ListOK(board[x].list)
    BY <1>2 DEF Types, ListsOK
  <2>3. \A b \in Boots : scores[b] # None => scores[b] \in Boards /\ ListOK(scores[b])
    BY <1>2 DEF Types, ListsOK
  <2> QED BY <1>1, <1>8, <2>1, <2>2, <2>3 DEF ListsOK
<1>15. ToldOnDisk'
  <2>1. ASSUME NEW p \in Players, ActiveHas(p)', file'[active'[p]].end = NoEnd
        PROVE  told'[file'[active'[p]].id] <= Len(file'[active'[p]].trials)
    <3> PICK k \in Inodes : k = active[p]
      BY <1>10, <2>1
    <3>1. /\ ActiveHas(p) /\ file[k].head /\ file[k] # Blank /\ file[k].end = NoEnd /\ IsGame(file[k])
          /\ file'[k].id = file[k].id
      <4>1. ActiveHas(p) /\ file[k].head
        BY <1>10, <2>1 DEF ActiveHas
      <4>2. file[k] # Blank
        BY <4>1 DEF Blank
      <4>3. IsGame(file[k])
        BY <1>2, <4>2 DEF Types
      <4>4. file'[k].id = file[k].id /\ file'[k].end = file[k].end
        BY <1>7, <4>2
      <4>5. file'[k].end = NoEnd
        BY <1>1, <2>1
      <4> QED BY <4>1, <4>2, <4>3, <4>4, <4>5
    <3>2. told[file[k].id] <= Len(file[k].trials) /\ told[file[k].id] \in Nat /\ Len(file[k].trials) \in Nat
      <4>1. told[file[k].id] <= Len(file[k].trials)
        BY <1>2, <3>1 DEF ToldOnDisk
      <4>2. file[k].id \in Games /\ Len(file[k].trials) \in Nat /\ MaxTrials \in Nat
        BY <3>1, GameFields, MastermindAssumption
      <4> QED BY <1>2, <4>1, <4>2 DEF Types
    <3>3. Len(file'[k].trials) = Len(file[k].trials) \/ Len(file'[k].trials) = Len(file[k].trials) + 1
      <4>1. CASE k # i
        BY <1>7, <4>1
      <4>2. CASE k = i
        <5>1. file'[k] = PlusTrial(file[k], guess) /\ Len(file[k].trials) < MaxTrials
          BY <1>3, <1>5, <1>7, <3>1, <4>2
        <5> QED BY <1>3, <3>1, <5>1, AppendGame
      <4> QED BY <4>1, <4>2
    <3> QED BY <1>1, <3>1, <3>2, <3>3, SMTT(40), ZenonT(40)
  <2> QED BY <2>1 DEF ToldOnDisk
<1>16. \A k \in Inodes : k = i /\ file[k] # Blank /\ file[k].end = NoEnd =>
         /\ file[k].id = o.id /\ file'[k].trials = g.trials
         /\ LastIsKey(file'[k]) <=> LastIsKey(g)
  <2>1. ASSUME file[i] # Blank, file[i].end = NoEnd
        PROVE  file[i].id = o.id /\ file'[i].trials = g.trials /\ (LastIsKey(file'[i]) <=> LastIsKey(g))
    <3> PICK f, h : f = file[i] /\ h = file'[i]
      OBVIOUS
    <3>1. IsGame(f) /\ f.head
      BY <1>2, <1>3, <2>1, GameFields DEF Types
    <3>2. f.id = o.id /\ f.trials = o.trials /\ f.key = o.key /\ Len(f.trials) < MaxTrials
      BY <1>3, <1>5, <3>1
    <3>3. h = PlusTrial(f, guess)
      BY <1>3, <1>7, <2>1
    <3>4. h.trials = Append(f.trials, guess) /\ (LastIsKey(h) <=> guess = f.key)
      <4>1. IsGame(f) /\ Len(f.trials) < MaxTrials /\ guess \in Guesses
        BY <1>3, <3>1, <3>2
      <4> QED BY ONLY <3>3, <4>1, AppendGame
    <3> QED BY <1>4, <3>2, <3>4, ZenonT(30)
  <2> QED BY <2>1
<1>17. WonOnDisk'
  <2>1. ASSUME NEW k \in Inodes, file'[k].head, LastIsKey(file'[k])
        PROVE  won'[file'[k].id] = Len(file'[k].trials)
    <3>1. file[k] # Blank /\ IsGame(file[k]) /\ file[k].head /\ file'[k].id = file[k].id
      BY <1>2, <1>7, <2>1, GameFields DEF Types, Blank
    <3>2. CASE k = i /\ file[k].end = NoEnd
      BY <1>9, <1>16, <2>1, <3>1, <3>2 DEF n
    <3>3. CASE k # i \/ file[k].end # NoEnd
      <4>1. file'[k] = file[k]
        BY <1>7, <3>3
      <4>2. won[file[k].id] = Len(file[k].trials) /\ Len(file[k].trials) # 0 /\ file[k].id \in Games
        BY <1>2, <2>1, <3>1, <4>1, GameFields DEF WonOnDisk, LastIsKey
      <4>3. file[k].id # o.id
        BY <1>5, <4>2
      <4> QED BY <1>9, <4>1, <4>2, <4>3
    <3> QED BY <3>2, <3>3
  <2>2. ASSUME NEW k \in Inodes, file'[k].head, file'[k].end = NoEnd, won'[file'[k].id] # 0, MayBeRead(k)'
        PROVE  LastIsKey(file'[k])
    <3>1. file[k] # Blank /\ IsGame(file[k]) /\ file[k].head /\ file'[k].id = file[k].id
          /\ file[k].end = NoEnd /\ file[k].id \in Games
      BY <1>2, <1>7, <2>2, GameFields, SMTT(30) DEF Types, Blank
    <3>2. PICK p \in Players : active[p] = k
      BY <1>1, <1>3, <1>8, <2>2 DEF MayBeRead
    <3>3. CASE file[k].id = o.id
      <4>1. None \notin Inodes
        BY ServerAssumption, Sizes DEF Inodes
      <4>2. ActiveHas(p) /\ p = P /\ k = i
        BY <1>5, <3>1, <3>2, <3>3, <4>1 DEF ActiveHas
      <4>3. LastIsKey(g)
        BY <1>5, <1>9, <2>2, <3>1, <3>3
      <4> QED BY <1>16, <3>1, <4>2, <4>3
    <3>4. CASE file[k].id # o.id
      <4>1. k # i /\ won'[file[k].id] = won[file[k].id]
        BY <1>5, <1>9, <3>1, <3>4
      <4>2. file'[k] = file[k] /\ MayBeRead(k)
        BY <1>7, <3>2, <4>1 DEF MayBeRead
      <4> QED BY <1>2, <2>2, <3>1, <4>1, <4>2 DEF WonOnDisk
    <3> QED BY <3>3, <3>4
  <2> QED BY <2>1, <2>2 DEF WonOnDisk
<1>18. ASSUME NEW x \in Procs, x # Parent PROVE Mine(x)'
  <2>1. Frame(x) /\ Owner(x) /\ Wins(x) /\ proc'[x] = proc[x] /\ board'[x] = board[x]
    BY <1>3, <1>8, <1>18 DEF Inv, Mine
  <2>2. Frame(x)'
    BY <1>1, <2>1 DEF Frame, IsGame, LastIsKey
  <2>3. Owner(x)'
    BY <1>1, <1>10, <2>1 DEF Owner, Player
  <2>4. Wins(x)'
    <3>1. proc[x].pc \in {"append", "end", "move"} /\ proc[x].gm.end.why = "WON" =>
            won'[proc[x].gm.id] = won[proc[x].gm.id]
      <4>1. proc[x].pc \in {"append", "end", "move"} => proc[x].gm.id \in Games
        BY <2>1, GameFields DEF Frame, HasGame, EndsGame
      <4> QED BY <1>5, <1>9, <2>1, <4>1 DEF Wins
    <3>2. proc[x].pc = "parse" /\ file'[proc[x].fd].head =>
            file[proc[x].fd].head /\ file'[proc[x].fd].id = file[proc[x].fd].id
      <4>1. proc[x].pc = "parse" => proc[x].fd \in Inodes
        BY <2>1 DEF Frame, ReadsFile
      <4> QED BY <1>2, <1>7, <4>1, GameFields DEF Types, Blank
    <3> QED BY <2>1, <3>1, <3>2 DEF Wins
  <2> QED BY <1>18, <2>2, <2>3, <2>4 DEF Mine
<1>19. Mine(Parent)'
  <2>1. Player(Parent) = P /\ Player(Parent)' = P
    BY <1>3, <1>8 DEF Player
  <2>2. Frame(Parent)'
    BY <1>1, <1>2, <1>3, <1>8 DEF Frame, Places, HasGame, EndsGame, ReadsFile
  <2>3. Owner(Parent)'
    BY <1>3, <1>5, <1>8, <1>10, <2>1 DEF Owner, HasGame, EndsGame, ReadsFile
  <2>4. Wins(Parent)'
    <3>1. ListOK(board[Parent].list) /\ board[Parent].list \in Boards
      BY <1>2, <1>3 DEF ListsOK, Types
    <3> QED BY <1>3, <1>6, <1>8, <1>9, <1>13, <3>1 DEF Wins, n
  <2>5. InStep'
    <3>1. ActiveHas(P)' => /\ ActiveHas(P) /\ active'[P] = i /\ file[i] # Blank /\ file'[i].id = o.id
                           /\ file'[i].end = NoEnd => file'[i].trials = g.trials
      <4>1. ActiveHas(P)' => ActiveHas(P) /\ active'[P] = i /\ file[i].head /\ file[i] # Blank
        BY <1>1, <1>5, <1>10 DEF ActiveHas, Blank
      <4> QED BY <1>3, <1>5, <1>7, <1>16, <4>1
    <3> QED BY <1>3, <1>8, <2>1, <3>1 DEF InStep
  <2> QED BY <2>2, <2>3, <2>4, <2>5 DEF Mine
<1> QED BY <1>11, <1>12, <1>14, <1>15, <1>17, <1>18, <1>19 DEF Inv

------------------------------------------------------------------------------
(* The rest of the steps.                                                     *)

\* Of some starts of the server one is the latest.
LEMMA GreatestBoot ==
  ASSUME NEW S, S \subseteq Boots, S # {}
  PROVE  \E b \in S : \A c \in S : c <= b
<1> DEFINE T == {MaxBoot - b : b \in S}
<1>1. MaxBoot \in Nat /\ \A b \in S : b \in Nat /\ b <= MaxBoot
  BY ServerAssumption DEF Boots
<1>2. T \subseteq Nat /\ T # {}
  BY <1>1
<1>3. PICK x \in T : \A y \in T : ~(<<y, x>> \in OpToRel(<, Nat))
  BY <1>2, WFMin, NatLessThanWellFounded
<1>4. PICK b \in S : x = MaxBoot - b
  BY <1>3
<1>5. ASSUME NEW c \in S PROVE c <= b
  <2>1. MaxBoot - c \in T /\ MaxBoot - c \in Nat /\ x \in Nat
    BY <1>1, <1>3, <1>2
  <2>2. ~(MaxBoot - c < x)
    BY <1>3, <2>1 DEF OpToRel
  <2> QED BY <1>1, <1>4, <2>1, <2>2
<1> QED BY <1>5

\* A server that starts takes the latest scoreboard, which is right.
LEMMA RestartKeeps == ASSUME Inv, Restart PROVE Inv'
<1> DEFINE written == {b \in Boots : scores[b] # None}
<1>1. /\ ~up /\ up' = TRUE /\ boot' = boot + 1 /\ boot < MaxBoot
      /\ board' = [board EXCEPT ![Parent] = [boot |-> boot', list |-> LatestScores]]
      /\ UNCHANGED <<disk, now, proc, made, told, won>>
  BY DEF Restart, ghosts
<1>2. /\ Types /\ ListsOK /\ ToldOnDisk /\ proc[Parent] = Idle /\ Parent \in Procs
      /\ board \in [Procs -> [boot : Boots, list : Boards]] /\ proc = [q \in Procs |-> proc[q]]
      /\ UNCHANGED <<file, active>>
  BY <1>1 DEF Inv, Types, Procs, disk
<1>3. LatestScores \in Boards /\ ListOK(LatestScores)
  <2>1. CASE written = {}
    <3>1. LatestScores = <<>>
      BY <2>1 DEF LatestScores
    <3> QED BY <3>1, ServerAssumption DEF Boards, ListOK
  <2>2. CASE written # {}
    <3> DEFINE b == CHOOSE b \in written : \A c \in written : c <= b
    <3>1. b \in written
      <4> HIDE DEF written
      <4> QED BY <2>2, GreatestBoot DEF written
    <3>2. LatestScores = scores[b]
      BY <2>2 DEF LatestScores
    <3> QED BY <1>2, <3>1, <3>2 DEF Types, ListsOK
  <2> QED BY <2>1, <2>2
<1>4. boot' \in Boots
  BY <1>1, <1>2, ServerAssumption DEF Types, Boots
<1>5. /\ board' \in [Procs -> [boot : Boots, list : Boards]] /\ board'[Parent].list = LatestScores
      /\ \A r \in Procs : r # Parent => board'[r] = board[r]
  BY <1>1, <1>2, <1>3, <1>4
<1>6. StillOK(board'[Parent].list)
  BY <1>1, <1>2, <1>3, <1>5 DEF ListOK, StillOK, ActiveHas
<1>7. Mine(Parent)'
  BY <1>1, <1>2 DEF Mine, Frame, Owner, Wins, InStep, Idle, Places, ReadsFile, EndsGame, HasGame
<1>8. ToldOnDisk'
  BY <1>1, <1>2 DEF ToldOnDisk, ActiveHas
<1>9. now' \in Times /\ told' \in [Games -> 0..MaxTrials] /\ \A g \in Games : g > made => told'[g] = 0
  BY <1>1, <1>2 DEF Types
<1> QED BY <1>1, <1>2, <1>4, <1>5, <1>6, <1>7, <1>8, <1>9, MemoryKeeps

\* Time passes.
LEMMA TickKeeps == ASSUME Inv, Tick \/ UNCHANGED vars PROVE Inv'
<1>1. UNCHANGED <<file, active, records, scores, up, boot, proc, board, made, told, won>>
  BY DEF Tick, vars, disk, ghosts
<1>2. now' \in Times
  <2>1. now \in Times
    BY DEF Inv, Types
  <2>2. now' = now \/ (now < MaxTime /\ now' = now + 1)
    BY DEF Tick, vars
  <2> QED BY <2>1, <2>2, ServerAssumption DEF Times
<1>3. Types'
  BY <1>1, <1>2 DEF Inv, Types, IsGame, Headed
<1>4. Names' /\ ToldOnDisk' /\ WonOnDisk' /\ ListsOK'
  BY <1>1 DEF Inv, Names, ToldOnDisk, WonOnDisk, ListsOK, ListOK, ActiveHas, MayBeRead, LastIsKey
<1>5. ASSUME NEW q \in Procs PROVE Mine(q)'
  <2>1. Frame(q)' /\ Owner(q)' /\ Wins(q)'
    BY <1>1, SMTT(30) DEF Inv, Mine, Frame, Owner, Wins, IsGame, LastIsKey, ActiveHas, Player
  <2>2. q = Parent => InStep'
    BY <1>1 DEF Inv, Mine, InStep, ActiveHas, Player
  <2> QED BY <2>1, <2>2 DEF Mine
<1> QED BY <1>3, <1>4, <1>5 DEF Inv

\* The invariant holds at the start.
LEMMA InitInv == Init => Inv
<1> SUFFICES ASSUME Init PROVE Inv
  OBVIOUS
<1>1. <<>> \in Boards
  BY ServerAssumption DEF Boards
<1>2. Types
  <2>1. 0 \in Times /\ 1 \in Boots /\ 0 \in 0..MaxGames /\ 0 \in 0..MaxTrials
    BY ServerAssumption, MastermindAssumption DEF Times, Boots
  <2> QED BY <1>1, <2>1 DEF Init, Types
<1>3. \A p \in Players : ~ActiveHas(p)
  BY DEF Init, ActiveHas
<1>4. \A i \in Inodes : ~file[i].head
  BY DEF Init, Blank
<1>5. Names
  BY <1>4 DEF Init, Names
<1>6. \A q \in Procs : Mine(q)
  BY IdleIsMine DEF Init
<1>7. ToldOnDisk /\ WonOnDisk
  BY <1>3, <1>4 DEF ToldOnDisk, WonOnDisk
<1>8. ListsOK
  <2>1. ListOK(<<>>)
    BY DEF ListOK
  <2> QED BY <2>1 DEF Init, ListsOK
<1> QED BY <1>2, <1>5, <1>6, <1>7, <1>8 DEF Inv

\* Every step keeps the invariant.
LEMMA NextInv == Inv /\ [Next]_vars => Inv'
<1> SUFFICES ASSUME Inv, [Next]_vars PROVE Inv'
  OBVIOUS
<1>1. ASSUME NEW p \in Players, Ask(p) PROVE Inv'
  <2>1. CASE \E dur \in Durations : AskStart(p, dur)
    BY <2>1, BeginKeeps DEF AskStart
  <2>2. CASE \E key \in Guesses, dur \in Durations : AskDebug(p, key, dur)
    BY <2>2, BeginKeeps DEF AskDebug
  <2>3. CASE (\E guess \in Guesses, nT \in 1..MaxTrials : AskTry(p, guess, nT)) \/ AskQuit(p)
    BY <2>3, AskKeeps
  <2>4. CASE \E c \in Children : AskTrials(c, p)
    BY <2>4, AskTrialsKeeps
  <2> QED BY <1>1, <2>1, <2>2, <2>3, <2>4 DEF Ask
<1>2. ASSUME NEW q \in Procs, Work(q) PROVE Inv'
  <2>1. CASE Find(q)
    BY <2>1, FindKeeps
  <2>2. CASE Parse(q)
    BY <2>2, ParseKeeps
  <2>3. CASE ParseFails(q) \/ MoveFails(q) \/ FoundTrials(q) \/ FoundNoPlay(q) \/ FoundNoTrial(q)
    BY <2>3, NothingToDoKeeps
  <2>4. CASE OpenToEnd(q) \/ FoundPlay(q)
    BY <2>4, OpenToEndKeeps
  <2>5. CASE WriteEnd(q)
    BY <2>5, WriteEndKeeps
  <2>6. CASE Move(q)
    BY <2>6, MoveKeeps
  <2>7. CASE EmptyScores(q) \/ WriteScores(q)
    BY <2>7, ScoresKeep
  <2>8. CASE FoundOver(q) \/ FoundStart(q) \/ FoundQuit(q)
    BY <2>8, FoundKeeps
  <2>9. CASE Create(q)
    BY <2>9, CreateKeeps
  <2>10. CASE WriteHeader(q)
    BY <2>10, WriteHeaderKeeps
  <2>11. CASE WriteTrial(q)
    BY <2>11, WriteTrialKeeps
  <2>12. CASE FoundAgain(q) \/ Answer(q)
    BY <2>12, AnswerKeeps
  <2> QED BY <1>2, <2>1, <2>2, <2>3, <2>4, <2>5, <2>6, <2>7, <2>8, <2>9, <2>10, <2>11, <2>12 DEF Work
<1>3. CASE Tick \/ UNCHANGED vars
  BY <1>3, TickKeeps
<1>4. CASE Crash
  BY <1>4, CrashKeeps
<1>5. CASE Restart
  BY <1>5, RestartKeeps
<1> QED BY <1>1, <1>2, <1>3, <1>4, <1>5 DEF Next

\* What the games, the processes, the files and the scoreboards have to do with each
\* other holds in every state.
THEOREM Invariance == Spec => []Inv
BY InitInv, NextInv, PTL DEF Spec

------------------------------------------------------------------------------
(* What follows from the invariant.                                           *)

\* The types of a file and of a scoreboard, as TypeOK states them.
LEMMA GameIsFile == ASSUME NEW f, IsGame(f) PROVE f \in Files
<1>1. f \in Headed /\ f.trials \in Seq(Guesses) /\ Len(f.trials) \in 0..MaxTrials
  BY GameFields DEF IsGame
<1> DEFINE U == UNION {[1..n -> Guesses] : n \in 0..MaxTrials}
<1>2. f.trials \in U
  <2>1. f.trials \in [1..Len(f.trials) -> Guesses]
    BY <1>1, LenProperties
  <2> QED BY <1>1, <2>1
<1> HIDE DEF U
<1>3. f \in [head : {TRUE}, id : Games, key : Guesses, start : Times, dur : Durations,
             trials : U, end : {NoEnd} \cup [why : Reasons, at : Times]]
  BY <1>1, <1>2 DEF Headed
<1> QED BY <1>3 DEF Files, U

\* ... of a scoreboard.
LEMMA BoardIsBoard == ASSUME NEW b \in Boards PROVE IsBoard(b)
<1>1. b \in Seq(Entries) /\ Len(b) \in Nat /\ Len(b) <= TopScores /\ TopScores \in Nat
  BY ServerAssumption, LenProperties DEF Boards
<1>2. b \in [1..Len(b) -> Entries] /\ Len(b) \in 0..TopScores
  BY <1>1, LenProperties
<1> QED BY <1>2 DEF IsBoard

\* The values have their types: no scoreboard is longer than MAX_TOP_SCORES and no game
\* gets more trials than MAX_TRIALS, which are the sizes of the arrays of the code.
THEOREM TypeInvariance == Spec => []TypeOK
<1>1. Inv => TypeOK
  <2> SUFFICES ASSUME Inv PROVE TypeOK
    OBVIOUS
  <2>1. Types /\ \A q \in Procs : Frame(q)
    BY DEF Inv, Mine
  <2>2. file \in [Inodes -> Files]
    <3>1. file = [i \in Inodes |-> file[i]] /\ \A i \in Inodes : file[i] = Blank \/ IsGame(file[i])
      BY <2>1 DEF Types
    <3>2. Blank \in Files
      BY DEF Files
    <3>3. \A i \in Inodes : file[i] \in Files
      BY <3>1, <3>2, GameIsFile
    <3> QED BY <3>1, <3>3
  <2>3. \A b \in Boots : scores[b] # None => IsBoard(scores[b])
    BY <2>1, BoardIsBoard DEF Types
  <2>4. \A q \in Procs : IsBoard(board[q].list) /\ board[q].boot \in Boots
    BY <2>1, BoardIsBoard DEF Types
  <2>5. \A q \in Procs : proc[q].pc # "idle" => proc[q].req.kind \in Requests
    BY <2>1 DEF Frame, Requests
  <2> QED BY <2>1, <2>2, <2>3, <2>4, <2>5 DEF Types, TypeOK
<1> QED BY <1>1, Invariance, PTL

\* Every scoreboard lists a game once and only with the number of trials that won it,
\* whoever ended the game and however often the server was started.
THEOREM Scores == Spec => []ScoredOnce
<1>1. Inv => ScoredOnce
  <2> SUFFICES ASSUME Inv PROVE ScoredOnce
    OBVIOUS
  <2>1. \A list \in Lists : ListOK(list)
    BY DEF Inv, ListsOK, Lists
  <2> QED BY <2>1 DEF ListOK, ScoredOnce
<1> QED BY <1>1, Invariance, PTL

\* A trial that the player was told of is in the file of the game.
THEOREM TrialsAreOnDisk == Spec => []ToldTrialsAreOnDisk
<1>1. Inv => ToldTrialsAreOnDisk
  BY DEF Inv, ToldOnDisk, ActiveHas, ToldTrialsAreOnDisk
<1> QED BY <1>1, Invariance, PTL

\* A list is a beginning of itself and of one with an element more.
LEMMA PrefixOfAppend ==
  ASSUME NEW S, NEW s \in Seq(S), NEW e \in S
  PROVE  IsPrefix(s, s) /\ IsPrefix(s, Append(s, e))
<1> DEFINE n == Len(s)
           t == Append(s, e)
<1>1. n \in Nat
  BY LenProperties
<1>2. t \in Seq(S) /\ Len(t) = n + 1 /\ \A k \in 1..n : t[k] = s[k]
  BY AppendProperties
<1>3. \A k \in 1..n : s[k] \in S
  BY ElementOfSeq
<1> HIDE DEF n, t
<1> DEFINE a == SubSeq(s, 1, n)
           b == SubSeq(t, 1, n)
<1>4. a \in Seq(S) /\ Len(a) = n /\ \A k \in 1..n : a[k] = s[k]
  BY <1>1, <1>3, SubSeqProperties
<1>5. b \in Seq(S) /\ Len(b) = n /\ \A k \in 1..n : b[k] = t[k]
  BY <1>1, <1>2, <1>3, SubSeqProperties
<1> HIDE DEF a, b
<1>6. a = b
  BY <1>2, <1>4, <1>5, SeqEqual
<1> QED BY <1>1, <1>2, <1>6 DEF IsPrefix, a, b, n, t

Kept(f, g) == g.head /\ g.id = f.id /\ IsPrefix(f.trials, g.trials)

\* A step that leaves an active file in its place adds a trial to it, or an end, or nothing.
LEMMA KeepsOngoing ==
  ASSUME Inv, [Next]_vars, NEW p \in Players, active[p] # None,
         file[active[p]].head, file[active[p]].end = NoEnd, active'[p] = active[p]
  PROVE  Kept(file[active[p]], file'[active[p]])
<1> PICK k, f : k = active[p] /\ f = file[k]
  OBVIOUS
<1>0. k \in Inodes
  BY DEF Inv, Types
<1>1. /\ Types /\ Names /\ \A q \in Procs : Frame(q) /\ (q = Parent => InStep) /\ ActiveHas(p)
      /\ IsGame(f) /\ f.head /\ f.end = NoEnd /\ file = [i \in Inodes |-> file[i]] /\ f # Blank
      /\ k \in Inodes
  <2>1. Types /\ Names /\ \A q \in Procs : Frame(q) /\ (q = Parent => InStep)
    BY DEF Inv, Mine
  <2>2. ActiveHas(p) /\ IsGame(f) /\ f.head /\ f.end = NoEnd /\ f # Blank
    BY <2>1 DEF Types, ActiveHas, Blank
  <2> QED BY <1>0, <2>1, <2>2 DEF Types
<1>2. f.trials \in Seq(Guesses) /\ Kept(f, f)
  <2>1. f.trials \in Seq(Guesses) /\ \E e : e \in Guesses
    BY <1>1, GameFields
  <2> QED BY <1>1, <2>1, PrefixOfAppend DEF Kept
<1>3. SUFFICES ASSUME file'[k] # f PROVE Kept(f, file'[k])
  BY <1>2
<1>4. PICK q \in Procs :
        OpenToEnd(q) \/ FoundPlay(q) \/ Create(q) \/ WriteEnd(q) \/ WriteHeader(q) \/ WriteTrial(q)
  <2>1. file' # file
    BY <1>3
  <2>2. ASSUME NEW x \in Players, Ask(x) PROVE file' = file
    BY <2>2 DEF Ask, AskStart, AskDebug, Begin, AskTry, AskQuit, AskTrials, disk
  <2>3. ASSUME Tick \/ Crash \/ Restart \/ UNCHANGED vars PROVE file' = file
    BY <2>3 DEF Tick, Crash, Restart, vars, disk
  <2>4. PICK q \in Procs : Work(q)
    BY <2>1, <2>2, <2>3 DEF Next
  <2>5. ASSUME Find(q) \/ Parse(q) \/ ParseFails(q) \/ Move(q) \/ MoveFails(q) \/ EmptyScores(q) \/ WriteScores(q)
               \/ FoundOver(q) \/ FoundStart(q) \/ FoundQuit(q) \/ FoundTrials(q) \/ FoundNoPlay(q)
               \/ FoundNoTrial(q) \/ FoundAgain(q) \/ Answer(q)
        PROVE  file' = file
    BY <2>5 DEF Find, Parse, ParseFails, Move, MoveFails, EmptyScores, WriteScores, FoundOver, FoundStart,
                FoundQuit, FoundTrials, FoundNoPlay, FoundNoTrial, FoundAgain, Answer, disk
  <2> QED BY <2>1, <2>4, <2>5 DEF Work
<1>5. CASE OpenToEnd(q) \/ FoundPlay(q)
  <2>1. PICK i \in Inodes : Appending(Player(q), i)
    BY <1>5 DEF OpenToEnd, FoundPlay
  <2>2. file' = file \/ (i = FreeInode /\ file' = [file EXCEPT ![i] = Blank])
    BY <2>1 DEF Appending
  <2>3. k # FreeInode
    BY FreeInodeIsFree
  <2> QED BY <1>1, <1>3, <2>2, <2>3
<1>6. CASE Create(q)
  <2>1. PICK i \in Inodes : /\ i = IF active[Player(q)] = None THEN FreeInode ELSE active[Player(q)]
                            /\ file' = [file EXCEPT ![i] = Blank]
    BY <1>6 DEF Create
  <2>2. i = k /\ k # FreeInode
    BY <1>1, <1>3, <2>1, FreeInodeIsFree
  <2>3. proc[q].pc = "create" /\ proc[q].req.kind = "SNG" /\ Player(q) \in Players /\ q = Parent
    BY <1>1, <1>6 DEF Create, At, Frame, Player
  <2>4. p = Player(q)
    BY <1>1, <2>1, <2>2, <2>3 DEF Names
  <2> QED BY <1>1, <2>3, <2>4 DEF InStep
<1>7. CASE WriteEnd(q)
  <2>1. proc[q].pc = "end" /\ file' = [file EXCEPT ![proc[q].fd] = WithEnd(@, proc[q].gm.end)]
    BY <1>7 DEF WriteEnd, At
  <2> PICK e, h : e = proc[q].gm.end /\ h = file'[k]
    OBVIOUS
  <2>2. e \in [why : Reasons, at : Times] /\ e # NoEnd
    BY <1>1, <2>1 DEF Frame, IsGame, Headed, HasGame, EndsGame
  <2>3. h = WithEnd(f, e)
    BY <1>1, <1>3, <2>1
  <2>4. h.head /\ h.id = f.id /\ h.trials = f.trials
    BY <1>1, <2>2, <2>3, WithEndFacts
  <2> QED BY <1>2, <2>4 DEF Kept
<1>8. CASE WriteHeader(q)
  <2>1. proc[q].pc = "header" /\ proc[q].fd = k
    BY <1>1, <1>3, <1>8 DEF WriteHeader, At
  <2>2. q = Parent
    BY <1>1, <2>1 DEF Frame
  <2> QED BY <1>1, <2>1, <2>2 DEF InStep
<1>9. CASE WriteTrial(q)
  <2> PICK o, guess, h : o = proc[q].gm /\ guess = proc[q].req.guess /\ h = file'[k]
    OBVIOUS
  <2>1. proc[q].pc = "trial" /\ file' = [file EXCEPT ![proc[q].fd] = WithTrial(@, guess)]
    BY <1>9 DEF WriteTrial, At
  <2>2. proc[q].fd = k /\ h = WithTrial(f, guess)
    BY <1>1, <1>3, <2>1
  <2>3. q = Parent /\ guess \in Guesses /\ o.end = NoEnd /\ Len(o.trials) < MaxTrials
    BY <1>1, <2>1 DEF Frame, HasGame
  <2>4. f.trials = o.trials
    BY <1>1, <2>1, <2>2, <2>3 DEF InStep
  <2>5. h = PlusTrial(f, guess)
    BY <1>1, <2>2, <2>3, <2>4, WithTrialFacts
  <2>6. h.head /\ h.id = f.id /\ h.trials = Append(f.trials, guess)
    <3>1. IsGame(f) /\ Len(f.trials) < MaxTrials /\ guess \in Guesses
      BY <1>1, <2>3, <2>4
    <3> QED BY <2>5, <3>1, AppendGame
  <2> QED BY <1>2, <2>3, <2>6, PrefixOfAppend DEF Kept
<1> QED BY <1>4, <1>5, <1>6, <1>7, <1>8, <1>9

\* Nothing takes anything out of the file of a game that goes on.
THEOREM OngoingKept == Spec => OngoingIsKept
<1>1. Inv /\ [Next]_vars =>
        [\A p \in Players :
           LET f == file[active[p]]
               g == file'[active'[p]]
           IN active[p] # None /\ f.head /\ f.end = NoEnd /\ active'[p] = active[p]
                => g.head /\ g.id = f.id /\ IsPrefix(f.trials, g.trials)]_vars
  BY KeepsOngoing DEF Kept
<1> QED BY <1>1, Invariance, PTL DEF Spec, OngoingIsKept

------------------------------------------------------------------------------
(* The player and the datagrams.                                                *)
Starts == {"SNG", "DBG"}
ModelRequests ==
  [cmd : Nat, kind : {"SNG", "DBG"}, keys : SUBSET Guesses]
    \cup [cmd : Nat, kind : {"TRY"}, guess : Guesses, nT : Nat]
    \cup [cmd : Nat, kind : {"QUT"}, exit : BOOLEAN]
ModelGames == [cmd : Nat, key : Guesses, trials : Seq(Guesses), end : {NoEnd}, start : {0}, dur : {0}]

PlayerTypes ==
  /\ commands \in Nat /\ trial \in Nat /\ sends \in Nat
  /\ toServer \in Seq(ModelRequests)
  /\ sends # 0 => request \in ModelRequests /\ request.cmd <= commands
  /\ client = "waiting" => sends # 0
  /\ game # Nothing => game \in ModelGames
  /\ plays \in Seq(Nat)

\* The datagrams on their way to the server are in the order of their commands, and those
\* of one command are copies of one request; none is of a later command than the last.
InOrder ==
  /\ \A i, j \in DOMAIN toServer :
       /\ i <= j => toServer[i].cmd <= toServer[j].cmd
       /\ toServer[i].cmd = toServer[j].cmd => toServer[i] = toServer[j]
  /\ \A i \in DOMAIN toServer :
       /\ sends # 0 /\ toServer[i].cmd <= request.cmd
       /\ toServer[i].cmd = request.cmd => toServer[i] = request

\* Trials come from commands in their order, and from none that is later than a datagram
\* that the server has still to take.
PlaysOK ==
  /\ \A i, j \in DOMAIN plays : i < j => plays[i] < plays[j]
  /\ \A i \in DOMAIN plays :
       /\ sends # 0 /\ plays[i] <= request.cmd
       /\ \A k \in DOMAIN toServer : plays[i] <= toServer[k].cmd

\* A request that became a trial has the number of the last trial for as long as a copy
\* of it may come: the server takes the copy for what it is.
CopyIsKnown(m) ==
  \A i \in DOMAIN plays : m.cmd = plays[i] =>
    m.kind = "TRY" /\ (game # Nothing => m.nT = Len(game.trials))

Known ==
  /\ \A k \in DOMAIN toServer : CopyIsKnown(toServer[k])
  /\ sends # 0 => CopyIsKnown(request)

PlayerInv == PlayerTypes /\ InOrder /\ PlaysOK /\ Known

------------------------------------------------------------------------------
\* s has some of the datagrams of t, in their order.
Thinner(s, t) ==
  /\ s \in Seq(ModelRequests)
  /\ \A i, j \in DOMAIN s : i <= j =>
       \E k, l \in DOMAIN t : k <= l /\ s[i] = t[k] /\ s[j] = t[l]

\* Without its first datagram what is under way is thinner.
LEMMA TailIsThinner ==
  ASSUME NEW t \in Seq(ModelRequests), t # <<>>
  PROVE  /\ Thinner(Tail(t), t)
         /\ 1 \in DOMAIN t /\ Head(t) = t[1] /\ Head(t) \in ModelRequests
         /\ \A i \in DOMAIN Tail(t) : i + 1 \in DOMAIN t /\ Tail(t)[i] = t[i + 1]
<1>1. /\ Tail(t) \in Seq(ModelRequests) /\ Len(Tail(t)) = Len(t) - 1
      /\ \A i \in 1 .. Len(Tail(t)) : Tail(t)[i] = t[i + 1]
      /\ Head(t) \in ModelRequests
  BY HeadTailProperties
<1>2. DOMAIN t = 1 .. Len(t) /\ DOMAIN Tail(t) = 1 .. Len(Tail(t)) /\ Len(t) \in Nat \ {0}
  BY <1>1, EmptySeq, LenProperties
<1> QED BY <1>1, <1>2 DEF Thinner

\* What is left of a sequence without its nth element.
LEMMA RemoveAtIndexes ==
  ASSUME NEW S, NEW t \in Seq(S), NEW n \in DOMAIN t
  PROVE  /\ RemoveAt(t, n) \in Seq(S) /\ Len(t) \in Nat /\ n \in 1 .. Len(t)
         /\ Len(RemoveAt(t, n)) = Len(t) - 1 /\ DOMAIN RemoveAt(t, n) = 1 .. Len(t) - 1
         /\ \A i \in DOMAIN RemoveAt(t, n) :
              /\ i <= n - 1 => RemoveAt(t, n)[i] = t[i] /\ i \in DOMAIN t
              /\ i >= n => RemoveAt(t, n)[i] = t[i + 1] /\ i + 1 \in DOMAIN t
<1> DEFINE a == SubSeq(t, 1, n - 1)
           b == SubSeq(t, n + 1, Len(t))
           c == a \o b
<1>1. Len(t) \in Nat /\ DOMAIN t = 1 .. Len(t) /\ n \in 1 .. Len(t)
  BY LenProperties
<1>2. /\ a \in Seq(S) /\ Len(a) = n - 1
      /\ \A i \in 1 .. n - 1 : a[i] = t[i]
  <2>1. \A i \in 1 .. n - 1 : t[i] \in S
    BY <1>1, ElementOfSeq
  <2> QED BY <1>1, <2>1, SubSeqProperties
<1>3. /\ b \in Seq(S) /\ Len(b) = Len(t) - n
      /\ \A i \in 1 .. Len(t) - n : b[i] = t[n + i]
  <2>1. \A i \in n + 1 .. Len(t) : t[i] \in S
    BY <1>1, ElementOfSeq
  <2> QED BY <1>1, <2>1, SubSeqProperties, SMTT(30)
<1>4. /\ c \in Seq(S) /\ Len(c) = Len(a) + Len(b)
      /\ \A i \in 1 .. Len(a) + Len(b) : c[i] = IF i <= Len(a) THEN a[i] ELSE b[i - Len(a)]
  BY <1>2, <1>3, ConcatProperties
<1>5. RemoveAt(t, n) = c
  BY DEF RemoveAt
<1> HIDE DEF a, b, c
<1>6. DOMAIN c = 1 .. Len(t) - 1
  <2>1. DOMAIN c = 1 .. Len(c)
    BY <1>4, LenProperties
  <2> QED BY <1>1, <1>2, <1>3, <1>4, <2>1
<1>7. \A i \in DOMAIN c : /\ i <= n - 1 => c[i] = t[i] /\ i \in DOMAIN t
                          /\ i >= n => c[i] = t[i + 1] /\ i + 1 \in DOMAIN t
  <2> SUFFICES ASSUME NEW i \in 1 .. Len(t) - 1
               PROVE  /\ i <= n - 1 => c[i] = t[i] /\ i \in DOMAIN t
                      /\ i >= n => c[i] = t[i + 1] /\ i + 1 \in DOMAIN t
    BY <1>6
  <2>1. i \in 1 .. Len(a) + Len(b)
    BY <1>1, <1>2, <1>3
  <2>2. CASE i <= n - 1
    BY <1>1, <1>2, <1>4, <2>1, <2>2
  <2>3. CASE i >= n
    <3>1. ~ (i <= Len(a))
      BY <1>1, <1>2, <2>3
    <3>2. c[i] = b[i - (n - 1)]
      BY <1>2, <1>4, <2>1, <3>1
    <3>3. PICK k \in 1 .. Len(t) - n : k = i - (n - 1)
      BY <1>1, <2>3
    <3>4. b[k] = t[n + k] /\ n + k = i + 1
      BY <1>1, <1>3, <3>3
    <3> QED BY <1>1, <2>3, <3>2, <3>3, <3>4
  <2> QED BY <1>1, <2>2, <2>3
<1>8. Len(c) = Len(t) - 1
  BY <1>1, <1>2, <1>3, <1>4
<1> QED BY <1>1, <1>4, <1>5, <1>6, <1>7, <1>8, Zenon

\* ... and without any other.
LEMMA RemoveIsThinner ==
  ASSUME NEW t \in Seq(ModelRequests), NEW n \in DOMAIN t
  PROVE  Thinner(RemoveAt(t, n), t)
<1> DEFINE c == RemoveAt(t, n)
<1>1. /\ c \in Seq(ModelRequests) /\ Len(t) \in Nat /\ n \in 1 .. Len(t)
      /\ DOMAIN c = 1 .. Len(t) - 1
      /\ \A i \in DOMAIN c : /\ i <= n - 1 => c[i] = t[i] /\ i \in DOMAIN t
                             /\ i >= n => c[i] = t[i + 1] /\ i + 1 \in DOMAIN t
  BY RemoveAtIndexes
<1> HIDE DEF c
<1>2. ASSUME NEW i \in DOMAIN c, NEW j \in DOMAIN c, i <= j
      PROVE  \E k, l \in DOMAIN t : k <= l /\ c[i] = t[k] /\ c[j] = t[l]
  <2>0. i \in Nat /\ j \in Nat /\ n \in Nat
    BY <1>1
  <2>1. CASE j <= n - 1
    BY <1>1, <1>2, <2>0, <2>1
  <2>2. CASE i <= n - 1 /\ j >= n
    <3>1. c[i] = t[i] /\ i \in DOMAIN t /\ c[j] = t[j + 1] /\ j + 1 \in DOMAIN t
      BY <1>1, <2>2
    <3> QED BY <1>2, <2>0, <3>1
  <2>3. CASE i >= n
    <3>1. c[i] = t[i + 1] /\ i + 1 \in DOMAIN t /\ c[j] = t[j + 1] /\ j + 1 \in DOMAIN t
      BY <1>1, <1>2, <2>0, <2>3
    <3> QED BY <1>2, <2>0, <3>1
  <2> QED BY <2>0, <2>1, <2>2, <2>3
<1> QED BY <1>1, <1>2 DEF Thinner, c

\* What the server has still to take may become less.
LEMMA ThinnerKeeps ==
  ASSUME PlayerInv, Thinner(toServer', toServer), request' = request, sends' = sends
  PROVE  InOrder' /\ (plays' = plays => PlaysOK') /\ (plays' = plays /\ (game' = game \/ game' = Nothing) => Known')
<1>1. \A i \in DOMAIN toServer' : \E k \in DOMAIN toServer : toServer'[i] = toServer[k]
  BY DEF Thinner, PlayerInv, PlayerTypes
<1>2. InOrder'
  BY <1>1 DEF PlayerInv, InOrder, Thinner
<1>3. plays' = plays => PlaysOK'
  BY <1>1 DEF PlayerInv, PlaysOK
<1>4. plays' = plays /\ (game' = game \/ game' = Nothing) => Known'
  BY <1>1 DEF PlayerInv, Known, CopyIsKnown
<1> QED BY <1>2, <1>3, <1>4

------------------------------------------------------------------------------
\* The elements of a sequence and of one more.
LEMMA AppendIndexes ==
  ASSUME NEW S, NEW t \in Seq(S), NEW r \in S
  PROVE  /\ Append(t, r) \in Seq(S)
         /\ Len(t) \in Nat /\ DOMAIN t = 1 .. Len(t)
         /\ DOMAIN Append(t, r) = 1 .. Len(t) + 1
         /\ \A i \in DOMAIN t : Append(t, r)[i] = t[i]
         /\ Append(t, r)[Len(t) + 1] = r
BY AppendProperties, LenProperties

\* One more copy of the request that the client waits for, or of a new one.
LEMMA SendKeeps ==
  ASSUME PlayerInv, sends' # 0, request' \in ModelRequests,
         toServer' = Append(toServer, request'), plays' = plays, game' = game,
         \/ sends # 0 /\ request' = request
         \/ request'.cmd > commands
  PROVE  InOrder' /\ PlaysOK' /\ Known' /\ toServer' \in Seq(ModelRequests)
<1>1. /\ toServer' \in Seq(ModelRequests)
      /\ Len(toServer) \in Nat /\ DOMAIN toServer = 1 .. Len(toServer)
      /\ DOMAIN toServer' = 1 .. Len(toServer) + 1
      /\ \A i \in DOMAIN toServer : toServer'[i] = toServer[i]
      /\ toServer'[Len(toServer) + 1] = request'
  BY AppendIndexes DEF PlayerInv, PlayerTypes
<1>2. commands \in Nat /\ request'.cmd \in Nat /\ (sends # 0 => request.cmd \in Nat /\ request.cmd <= commands)
  BY DEF PlayerInv, PlayerTypes, ModelRequests
<1>3. \A i \in DOMAIN toServer : toServer[i].cmd \in Nat
  <2>1. \A i \in DOMAIN toServer : toServer[i] \in ModelRequests
    BY <1>1, ElementOfSeq DEF PlayerInv, PlayerTypes
  <2> QED BY <2>1 DEF ModelRequests
<1>4. \A i \in DOMAIN toServer :
        /\ toServer[i].cmd <= request'.cmd
        /\ toServer[i].cmd = request'.cmd => toServer[i] = request'
  BY <1>2, <1>3 DEF PlayerInv, InOrder
<1>5. \A i \in DOMAIN toServer' : \/ i \in DOMAIN toServer /\ toServer'[i] = toServer[i]
                                  \/ i = Len(toServer) + 1 /\ toServer'[i] = request'
  BY <1>1
<1>6. InOrder'
  <2>1. \A i \in DOMAIN toServer' :
          /\ toServer'[i].cmd <= request'.cmd
          /\ toServer'[i].cmd = request'.cmd => toServer'[i] = request'
    BY <1>2, <1>4, <1>5
  <2>2. ASSUME NEW i \in DOMAIN toServer', NEW j \in DOMAIN toServer'
        PROVE  /\ i <= j => toServer'[i].cmd <= toServer'[j].cmd
               /\ toServer'[i].cmd = toServer'[j].cmd => toServer'[i] = toServer'[j]
    <3>1. CASE i \in DOMAIN toServer /\ j \in DOMAIN toServer
      BY <1>1, <3>1 DEF PlayerInv, InOrder
    <3>2. CASE j = Len(toServer) + 1
      BY <1>1, <2>1, <3>2
    <3>3. CASE i = Len(toServer) + 1 /\ j \in DOMAIN toServer
      <4>1. ~ (i <= j)
        BY <1>1, <3>3
      <4> QED BY <1>1, <2>1, <3>3, <4>1
    <3> QED BY <1>5, <3>1, <3>2, <3>3
  <2> QED BY <2>1, <2>2 DEF InOrder
<1>7. \A i \in DOMAIN plays : plays[i] \in Nat /\ plays[i] <= request'.cmd
  <2>1. \A i \in DOMAIN plays : plays[i] \in Nat
    BY ElementOfSeq, LenProperties DEF PlayerInv, PlayerTypes
  <2> QED BY <1>2, <2>1 DEF PlayerInv, PlaysOK
<1>8. PlaysOK'
  BY <1>5, <1>7 DEF PlayerInv, PlaysOK
<1>9. CopyIsKnown(request)' 
  BY <1>2, <1>7 DEF PlayerInv, PlaysOK, Known, CopyIsKnown
<1>10. Known'
  BY <1>5, <1>9 DEF PlayerInv, Known, CopyIsKnown
<1> QED BY <1>1, <1>6, <1>8, <1>10

------------------------------------------------------------------------------
\* The invariant holds at the start.
LEMMA PlayerInitInv == PlayerInit => PlayerInv
<1> SUFFICES ASSUME PlayerInit PROVE PlayerInv
  OBVIOUS
<1>1. DOMAIN toServer = {} /\ DOMAIN plays = {} /\ toServer \in Seq(ModelRequests) /\ plays \in Seq(Nat)
  BY EmptySeq DEF PlayerInit
<1> QED BY <1>1 DEF PlayerInit, PlayerInv, PlayerTypes, InOrder, PlaysOK, Known

\* A command of the user: its number is new.
LEMMA AskServerKeeps ==
  ASSUME PlayerInv, NEW r \in ModelRequests, r.cmd = Command, AskServer(r)
  PROVE  PlayerInv'
<1>1. r.cmd > commands /\ commands \in Nat /\ trial \in Nat /\ commands' = commands + 1
  BY DEF AskServer, Command, PlayerInv, PlayerTypes
<1>2. InOrder' /\ PlaysOK' /\ Known' /\ toServer' \in Seq(ModelRequests)
  BY <1>1, SendKeeps DEF AskServer, server
<1>3. PlayerTypes'
  BY <1>1, <1>2 DEF AskServer, Command, server, PlayerInv, PlayerTypes
<1> QED BY <1>2, <1>3 DEF PlayerInv

\* What a command of the user asks, and when.
LEMMA UserAsks ==
  ASSUME PlayerInv, User
  PROVE  \/ Exit \/ ShowTrials
         \/ \E r \in ModelRequests :
              /\ AskServer(r) /\ r.cmd = Command /\ client = "ready" /\ commands < MaxCommands
              /\ \/ r.kind \in Starts /\ ~inGame /\ inGame' = inGame
                 \/ r.kind = "TRY" /\ r.nT = trial + 1 /\ inGame /\ inGame' = inGame
                 \/ r.kind = "QUT" /\ inGame' = FALSE
<1>0. commands \in Nat /\ Command \in Nat /\ trial + 1 \in Nat
  BY DEF PlayerInv, PlayerTypes, Command
<1>1. CASE Start
  <2>1. PICK r : r = [cmd |-> Command, kind |-> "SNG", keys |-> Guesses]
    OBVIOUS
  <2>2. r \in ModelRequests /\ r.cmd = Command /\ r.kind = "SNG"
    BY <1>0, <2>1 DEF ModelRequests
  <2>3. AskServer(r) /\ May /\ ~inGame /\ inGame' = inGame
    BY <1>1, <2>1 DEF Start
  <2> QED BY <2>2, <2>3 DEF May, Starts
<1>2. CASE Debug
  <2>1. PICK key \in Guesses :
          May /\ ~inGame /\ AskServer([cmd |-> Command, kind |-> "DBG", keys |-> {key}]) /\ UNCHANGED inGame
    BY <1>2 DEF Debug
  <2>2. PICK r : r = [cmd |-> Command, kind |-> "DBG", keys |-> {key}]
    OBVIOUS
  <2>3. r \in ModelRequests /\ r.cmd = Command /\ r.kind = "DBG"
    BY <1>0, <2>2 DEF ModelRequests
  <2> QED BY <2>1, <2>2, <2>3 DEF May, Starts
<1>3. CASE Try
  <2>1. PICK guess \in Guesses :
          May /\ inGame /\ AskServer([cmd |-> Command, kind |-> "TRY", guess |-> guess, nT |-> trial + 1])
            /\ UNCHANGED inGame
    BY <1>3 DEF Try
  <2>2. PICK r : r = [cmd |-> Command, kind |-> "TRY", guess |-> guess, nT |-> trial + 1]
    OBVIOUS
  <2>3. r \in ModelRequests /\ r.cmd = Command /\ r.kind = "TRY" /\ r.nT = trial + 1
    BY <1>0, <2>2 DEF ModelRequests
  <2> QED BY <2>1, <2>2, <2>3 DEF May
<1>4. CASE Quit
  <2>1. PICK exit \in BOOLEAN :
          May /\ inGame /\ AskServer([cmd |-> Command, kind |-> "QUT", exit |-> exit]) /\ inGame' = FALSE
    BY <1>4 DEF Quit
  <2>2. PICK r : r = [cmd |-> Command, kind |-> "QUT", exit |-> exit]
    OBVIOUS
  <2>3. r \in ModelRequests /\ r.cmd = Command /\ r.kind = "QUT"
    BY <1>0, <2>2 DEF ModelRequests
  <2> QED BY <2>1, <2>2, <2>3 DEF May
<1> QED BY <1>1, <1>2, <1>3, <1>4 DEF User

\* Every command of the user keeps the invariant.
LEMMA UserKeeps == ASSUME PlayerInv, User PROVE PlayerInv'
<1>0. commands \in Nat
  BY DEF PlayerInv, PlayerTypes
<1>1. ASSUME NEW r \in ModelRequests, AskServer(r), r.cmd = Command PROVE PlayerInv'
  BY <1>1, AskServerKeeps
<1>2. CASE Exit
  BY <1>2 DEF Exit, net, server, playerGhosts, PlayerInv, PlayerTypes, InOrder, PlaysOK, Known, CopyIsKnown
<1>3. CASE ShowTrials
  <2>1. /\ commands' = commands + 1 /\ (game' = game \/ game' = Nothing)
        /\ UNCHANGED <<client, isPlidSet, trial, request, sends, toServer, toClient, timeUp, plays, late, shown>>
    BY <1>3 DEF ShowTrials, net
  <2>2. PlayerTypes'
    <3>1. sends # 0 => request.cmd <= commands + 1
      <4>1. sends # 0 => request.cmd \in Nat
        BY DEF PlayerInv, PlayerTypes, ModelRequests
      <4> QED BY <1>0, <4>1 DEF PlayerInv, PlayerTypes
    <3> QED BY <1>0, <2>1, <3>1 DEF PlayerInv, PlayerTypes
  <2>3. InOrder' /\ PlaysOK' /\ Known'
    BY <2>1 DEF PlayerInv, InOrder, PlaysOK, Known, CopyIsKnown
  <2> QED BY <2>2, <2>3 DEF PlayerInv
<1> QED BY <1>1, <1>2, <1>3, UserAsks

\* So does a request that is sent again.
LEMMA ResendKeeps == ASSUME PlayerInv, Resend PROVE PlayerInv'
<1>1. sends # 0 /\ sends \in Nat /\ sends' = sends + 1 /\ request \in ModelRequests
  BY DEF PlayerInv, PlayerTypes, Resend
<1>2. sends' # 0
  BY <1>1
<1>3. InOrder' /\ PlaysOK' /\ Known' /\ toServer' \in Seq(ModelRequests)
  BY <1>1, <1>2, SendKeeps DEF Resend, server
<1>4. PlayerTypes'
  BY <1>1, <1>2, <1>3 DEF Resend, server, PlayerInv, PlayerTypes
<1> QED BY <1>3, <1>4 DEF PlayerInv

\* Losses, the passing of time, giving up.
LEMMA NetworkKeeps == ASSUME PlayerInv, GiveUp \/ Lose \/ TimePasses PROVE PlayerInv'
<1>1. CASE GiveUp
  BY <1>1 DEF GiveUp, net, server, PlayerInv, PlayerTypes, InOrder, PlaysOK, Known, CopyIsKnown
<1>2. CASE Lose
  <2>1. CASE toServer' = toServer
    BY <1>2, <2>1 DEF Lose, player, server, playerGhosts, PlayerInv, PlayerTypes, InOrder, PlaysOK, Known, CopyIsKnown
  <2>2. CASE \E i \in DOMAIN toServer : toServer' = RemoveAt(toServer, i)
    <3>1. Thinner(toServer', toServer)
      BY <2>2, RemoveIsThinner DEF PlayerInv, PlayerTypes
    <3>2. UNCHANGED <<player, server, playerGhosts>>
      BY <1>2 DEF Lose
    <3>3. InOrder' /\ PlaysOK' /\ Known'
      BY <3>1, <3>2, ThinnerKeeps DEF player, server, playerGhosts
    <3>4. PlayerTypes'
      BY <3>1, <3>2 DEF player, server, playerGhosts, PlayerInv, PlayerTypes, Thinner
    <3> QED BY <3>3, <3>4 DEF PlayerInv
  <2> QED BY <1>2, <2>1, <2>2 DEF Lose
<1>3. CASE TimePasses
  BY <1>3 DEF TimePasses, player, net, playerGhosts, PlayerInv, PlayerTypes, InOrder, PlaysOK, Known, CopyIsKnown
<1> QED BY <1>1, <1>2, <1>3

\* The answers that reach the client change nothing that the server sees.
LEMMA ReceiveKeeps ==
  ASSUME PlayerInv, NEW kinds, Receive(kinds), client' \in {"ready", "over"}, trial' \in Nat
  PROVE  PlayerInv'
BY DEF Receive, server, PlayerInv, PlayerTypes, InOrder, PlaysOK, Known, CopyIsKnown

\* ... every step of the client,
LEMMA ClientKeeps == ASSUME PlayerInv, ClientNext PROVE PlayerInv'
<1>0. trial \in Nat /\ trial + 1 \in Nat
  BY DEF PlayerInv, PlayerTypes
<1>1. CASE BadResponse
  BY <1>0, <1>1, ReceiveKeeps DEF BadResponse
<1>2. CASE Started
  BY <1>0, <1>2, ReceiveKeeps DEF Started
<1>3. CASE HasQuit
  BY <1>0, <1>3, ReceiveKeeps DEF HasQuit
<1>4. CASE Refused
  BY <1>0, <1>4, ReceiveKeeps DEF Refused
<1>5. CASE Accepted
  BY <1>0, <1>5, ReceiveKeeps DEF Accepted
<1> QED BY <1>1, <1>2, <1>3, <1>4, <1>5, ResendKeeps, NetworkKeeps DEF ClientNext

------------------------------------------------------------------------------
\* The server takes the first datagram: what is left is thinner and not earlier.
LEMMA ServeFacts ==
  ASSUME PlayerInv, toServer # <<>>, NEW answer, Serve(answer)
  PROVE  /\ toServer' = Tail(toServer) /\ Thinner(toServer', toServer)
         /\ Head(toServer) \in ModelRequests /\ Head(toServer).cmd \in Nat
         /\ \E k \in DOMAIN toServer : Head(toServer) = toServer[k]
         /\ \A i \in DOMAIN toServer' :
              /\ toServer'[i].cmd \in Nat /\ Head(toServer).cmd <= toServer'[i].cmd
              /\ toServer'[i].cmd = Head(toServer).cmd => toServer'[i] = Head(toServer)
         /\ sends # 0 /\ request.cmd \in Nat /\ Head(toServer).cmd <= request.cmd
         /\ request.cmd = Head(toServer).cmd => request = Head(toServer)
         /\ UNCHANGED <<client, trial, request, sends, commands>>
<1>1. toServer \in Seq(ModelRequests) /\ toServer' = Tail(toServer)
  BY DEF Serve, PlayerInv, PlayerTypes
<1>2. /\ Thinner(Tail(toServer), toServer)
      /\ 1 \in DOMAIN toServer /\ Head(toServer) = toServer[1] /\ Head(toServer) \in ModelRequests
      /\ \A i \in DOMAIN Tail(toServer) : i + 1 \in DOMAIN toServer /\ Tail(toServer)[i] = toServer[i + 1]
  BY <1>1, TailIsThinner
<1>3. UNCHANGED <<client, trial, request, sends, commands>>
  BY DEF Serve, player
<1>4. sends # 0 /\ request.cmd \in Nat /\ Head(toServer).cmd \in Nat
  BY <1>2 DEF PlayerInv, InOrder, PlayerTypes, ModelRequests
<1>5. /\ Head(toServer).cmd <= request.cmd
      /\ request.cmd = Head(toServer).cmd => request = Head(toServer)
  BY <1>2 DEF PlayerInv, InOrder
<1>6. \A i \in DOMAIN toServer' :
        /\ toServer'[i].cmd \in Nat /\ Head(toServer).cmd <= toServer'[i].cmd
        /\ toServer'[i].cmd = Head(toServer).cmd => toServer'[i] = Head(toServer)
  <2> SUFFICES ASSUME NEW i \in DOMAIN toServer'
      PROVE  /\ toServer'[i].cmd \in Nat /\ toServer[1].cmd <= toServer'[i].cmd
             /\ toServer'[i].cmd = toServer[1].cmd => toServer'[i] = toServer[1]
    BY <1>2
  <2>1. i + 1 \in DOMAIN toServer /\ toServer'[i] = toServer[i + 1] /\ toServer' \in Seq(ModelRequests)
    BY <1>1, <1>2 DEF Thinner
  <2>2. i \in Nat \ {0} /\ 1 <= i + 1 /\ toServer'[i] \in ModelRequests
    BY <2>1, LenProperties, ElementOfSeq
  <2>3. toServer'[i].cmd \in Nat
    BY <2>2 DEF ModelRequests
  <2> QED BY <1>2, <2>1, <2>2, <2>3 DEF PlayerInv, InOrder
<1> QED BY <1>1, <1>2, <1>3, <1>4, <1>5, <1>6

\* The number of a play is the next one.
LEMMA PlayIsNext ==
  ASSUME NEW trials, NEW guess, NEW nT, TryKind(trials, guess, nT) = "PLAY"
  PROVE  nT = Len(trials) + 1
BY DEF TryKind

\* ... and every step of the server: only a request that is no copy of an earlier one is a play.
LEMMA ServerKeeps == ASSUME PlayerInv, ServerNext PROVE PlayerInv'
<1>0. plays \in Seq(Nat) /\ (game # Nothing => game \in ModelGames)
  BY DEF PlayerInv, PlayerTypes
<1>1. ASSUME toServer # <<>>, NEW answer, Serve(answer), plays' = plays,
             \/ game' = game
             \/ game' = Nothing
             \/ Head(toServer).kind # "TRY" /\ game' \in ModelGames
      PROVE  PlayerInv'
  <2>1. PlayerTypes'
    BY <1>0, <1>1, ServeFacts DEF PlayerInv, PlayerTypes, Thinner
  <2>2. InOrder' /\ PlaysOK'
    BY <1>1, ServeFacts, ThinnerKeeps
  <2>3. CASE game' = game \/ game' = Nothing
    BY <1>1, <2>1, <2>2, <2>3, ServeFacts, ThinnerKeeps DEF PlayerInv
  <2>4. CASE Head(toServer).kind # "TRY"
    <3>1. \A i \in DOMAIN plays : plays[i] \in Nat /\ plays[i] <= Head(toServer).cmd /\ Head(toServer).cmd # plays[i]
      <4>1. PICK k \in DOMAIN toServer : Head(toServer) = toServer[k]
        BY <1>1, ServeFacts
      <4>2. \A i \in DOMAIN plays : plays[i] \in Nat
        BY <1>0, ElementOfSeq, LenProperties
      <4> QED BY <2>4, <4>1, <4>2 DEF PlayerInv, PlaysOK, Known, CopyIsKnown
    <3>2. \A i \in DOMAIN plays :
            /\ request.cmd # plays[i]
            /\ \A k \in DOMAIN toServer' : toServer'[k].cmd # plays[i]
      BY <1>1, <3>1, ServeFacts
    <3>3. Known'
      BY <1>1, <3>2, ServeFacts DEF Known, CopyIsKnown
    <3> QED BY <2>1, <2>2, <3>3 DEF PlayerInv
  <2> QED BY <1>1, <2>3, <2>4
<1>2. ASSUME NEW kind \in {"SNG", "DBG"}, ServeStart(kind) PROVE PlayerInv'
  <2>1. toServer # <<>> /\ Head(toServer).kind = kind /\ plays' = plays
    BY <1>2 DEF ServeStart, Asked
  <2>2. CASE Serve(Answers(Reply(kind), "NOK")) /\ UNCHANGED <<server, plays>>
    BY <1>1, <2>1, <2>2 DEF server
  <2>3. CASE /\ Serve(Answers(Reply(kind), "OK"))
             /\ \E key \in Head(toServer).keys :
                  game' = [cmd |-> Head(toServer).cmd, key |-> key, trials |-> <<>>, end |-> NoEnd,
                           start |-> 0, dur |-> 0]
    <3>1. Head(toServer) \in ModelRequests
      BY <2>1, <2>3, ServeFacts
    <3>2. Head(toServer).cmd \in Nat /\ Head(toServer).keys \subseteq Guesses /\ Head(toServer).kind # "TRY"
      BY <2>1, <3>1 DEF ModelRequests
    <3>3. game' \in ModelGames
      BY <2>3, <3>2, EmptySeq DEF ModelGames
    <3> QED BY <1>1, <2>1, <2>3, <3>2, <3>3
  <2> QED BY <1>2, <2>2, <2>3 DEF ServeStart
<1>3. CASE ServeQuit
  BY <1>1, <1>3 DEF ServeQuit, Asked
<1>4. CASE ServeTryNoGame
  BY <1>1, <1>4 DEF ServeTryNoGame, Asked
<1>5. CASE ServeNoPlay
  BY <1>1, <1>5 DEF ServeNoPlay, Asked, server
<1>6. CASE ServePlay
  <2> DEFINE h == Head(toServer)
             played == [game EXCEPT !.trials = Append(@, h.guess)]
  <2>1. PICK answer : Serve(answer)
    BY <1>6 DEF ServePlay
  <2>2. toServer # <<>> /\ h.kind = "TRY" /\ game # Nothing /\ TryKind(game.trials, h.guess, h.nT) = "PLAY"
    BY <1>6 DEF ServePlay, Asked
  <2>3. (game' = played \/ game' = Nothing) /\ plays' = Append(plays, h.cmd)
    BY <1>6 DEF ServePlay
  <2>4. h \in ModelRequests /\ h.cmd \in Nat /\ h.guess \in Guesses /\ h.nT \in Nat
    BY <2>1, <2>2, ServeFacts DEF ModelRequests
  <2>5. game \in ModelGames /\ game.trials \in Seq(Guesses) /\ Len(game.trials) \in Nat
    BY <1>0, <2>2, LenProperties DEF ModelGames
  <2>6. played \in ModelGames /\ Len(played.trials) = h.nT
    <3>1. h.nT = Len(game.trials) + 1
      BY <2>2, PlayIsNext
    <3>2. Append(game.trials, h.guess) \in Seq(Guesses)
          /\ Len(Append(game.trials, h.guess)) = Len(game.trials) + 1
      BY <2>4, <2>5, AppendProperties
    <3> QED BY <2>5, <3>1, <3>2 DEF ModelGames
  <2>7. /\ plays' \in Seq(Nat)
        /\ Len(plays) \in Nat /\ DOMAIN plays = 1 .. Len(plays)
        /\ DOMAIN plays' = 1 .. Len(plays) + 1
        /\ \A i \in DOMAIN plays : plays'[i] = plays[i] /\ plays[i] \in Nat
        /\ plays'[Len(plays) + 1] = h.cmd
    <3>1. \A i \in DOMAIN plays : plays[i] \in Nat
      BY <1>0, ElementOfSeq, LenProperties
    <3> QED BY <1>0, <2>3, <2>4, <3>1, AppendIndexes
  <2>8. \A i \in DOMAIN plays : plays[i] < h.cmd
    <3>1. PICK k \in DOMAIN toServer : h = toServer[k]
      BY <2>1, <2>2, ServeFacts
    <3>2. h.nT # Len(game.trials)
      BY <2>2, <2>5, PlayIsNext
    <3>3. \A i \in DOMAIN plays : plays[i] <= h.cmd /\ h.cmd # plays[i]
      BY <2>2, <3>1, <3>2 DEF PlayerInv, PlaysOK, Known, CopyIsKnown
    <3> QED BY <2>4, <2>7, <3>3
  <2> HIDE DEF h, played
  <2>9. PlayerTypes' /\ InOrder'
    BY <1>0, <2>1, <2>2, <2>3, <2>6, <2>7, ServeFacts, ThinnerKeeps, ZenonT(30) DEF PlayerInv, PlayerTypes, Thinner
  <2>10. /\ sends' # 0 /\ request'.cmd \in Nat /\ h.cmd <= request'.cmd
         /\ request'.cmd = h.cmd => request' = h
         /\ \A i \in DOMAIN toServer' :
              /\ toServer'[i].cmd \in Nat /\ h.cmd <= toServer'[i].cmd
              /\ toServer'[i].cmd = h.cmd => toServer'[i] = h
    BY <2>1, <2>2, ServeFacts DEF h
  <2>11. \A i \in DOMAIN plays' : i \in DOMAIN plays \/ i = Len(plays) + 1
    BY <2>7
  <2>12. \A i \in DOMAIN plays' : plays'[i] \in Nat /\ plays'[i] <= h.cmd
    BY <2>4, <2>7, <2>8, <2>11
  <2>13. PlaysOK'
    <3>1. ASSUME NEW i \in DOMAIN plays', NEW j \in DOMAIN plays', i < j PROVE plays'[i] < plays'[j]
      <4>1. i \in DOMAIN plays
        BY <2>7, <3>1
      <4>2. CASE j \in DOMAIN plays
        BY <2>7, <3>1, <4>1, <4>2 DEF PlayerInv, PlaysOK
      <4>3. CASE j = Len(plays) + 1
        BY <2>7, <2>8, <4>1, <4>3
      <4> QED BY <2>11, <4>2, <4>3
    <3> QED BY <2>4, <2>10, <2>12, <3>1 DEF PlaysOK
  <2>14. ASSUME NEW m, m.cmd \in Nat, h.cmd <= m.cmd, m.cmd = h.cmd => m = h, NEW i \in DOMAIN plays', m.cmd = plays'[i]
         PROVE  m.kind = "TRY" /\ (game' # Nothing => m.nT = Len(game'.trials))
    <3>1. m = h
      BY <2>4, <2>12, <2>14
    <3> QED BY <2>2, <2>3, <2>6, <3>1
  <2>15. Known'
    BY <2>10, <2>14 DEF Known, CopyIsKnown
  <2> QED BY <2>9, <2>13, <2>15 DEF PlayerInv
<1> QED BY <1>2, <1>3, <1>4, <1>5, <1>6 DEF ServerNext

\* The invariant of the trials.
LEMMA PlayerInvariance == PlayerSpec => []PlayerInv
<1>1. PlayerInv /\ [PlayerNext]_playerVars => PlayerInv'
  <2> SUFFICES ASSUME PlayerInv, [PlayerNext]_playerVars PROVE PlayerInv'
    OBVIOUS
  <2>1. CASE UNCHANGED playerVars
    BY <2>1 DEF playerVars, player, net, server, playerGhosts, PlayerInv, PlayerTypes, InOrder, PlaysOK, Known, CopyIsKnown
  <2> QED BY <2>1, UserKeeps, ServerKeeps, ClientKeeps, NetworkKeeps DEF PlayerNext
<1> QED BY <1>1, PlayerInitInv, PTL DEF PlayerSpec

\* A try is one trial, however often it is sent: no two trials, of one game or of two,
\* are of the same command.
THEOREM TriesAreCountedOnce == PlayerSpec => []TriesCountOnce
<1>1. PlayerInv => TriesCountOnce
  <2> SUFFICES ASSUME PlayerInv, NEW i \in DOMAIN plays, NEW j \in DOMAIN plays, plays[i] = plays[j] PROVE i = j
    BY DEF TriesCountOnce
  <2>1. i \in Nat /\ j \in Nat /\ plays[i] \in Nat /\ plays[j] \in Nat
    BY ElementOfSeq, LenProperties DEF PlayerInv, PlayerTypes
  <2>2. ~ (i < j) /\ ~ (j < i)
    BY <2>1 DEF PlayerInv, PlaysOK
  <2> QED BY <2>1, <2>2
<1> QED BY <1>1, PlayerInvariance, PTL

------------------------------------------------------------------------------
(* The comparison of a guess with the key, which is a fold over the positions, is the *)
(* one that the game defines, which is a sum over the colors.  What a fold computes   *)
(* is told by the least set, or the least number, for which it would be wrong.        *)

\* Induction over numbers.
LEMMA LeastExists ==
  ASSUME NEW T \in SUBSET Nat, T # {}
  PROVE  \E x \in T : \A y \in T : x <= y
<1> DEFINE R == {ss \in Nat \X Nat : ss[1] < ss[2]}
<1>1. IsWellFoundedOn(R, Nat)
  BY NatLessThanWellFounded, Zenon DEF OpToRel
<1>2. \E x \in T : \A y \in T : ~(<<y, x>> \in R)
  BY <1>1, WFMin
<1>3. \A x, y \in T : <<y, x>> \in R <=> y < x
  OBVIOUS
<1>4. \A x, y \in T : ~(y < x) => x <= y
  OBVIOUS
<1> HIDE DEF R
<1> QED BY <1>2, <1>3, <1>4

LEMMA MaxOfPositions ==
  ASSUME NEW n \in Nat, NEW s \in SUBSET (1 .. n), s # {}
  PROVE  Max(s) \in s /\ \A y \in s : y <= Max(s)
<1> DEFINE T == {n - m : m \in s}
<1>1. PICK x \in T : \A y \in T : x <= y
  <2>1. \A m \in s : n - m \in Nat
    OBVIOUS
  <2>2. T \in SUBSET Nat /\ T # {}
    BY <2>1
  <2> HIDE DEF T
  <2> QED BY <2>2, LeastExists
<1>2. PICK m \in s : x = n - m
  BY <1>1
<1>3. \A y \in s : m >= y
  BY <1>1, <1>2
<1>4. \E z \in s : \A y \in s : z >= y
  BY <1>3
<1> QED BY <1>4 DEF Max

\* The mask of game::compare after position i of the guess.
Takes(key, guess, mask, i) ==
  LET free == {j \in Positions \ mask : key[j] = guess[i]}
  IN IF i \in Blacks(key, guess) \/ free = {} THEN mask
     ELSE mask \cup {CHOOSE j \in free : \A k \in free : j <= k}

\* The masks after the positions of s, for each s below k.
Masks(key, guess, k, f) ==
  \A s \in SUBSET (1 .. k) :
    f[s] = IF s = {} THEN Blacks(key, guess) ELSE Takes(key, guess, f[s \ {Max(s)}], Max(s))

\* It takes at most one position of the key, a free one with the color of the guess.
TakesAtMostOne(key, guess, mask, i, next) ==
  \/ /\ i \in Blacks(key, guess) \/ \A j \in Positions \ mask : key[j] # guess[i]
     /\ next = mask
  \/ /\ i \notin Blacks(key, guess)
     /\ \E j \in Positions \ mask : key[j] = guess[i] /\ next = mask \cup {j}

LEMMA TakesOne ==
  ASSUME NEW key, NEW guess, NEW mask \in SUBSET Positions, NEW i \in Positions
  PROVE  TakesAtMostOne(key, guess, mask, i, Takes(key, guess, mask, i))
<1> DEFINE free == {j \in Positions \ mask : key[j] = guess[i]}
           first == CHOOSE j \in free : \A k \in free : j <= k
<1>1. CASE i \in Blacks(key, guess) \/ free = {}
  BY <1>1 DEF Takes, TakesAtMostOne
<1>2. CASE ~(i \in Blacks(key, guess) \/ free = {})
  <2>1. free \in SUBSET Nat
    BY DEF Positions
  <2>2. \E j \in free : \A k \in free : j <= k
    <3> HIDE DEF free
    <3> QED BY <1>2, <2>1, LeastExists
  <2>3. first \in free
    <3> HIDE DEF free
    <3> QED BY <2>2
  <2>4. Takes(key, guess, mask, i) = mask \cup {first}
    BY <1>2 DEF Takes
  <2> QED BY <1>2, <2>3, <2>4 DEF TakesAtMostOne
<1> QED BY <1>1, <1>2

LEMMA MasksExist ==
  ASSUME NEW key, NEW guess, NEW k \in 0 .. GuessSize
  PROVE  \E f \in [SUBSET (1 .. k) -> SUBSET Positions] : Masks(key, guess, k, f)
<1> DEFINE Good(n) == \E f \in [SUBSET (1 .. n) -> SUBSET Positions] : Masks(key, guess, n, f)
           Bad == {n \in 0 .. GuessSize : ~Good(n)}
<1>1. Good(0)
  <2> DEFINE f == [s \in SUBSET (1 .. 0) |-> Blacks(key, guess)]
  <2>1. f \in [SUBSET (1 .. 0) -> SUBSET Positions]
    BY DEF Blacks
  <2>2. \A s \in SUBSET (1 .. 0) : s = {}
    OBVIOUS
  <2>3. Masks(key, guess, 0, f)
    BY <2>2 DEF Masks
  <2> QED BY <2>1, <2>3
<1>2. ASSUME NEW n \in Nat, n + 1 <= GuessSize, Good(n)
      PROVE  Good(n + 1)
  <2>1. PICK f \in [SUBSET (1 .. n) -> SUBSET Positions] : Masks(key, guess, n, f)
    BY <1>2
  <2> DEFINE h == [s \in SUBSET (1 .. n + 1) |->
                     IF n + 1 \in s THEN Takes(key, guess, f[s \ {n + 1}], n + 1) ELSE f[s]]
  <2>2. \A s \in SUBSET (1 .. n + 1) : s \ {n + 1} \in SUBSET (1 .. n)
    OBVIOUS
  <2>3. \A s \in SUBSET (1 .. n + 1) : n + 1 \notin s => s \in SUBSET (1 .. n)
    OBVIOUS
  <2>4. n + 1 \in Positions
    BY <1>2, MastermindAssumption DEF Positions
  <2>5. h \in [SUBSET (1 .. n + 1) -> SUBSET Positions]
    <3>1. ASSUME NEW s \in SUBSET (1 .. n + 1)
          PROVE  h[s] \in SUBSET Positions
      <4>1. CASE n + 1 \in s
        <5>1. f[s \ {n + 1}] \in SUBSET Positions
          BY <2>1, <2>2
        <5>2. Takes(key, guess, f[s \ {n + 1}], n + 1) \in SUBSET Positions
          BY <5>1, <2>4, TakesOne DEF TakesAtMostOne
        <5> QED BY <4>1, <5>2
      <4>2. CASE n + 1 \notin s
        BY <4>2, <2>1, <2>3
      <4> QED BY <4>1, <4>2
    <3> QED BY <3>1
  <2>6. ASSUME NEW s \in SUBSET (1 .. n + 1)
        PROVE  h[s] = IF s = {} THEN Blacks(key, guess)
                      ELSE Takes(key, guess, h[s \ {Max(s)}], Max(s))
    <3>1. CASE n + 1 \in s
      <4>1. Max(s) = n + 1
        <5>1. n + 1 \in Nat /\ s # {}
          BY <3>1, <1>2
        <5>2. Max(s) \in s /\ \A y \in s : y <= Max(s)
          BY <5>1, MaxOfPositions
        <5>3. Max(s) \in 1 .. n + 1 /\ n + 1 <= Max(s)
          BY <3>1, <5>2
        <5> QED BY <5>3
      <4>2. h[s \ {n + 1}] = f[s \ {n + 1}]
        BY <2>2
      <4> QED BY <3>1, <4>1, <4>2
    <3>2. CASE n + 1 \notin s /\ s # {}
      <4>1. s \in SUBSET (1 .. n) /\ Max(s) \in s
        BY <3>2, <2>3, MaxOfPositions, <1>2
      <4>2. h[s] = f[s] /\ h[s \ {Max(s)}] = f[s \ {Max(s)}]
        BY <3>2
      <4>3. f[s] = Takes(key, guess, f[s \ {Max(s)}], Max(s))
        BY <2>1, <4>1, <3>2 DEF Masks
      <4> QED BY <3>2, <4>2, <4>3
    <3>3. CASE s = {}
      <4>1. f[{}] = Blacks(key, guess)
        BY <2>1 DEF Masks
      <4> QED BY <3>3, <4>1
    <3> QED BY <3>1, <3>2, <3>3
  <2>7. Masks(key, guess, n + 1, h)
    <3> HIDE DEF h
    <3> QED BY <2>6 DEF Masks
  <2> QED
    <3> HIDE DEF h
    <3> QED BY <2>5, <2>7
<1>3. Bad = {}
  <2> SUFFICES ASSUME Bad # {} PROVE FALSE
    OBVIOUS
  <2>1. Bad \in SUBSET Nat
    OBVIOUS
  <2>2. PICK n \in Bad : \A m \in Bad : n <= m
    <3> HIDE DEF Bad
    <3> QED BY <2>1, LeastExists
  <2> HIDE DEF Good
  <2>3. n # 0
    BY <1>1
  <2>4. n - 1 \in Nat /\ n - 1 \in 0 .. GuessSize /\ (n - 1) + 1 = n /\ n <= GuessSize
    BY <2>3, MastermindAssumption
  <2>5. Good(n - 1)
    BY <2>2, <2>4
  <2>6. Good((n - 1) + 1)
    BY <1>2, <2>4, <2>5
  <2> QED BY <2>4, <2>6
<1>4. k \notin Bad
  BY <1>3
<1> QED BY <1>4

\* So game::compare takes what the masks say, position after position.
LEMMA WhitesAreMasked ==
  ASSUME NEW key, NEW guess
  PROVE  \E f : /\ f[{}] = Blacks(key, guess)
                /\ \A k \in Nat : k + 1 <= GuessSize =>
                     f[1 .. k + 1] = Takes(key, guess, f[1 .. k], k + 1)
                /\ Whites(key, guess) = f[Positions] \ Blacks(key, guess)
<1> DEFINE I == [i \in Positions |-> i]
           Take(mask, i) ==
             LET free == {j \in Positions \ mask : key[j] = guess[i]}
             IN IF i \in Blacks(key, guess) \/ free = {} THEN mask
                ELSE mask \cup {CHOOSE j \in free : \A k \in free : j <= k}
           Eq(f) == f = [s \in SUBSET DOMAIN I |->
                           IF s = {} THEN Blacks(key, guess)
                           ELSE LET x == Max(s) IN Take(f[s \ {x}], I[x])]
           F == CHOOSE f : Eq(f)
<1>1. Whites(key, guess) = F[DOMAIN I] \ Blacks(key, guess)
  BY Zenon DEF Whites, FoldLeft, MapThenFoldSet
<1>2. DOMAIN I = Positions
  OBVIOUS
<1>3. \A s \in SUBSET Positions : s # {} => Max(s) \in s /\ I[Max(s)] = Max(s)
  BY MaxOfPositions, MastermindAssumption DEF Positions
<1>4. \A mask, i : Take(mask, i) = Takes(key, guess, mask, i)
  BY DEF Takes
<1>5. Eq(F)
  <2> DEFINE Exist == \E f \in [SUBSET (1 .. GuessSize) -> SUBSET Positions] :
                         Masks(key, guess, GuessSize, f)
  <2>1. Exist
    <3>1. GuessSize \in 0 .. GuessSize
      BY MastermindAssumption
    <3> QED BY <3>1, MasksExist
  <2>2. PICK f \in [SUBSET Positions -> SUBSET Positions] : Masks(key, guess, GuessSize, f)
    BY <2>1 DEF Positions
  <2>3. f = [s \in SUBSET Positions |->
               IF s = {} THEN Blacks(key, guess) ELSE Takes(key, guess, f[s \ {Max(s)}], Max(s))]
    BY <2>2 DEF Masks, Positions
  <2> HIDE DEF Take
  <2>4. [s \in SUBSET Positions |->
               IF s = {} THEN Blacks(key, guess) ELSE Takes(key, guess, f[s \ {Max(s)}], Max(s))]
        = [s \in SUBSET Positions |->
               IF s = {} THEN Blacks(key, guess) ELSE Take(f[s \ {Max(s)}], I[Max(s)])]
    <3> HIDE DEF I
    <3> QED BY <1>3, <1>4
  <2>5. Eq(f)
    <3> HIDE DEF I
    <3> QED BY <1>2, <2>3, <2>4
  <2> HIDE DEF Eq
  <2> QED BY <2>5
<1>6. \A s \in SUBSET Positions :
        F[s] = IF s = {} THEN Blacks(key, guess) ELSE Takes(key, guess, F[s \ {Max(s)}], Max(s))
  <2>1. F = [s \in SUBSET Positions |-> IF s = {} THEN Blacks(key, guess)
                           ELSE LET x == Max(s) IN Take(F[s \ {x}], I[x])]
    <3> HIDE DEF F, I, Take
    <3> QED BY <1>2, <1>5
  <2> HIDE DEF F, I, Take
  <2> QED BY <2>1, <1>3, <1>4
<1> HIDE DEF F, I
<1>7. ASSUME NEW k \in Nat, k + 1 <= GuessSize
      PROVE  F[1 .. k + 1] = Takes(key, guess, F[1 .. k], k + 1)
  <2>1. 1 .. k + 1 \in SUBSET Positions /\ 1 .. k + 1 # {} /\ k + 1 \in Nat
    <3>1. k + 1 \in 1 .. k + 1
      BY <1>7
    <3>2. 1 .. k + 1 \in SUBSET Positions
      BY <1>7, MastermindAssumption DEF Positions
    <3> QED BY <1>7, <3>1, <3>2
  <2>2. Max(1 .. k + 1) = k + 1
    <3>1. Max(1 .. k + 1) \in 1 .. k + 1 /\ \A y \in 1 .. k + 1 : y <= Max(1 .. k + 1)
      BY <2>1, MaxOfPositions
    <3>2. k + 1 \in 1 .. k + 1
      OBVIOUS
    <3> QED BY <3>1, <3>2
  <2>3. (1 .. k + 1) \ {k + 1} = 1 .. k
    OBVIOUS
  <2> QED BY <1>6, <2>1, <2>2, <2>3
<1>8. F[{}] = Blacks(key, guess)
  BY <1>6
<1> QED BY <1>1, <1>2, <1>7, <1>8

\* The positions of the key in mask that have a color, and those of the guess that
\* game::compare has looked at, or that are right, with the color.
TakenOf(key, mask, c) == {j \in mask : key[j] = c}
LookedAt(key, guess, k, c) == {m \in Positions : guess[m] = c /\ (m <= k \/ m \in Blacks(key, guess))}
Lesser(m, n) == IF m <= n THEN m ELSE n

Exact(key, guess, k, mask) ==
  /\ Blacks(key, guess) \subseteq mask /\ mask \subseteq Positions
  /\ \A c \in Colors :
       Cardinality(TakenOf(key, mask, c)) =
         Lesser(Occurs(c, key), Cardinality(LookedAt(key, guess, k, c)))

LEMMA PositionsFinite ==
  \A s \in SUBSET Positions : IsFiniteSet(s) /\ Cardinality(s) \in Nat
<1>1. IsFiniteSet(Positions)
  BY FS_Interval, MastermindAssumption DEF Positions
<1> QED BY <1>1, FS_Subset, FS_CardinalityType

LEMMA ExactAtFirst ==
  ASSUME NEW key \in Guesses, NEW guess \in Guesses
  PROVE  Exact(key, guess, 0, Blacks(key, guess))
<1> SUFFICES ASSUME NEW c \in Colors
             PROVE  Cardinality(TakenOf(key, Blacks(key, guess), c)) =
                      Lesser(Occurs(c, key), Cardinality(LookedAt(key, guess, 0, c)))
  BY DEF Exact, Blacks
<1> DEFINE All == {i \in Positions : key[i] = c}
<1>1. TakenOf(key, Blacks(key, guess), c) = LookedAt(key, guess, 0, c)
  BY DEF TakenOf, LookedAt, Blacks, Positions
<1>2. LookedAt(key, guess, 0, c) \subseteq All /\ All \in SUBSET Positions
  BY <1>1 DEF TakenOf, Blacks
<1>3. Cardinality(LookedAt(key, guess, 0, c)) <= Cardinality(All)
  BY <1>2, PositionsFinite, FS_Subset
<1>4. Cardinality(LookedAt(key, guess, 0, c)) \in Nat /\ Cardinality(All) \in Nat
  BY <1>2, PositionsFinite
<1>5. Occurs(c, key) = Cardinality(All)
  BY DEF Occurs
<1> QED BY <1>1, <1>3, <1>4, <1>5 DEF Lesser

LEMMA ExactKept ==
  ASSUME NEW key \in Guesses, NEW guess \in Guesses,
         NEW k \in Nat, k + 1 <= GuessSize, NEW mask, Exact(key, guess, k, mask)
  PROVE  Exact(key, guess, k + 1, Takes(key, guess, mask, k + 1))
<1> DEFINE i == k + 1
           next == Takes(key, guess, mask, i)
           All(c) == {j \in Positions : key[j] = c}
           Was(c) == LookedAt(key, guess, k, c)
           Is(c) == LookedAt(key, guess, k + 1, c)
<1>1. i \in Positions /\ mask \in SUBSET Positions
  BY MastermindAssumption DEF Positions, Exact
<1>2. \A c : Occurs(c, key) = Cardinality(All(c))
  BY DEF Occurs
<1>3. \A c : /\ All(c) \in SUBSET Positions /\ Was(c) \in SUBSET Positions
             /\ Is(c) \in SUBSET Positions /\ TakenOf(key, mask, c) \in SUBSET Positions
             /\ TakenOf(key, mask, c) \subseteq All(c)
  BY <1>1 DEF LookedAt, TakenOf
<1>4. \A c : c # guess[i] \/ i \in Blacks(key, guess) => Is(c) = Was(c)
  BY <1>1 DEF LookedAt, Positions
<1>5. i \notin Blacks(key, guess) =>
        i \notin Was(guess[i]) /\ Is(guess[i]) = Was(guess[i]) \cup {i}
  BY <1>1 DEF LookedAt, Positions
<1>6. \A c : /\ Cardinality(All(c)) \in Nat /\ Cardinality(Was(c)) \in Nat
             /\ Cardinality(TakenOf(key, mask, c)) \in Nat
  BY <1>3, PositionsFinite
<1>7. i \notin Blacks(key, guess) =>
        Cardinality(Is(guess[i])) = Cardinality(Was(guess[i])) + 1
  BY <1>3, <1>5, PositionsFinite, FS_AddElement
<1>8. \A c \in Colors : Cardinality(TakenOf(key, mask, c)) =
                          Lesser(Cardinality(All(c)), Cardinality(Was(c)))
  BY <1>2 DEF Exact
<1>9. guess[i] \in Colors
  BY <1>1 DEF Guesses
<1> HIDE DEF All, Was, Is
<1>10. ASSUME next = mask, i \in Blacks(key, guess)
       PROVE  Exact(key, guess, k + 1, next)
  <2>1. \A c \in Colors : Cardinality(TakenOf(key, mask, c)) =
                            Lesser(Occurs(c, key), Cardinality(Is(c)))
    BY <1>2, <1>4, <1>8, <1>10
  <2> QED BY <1>10, <2>1 DEF Exact, Is
<1>11. ASSUME next = mask, i \notin Blacks(key, guess),
              \A j \in Positions \ mask : key[j] # guess[i]
       PROVE  Exact(key, guess, k + 1, next)
  <2>1. TakenOf(key, mask, guess[i]) = All(guess[i])
    BY <1>1, <1>11 DEF TakenOf, All
  <2>2. Cardinality(TakenOf(key, mask, guess[i])) =
          Lesser(Cardinality(All(guess[i])), Cardinality(Is(guess[i])))
    BY <2>1, <1>6, <1>7, <1>8, <1>9, <1>11 DEF Lesser
  <2>3. \A c \in Colors : Cardinality(TakenOf(key, mask, c)) =
                            Lesser(Occurs(c, key), Cardinality(Is(c)))
    BY <1>2, <1>4, <1>8, <2>2
  <2> QED BY <1>11, <2>3 DEF Exact, Is
<1>12. ASSUME i \notin Blacks(key, guess),
              NEW j \in Positions \ mask, key[j] = guess[i], next = mask \cup {j}
       PROVE  Exact(key, guess, k + 1, next)
  <2>1. \A c : c # guess[i] => TakenOf(key, next, c) = TakenOf(key, mask, c)
    BY <1>12 DEF TakenOf
  <2>2. TakenOf(key, next, guess[i]) = TakenOf(key, mask, guess[i]) \cup {j}
        /\ j \notin TakenOf(key, mask, guess[i])
    BY <1>12 DEF TakenOf
  <2>3. Cardinality(TakenOf(key, next, guess[i])) = Cardinality(TakenOf(key, mask, guess[i])) + 1
    BY <2>2, <1>3, PositionsFinite, FS_AddElement
  <2>4. j \in All(guess[i])
    BY <1>12 DEF All
  <2>5. TakenOf(key, mask, guess[i]) \cup {j} \subseteq All(guess[i])
    BY <1>3, <2>4
  <2>6. Cardinality(TakenOf(key, next, guess[i])) <= Cardinality(All(guess[i]))
    BY <2>2, <2>5, <1>3, PositionsFinite, FS_Subset
  <2>7. Cardinality(TakenOf(key, next, guess[i])) =
          Lesser(Cardinality(All(guess[i])), Cardinality(Is(guess[i])))
    BY <2>3, <2>6, <1>6, <1>7, <1>8, <1>9, <1>12 DEF Lesser
  <2>8. \A c \in Colors : Cardinality(TakenOf(key, next, c)) =
                            Lesser(Occurs(c, key), Cardinality(Is(c)))
    BY <1>2, <1>4, <1>8, <2>1, <2>7
  <2> QED BY <1>1, <1>12, <2>8 DEF Exact, Is
<1>13. TakesAtMostOne(key, guess, mask, i, next)
  BY <1>1, TakesOne
<1> HIDE DEF i, next
<1>14. Exact(key, guess, k + 1, next)
  BY <1>10, <1>11, <1>12, <1>13 DEF TakesAtMostOne
<1> QED BY <1>14 DEF i, next

\* Of each color, the key and the guess are matched as often as both have it.
LEMMA WhitesAreExact ==
  ASSUME NEW key \in Guesses, NEW guess \in Guesses
  PROVE  \E mask \in SUBSET Positions :
           /\ Blacks(key, guess) \subseteq mask
           /\ Whites(key, guess) = mask \ Blacks(key, guess)
           /\ \A c \in Colors : Cardinality(TakenOf(key, mask, c)) =
                                  Lesser(Occurs(c, key), Occurs(c, guess))
<1>1. PICK f : /\ f[{}] = Blacks(key, guess)
               /\ \A k \in Nat : k + 1 <= GuessSize =>
                    f[1 .. k + 1] = Takes(key, guess, f[1 .. k], k + 1)
               /\ Whites(key, guess) = f[Positions] \ Blacks(key, guess)
  BY WhitesAreMasked
<1> DEFINE Bad == {k \in 0 .. GuessSize : ~Exact(key, guess, k, f[1 .. k])}
<1>2. Exact(key, guess, 0, f[1 .. 0])
  <2>1. 1 .. 0 = {}
    OBVIOUS
  <2> QED BY <1>1, <2>1, ExactAtFirst
<1>3. Bad = {}
  <2> SUFFICES ASSUME Bad # {} PROVE FALSE
    OBVIOUS
  <2>1. Bad \in SUBSET Nat
    OBVIOUS
  <2>2. PICK n \in Bad : \A m \in Bad : n <= m
    <3> HIDE DEF Bad
    <3> QED BY <2>1, LeastExists
  <2>3. n # 0
    BY <1>2
  <2> DEFINE k == n - 1
  <2>4. k \in Nat /\ k \in 0 .. GuessSize /\ k + 1 = n /\ k + 1 <= GuessSize /\ ~(n <= k)
    BY <2>3, MastermindAssumption
  <2>5. Exact(key, guess, k, f[1 .. k])
    BY <2>2, <2>4
  <2> HIDE DEF k
  <2>6. Exact(key, guess, k + 1, f[1 .. k + 1])
    BY <1>1, <2>4, <2>5, ExactKept
  <2> QED BY <2>2, <2>4, <2>6
<1>4. Exact(key, guess, GuessSize, f[1 .. GuessSize])
  <2>1. GuessSize \in 0 .. GuessSize
    BY MastermindAssumption
  <2> QED BY <1>3, <2>1
<1>5. \A c : LookedAt(key, guess, GuessSize, c) = {m \in Positions : guess[m] = c}
  BY MastermindAssumption DEF LookedAt, Positions
<1>6. \A c \in Colors : Cardinality(TakenOf(key, f[Positions], c)) =
                          Lesser(Occurs(c, key), Occurs(c, guess))
  BY <1>4, <1>5 DEF Exact, Occurs, Positions
<1>7. Blacks(key, guess) \subseteq f[Positions] /\ f[Positions] \in SUBSET Positions
  BY <1>4 DEF Exact, Positions
<1> QED BY <1>1, <1>6, <1>7

\* The sum over the colors of the positions that have each.
LEMMA SumOfColors ==
  ASSUME NEW key \in Guesses, NEW mask \in SUBSET Positions
  PROVE  FoldFunction(+, 0, [c \in Colors |-> Cardinality(TakenOf(key, mask, c))]) = Cardinality(mask)
<1> DEFINE h == [c \in Colors |-> Cardinality(TakenOf(key, mask, c))]
           With(s) == {j \in mask : key[j] \in s}
           Eq(g) == g = [s \in SUBSET DOMAIN h |->
                           IF s = {} THEN 0
                           ELSE LET x == CHOOSE y \in s : TRUE IN h[x] + g[s \ {x}]]
           G == CHOOSE g : Eq(g)
           w == [s \in SUBSET Colors |-> Cardinality(With(s))]
<1>1. FoldFunction(+, 0, h) = G[DOMAIN h]
  BY Zenon DEF FoldFunction, FoldFunctionOnSet, MapThenFoldSet
<1>2. DOMAIN h = Colors
  OBVIOUS
<1>3. \A s : With(s) \in SUBSET Positions
  OBVIOUS
<1>4. ASSUME NEW s \in SUBSET Colors, NEW x \in s
      PROVE  w[s] = h[x] + w[s \ {x}]
  <2>1. With(s) = TakenOf(key, mask, x) \cup With(s \ {x})
    BY DEF TakenOf
  <2>2. TakenOf(key, mask, x) \cap With(s \ {x}) = {}
    BY DEF TakenOf
  <2>3. TakenOf(key, mask, x) \in SUBSET Positions
    BY DEF TakenOf
  <2>4. /\ IsFiniteSet(TakenOf(key, mask, x)) /\ IsFiniteSet(With(s \ {x}))
        /\ Cardinality(TakenOf(key, mask, x)) \in Nat /\ Cardinality(With(s \ {x})) \in Nat
    BY <1>3, <2>3, PositionsFinite
  <2> HIDE DEF With
  <2>5. Cardinality(With(s)) = Cardinality(TakenOf(key, mask, x)) + Cardinality(With(s \ {x}))
    <3>1. Cardinality(TakenOf(key, mask, x) \cap With(s \ {x})) = 0
      BY <2>2, FS_EmptySet
    <3>2. Cardinality(With(s)) =
            Cardinality(TakenOf(key, mask, x)) + Cardinality(With(s \ {x}))
            - Cardinality(TakenOf(key, mask, x) \cap With(s \ {x}))
      BY <2>1, <2>4, FS_Union
    <3> QED BY <2>4, <3>1, <3>2
  <2> QED BY <2>5
<1>5. w[{}] = 0
  <2>1. With({}) = {}
    OBVIOUS
  <2> QED BY <2>1, FS_EmptySet
<1>6. \A s : s # {} => (CHOOSE y \in s : TRUE) \in s
  OBVIOUS
<1>7. Eq(G)
  <2>1. w = [s \in SUBSET Colors |->
               IF s = {} THEN 0
               ELSE LET x == CHOOSE y \in s : TRUE IN h[x] + w[s \ {x}]]
    <3>1. ASSUME NEW s \in SUBSET Colors
          PROVE  w[s] = IF s = {} THEN 0
                        ELSE LET x == CHOOSE y \in s : TRUE IN h[x] + w[s \ {x}]
      <4> HIDE DEF w, h
      <4> QED BY <1>4, <1>5, <1>6
    <3>2. w = [s \in SUBSET Colors |-> w[s]]
      OBVIOUS
    <3> HIDE DEF w, h
    <3> QED BY <3>1, <3>2
  <2>2. Eq(w)
    <3> HIDE DEF w, h
    <3> QED BY <1>2, <2>1
  <2> HIDE DEF Eq, w
  <2> QED BY <2>2
<1>8. \A s \in SUBSET Colors :
        G[s] = IF s = {} THEN 0 ELSE LET x == CHOOSE y \in s : TRUE IN h[x] + G[s \ {x}]
  <2> HIDE DEF G, h
  <2>1. G = [s \in SUBSET Colors |-> IF s = {} THEN 0
                ELSE LET x == CHOOSE y \in s : TRUE IN h[x] + G[s \ {x}]]
    BY <1>2, <1>7
  <2> QED BY <2>1
<1> HIDE DEF G, h, w
<1> DEFINE Bad == {s \in SUBSET Colors : G[s] # w[s]}
           BadSizes == {Cardinality(s) : s \in Bad}
<1>9. Bad = {}
  <2> SUFFICES ASSUME Bad # {} PROVE FALSE
    OBVIOUS
  <2>1. \A s \in SUBSET Colors : IsFiniteSet(s) /\ Cardinality(s) \in Nat
    BY MastermindAssumption, FS_Subset, FS_CardinalityType
  <2>2. PICK n \in BadSizes : \A m \in BadSizes : n <= m
    <3>1. BadSizes \in SUBSET Nat /\ BadSizes # {}
      BY <2>1
    <3> HIDE DEF BadSizes
    <3> QED BY <3>1, LeastExists
  <2>3. PICK s \in Bad : n = Cardinality(s)
    BY <2>2
  <2>4. s # {}
    BY <2>3, <1>5, <1>8
  <2> DEFINE x == CHOOSE y \in s : TRUE
  <2>5. x \in s
    BY <2>4
  <2> HIDE DEF x
  <2>6. s \ {x} \in SUBSET Colors /\ Cardinality(s \ {x}) = Cardinality(s) - 1
    BY <2>1, <2>3, <2>5, FS_RemoveElement
  <2>7. s \ {x} \notin Bad
    <3>1. Cardinality(s) \in Nat /\ ~(Cardinality(s) <= Cardinality(s) - 1)
      BY <2>1, <2>3
    <3> QED BY <2>2, <2>3, <2>6, <3>1
  <2>8. G[s] = h[x] + G[s \ {x}]
    BY <1>8, <2>3, <2>4 DEF x
  <2>9. w[s] = h[x] + w[s \ {x}]
    BY <1>4, <2>3, <2>5
  <2> QED BY <2>3, <2>6, <2>7, <2>8, <2>9
<1>10. G[Colors] = w[Colors]
  BY <1>9
<1>11. w[Colors] = Cardinality(mask)
  <2>1. With(Colors) = mask
    BY DEF Guesses
  <2> HIDE DEF With
  <2> QED BY <2>1 DEF w
<1> QED BY <1>1, <1>2, <1>10, <1>11 DEF h

\* The comparison is the one that the game defines.
IsRight(res, key, guess) ==
  LET same == Cardinality({i \in Positions : key[i] = guess[i]})
  IN res = [nB |-> same, nW |-> Common(key, guess) - same]

LEMMA ComparisonIsRight ==
  ASSUME NEW key \in Guesses, NEW guess \in Guesses
  PROVE  IsRight(Compare(key, guess), key, guess)
<1>1. PICK mask \in SUBSET Positions :
           /\ Blacks(key, guess) \subseteq mask
           /\ Whites(key, guess) = mask \ Blacks(key, guess)
           /\ \A c \in Colors : Cardinality(TakenOf(key, mask, c)) =
                                  Lesser(Occurs(c, key), Occurs(c, guess))
  BY WhitesAreExact
<1>2. Common(key, guess) = Cardinality(mask)
  <2>1. [c \in Colors |-> Cardinality(TakenOf(key, mask, c))]
        = [c \in Colors |-> IF Occurs(c, key) <= Occurs(c, guess) THEN Occurs(c, key)
                            ELSE Occurs(c, guess)]
    BY <1>1 DEF Lesser
  <2>2. Common(key, guess) = FoldFunction(+, 0, [c \in Colors |-> Cardinality(TakenOf(key, mask, c))])
    BY <2>1, Zenon DEF Common
  <2> QED BY <2>2, SumOfColors
<1>3. Cardinality(Whites(key, guess)) = Cardinality(mask) - Cardinality(Blacks(key, guess))
  <2>1. mask \cap Blacks(key, guess) = Blacks(key, guess)
    BY <1>1
  <2> QED BY <1>1, <2>1, PositionsFinite, FS_Difference, SMTT(40), ZenonT(40)
<1>4. {i \in Positions : key[i] = guess[i]} = Blacks(key, guess)
  BY DEF Blacks
<1> QED BY <1>2, <1>3, <1>4 DEF Compare, IsRight

------------------------------------------------------------------------------
(* The game of the server, the answers and the client.                          *)

Results == {Compare(key, guess) : key \in Guesses, guess \in Guesses}
OkAnswers == [cmd : Nat, kind : {"RTR"}, status : {"OK"}, nT : Nat, res : Results, key : Guesses]
ModelAnswers ==
  OkAnswers
    \cup [cmd : Nat, kind : {"RSG", "RDB", "RQT"}, status : {"OK", "NOK"}]
    \cup [cmd : Nat, kind : {"RTR"}, status : {"NOK", "ETM", "INV", "DUP", "ENT"}]

\* A game that goes on has a trial left, its trials are different and none is the key.
GoesOn(g) ==
  /\ Len(g.trials) < MaxTrials
  /\ \A i, j \in DOMAIN g.trials : g.trials[i] = g.trials[j] => i = j
  /\ \A i \in DOMAIN g.trials : g.trials[i] # g.key

\* An answer OK is of a trial that was not the last one, or that won.
FitAnswers ==
  {a \in ModelAnswers : a.kind = "RTR" /\ a.status = "OK" => a.nT < MaxTrials \/ a.res.nB = GuessSize}

GameOK ==
  /\ toClient \in Seq(FitAnswers)
  /\ game # Nothing => sends # 0 /\ game.cmd <= request.cmd /\ GoesOn(game)

\* What the server does of request m: its answer a, and the game before and after.
Served(m, a, g, h) ==
  /\ a.cmd = m.cmd /\ a.kind = Reply(m.kind)
  /\ m.kind \in Starts =>
       \/ a.status = "OK" /\ h # Nothing /\ Len(h.trials) = 0
       \/ a.status # "OK" /\ g # Nothing /\ h = g
  /\ m.kind = "QUT" => h = Nothing
  /\ m.kind = "TRY" =>
       \/ a.status \notin {"OK", "DUP"} /\ h = Nothing
       \/ a.status = "DUP" /\ g # Nothing /\ h = g /\ m.nT = Len(g.trials) + 1
       \/ /\ a.status = "INV" /\ g # Nothing /\ h = g /\ m.nT # Len(g.trials) + 1
          /\ ~ (m.nT = Len(g.trials) /\ m.nT # 0 /\ g.trials[m.nT] = m.guess)
       \/ /\ a.status = "OK" /\ h # Nothing /\ m.nT = Len(h.trials)
          /\ a.nT = m.nT /\ a.nT < MaxTrials /\ a.res.nB # GuessSize
          /\ g # Nothing
          /\ (h = g \/ m.nT = Len(g.trials) + 1)
          /\ m.nT # 0 /\ h.trials[m.nT] = m.guess
       \/ /\ a.status = "OK" /\ h = Nothing /\ a.res.nB = GuessSize
          /\ a.nT = m.nT /\ m.nT <= MaxTrials /\ g # Nothing /\ m.nT = Len(g.trials) + 1
  /\ m.kind = "TRY" /\ a.status = "OK" => a.res = Compare(a.key, m.guess)

\* All positions are right in the key only.
LEMMA AllRight ==
  ASSUME NEW key \in Guesses, NEW guess \in Guesses
  PROVE  Compare(key, guess).nB = GuessSize <=> key = guess
<1>1. IsFiniteSet(Positions) /\ Cardinality(Positions) = GuessSize
  BY MastermindAssumption, FS_Interval DEF Positions
<1>2. Blacks(key, guess) \subseteq Positions
  BY DEF Blacks
<1>3. Cardinality(Blacks(key, guess)) = GuessSize <=> Blacks(key, guess) = Positions
  BY <1>1, <1>2, FS_Subset
<1>4. Blacks(key, guess) = Positions <=> key = guess
  BY DEF Blacks, Guesses
<1> QED BY <1>3, <1>4 DEF Compare

\* The look for a guess among trials that are different.
LEMMA Duplicates ==
  ASSUME NEW trials \in Seq(Guesses), Len(trials) < MaxTrials, NEW guess,
         \A i, j \in DOMAIN trials : trials[i] = trials[j] => i = j
  PROVE  /\ DuplicateAt(trials, guess) = MaxTrials + 1 <=> \A i \in DOMAIN trials : trials[i] # guess
         /\ \A i \in DOMAIN trials : trials[i] = guess => DuplicateAt(trials, guess) = i
<1>1. DOMAIN trials = 1 .. Len(trials) /\ Len(trials) \in Nat
  BY LenProperties
<1>2. ASSUME NEW i \in DOMAIN trials, trials[i] = guess
      PROVE  DuplicateAt(trials, guess) = i /\ i # MaxTrials + 1
  <2>1. {j \in DOMAIN trials : trials[j] = guess} = {i}
    BY <1>2
  <2>2. (CHOOSE j \in {i} : \A k \in {i} : j <= k) = i
    BY <1>1
  <2> QED BY <1>1, <2>1, <2>2, MastermindAssumption DEF DuplicateAt
<1>3. ASSUME \A i \in DOMAIN trials : trials[i] # guess
      PROVE  DuplicateAt(trials, guess) = MaxTrials + 1
  BY <1>3 DEF DuplicateAt
<1> QED BY <1>2, <1>3

\* The answer OK to a try.
LEMMA TryOkFields ==
  ASSUME PlayerInv, toServer # <<>>, NEW g \in ModelGames, g.trials # <<>>, NEW a, a = TryOk(g)
  PROVE  /\ a \in OkAnswers /\ a.cmd = Head(toServer).cmd /\ a.kind = "RTR" /\ a.status = "OK"
         /\ a.nT = Len(g.trials)
         /\ a.res = Compare(a.key, Last(g.trials))
         /\ a.res.nB = GuessSize <=> Last(g.trials) = g.key
<1>1. g.trials \in Seq(Guesses) /\ g.key \in Guesses
  BY DEF ModelGames
<1>2. Last(g.trials) \in Guesses /\ Len(g.trials) \in Nat
  BY <1>1, LenProperties, ElementOfSeq, EmptySeq DEF Last
<1>3. Head(toServer).cmd \in Nat
  <2>1. Head(toServer) \in ModelRequests
    BY TailIsThinner DEF PlayerInv, PlayerTypes
  <2> QED BY <2>1 DEF ModelRequests
<1>4. a = [cmd |-> Head(toServer).cmd, kind |-> "RTR", status |-> "OK",
           nT |-> Len(g.trials), res |-> Compare(g.key, Last(g.trials)), key |-> g.key]
  BY DEF TryOk
<1>5. Compare(g.key, Last(g.trials)) \in Results
  BY <1>1, <1>2 DEF Results
<1>6. a \in OkAnswers
  BY <1>1, <1>2, <1>3, <1>4, <1>5 DEF OkAnswers
<1>7. a.res.nB = GuessSize <=> Last(g.trials) = g.key
  BY <1>1, <1>2, <1>4, AllRight
<1> QED BY <1>4, <1>6, <1>7

\* has_ended on a game of the model.
LEMMA StatusOfGame ==
  ASSUME NEW g \in ModelGames, NEW clock \in {0, 1}
  PROVE  /\ Status(g, clock) = "ONGOING" => clock = 0
         /\ g.trials # <<>> /\ clock = 0 =>
              Status(g, clock) = IF Last(g.trials) = g.key THEN "WON"
                               ELSE IF Len(g.trials) >= MaxTrials THEN "LOST_TRIES" ELSE "ONGOING"
<1>1. g.end = NoEnd /\ g.start = 0 /\ g.dur = 0
  BY DEF ModelGames
<1> QED BY <1>1 DEF Status

\* The game of an answer OK to a start.
LEMMA EmptyGame ==
  ASSUME NEW h, Len(h.trials) = 0, h.trials = <<>>
  PROVE  GoesOn(h)
<1>1. DOMAIN <<>> = {}
  BY EmptySeq
<1> QED BY <1>1, MastermindAssumption DEF GoesOn

\* A try that is one more trial.
LEMMA PlayServed ==
  ASSUME PlayerInv, GameOK, ServePlay
  PROVE  \E a \in ModelAnswers :
           /\ Serve(a) /\ toServer # <<>> /\ Served(Head(toServer), a, game, game')
           /\ game' # Nothing => game'.cmd = game.cmd /\ GoesOn(game')
<1>1. PICK m : m = Head(toServer)
  OBVIOUS
<1>2. m \in ModelRequests /\ toServer # <<>> /\ m.kind = "TRY" /\ game # Nothing /\ ~HasEnded
  BY <1>1, TailIsThinner DEF ServePlay, Asked, PlayerInv, PlayerTypes
<1>3. /\ m.cmd \in Nat /\ m.guess \in Guesses /\ m.nT \in Nat
      /\ game \in ModelGames /\ game.trials \in Seq(Guesses) /\ game.key \in Guesses
      /\ Len(game.trials) \in Nat /\ DOMAIN game.trials = 1 .. Len(game.trials)
      /\ GoesOn(game) /\ game.cmd \in Nat
  BY <1>2, LenProperties DEF ModelRequests, PlayerInv, PlayerTypes, ModelGames, GameOK
<1>4. PICK n \in Nat : n = Len(game.trials)
  BY <1>3
<1>5. m.nT = n + 1 /\ \A i \in 1 .. n : game.trials[i] # m.guess
  <2>1. TryKind(game.trials, m.guess, m.nT) = "PLAY"
    BY <1>1 DEF ServePlay
  <2>2. DuplicateAt(game.trials, m.guess) = MaxTrials + 1
    BY <2>1 DEF TryKind
  <2>3. \A i \in DOMAIN game.trials : game.trials[i] # m.guess
    BY <1>3, <2>2, Duplicates DEF GoesOn
  <2> QED BY <1>3, <1>4, <2>1, <2>3 DEF TryKind
<1>6. PICK h : h = [game EXCEPT !.trials = Append(game.trials, m.guess)]
  OBVIOUS
<1>7. /\ h.trials = Append(game.trials, m.guess) /\ h.key = game.key /\ h.cmd = game.cmd
      /\ h \in ModelGames
  <2>1. Append(game.trials, m.guess) \in Seq(Guesses)
    BY <1>3, AppendProperties
  <2> QED BY <1>3, <1>6, <2>1 DEF ModelGames
<1>8. /\ Len(h.trials) = n + 1 /\ h.trials \in Seq(Guesses) /\ DOMAIN h.trials = 1 .. n + 1
      /\ \A i \in 1 .. n : h.trials[i] = game.trials[i]
      /\ h.trials[n + 1] = m.guess /\ h.trials # <<>> /\ Last(h.trials) = m.guess
  <2>1. /\ Len(h.trials) = n + 1 /\ h.trials \in Seq(Guesses) /\ DOMAIN h.trials = 1 .. n + 1
        /\ \A i \in 1 .. n : h.trials[i] = game.trials[i]
        /\ h.trials[n + 1] = m.guess
    BY <1>3, <1>4, <1>7, AppendIndexes
  <2>2. h.trials # <<>>
    BY <2>1, EmptySeq
  <2> QED BY <2>1, <2>2 DEF Last
<1>9. PICK s : s = Status(h, Clock)
  OBVIOUS
<1>10. s = IF m.guess = game.key THEN "WON" ELSE IF n + 1 >= MaxTrials THEN "LOST_TRIES" ELSE "ONGOING"
  <2>1. Clock \in {0, 1}
    BY DEF Clock
  <2>2. Status(game, Clock) = "ONGOING"
    BY <1>2 DEF HasEnded
  <2>3. Clock = 0
    BY <1>3, <2>1, <2>2, StatusOfGame
  <2> QED BY <1>7, <1>8, <1>9, <2>1, <2>3, StatusOfGame
<1>11. /\ Serve(IF s = "LOST_TRIES" THEN Answers("RTR", "ENT") ELSE TryOk(h))
       /\ game' = IF s = "ONGOING" THEN h ELSE Nothing
  BY <1>1, <1>6, <1>9 DEF ServePlay
<1>12. Reply(m.kind) = "RTR"
  BY <1>2 DEF Reply
<1>13. n < MaxTrials
  BY <1>3, <1>4 DEF GoesOn
<1>14. PICK a : a = TryOk(h)
  OBVIOUS
<1>15. /\ a \in ModelAnswers /\ a.cmd = m.cmd /\ a.kind = "RTR" /\ a.status = "OK"
       /\ a.nT = n + 1 /\ (a.res.nB = GuessSize <=> m.guess = game.key)
       /\ a.res = Compare(a.key, m.guess)
  BY <1>1, <1>2, <1>7, <1>8, <1>14, TryOkFields, SMTT(40), ZenonT(40) DEF ModelAnswers
<1>16. CASE s = "LOST_TRIES"
  <2>1. PICK e : e = Answers("RTR", "ENT")
    OBVIOUS
  <2>2. e = [cmd |-> m.cmd, kind |-> "RTR", status |-> "ENT"]
    BY <1>1, <2>1 DEF Answers
  <2>3. e \in ModelAnswers /\ e.cmd = m.cmd /\ e.kind = "RTR" /\ e.status = "ENT"
    BY <1>3, <2>2 DEF ModelAnswers
  <2>4. Serve(e) /\ game' = Nothing
    BY <1>11, <1>16, <2>1
  <2>5. Served(m, e, game, game')
    BY <1>2, <1>12, <2>3, <2>4 DEF Served, Starts
  <2> QED BY <1>1, <1>2, <2>3, <2>4, <2>5
<1>17. CASE s = "WON"
  <2>1. Serve(a) /\ game' = Nothing /\ m.guess = game.key
    BY <1>10, <1>11, <1>14, <1>17
  <2>2. Served(m, a, game, game')
    <3>1. n + 1 <= MaxTrials
      BY <1>13, MastermindAssumption
    <3>2. a.status = "OK" /\ a.res.nB = GuessSize /\ a.nT = m.nT /\ m.nT = Len(game.trials) + 1
      BY <1>4, <1>5, <1>15, <2>1
    <3> QED BY <1>2, <1>5, <1>12, <1>15, <2>1, <3>1, <3>2 DEF Served, Starts
  <2> QED BY <1>1, <1>2, <1>15, <2>1, <2>2
<1>18. CASE s = "ONGOING"
  <2>1. Serve(a) /\ game' = h /\ m.guess # game.key /\ n + 1 < MaxTrials
    BY <1>10, <1>11, <1>14, <1>18, MastermindAssumption
  <2>2. h # Nothing
    BY <1>7, PlayerAssumption DEF ModelGames
  <2>3. Served(m, a, game, h)
    BY <1>2, <1>4, <1>5, <1>8, <1>12, <1>15, <2>1, <2>2 DEF Served, Starts
  <2>4. GoesOn(h)
    <3>1. \A i \in 1 .. n + 1 : i \in 1 .. n \/ i = n + 1
      OBVIOUS
    <3>2. \A i, j \in 1 .. n + 1 : h.trials[i] = h.trials[j] => i = j
      <4>1. \A i, j \in 1 .. n : game.trials[i] = game.trials[j] => i = j
        BY <1>3, <1>4 DEF GoesOn
      <4>2. \A i \in 1 .. n : h.trials[i] # h.trials[n + 1]
        BY <1>5, <1>8
      <4>3. \A i, j \in 1 .. n : h.trials[i] = h.trials[j] => i = j
        BY <1>8, <4>1
      <4> QED BY <3>1, <4>2, <4>3
    <3>3. \A i \in 1 .. n + 1 : h.trials[i] # h.key
      BY <1>3, <1>4, <1>7, <1>8, <2>1, <3>1 DEF GoesOn
    <3> QED BY <1>8, <2>1, <3>2, <3>3 DEF GoesOn
  <2> QED BY <1>1, <1>2, <1>7, <1>15, <2>1, <2>3, <2>4
<1> QED BY <1>10, <1>16, <1>17, <1>18

\* A try that is none: the copy of the last one, a guess made before, a wrong number.
LEMMA NoPlayServed ==
  ASSUME PlayerInv, GameOK, ServeNoPlay
  PROVE  \E a \in ModelAnswers :
           Serve(a) /\ toServer # <<>> /\ game' = game /\ Served(Head(toServer), a, game, game)
<1>1. PICK m, kind : m = Head(toServer) /\ kind = TryKind(game.trials, m.guess, m.nT)
  OBVIOUS
<1>2. /\ m \in ModelRequests /\ toServer # <<>> /\ m.kind = "TRY" /\ game # Nothing
      /\ kind # "PLAY" /\ game' = game
  BY <1>1, TailIsThinner DEF ServeNoPlay, Asked, server, PlayerInv, PlayerTypes
<1>3. /\ m.cmd \in Nat /\ m.guess \in Guesses /\ m.nT \in Nat
      /\ game \in ModelGames /\ game.trials \in Seq(Guesses) /\ game.key \in Guesses
      /\ Len(game.trials) \in Nat /\ DOMAIN game.trials = 1 .. Len(game.trials)
      /\ GoesOn(game) /\ Reply(m.kind) = "RTR"
  BY <1>2, LenProperties DEF ModelRequests, PlayerInv, PlayerTypes, ModelGames, GameOK, Reply
<1>4. PICK n, same : n = Len(game.trials) /\ same = DuplicateAt(game.trials, m.guess)
  OBVIOUS
<1>5. /\ n \in Nat /\ n < MaxTrials
      /\ same = MaxTrials + 1 <=> \A i \in 1 .. n : game.trials[i] # m.guess
      /\ \A i \in 1 .. n : game.trials[i] = m.guess => same = i
  BY <1>3, <1>4, Duplicates DEF GoesOn
<1>6. kind = IF m.nT # n + 1 THEN IF m.nT = n /\ same = n THEN "AGAIN" ELSE "INV"
             ELSE IF same # MaxTrials + 1 THEN "DUP" ELSE "PLAY"
  BY <1>1, <1>4 DEF TryKind
<1>7. Serve(IF kind = "AGAIN" THEN TryOk(game) ELSE Answers("RTR", kind))
  BY <1>1 DEF ServeNoPlay
<1>8. CASE kind = "AGAIN"
  <2>1. PICK a : a = TryOk(game)
    OBVIOUS
  <2>2. m.nT = n /\ same = n /\ n # MaxTrials + 1
    BY <1>5, <1>6, <1>8, MastermindAssumption
  <2>3. n \in 1 .. n /\ game.trials[n] = m.guess
    BY <1>5, <2>2
  <2>4. game.trials # <<>> /\ Last(game.trials) = m.guess /\ m.guess # game.key
    BY <1>3, <1>4, <2>3, EmptySeq DEF Last, GoesOn
  <2>5. /\ a \in ModelAnswers /\ a.cmd = m.cmd /\ a.kind = "RTR" /\ a.status = "OK"
        /\ a.nT = n /\ a.res.nB # GuessSize /\ a.res = Compare(a.key, m.guess)
    BY <1>1, <1>2, <1>3, <1>4, <2>1, <2>4, TryOkFields DEF ModelAnswers
  <2>6. Serve(a)
    BY <1>7, <1>8, <2>1
  <2>7. Served(m, a, game, game)
    BY <1>2, <1>3, <1>4, <1>5, <2>2, <2>3, <2>5 DEF Served, Starts
  <2> QED BY <1>1, <1>2, <2>5, <2>6, <2>7
<1>9. CASE kind \in {"DUP", "INV"}
  <2>1. PICK a : a = Answers("RTR", kind)
    OBVIOUS
  <2>2. a = [cmd |-> m.cmd, kind |-> "RTR", status |-> kind]
    BY <1>1, <2>1 DEF Answers
  <2>3. a \in ModelAnswers /\ a.cmd = m.cmd /\ a.kind = "RTR" /\ a.status = kind
    BY <1>3, <1>9, <2>2 DEF ModelAnswers
  <2>4. Serve(a)
    BY <1>7, <1>9, <2>1
  <2>5. CASE kind = "DUP"
    <3>1. m.nT = n + 1
      BY <1>6, <2>5
    <3> QED BY <1>1, <1>2, <1>3, <1>4, <2>3, <2>4, <2>5, <3>1 DEF Served, Starts
  <2>6. CASE kind = "INV"
    <3>1. m.nT # n + 1 /\ ~ (m.nT = n /\ same = n)
      BY <1>6, <2>6
    <3>2. ~ (m.nT = n /\ m.nT # 0 /\ game.trials[m.nT] = m.guess)
      BY <1>5, <3>1
    <3> QED BY <1>1, <1>2, <1>3, <1>4, <2>3, <2>4, <2>6, <3>1, <3>2 DEF Served, Starts
  <2> QED BY <1>9, <2>5, <2>6
<1> QED BY <1>2, <1>6, <1>8, <1>9

\* The start of a game, which is refused if there is one.
LEMMA StartServed ==
  ASSUME PlayerInv, GameOK, NEW kind \in Starts, ServeStart(kind)
  PROVE  \E a \in ModelAnswers :
           /\ Serve(a) /\ toServer # <<>> /\ Served(Head(toServer), a, game, game')
           /\ game' = game \/ (game'.cmd = Head(toServer).cmd /\ GoesOn(game'))
<1>1. PICK m : m = Head(toServer)
  OBVIOUS
<1>2. m \in ModelRequests /\ toServer # <<>> /\ m.kind = kind
  BY <1>1, TailIsThinner DEF ServeStart, Asked, PlayerInv, PlayerTypes
<1>3. m.cmd \in Nat /\ m.keys \subseteq Guesses /\ Reply(kind) \in {"RSG", "RDB"} /\ kind \notin {"TRY", "QUT"}
  BY <1>2 DEF ModelRequests, Starts, Reply
<1>4. \A status \in {"OK", "NOK"} :
        LET a == Answers(Reply(kind), status)
        IN a \in ModelAnswers /\ a.cmd = m.cmd /\ a.kind = Reply(kind) /\ a.status = status
  BY <1>1, <1>3 DEF Answers, ModelAnswers
<1>5. CASE game # Nothing /\ Serve(Answers(Reply(kind), "NOK")) /\ UNCHANGED <<server, plays>>
  <2>1. PICK a : a = Answers(Reply(kind), "NOK")
    OBVIOUS
  <2>2. a \in ModelAnswers /\ a.cmd = m.cmd /\ a.kind = Reply(kind) /\ a.status = "NOK"
    BY <1>4, <2>1
  <2>3. game' = game
    BY <1>5 DEF server
  <2>4. Served(m, a, game, game')
    BY <1>2, <1>3, <1>5, <2>2, <2>3 DEF Served
  <2> QED BY <1>1, <1>2, <1>5, <2>1, <2>2, <2>3, <2>4
<1>6. CASE /\ Serve(Answers(Reply(kind), "OK"))
           /\ \E key \in Head(toServer).keys :
                game' = [cmd |-> Head(toServer).cmd, key |-> key, trials |-> <<>>, end |-> NoEnd,
                         start |-> 0, dur |-> 0]
  <2>1. PICK a : a = Answers(Reply(kind), "OK")
    OBVIOUS
  <2>2. a \in ModelAnswers /\ a.cmd = m.cmd /\ a.kind = Reply(kind) /\ a.status = "OK"
    BY <1>4, <2>1
  <2>3. game'.trials = <<>> /\ Len(game'.trials) = 0 /\ game'.cmd = m.cmd
    BY <1>1, <1>6, EmptySeq
  <2>4. game' # Nothing
    <3>1. game' \in [cmd : Nat, key : Guesses, trials : Seq(Guesses), end : {NoEnd}, start : {0}, dur : {0}]
      BY <1>1, <1>3, <1>6, EmptySeq
    <3> QED BY <3>1, PlayerAssumption
  <2>5. Served(m, a, game, game')
    BY <1>2, <1>3, <2>2, <2>3, <2>4 DEF Served
  <2>6. GoesOn(game')
    BY <2>3, EmptyGame
  <2> QED BY <1>1, <1>2, <1>6, <2>1, <2>2, <2>3, <2>5, <2>6
<1> QED BY <1>5, <1>6 DEF ServeStart

\* Every step of the server is one answer, and a game that goes on is not over.
LEMMA ServerServes ==
  ASSUME PlayerInv, GameOK, ServerNext
  PROVE  \E a \in ModelAnswers :
           /\ Serve(a) /\ toServer # <<>> /\ Served(Head(toServer), a, game, game')
           /\ game' # Nothing => sends # 0 /\ game'.cmd <= request.cmd /\ GoesOn(game')
<1>1. ASSUME toServer # <<>>, NEW a, Serve(a)
      PROVE  Head(toServer).cmd \in Nat /\ Head(toServer).cmd <= request.cmd /\ sends # 0
  BY <1>1, ServeFacts
<1>2. ASSUME NEW kind \in Starts, ServeStart(kind)
      PROVE  \E a \in ModelAnswers :
               /\ Serve(a) /\ toServer # <<>> /\ Served(Head(toServer), a, game, game')
               /\ game' # Nothing => sends # 0 /\ game'.cmd <= request.cmd /\ GoesOn(game')
  <2>1. PICK a \in ModelAnswers :
           /\ Serve(a) /\ toServer # <<>> /\ Served(Head(toServer), a, game, game')
           /\ game' = game \/ (game'.cmd = Head(toServer).cmd /\ GoesOn(game'))
    BY <1>2, StartServed
  <2> QED BY <1>1, <2>1 DEF GameOK
<1>3. CASE ServePlay
  <2>1. PICK a \in ModelAnswers :
           /\ Serve(a) /\ toServer # <<>> /\ Served(Head(toServer), a, game, game')
           /\ game' # Nothing => game'.cmd = game.cmd /\ GoesOn(game')
    BY <1>3, PlayServed
  <2>2. game # Nothing
    BY <1>3 DEF ServePlay
  <2> QED BY <2>1, <2>2 DEF GameOK
<1>4. CASE ServeNoPlay
  BY <1>4, NoPlayServed DEF GameOK
<1>5. ASSUME toServer # <<>>, NEW kind \in {"RQT", "RTR"}, NEW status \in {"OK", "NOK", "ETM"},
             kind = "RQT" => status # "ETM", kind = "RTR" => status # "OK",
             Reply(Head(toServer).kind) = kind, Head(toServer).kind \in {"QUT", "TRY"},
             Serve(Answers(kind, status)), game' = Nothing
      PROVE  \E a \in ModelAnswers :
               Serve(a) /\ toServer # <<>> /\ Served(Head(toServer), a, game, game')
  <2>1. PICK a : a = Answers(kind, status)
    OBVIOUS
  <2>2. a = [cmd |-> Head(toServer).cmd, kind |-> kind, status |-> status] /\ Head(toServer).cmd \in Nat
    BY <1>1, <1>5, <2>1 DEF Answers
  <2>3. a \in ModelAnswers /\ a.cmd = Head(toServer).cmd /\ a.kind = kind /\ a.status = status
    BY <1>5, <2>2 DEF ModelAnswers
  <2>4. Head(toServer).kind = "TRY" => kind = "RTR"
    BY <1>5 DEF Reply
  <2>5. Served(Head(toServer), a, game, game')
    BY <1>5, <2>3, <2>4 DEF Served, Starts
  <2> QED BY <1>5, <2>1, <2>3, <2>5
<1>6. CASE ServeQuit
  <2>1. toServer # <<>> /\ Head(toServer).kind = "QUT" /\ game' = Nothing
    BY <1>6 DEF ServeQuit, Asked
  <2>2. PICK status \in {"OK", "NOK"} : Serve(Answers("RQT", status))
    BY <1>6 DEF ServeQuit
  <2> QED BY <1>5, <2>1, <2>2 DEF Reply
<1>7. CASE ServeTryNoGame
  <2>1. toServer # <<>> /\ Head(toServer).kind = "TRY" /\ game' = Nothing
    BY <1>7 DEF ServeTryNoGame, Asked
  <2>2. PICK status \in {"NOK", "ETM"} : Serve(Answers("RTR", status))
    BY <1>7 DEF ServeTryNoGame
  <2> QED BY <1>5, <2>1, <2>2 DEF Reply
<1> QED BY <1>2, <1>3, <1>4, <1>6, <1>7 DEF ServerNext, Starts

\* ... and its answer OK is of a trial that was not the last one, or that won.
LEMMA ServedFits ==
  ASSUME NEW m \in ModelRequests, NEW a \in ModelAnswers, NEW g, NEW h, Served(m, a, g, h)
  PROVE  a \in FitAnswers
<1>1. m.kind \in {"SNG", "DBG", "TRY", "QUT"} /\ a.kind = Reply(m.kind)
  BY DEF ModelRequests, Served
<1>2. a.kind = "RTR" => m.kind = "TRY"
  BY <1>1 DEF Reply
<1>3. m.kind = "TRY" /\ a.status = "OK" => a.nT < MaxTrials \/ a.res.nB = GuessSize
  BY DEF Served
<1> QED BY <1>2, <1>3 DEF FitAnswers

\* What the answer of a client's wait leaves of its datagrams.
LEMMA ReceiveFacts ==
  ASSUME GameOK, NEW kinds, Receive(kinds)
  PROVE  /\ client = "waiting" /\ request.kind \in kinds
         /\ Len(toClient) \in Nat \ {0} /\ Head(toClient) = toClient[1] /\ Head(toClient) \in FitAnswers
         /\ toClient' \in Seq(FitAnswers) /\ Len(toClient') = Len(toClient) - 1
         /\ UNCHANGED <<request, sends, toServer, game, timeUp, commands, plays, late>>
<1>1. toClient # <<>> /\ toClient' = Tail(toClient) /\ toClient \in Seq(FitAnswers)
  BY DEF Receive, GameOK
<1>2. /\ Len(toClient) \in Nat \ {0} /\ Head(toClient) = toClient[1] /\ Head(toClient) \in FitAnswers
      /\ toClient' \in Seq(FitAnswers) /\ Len(toClient') = Len(toClient) - 1
  <2>1. Len(toClient) \in Nat \ {0} /\ DOMAIN toClient = 1 .. Len(toClient)
    BY <1>1, EmptySeq, LenProperties
  <2> QED BY <1>1, <2>1, HeadTailProperties
<1> QED BY <1>2 DEF Receive, server

\* Every answer to the client is one Receive.
LEMMA ClientReceives ==
  ASSUME ClientNext
  PROVE  Resend \/ GiveUp \/ \E kinds : Receive(kinds)
BY DEF ClientNext, BadResponse, Started, HasQuit, Refused, Accepted

------------------------------------------------------------------------------
\* The invariant of the game on the server and of what is under way to the client.
LEMMA GameKeeps == ASSUME PlayerInv, GameOK, PlayerNext PROVE GameOK'
<1>1. CASE User
  <2>1. CASE \E r \in ModelRequests : AskServer(r) /\ r.cmd = Command
    <3>1. PICK r \in ModelRequests : AskServer(r) /\ r.cmd = Command
      BY <2>1
    <3>2. toClient' = toClient /\ game' = game /\ sends' = 1 /\ request' = r
      BY <3>1 DEF AskServer, server
    <3>3. game # Nothing => game.cmd <= r.cmd
      BY <3>1 DEF GameOK, PlayerInv, PlayerTypes, ModelGames, ModelRequests, Command
    <3> QED BY <3>2, <3>3 DEF GameOK
  <2>2. CASE Exit
    BY <2>2 DEF Exit, net, server, GameOK
  <2>3. CASE ShowTrials
    <3>1. /\ game' = game \/ game' = Nothing
          /\ UNCHANGED <<toClient, request, sends>>
      BY <2>3 DEF ShowTrials, net
    <3> QED BY <3>1 DEF GameOK
  <2> QED BY <1>1, <2>1, <2>2, <2>3, UserAsks
<1>2. CASE ServerNext
  <2>1. PICK a \in ModelAnswers :
           /\ Serve(a) /\ toServer # <<>> /\ Served(Head(toServer), a, game, game')
           /\ game' # Nothing => sends # 0 /\ game'.cmd <= request.cmd /\ GoesOn(game')
    BY <1>2, ServerServes
  <2>2. a \in FitAnswers
    BY <2>1, ServeFacts, ServedFits
  <2>3. toClient' \in Seq(FitAnswers)
    BY <2>1, <2>2, AppendProperties DEF Serve, GameOK
  <2>4. UNCHANGED <<request, sends>>
    BY <2>1 DEF Serve, player
  <2> QED BY <2>1, <2>3, <2>4 DEF GameOK
<1>3. CASE ClientNext
  <2>1. CASE Resend \/ GiveUp
    <3>1. toClient' = toClient /\ game' = game /\ request' = request
      BY <2>1 DEF Resend, GiveUp, net, server
    <3>2. sends # 0 => sends' # 0
      BY <2>1 DEF Resend, GiveUp, PlayerInv, PlayerTypes
    <3> QED BY <3>1, <3>2 DEF GameOK
  <2>2. CASE \E kinds : Receive(kinds)
    BY <2>2, ReceiveFacts DEF GameOK
  <2> QED BY <1>3, <2>1, <2>2, ClientReceives
<1>4. CASE Lose
  <2>1. toClient' \in Seq(FitAnswers)
    BY <1>4, RemoveAtIndexes DEF Lose, GameOK
  <2> QED BY <1>4, <2>1 DEF Lose, player, server, GameOK
<1>5. CASE TimePasses
  BY <1>5 DEF TimePasses, player, net, GameOK
<1> QED BY <1>1, <1>2, <1>3, <1>4, <1>5 DEF PlayerNext

------------------------------------------------------------------------------
\* Every command sends at most MaxResend datagrams, and the server answers each once.
CountsOK ==
  /\ sends <= MaxResend /\ commands <= MaxCommands
  /\ sends = 0 => toServer = <<>> /\ toClient = <<>>
  /\ sends # 0 => commands # 0 /\ Len(toServer) + Len(toClient) <= (commands - 1) * MaxResend + sends

\* Bounds on what is sent: a command more, and all the commands.
LEMMA SentBounds ==
  ASSUME NEW c \in Nat, NEW n \in Nat, c <= n
  PROVE  /\ c * MaxResend \in Nat /\ c * MaxResend <= n * MaxResend
         /\ c # 0 => (c - 1) * MaxResend + MaxResend = c * MaxResend
<1>1. MaxResend \in Nat
  BY PlayerAssumption
<1>2. PICK k \in Nat : n = c + k
  <2>1. n - c \in Nat /\ n = c + (n - c)
    OBVIOUS
  <2> QED BY <2>1
<1>3. c * MaxResend \in Nat /\ k * MaxResend \in Nat
  BY <1>1
<1>4. (c + k) * MaxResend = c * MaxResend + k * MaxResend
  BY <1>1
<1>5. c # 0 => (c - 1) * MaxResend + MaxResend = c * MaxResend
  BY <1>1
<1> QED BY <1>2, <1>3, <1>4, <1>5

\* What is under way stays within what was sent.
LEMMA CountsKeep == ASSUME PlayerInv, GameOK, CountsOK, PlayerNext PROVE CountsOK'
<1>0. /\ toServer \in Seq(ModelRequests) /\ toClient \in Seq(FitAnswers)
      /\ Len(toServer) \in Nat /\ Len(toClient) \in Nat /\ Len(<<>>) = 0
      /\ commands \in Nat /\ sends \in Nat /\ MaxResend \in Nat \ {0} /\ MaxCommands \in Nat
  BY LenProperties, EmptySeq, PlayerAssumption DEF PlayerInv, PlayerTypes, GameOK
<1>1. PICK b : b = (commands - 1) * MaxResend
  OBVIOUS
<1>2. commands # 0 => b \in Nat /\ b + MaxResend = commands * MaxResend
  BY <1>0, <1>1, SentBounds
<1>3. ASSUME UNCHANGED <<commands, sends>>, sends = 0 => toServer' = <<>> /\ toClient' = <<>>,
             Len(toServer') \in Nat, Len(toClient') \in Nat,
             Len(toServer') + Len(toClient') <= Len(toServer) + Len(toClient)
      PROVE  CountsOK'
  BY <1>0, <1>1, <1>2, <1>3 DEF CountsOK
<1>4. CASE User
  <2>1. CASE \E r \in ModelRequests : AskServer(r) /\ r.cmd = Command /\ commands < MaxCommands
    <3>1. PICK r \in ModelRequests : AskServer(r) /\ commands < MaxCommands
      BY <2>1
    <3>2. /\ toClient' = toClient /\ sends' = 1 /\ commands' = commands + 1
          /\ Len(toServer') = Len(toServer) + 1
      BY <1>0, <3>1, AppendProperties DEF AskServer
    <3>3. Len(toServer') + Len(toClient') <= commands * MaxResend + 1
      <4>1. CASE sends = 0
        <5>1. commands * MaxResend \in Nat
          BY <1>0, SentBounds
        <5> QED BY <1>0, <3>2, <4>1, <5>1 DEF CountsOK
      <4>2. CASE sends # 0
        BY <1>0, <1>1, <1>2, <3>2, <4>2 DEF CountsOK
      <4> QED BY <4>1, <4>2
    <3>4. commands' - 1 = commands
      BY <1>0, <3>2
    <3>5. (commands' - 1) * MaxResend = commands * MaxResend
      BY <3>4
    <3> QED BY <1>0, <3>1, <3>2, <3>3, <3>5 DEF CountsOK
  <2>2. CASE Exit
    BY <2>2 DEF Exit, net, playerGhosts, CountsOK
  <2>3. CASE ShowTrials
    <3>1. commands < MaxCommands /\ commands' = commands + 1 /\ UNCHANGED <<toServer, toClient, sends>>
      BY <2>3 DEF ShowTrials, May, net
    <3>2. commands' - 1 = commands
      BY <1>0, <3>1
    <3>3. (commands' - 1) * MaxResend = commands * MaxResend
      BY <3>2
    <3>4. sends # 0 => Len(toServer) + Len(toClient) <= commands * MaxResend + sends
      BY <1>0, <1>1, <1>2 DEF CountsOK
    <3> QED BY <1>0, <3>1, <3>3, <3>4 DEF CountsOK
  <2> QED BY <1>4, <2>1, <2>2, <2>3, UserAsks
<1>5. CASE ServerNext
  <2>1. PICK a \in ModelAnswers : Serve(a) /\ toServer # <<>> /\ Served(Head(toServer), a, game, game')
    BY <1>5, ServerServes
  <2>2. a \in FitAnswers
    BY <2>1, ServeFacts, ServedFits
  <2>3. Len(toServer') = Len(toServer) - 1 /\ Len(toServer') \in Nat
    BY <1>0, <2>1, EmptySeq, HeadTailProperties DEF Serve
  <2>4. Len(toClient') = Len(toClient) + 1
    BY <1>0, <2>1, <2>2, AppendProperties DEF Serve
  <2>5. sends # 0 /\ UNCHANGED <<commands, sends>>
    BY <2>1, ServeFacts
  <2> QED BY <1>0, <1>3, <2>3, <2>4, <2>5
<1>6. CASE Resend
  <2>1. /\ sends' = sends + 1 /\ sends < MaxResend /\ sends # 0 /\ UNCHANGED <<toClient, commands>>
        /\ toServer' = Append(toServer, request) /\ request \in ModelRequests
    BY <1>6 DEF Resend, PlayerInv, PlayerTypes
  <2>2. Len(toServer') = Len(toServer) + 1
    BY <1>0, <2>1, AppendProperties
  <2> QED BY <1>0, <1>1, <1>2, <2>1, <2>2 DEF CountsOK
<1>7. CASE GiveUp
  BY <1>7 DEF GiveUp, net, CountsOK
<1>8. CASE \E kinds : Receive(kinds)
  <2>1. /\ Len(toClient) # 0 /\ Len(toClient') = Len(toClient) - 1
        /\ UNCHANGED <<sends, toServer, commands>>
    BY <1>8, ReceiveFacts
  <2>2. sends # 0
    BY <1>0, <2>1 DEF CountsOK
  <2> QED BY <1>0, <1>3, <2>1, <2>2
<1>9. CASE Lose
  <2>1. UNCHANGED <<commands, sends>>
    BY <1>9 DEF Lose, player, playerGhosts
  <2>2. /\ \E i \in DOMAIN toServer : Len(toServer') = Len(toServer) - 1 /\ i \in 1 .. Len(toServer)
        /\ toClient' = toClient
        \/ /\ \E i \in DOMAIN toClient : Len(toClient') = Len(toClient) - 1 /\ i \in 1 .. Len(toClient)
           /\ toServer' = toServer
    BY <1>0, <1>9, RemoveAtIndexes DEF Lose
  <2>3. Len(toServer) + Len(toClient) # 0
    BY <1>0, <2>2
  <2>4. sends # 0
    BY <1>0, <2>3 DEF CountsOK
  <2> QED BY <1>0, <1>3, <2>1, <2>2, <2>4
<1>10. CASE TimePasses
  BY <1>10 DEF TimePasses, player, net, playerGhosts, CountsOK
<1> QED BY <1>4, <1>5, <1>6, <1>7, <1>8, <1>9, <1>10, ClientReceives DEF PlayerNext

------------------------------------------------------------------------------
\* A client that is in a game has a trial left.
ClientOK ==
  /\ isPlidSet \in BOOLEAN /\ inGame \in BOOLEAN /\ client \in {"ready", "waiting", "over"}
  /\ trial <= MaxTrials
  /\ (client = "ready" /\ inGame) \/ (client = "waiting" /\ (inGame \/ request.kind = "TRY"))
       => trial < MaxTrials

\* The client counts no trial more than there are: the answer OK that keeps it in the game
\* is of a trial that was not the last one, and has the number that it counts.
LEMMA ClientOKKeeps == ASSUME PlayerInv, GameOK, ClientOK, PlayerNext PROVE ClientOK'
<1>0. trial \in Nat /\ trial + 1 \in Nat /\ MaxTrials \in Nat \ {0}
  BY MastermindAssumption DEF PlayerInv, PlayerTypes
<1>1. CASE User
  <2>1. CASE \E r \in ModelRequests :
               /\ AskServer(r) /\ client = "ready"
               /\ \/ r.kind \in Starts /\ ~inGame /\ inGame' = inGame
                  \/ r.kind = "TRY" /\ inGame /\ inGame' = inGame
                  \/ r.kind = "QUT" /\ inGame' = FALSE
    <3>1. PICK r \in ModelRequests :
            /\ AskServer(r)
            /\ \/ r.kind \in Starts /\ ~inGame /\ inGame' = inGame
               \/ r.kind = "TRY" /\ inGame /\ inGame' = inGame
               \/ r.kind = "QUT" /\ inGame' = FALSE
      BY <2>1
    <3>2. client' = "waiting" /\ request' = r /\ UNCHANGED <<isPlidSet, trial>>
      BY <3>1 DEF AskServer
    <3>3. inGame' \in BOOLEAN /\ (inGame' => inGame)
      <4>1. CASE inGame' = inGame
        BY <4>1 DEF ClientOK
      <4>2. CASE inGame' = FALSE
        BY <4>2
      <4> QED BY <3>1, <4>1, <4>2
    <3>4. r.kind = "TRY" => inGame
      BY <3>1 DEF Starts
    <3>5. client = "ready" /\ inGame => trial < MaxTrials
      BY DEF ClientOK
    <3> QED BY <2>1, <3>2, <3>3, <3>4, <3>5 DEF ClientOK
  <2>2. CASE Exit
    BY <2>2 DEF Exit, ClientOK
  <2>3. CASE ShowTrials
    <3>1. /\ client = "ready" /\ inGame' \in BOOLEAN /\ (inGame' => inGame)
          /\ UNCHANGED <<client, isPlidSet, trial, request>>
      BY <2>3 DEF ShowTrials, May
    <3> QED BY <3>1 DEF ClientOK
  <2> QED BY <1>1, <2>1, <2>2, <2>3, UserAsks
<1>2. CASE ServerNext
  <2>1. \E a : Serve(a)
    BY <1>2, ServerServes
  <2> QED BY <2>1 DEF Serve, player, ClientOK
<1>3. CASE ClientNext
  <2>1. CASE Resend \/ GiveUp
    BY <2>1 DEF Resend, GiveUp, ClientOK
  <2>2. CASE BadResponse
    BY <2>2 DEF BadResponse, ClientOK
  <2>3. CASE Started
    <3>1. client = "waiting" /\ request' = request
      BY <2>3, ReceiveFacts DEF Started
    <3>2. client' = "ready"
      BY <2>3 DEF Started
    <3>3. CASE isPlidSet' = TRUE /\ inGame' = TRUE /\ trial' = 0
      BY <1>0, <3>2, <3>3 DEF ClientOK
    <3>4. CASE UNCHANGED <<isPlidSet, inGame, trial>>
      BY <3>1, <3>2, <3>4 DEF ClientOK
    <3> QED BY <2>3, <3>3, <3>4 DEF Started
  <2>4. CASE HasQuit
    <3>1. client = "waiting" /\ request' = request
      BY <2>4, ReceiveFacts DEF HasQuit
    <3> QED BY <2>4, <3>1 DEF HasQuit, ClientOK
  <2>5. CASE Refused
    <3>1. client = "waiting" /\ request.kind = "TRY"
      BY <2>5, ReceiveFacts DEF Refused
    <3> QED BY <2>5, <3>1 DEF Refused, ClientOK
  <2>6. CASE Accepted
    <3>1. /\ client = "waiting" /\ request.kind = "TRY" /\ request' = request
          /\ Head(toClient) \in FitAnswers
      BY <2>6, ReceiveFacts DEF Accepted
    <3>2. trial' = trial + 1 /\ trial < MaxTrials
      BY <2>6, <3>1 DEF Accepted, ClientOK
    <3>3. Head(toClient).nT < MaxTrials \/ Head(toClient).res.nB = GuessSize
      BY <2>6, <3>1 DEF Accepted, FitAnswers
    <3>4. \/ client' = "over" /\ inGame' = inGame
          \/ /\ client' = "ready" /\ Head(toClient).nT = trial'
             /\ inGame' = (Head(toClient).res.nB # GuessSize)
      BY <2>6 DEF Accepted
    <3>5. isPlidSet' = isPlidSet
      BY <2>6 DEF Accepted
    <3>6. CASE client' = "over" /\ inGame' = inGame
      BY <1>0, <3>2, <3>5, <3>6 DEF ClientOK
    <3>7. CASE /\ client' = "ready" /\ Head(toClient).nT = trial'
               /\ inGame' = (Head(toClient).res.nB # GuessSize)
      <4>1. inGame' \in BOOLEAN /\ (inGame' => trial' < MaxTrials)
        BY <3>3, <3>7
      <4> QED BY <1>0, <3>2, <3>5, <3>7, <4>1 DEF ClientOK
    <3> QED BY <3>4, <3>6, <3>7
  <2> QED BY <1>3, <2>1, <2>2, <2>3, <2>4, <2>5, <2>6 DEF ClientNext
<1>4. CASE Lose \/ TimePasses
  BY <1>4 DEF Lose, TimePasses, player, ClientOK
<1> QED BY <1>1, <1>2, <1>3, <1>4 DEF PlayerNext

------------------------------------------------------------------------------
(* While no datagram is later than the timeout, one request or one answer is   *)
(* under way at most, and it is of the command that the client waits for.      *)

\* What answer a to the request says of the game of the server.
AnswerFits(a) ==
  /\ a.cmd = request.cmd
  /\ request.kind \in Starts =>
       /\ a.status = "OK" => game # Nothing /\ Len(game.trials) = 0
       /\ a.status # "OK" /\ game # Nothing => game.cmd < request.cmd \/ sends > 1
  /\ request.kind = "QUT" => game = Nothing
  /\ request.kind = "TRY" =>
       /\ a.status = "OK" => IF game = Nothing THEN a.res.nB = GuessSize
                             ELSE Len(game.trials) = trial + 1 /\ a.res.nB # GuessSize
       /\ a.status = "DUP" => game # Nothing /\ Len(game.trials) = trial
       /\ a.status \notin {"OK", "DUP"} => game = Nothing
       /\ a.status = "OK" => a.res = Compare(a.key, request.guess)

\* A client that waits: the trial that it asks for is the next one of the server, or it is
\* the last one and the answer was lost.
Waits ==
  /\ request.kind \in Starts =>
       ~inGame /\ (game # Nothing /\ toServer # <<>> /\ sends = 1 => game.cmd < request.cmd)
  /\ request.kind = "QUT" => ~inGame
  /\ request.kind = "TRY" =>
       /\ inGame /\ request.nT = trial + 1
       /\ game # Nothing =>
            \/ Len(game.trials) = trial
            \/ Len(game.trials) = trial + 1 /\ game.trials[trial + 1] = request.guess

Channel ==
  \/ toServer = <<>> /\ toClient = <<>>
  \/ toServer = <<request>> /\ toClient = <<>>
  \/ toServer = <<>> /\ Len(toClient) = 1 /\ AnswerFits(toClient[1])

Coupled ==
  ~late =>
    /\ client = "ready" => toServer = <<>> /\ toClient = <<>>
    /\ client = "waiting" => Channel /\ Waits

Told == ~late => shown.own /\ shown.right

\* The invariant of the whole.
Whole == GameOK /\ CountsOK /\ ClientOK /\ Coupled /\ Agreement /\ Told


\* A command of the user finds the client and the server in agreement.
LEMMA UserAgrees ==
  ASSUME PlayerInv, Whole, User
  PROVE  Coupled' /\ Agreement' /\ Told'
<1>0. ~late /\ client = "ready" => toServer = <<>> /\ toClient = <<>>
  BY DEF Whole, Coupled
<1>1. CASE \E r \in ModelRequests :
             /\ AskServer(r) /\ r.cmd = Command /\ client = "ready"
             /\ \/ r.kind \in Starts /\ ~inGame /\ inGame' = inGame
                \/ r.kind = "TRY" /\ r.nT = trial + 1 /\ inGame /\ inGame' = inGame
                \/ r.kind = "QUT" /\ inGame' = FALSE
  <2>1. PICK r \in ModelRequests :
          /\ AskServer(r) /\ r.cmd = Command
          /\ \/ r.kind \in Starts /\ ~inGame /\ inGame' = inGame
             \/ r.kind = "TRY" /\ r.nT = trial + 1 /\ inGame /\ inGame' = inGame
             \/ r.kind = "QUT" /\ inGame' = FALSE
    BY <1>1
  <2>2. /\ client' = "waiting" /\ request' = r /\ sends' = 1 /\ toServer' = Append(toServer, r)
        /\ UNCHANGED <<trial, toClient, game, late, shown>>
    BY <2>1 DEF AskServer, server
  <2>3. game # Nothing => game.cmd < r.cmd
    <3>1. game # Nothing => game.cmd \in Nat /\ request.cmd \in Nat /\ game.cmd <= request.cmd /\ request.cmd <= commands
      BY DEF Whole, GameOK, PlayerInv, PlayerTypes, ModelGames, ModelRequests
    <3>2. commands \in Nat /\ r.cmd = commands + 1
      BY <2>1 DEF Command, PlayerInv, PlayerTypes
    <3> QED BY <3>1, <3>2
  <2>4. ~late => Channel'
    <3>1. Append(<<>>, r) = <<r>>
      OBVIOUS
    <3> QED BY <1>0, <1>1, <2>2, <3>1 DEF Channel
  <2>5. ~late => Waits'
    <3>1. ~late /\ inGame /\ game # Nothing => Len(game.trials) = trial
      BY <1>1 DEF Whole, Agreement
    <3>2. CASE r.kind \in Starts /\ ~inGame /\ inGame' = inGame
      BY <2>2, <2>3, <3>2 DEF Waits, Starts
    <3>3. CASE r.kind = "TRY" /\ r.nT = trial + 1 /\ inGame /\ inGame' = inGame
      BY <2>2, <3>1, <3>3 DEF Waits, Starts
    <3>4. CASE r.kind = "QUT" /\ inGame' = FALSE
      BY <2>2, <3>4 DEF Waits, Starts
    <3> QED BY <2>1, <3>2, <3>3, <3>4
  <2> QED BY <2>2, <2>4, <2>5 DEF Whole, Coupled, Agreement, Told
<1>2. CASE Exit
  BY <1>2 DEF Exit, net, server, playerGhosts, Whole, Coupled, Agreement, Told
<1>3. CASE ShowTrials
  <2>1. /\ client = "ready" /\ UNCHANGED <<client, toServer, toClient, trial, request, sends, late, shown>>
        /\ \/ game' = game /\ inGame' = inGame
           \/ game' = Nothing /\ inGame' = FALSE
    <3>1. inGame \in BOOLEAN
      BY DEF Whole, ClientOK
    <3> QED BY <1>3, <3>1 DEF ShowTrials, May, net
  <2> QED BY <2>1 DEF Whole, Coupled, Agreement, Told
<1> QED BY <1>1, <1>2, <1>3, UserAsks

\* The server answers the one request, and the answer fits what it leaves.
LEMMA ServerAgrees ==
  ASSUME PlayerInv, Whole, ServerNext
  PROVE  Coupled' /\ Agreement' /\ Told'
<1>1. PICK a \in ModelAnswers :
         Serve(a) /\ toServer # <<>> /\ Served(Head(toServer), a, game, game')
  BY ServerServes DEF Whole
<1>2. UNCHANGED <<client, inGame, trial, request, sends, late, shown>>
  BY <1>1 DEF Serve, player
<1>3. SUFFICES ASSUME ~late PROVE Coupled' /\ Agreement'
  BY <1>2 DEF Whole, Coupled, Agreement, Told
<1>4. client # "ready"
  BY <1>1, <1>3 DEF Whole, Coupled
<1>5. CASE client = "waiting"
  <2>1. toServer = <<request>> /\ toClient = <<>> /\ Waits
    <3>1. Channel /\ Waits
      BY <1>3, <1>5 DEF Whole, Coupled
    <3> QED BY <1>1, <3>1 DEF Channel
  <2>2. Head(toServer) = request /\ toServer' = <<>> /\ toClient' = <<a>>
    BY <1>1, <2>1 DEF Serve
  <2>3. /\ Served(request, a, game, game') /\ sends \in Nat \ {0} /\ trial \in Nat
        /\ request \in ModelRequests
    BY <1>1, <1>5, <2>2 DEF PlayerInv, PlayerTypes
  <2>4. AnswerFits(a)'
    <3>1. a.cmd = request.cmd
      BY <2>3 DEF Served
    <3>2. CASE request.kind \in Starts
      BY <1>2, <2>1, <2>3, <3>1, <3>2 DEF AnswerFits, Served, Waits, Starts
    <3>3. CASE request.kind = "QUT"
      BY <1>2, <2>3, <3>1, <3>3 DEF AnswerFits, Served, Starts
    <3>4. CASE request.kind = "TRY"
      BY <1>2, <2>1, <2>3, <3>1, <3>4 DEF AnswerFits, Served, Waits, Starts
    <3> QED BY <2>3, <3>2, <3>3, <3>4 DEF ModelRequests, Starts
  <2>5. Channel'
    BY <2>2, <2>4 DEF Channel
  <2>6. Waits'
    <3>1. CASE request.kind = "TRY"
      BY <1>2, <2>1, <2>2, <2>3, <3>1 DEF Served, Waits, Starts
    <3>2. CASE request.kind # "TRY"
      BY <1>2, <2>1, <2>2, <3>2 DEF Waits
    <3> QED BY <3>1, <3>2
  <2> QED BY <1>2, <1>5, <2>5, <2>6 DEF Coupled, Agreement
<1> QED BY <1>2, <1>4, <1>5 DEF Coupled, Agreement

\* The answer that the client takes is of its command, and it ends its wait in agreement.
LEMMA ClientAgrees ==
  ASSUME PlayerInv, Whole, NEW kinds, Receive(kinds), BadResponse \/ Started \/ HasQuit \/ Refused \/ Accepted
  PROVE  Coupled' /\ Agreement' /\ Told'
<1>1. PICK a : a = Head(toClient)
  OBVIOUS
<1>2. /\ client = "waiting" /\ UNCHANGED <<request, sends, toServer, game, late>>
      /\ Len(toClient) \in Nat \ {0} /\ Len(toClient') = Len(toClient) - 1
      /\ toClient' \in Seq(FitAnswers) /\ a = toClient[1] /\ a \in FitAnswers
  BY <1>1, ReceiveFacts DEF Whole
<1>3. trial \in Nat /\ sends \in Nat \ {0} /\ request \in ModelRequests
  BY <1>2 DEF PlayerInv, PlayerTypes
<1>4. ~late => toServer = <<>> /\ toClient' = <<>> /\ AnswerFits(a) /\ Waits
  <2>1. ~late => Channel /\ Waits
    BY <1>2 DEF Whole, Coupled
  <2>2. Len(<<>>) = 0
    BY EmptySeq
  <2>3. Len(toClient) = 1 => toClient' = <<>>
    BY <1>2, EmptySeq
  <2> QED BY <1>2, <2>1, <2>2, <2>3 DEF Channel
<1>5. CASE BadResponse
  BY <1>2, <1>5 DEF BadResponse, Whole, Coupled, Agreement, Told
<1>6. CASE Started
  <2>1. request.kind \in Starts /\ client' = "ready" /\ shown' = shown
    BY <1>6, ReceiveFacts DEF Started, Starts, Whole
  <2>2. CASE a.status = "OK" /\ inGame' = TRUE /\ trial' = 0
    BY <1>2, <1>4, <2>1, <2>2 DEF AnswerFits, Whole, Coupled, Agreement, Told
  <2>3. CASE a.status # "OK" /\ UNCHANGED <<inGame, trial>>
    <3>1. ~late /\ game # Nothing => game.cmd < request.cmd \/ sends > 1
      BY <1>4, <2>1, <2>3 DEF AnswerFits
    <3>2. ~late /\ game # Nothing => request.cmd > game.cmd \/ sends > 1
      <4>1. game # Nothing => game.cmd \in Nat /\ request.cmd \in Nat
        BY <1>3 DEF PlayerInv, PlayerTypes, ModelGames, ModelRequests
      <4> QED BY <3>1, <4>1
    <3> QED BY <1>2, <1>4, <2>1, <2>3, <3>2 DEF Waits, Starts, Whole, Coupled, Agreement, Told
  <2> QED BY <1>1, <1>6, <2>2, <2>3 DEF Started
<1>7. CASE HasQuit
  <2>1. request.kind = "QUT" /\ client' \in {"ready", "over"} /\ UNCHANGED <<inGame, trial, shown>>
    BY <1>7, ReceiveFacts DEF HasQuit, Whole
  <2> QED BY <1>2, <1>4, <2>1 DEF AnswerFits, Waits, Whole, Coupled, Agreement, Told
<1>8. CASE Refused
  <2>1. /\ request.kind = "TRY" /\ a.status # "OK" /\ client' = "ready"
        /\ inGame' = (a.status = "DUP") /\ UNCHANGED <<trial, shown>>
    BY <1>1, <1>8, ReceiveFacts DEF Refused, Whole
  <2> QED BY <1>2, <1>4, <2>1 DEF AnswerFits, Whole, Coupled, Agreement, Told
<1>9. CASE Accepted
  <2>1. /\ request.kind = "TRY" /\ a.status = "OK" /\ trial' = trial + 1
        /\ \/ client' = "over" /\ shown' = shown
           \/ /\ client' = "ready" /\ inGame' = (a.res.nB # GuessSize)
              /\ shown' = [own |-> a.cmd = request.cmd, right |-> Right(a)]
    BY <1>1, <1>9, ReceiveFacts DEF Accepted, Whole
  <2>2. CASE client' = "over" /\ shown' = shown
    BY <1>2, <2>2 DEF Whole, Coupled, Agreement, Told
  <2>3. CASE /\ client' = "ready" /\ inGame' = (a.res.nB # GuessSize)
             /\ shown' = [own |-> a.cmd = request.cmd, right |-> Right(a)]
    <3>1. ~late => a.cmd = request.cmd /\ IF game = Nothing THEN a.res.nB = GuessSize
                             ELSE Len(game.trials) = trial + 1 /\ a.res.nB # GuessSize
      BY <1>4, <2>1 DEF AnswerFits
    <3>2. shown'.own = (a.cmd = request.cmd) /\ shown'.right = Right(a)
      BY <2>3
    <3>3. ~late => Right(a)
      <4>1. a.key \in Guesses /\ request.guess \in Guesses
        BY <1>1, <1>2, <1>3, <1>9, <2>1 DEF Accepted, FitAnswers, ModelAnswers, OkAnswers, ModelRequests
      <4>2. ~late => a.res = Compare(a.key, request.guess)
        BY <1>4, <2>1 DEF AnswerFits
      <4> QED BY <4>1, <4>2, ComparisonIsRight DEF IsRight, Right
    <3>4. Told'
      BY <1>2, <3>1, <3>2, <3>3 DEF Told
    <3>5. Coupled'
      BY <1>2, <1>4, <2>3 DEF Coupled
    <3>6. Agreement'
      BY <1>2, <2>1, <2>3, <3>1 DEF Agreement
    <3> QED BY <3>4, <3>5, <3>6
  <2> QED BY <2>1, <2>2, <2>3
<1> QED BY <1>5, <1>6, <1>7, <1>8, <1>9

\* A request that is sent again in time is alone; what is lost leaves nothing.
LEMMA RestAgrees ==
  ASSUME PlayerInv, Whole, Resend \/ GiveUp \/ Lose \/ TimePasses
  PROVE  Coupled' /\ Agreement' /\ Told'
<1>1. CASE Resend
  <2>1. /\ client = "waiting" /\ sends' = sends + 1 /\ toServer' = Append(toServer, request)
        /\ late' = (late \/ ~InTime)
        /\ UNCHANGED <<client, inGame, trial, request, toClient, game, shown>>
    BY <1>1 DEF Resend, server
  <2>2. sends \in Nat \ {0}
    BY <2>1 DEF PlayerInv, PlayerTypes
  <2>3. ~late' => ~late /\ toServer = <<>> /\ toClient = <<>> /\ toServer' = <<request>>
    <3>1. Append(<<>>, request) = <<request>>
      OBVIOUS
    <3>2. ~late' => ~late /\ InTime
      BY <2>1
    <3> QED BY <2>1, <3>1, <3>2 DEF InTime
  <2>4. ~late' => Channel' /\ Waits'
    <3>1. ~late => Waits
      BY <2>1 DEF Whole, Coupled
    <3>2. sends' # 1
      BY <2>1, <2>2
    <3> QED BY <2>1, <2>3, <3>1, <3>2 DEF Channel, Waits
  <2> QED BY <2>1, <2>3, <2>4 DEF Whole, Coupled, Agreement, Told
<1>2. CASE GiveUp
  BY <1>2 DEF GiveUp, net, server, Whole, Coupled, Agreement, Told
<1>3. CASE Lose
  <2>1. UNCHANGED <<client, inGame, trial, request, sends, game, late, shown>>
    BY <1>3 DEF Lose, player, server, playerGhosts
  <2>2. toServer \in Seq(ModelRequests) /\ toClient \in Seq(FitAnswers) /\ Len(<<>>) = 0 /\ Len(<<request>>) = 1
    BY EmptySeq DEF PlayerInv, PlayerTypes, Whole, GameOK
  <2>3. \/ /\ \E i \in 1 .. Len(toServer) : Len(toServer') = Len(toServer) - 1
           /\ toServer' \in Seq(ModelRequests) /\ toClient' = toClient
        \/ /\ \E i \in 1 .. Len(toClient) : Len(toClient') = Len(toClient) - 1
           /\ toClient' \in Seq(FitAnswers) /\ toServer' = toServer
    BY <1>3, <2>2, RemoveAtIndexes DEF Lose
  <2>4. ~late => client # "ready"
    BY <2>2, <2>3 DEF Whole, Coupled
  <2>5. ~late /\ client = "waiting" => toServer' = <<>> /\ toClient' = <<>> /\ Waits'
    <3>1. ~late /\ client = "waiting" => Channel /\ Waits
      BY DEF Whole, Coupled
    <3>2. ~late /\ client = "waiting" => toServer' = <<>> /\ toClient' = <<>>
      BY <2>2, <2>3, <3>1, EmptySeq DEF Channel
    <3> QED BY <2>1, <3>1, <3>2 DEF Waits
  <2> QED BY <2>1, <2>4, <2>5 DEF Whole, Coupled, Agreement, Told, Channel
<1>4. CASE TimePasses
  BY <1>4 DEF TimePasses, player, net, playerGhosts, Whole, Coupled, Agreement, Told, Channel, AnswerFits, Waits
<1> QED BY <1>1, <1>2, <1>3, <1>4

\* The client and the server agree at the start.
LEMMA InitWhole == PlayerInit => Whole
<1>1. <<>> \in Seq(FitAnswers) /\ MaxTrials \in Nat \ {0} /\ MaxResend \in Nat /\ MaxCommands \in Nat
  BY EmptySeq, MastermindAssumption, PlayerAssumption
<1>2. PlayerInit => GameOK /\ CountsOK
  BY <1>1 DEF PlayerInit, GameOK, CountsOK
<1>3. PlayerInit => ClientOK
  <2> SUFFICES ASSUME PlayerInit PROVE ClientOK
    OBVIOUS
  <2>1. isPlidSet = FALSE /\ inGame = FALSE /\ client = "ready" /\ trial = 0
    BY DEF PlayerInit
  <2>2. isPlidSet \in BOOLEAN /\ inGame \in BOOLEAN /\ ~inGame
    BY <2>1
  <2> QED BY <1>1, <2>1, <2>2 DEF ClientOK
<1>4. PlayerInit => Coupled /\ Agreement
  BY DEF PlayerInit, Coupled, Agreement
<1>5. PlayerInit => Told
  <2>1. PlayerInit => shown = [own |-> TRUE, right |-> TRUE]
    BY DEF PlayerInit
  <2> QED BY <2>1 DEF Told
<1> QED BY <1>2, <1>3, <1>4, <1>5 DEF Whole

\* The invariants of the trials and of the whole.
LEMMA WholeInvariance == PlayerSpec => [](PlayerInv /\ Whole)
<1>1. PlayerInv /\ Whole /\ [PlayerNext]_playerVars => Whole'
  <2> SUFFICES ASSUME PlayerInv, Whole, [PlayerNext]_playerVars PROVE Whole'
    OBVIOUS
  <2>1. CASE UNCHANGED playerVars
    BY <2>1 DEF playerVars, player, net, server, playerGhosts, Whole, GameOK, GoesOn, CountsOK, ClientOK, Coupled,
       Agreement, Told, Channel, AnswerFits, Waits
  <2>2. CASE PlayerNext
    <3>1. GameOK' /\ CountsOK' /\ ClientOK'
      BY <2>2, GameKeeps, CountsKeep, ClientOKKeeps DEF Whole
    <3>2. Coupled' /\ Agreement' /\ Told'
      <4>1. CASE ClientNext
        <5>1. CASE \E kinds : Receive(kinds)
          BY <4>1, <5>1, ClientAgrees, RestAgrees DEF ClientNext
        <5> QED BY <4>1, <5>1, ClientReceives, RestAgrees
      <4> QED BY <2>2, <4>1, UserAgrees, ServerAgrees, RestAgrees DEF PlayerNext
    <3> QED BY <3>1, <3>2 DEF Whole
  <2> QED BY <2>1, <2>2
<1> QED BY <1>1, PlayerInvariance, InitWhole, PTL DEF PlayerSpec

\* The values have their types; the client never counts more trials than there are, and no
\* more datagrams are under way than the commands sent.
THEOREM PlayerTypeInvariance == PlayerSpec => []PlayerTypeOK
<1>1. PlayerInv /\ Whole => PlayerTypeOK
  <2> SUFFICES ASSUME PlayerInv, Whole PROVE PlayerTypeOK
    OBVIOUS
  <2>1. /\ commands \in Nat /\ trial \in Nat /\ sends \in Nat
        /\ MaxResend \in Nat \ {0} /\ MaxCommands \in Nat /\ MaxTrials \in Nat
        /\ commands <= MaxCommands /\ sends <= MaxResend /\ trial <= MaxTrials
        /\ Len(toServer) \in Nat /\ Len(toClient) \in Nat /\ Len(<<>>) = 0
    BY EmptySeq, LenProperties, PlayerAssumption, MastermindAssumption
       DEF PlayerInv, PlayerTypes, Whole, GameOK, CountsOK, ClientOK
  <2>2. PICK b, c, d : b = (commands - 1) * MaxResend /\ c = commands * MaxResend /\ d = MaxCommands * MaxResend
    OBVIOUS
  <2>3. /\ c \in Nat /\ d \in Nat /\ c <= d /\ d = MaxResend * MaxCommands
        /\ commands # 0 => b \in Nat /\ b + MaxResend = c
    <3>1. MaxCommands * MaxResend = MaxResend * MaxCommands
      BY <2>1
    <3> QED BY <2>1, <2>2, <3>1, SentBounds
  <2>4. Len(toServer) <= d /\ Len(toClient) <= d
    BY <2>1, <2>2, <2>3 DEF Whole, CountsOK
  <2>5. game # Nothing => Len(game.trials) < MaxTrials
    BY DEF Whole, GameOK, GoesOn
  <2> QED BY <2>1, <2>3, <2>4, <2>5 DEF Whole, ClientOK, PlayerTypeOK
<1> QED BY <1>1, WholeInvariance, PTL

\* While no datagram is later than the timeout, the client between two commands is in the
\* game of the server, at its trial, whatever was lost; or both are in none.
THEOREM Agreed == PlayerSpec => []Agreement
<1>1. PlayerInv /\ Whole => Agreement
  BY DEF Whole
<1> QED BY <1>1, WholeInvariance, PTL

\* ... and what the player is told of a guess is the answer to that guess, and is right: for
\* any colors, any number of positions, any key and any guess, the counts are those of the
\* definition of the game.
THEOREM ToldTruthfully == PlayerSpec => []ToldTheTruth
<1>1. PlayerInv /\ Whole => ToldTheTruth
  BY DEF Whole, Told, ToldTheTruth
<1> QED BY <1>1, WholeInvariance, PTL
==============================================================================
