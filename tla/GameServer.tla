----------------------------- MODULE GameServer -----------------------------
(***************************************************************************)
(* The server of 3rd year/CN: games kept in files.  The parent answers the *)
(* UDP requests one after the other; a child, forked for each connection,  *)
(* answers a TCP request from the same files and with a copy of the        *)
(* scoreboard.  A step of a process ends with one call that the others, or *)
(* a server started again, can see: the opening of a file, a line that is  *)
(* flushed, a file that is moved.  A file keeps its inode when it is moved, *)
(* so that a line may go to a file that is no longer where it was.         *)
(*                                                                         *)
(* A request with a bad syntax is answered ERR and changes nothing; it and *)
(* the answers that depend on nothing below are left out, and so is the    *)
(* reading of the scoreboard by a child, which changes nothing.            *)
(***************************************************************************)
EXTENDS Mastermind, TLC

CONSTANTS Players,
          Children,    \* how many connections are served at once
          Parent,
          Durations,   \* seconds that a player may ask for
          TopScores,   \* MAX_TOP_SCORES
          MaxGames,    \* bounds of a run: the games ever started,
          MaxTime,     \* the clock,
          MaxBoot,     \* the starts of the server
          None

ASSUME ServerAssumption ==
  /\ IsFiniteSet(Players) /\ IsFiniteSet(Children) /\ Parent \notin Children
  /\ Durations \subseteq Nat
  /\ TopScores \in Nat \ {0} /\ MaxBoot \in Nat \ {0} /\ MaxGames \in Nat /\ MaxTime \in Nat
  /\ None \notin Nat
  /\ NoEnd \notin [why : Reasons, at : Nat]

Procs == Children \cup {Parent}
Games == 1..MaxGames
Times == 0..MaxTime
Boots == 1..MaxBoot
\* Enough for every file that has a name or is open (unnamed ones are used again).
Inodes == 1..(Cardinality(Players) + Cardinality(Players \X Times) + Cardinality(Procs) + 1)

VARIABLES
  file,    \* the content of each inode
  active,  \* GAMES/STATE_<plid>.txt of each player
  records, \* GAMES/<plid>/<time> of each player
  scores,  \* SCORES/<start of the server>
  now,     \* std::time
  up,      \* the parent is running
  boot,    \* how often it was started
  proc,    \* what each process does
  board,   \* the scoreboard in the memory of each process
  made,    \* how many games were started
  told,    \* the trials that the player of each game was told of
  won      \* the trials it took to win each game, 0 if it is not won
disk == <<file, active, records, scores>>
ghosts == <<made, told, won>>
vars == <<disk, now, up, boot, proc, board, ghosts>>

Blank == [head |-> FALSE]     \* a file without its first line
Idle == [pc |-> "idle"]
Requests == {"SNG", "TRY", "QUT", "STR"}

Files == {Blank} \cup [head : {TRUE}, id : Games, key : Guesses, start : Times, dur : Durations,
                       trials : UNION {[1..n -> Guesses] : n \in 0..MaxTrials},
                       end : {NoEnd} \cup [why : Reasons, at : Times]]

Entries == [game : Games, tries : 1..MaxTrials]
IsBoard(b) == b \in UNION {[1..n -> Entries] : n \in 0..TopScores}

\* The values have their types: no list is longer than MAX_TOP_SCORES, no game has more
\* trials than MAX_TRIALS.
TypeOK ==
  /\ file \in [Inodes -> Files]
  /\ active \in [Players -> Inodes \cup {None}]
  /\ records \in [Players -> [Times -> Inodes \cup {None}]]
  /\ \A b \in Boots : scores[b] # None => IsBoard(scores[b])
  /\ now \in Times /\ up \in BOOLEAN /\ boot \in Boots
  /\ \A q \in Procs : IsBoard(board[q].list) /\ board[q].boot \in Boots
  /\ \A q \in Procs : proc[q].pc # "idle" => proc[q].req.kind \in Requests
  /\ made \in 0..MaxGames
  /\ told \in [Games -> 0..MaxTrials] /\ won \in [Games -> 0..MaxTrials]

Init ==
  /\ file = [i \in Inodes |-> Blank]
  /\ active = [p \in Players |-> None]
  /\ records = [p \in Players |-> [t \in Times |-> None]]
  /\ scores = [b \in Boots |-> None]
  /\ now = 0 /\ up = TRUE /\ boot = 1
  /\ proc = [q \in Procs |-> Idle]
  /\ board = [q \in Procs |-> [boot |-> 1, list |-> <<>>]]
  /\ made = 0 /\ told = [g \in Games |-> 0] /\ won = [g \in Games |-> 0]
-----------------------------------------------------------------------------
At(q, pc) == proc[q].pc = pc
\* The file is closed, and a point to return to is forgotten, when it has served.
Step(q, change) ==
  LET done == (IF change.pc \in {"parse", "end", "trial", "header"} THEN {} ELSE {"fd"})
                \cup (IF change.pc \in {"append", "end", "move", "score", "materialize"} THEN {} ELSE {"back"})
      kept == (DOMAIN change \cup DOMAIN proc[q]) \ done
  IN proc' = [proc EXCEPT ![q] = [x \in kept |-> IF x \in DOMAIN change THEN change[x] ELSE proc[q][x]]]
Go(q, change) == Step(q, change) /\ UNCHANGED board
\* The scoreboard of a child is gone with it.
Finish(q) ==
  /\ proc' = [proc EXCEPT ![q] = Idle]
  /\ board' = IF q = Parent THEN board ELSE [board EXCEPT ![q].list = <<>>]
\* A process that an exception ends: the parent leaves its loop, a child exits.
Stop(q) == Finish(q) /\ up' = (up /\ q # Parent)

Player(q) == proc[q].req.p

\* An inode that no name and no process refers to.
FreeInode ==
  LET used == {active[p] : p \in Players} \cup {records[p][t] : p \in Players, t \in Times}
                \cup {proc[q].fd : q \in {r \in Procs : "fd" \in DOMAIN proc[r]}}
  IN CHOOSE i \in Inodes : i \notin used

\* std::fstream{get_active_path(_plid), out | app}: makes the file if it is not there.
Appending(p, i) ==
  IF active[p] # None THEN i = active[p] /\ UNCHANGED <<file, active>>
  ELSE /\ i = FreeInode
       /\ file' = [file EXCEPT ![i] = Blank]
       /\ active' = [active EXCEPT ![p] = i]

\* A line in a file that parse reads as far as its end of the game, if it has a header.
WithTrial(f, guess) == IF f.head /\ f.end = NoEnd THEN [f EXCEPT !.trials = Append(@, guess)] ELSE f
WithEnd(f, end) == IF f.head /\ f.end = NoEnd THEN [f EXCEPT !.end = end] ELSE f

\* has_ended, in any of its calls, finds that the game is over: its end must be written
\* and the call returns to pc.
Ending(q, g, pc) ==
  Go(q, [pc |-> "append", gm |-> [g EXCEPT !.end = [why |-> Status(g, now), at |-> EndTime(g, now)]],
         back |-> pc])
Over(g) == g.end = NoEnd /\ Status(g, now) # "ONGOING"
-----------------------------------------------------------------------------
Begin(p, key, dur) ==
  /\ up /\ At(Parent, "idle") /\ made < MaxGames
  /\ Go(Parent, [pc |-> IF active[p] = None THEN "create" ELSE "find",
                 req |-> [kind |-> "SNG", p |-> p, key |-> key, dur |-> dur, start |-> now]])
  /\ UNCHANGED <<disk, now, up, boot, ghosts>>

\* start_new_game: the key is drawn.
AskStart(p, dur) == \E key \in Guesses : Begin(p, key, dur)
\* start_new_game_debug: the key is in the request.
AskDebug(p, key, dur) == Begin(p, key, dur)

\* do_try; without a file the answer is NOK.
AskTry(p, guess, nT) ==
  /\ up /\ At(Parent, "idle") /\ active[p] # None
  /\ Go(Parent, [pc |-> "parse", fd |-> active[p],
                 req |-> [kind |-> "TRY", p |-> p, guess |-> guess, nT |-> nT]])
  /\ UNCHANGED <<disk, now, up, boot, ghosts>>

\* end_game.
AskQuit(p) ==
  /\ up /\ At(Parent, "idle") /\ active[p] # None
  /\ Go(Parent, [pc |-> "parse", fd |-> active[p], req |-> [kind |-> "QUT", p |-> p]])
  /\ UNCHANGED <<disk, now, up, boot, ghosts>>

\* handle_tcp forks, with a copy of the scoreboard, and the child runs show_trials.
AskTrials(c, p) ==
  /\ up /\ At(c, "idle") /\ active[p] # None
  /\ Step(c, [pc |-> "parse", fd |-> active[p], req |-> [kind |-> "STR", p |-> p]])
  /\ board' = [board EXCEPT ![c] = board[Parent]]
  /\ UNCHANGED <<disk, now, up, boot, ghosts>>
-----------------------------------------------------------------------------
\* find_active of game::create: a file that has gone meanwhile is no active game.
Find(q) ==
  /\ At(q, "find")
  /\ IF active[Player(q)] = None THEN Go(q, [pc |-> "create"])
     ELSE Go(q, [pc |-> "parse", fd |-> active[Player(q)]])
  /\ UNCHANGED <<disk, now, up, boot, ghosts>>

\* parse reads the file to its end, then find_active calls has_ended.
Parse(q) ==
  /\ At(q, "parse") /\ file[proc[q].fd].head
  /\ LET g == file[proc[q].fd] IN
       IF Over(g) THEN Ending(q, g, "found") ELSE Go(q, [pc |-> "found", gm |-> g])
  /\ UNCHANGED <<disk, now, up, boot, ghosts>>

\* 'throw err' in find_active: what is thrown is no corruption_error any more.
ParseFails(q) ==
  /\ At(q, "parse") /\ ~file[proc[q].fd].head
  /\ Stop(q)
  /\ UNCHANGED <<disk, now, boot, ghosts>>
-----------------------------------------------------------------------------
\* The end of a game, in has_ended, quit and terminate: open the file, ...
OpenToEnd(q) ==
  /\ At(q, "append")
  /\ \E i \in Inodes : Appending(Player(q), i) /\ Go(q, [pc |-> "end", fd |-> i])
  /\ UNCHANGED <<records, scores, now, up, boot, ghosts>>

\* ... append the last line, ...
WriteEnd(q) ==
  /\ At(q, "end")
  /\ file' = [file EXCEPT ![proc[q].fd] = WithEnd(@, proc[q].gm.end)]
  /\ Go(q, [pc |-> "move"])
  /\ UNCHANGED <<active, records, scores, now, up, boot, ghosts>>

\* A bug: the list may be longer than what is shown of it.
InsertKeepsAll(list, e) ==
  InsertAt(list, 1 + Cardinality({i \in DOMAIN list : Score(list[i].tries) >= Score(e.tries)}), e)

\* scoreboard::find and add_temp_record: below the records that are as good.
Insert(list, e) ==
  LET at == Cardinality({i \in DOMAIN list : Score(list[i].tries) >= Score(e.tries)})
      longer == InsertAt(list, at + 1, e)
  IN IF at = TopScores THEN list
     ELSE IF Len(longer) > TopScores THEN Front(longer) ELSE longer

\* A bug: the score is that of the trials before the last one.
MoveMiscounts(q) ==
  LET p == Player(q)
      g == proc[q].gm
      tries == IF Len(g.trials) > 1 THEN Len(g.trials) - 1 ELSE 1
      longer == IF g.end.why = "WON" THEN Insert(board[q].list, [game |-> g.id, tries |-> tries])
                ELSE board[q].list
  IN /\ At(q, "move") /\ active[p] # None
     /\ records' = [records EXCEPT ![p][g.end.at] = active[p]]
     /\ active' = [active EXCEPT ![p] = None]
     /\ board' = [board EXCEPT ![q].list = longer]
     /\ Step(q, [pc |-> IF longer = board[q].list THEN proc[q].back ELSE "score"])
     /\ UNCHANGED <<file, scores, now, up, boot, ghosts>>

\* ... rename it, over a record of the same second if there is one, and score a win.
Move(q) ==
  LET p == Player(q)
      g == proc[q].gm
      longer == IF g.end.why = "WON" THEN Insert(board[q].list, [game |-> g.id, tries |-> Len(g.trials)])
                ELSE board[q].list
  IN /\ At(q, "move") /\ active[p] # None
     /\ records' = [records EXCEPT ![p][g.end.at] = active[p]]
     /\ active' = [active EXCEPT ![p] = None]
     /\ board' = [board EXCEPT ![q].list = longer]
     /\ Step(q, [pc |-> IF longer = board[q].list THEN proc[q].back ELSE "score"])
     /\ UNCHANGED <<file, scores, now, up, boot, ghosts>>

\* The rename fails if somebody else has moved the file: io_error.
MoveFails(q) ==
  /\ At(q, "move") /\ active[Player(q)] = None
  /\ Stop(q)
  /\ UNCHANGED <<disk, now, boot, ghosts>>

\* scoreboard::materialize: the file is emptied and then written.
EmptyScores(q) ==
  /\ At(q, "score")
  /\ scores' = [scores EXCEPT ![board[q].boot] = <<>>]
  /\ Go(q, [pc |-> "materialize"])
  /\ UNCHANGED <<file, active, records, now, up, boot, ghosts>>

WriteScores(q) ==
  /\ At(q, "materialize")
  /\ scores' = [scores EXCEPT ![board[q].boot] = board[q].list]
  /\ Go(q, [pc |-> proc[q].back])
  /\ UNCHANGED <<file, active, records, now, up, boot, ghosts>>
-----------------------------------------------------------------------------
\* What each request does with the game that was found; first, has_ended once more.
FoundOver(q) ==
  /\ At(q, "found") /\ Over(proc[q].gm)
  /\ Ending(q, proc[q].gm, "found")
  /\ UNCHANGED <<disk, now, up, boot, ghosts>>

Found(q, kind) == At(q, "found") /\ proc[q].req.kind = kind /\ ~Over(proc[q].gm)

\* A bug: a game that goes on is started anew.
FoundStartAnyway(q) ==
  /\ Found(q, "SNG")
  /\ Go(q, [pc |-> "create"])
  /\ UNCHANGED <<disk, now, up, boot, ghosts>>

\* A game that goes on: NOK, otherwise create opens its file anew.
FoundStart(q) ==
  /\ Found(q, "SNG")
  /\ IF proc[q].gm.end = NoEnd THEN Finish(q) ELSE Go(q, [pc |-> "create"])
  /\ UNCHANGED <<disk, now, up, boot, ghosts>>

\* out | trunc: empties the file that is there.
Create(q) ==
  /\ At(q, "create")
  /\ \E i \in Inodes :
       /\ i = IF active[Player(q)] = None THEN FreeInode ELSE active[Player(q)]
       /\ file' = [file EXCEPT ![i] = Blank]
       /\ active' = [active EXCEPT ![Player(q)] = i]
       /\ Go(q, [pc |-> "header", fd |-> i])
  /\ UNCHANGED <<records, scores, now, up, boot, ghosts>>

WriteHeader(q) ==
  /\ At(q, "header")
  /\ made' = made + 1
  /\ file' = [file EXCEPT ![proc[q].fd] =
       [head |-> TRUE, id |-> made', key |-> proc[q].req.key, start |-> proc[q].req.start,
        dur |-> proc[q].req.dur, trials |-> <<>>, end |-> NoEnd]]
  /\ Finish(q)
  /\ UNCHANGED <<active, records, scores, now, up, boot, told, won>>

\* NOK if the game was found to be over, else game::quit.
FoundQuit(q) ==
  /\ Found(q, "QUT")
  /\ IF proc[q].gm.end # NoEnd THEN Finish(q)
     ELSE Go(q, [pc |-> "append", back |-> "answer", gm |->
            [proc[q].gm EXCEPT !.end = [why |-> "QUIT", at |-> EndTime(proc[q].gm, now)]]])
  /\ UNCHANGED <<disk, now, up, boot, ghosts>>

\* FIN or ACT, with the trials.
FoundTrials(q) ==
  /\ Found(q, "STR") /\ Finish(q)
  /\ UNCHANGED <<disk, now, up, boot, ghosts>>

Kind(q) == TryKind(proc[q].gm.trials, proc[q].req.guess, proc[q].req.nT)

\* ETM, INV and DUP, and the answer to a play of a game that an earlier process ended
\* and did not move: nothing is written.
FoundNoPlay(q) ==
  /\ Found(q, "TRY")
  /\ \/ proc[q].gm.end # NoEnd /\ proc[q].gm.end.why = "LOST_TIME"
     \/ Kind(q) \in {"INV", "DUP"}
     \/ Kind(q) = "PLAY" /\ proc[q].gm.end # NoEnd /\ proc[q].gm.trials # <<>>
  /\ Finish(q)
  /\ UNCHANGED <<disk, now, up, boot, ghosts>>

\* ... or it follows last_trial of a game without trials, a null pointer.
FoundNoTrial(q) ==
  /\ Found(q, "TRY") /\ Kind(q) = "PLAY"
  /\ proc[q].gm.end # NoEnd /\ proc[q].gm.end.why # "LOST_TIME" /\ proc[q].gm.trials = <<>>
  /\ Stop(q)
  /\ UNCHANGED <<disk, now, boot, ghosts>>

\* The answer of the last trial once more.
FoundAgain(q) ==
  /\ Found(q, "TRY") /\ Kind(q) = "AGAIN"
  /\ proc[q].gm.end # NoEnd => proc[q].gm.end.why # "LOST_TIME"
  /\ told' = [told EXCEPT ![proc[q].gm.id] = Len(proc[q].gm.trials)]
  /\ Finish(q)
  /\ UNCHANGED <<disk, now, up, boot, made, won>>

\* game::guess opens the file ...
FoundPlay(q) ==
  /\ Found(q, "TRY") /\ Kind(q) = "PLAY" /\ proc[q].gm.end = NoEnd
  /\ \E i \in Inodes : Appending(Player(q), i) /\ Go(q, [pc |-> "trial", fd |-> i])
  /\ UNCHANGED <<records, scores, now, up, boot, ghosts>>

\* A bug: the trial is not flushed.
WriteTrialInMemory(q) ==
  LET guess == proc[q].req.guess
      g == [proc[q].gm EXCEPT !.trials = Append(@, guess)]
  IN /\ At(q, "trial")
     /\ IF Over(g) THEN Ending(q, g, "answer") ELSE Go(q, [pc |-> "answer", gm |-> g])
     /\ won' = IF guess = g.key THEN [won EXCEPT ![g.id] = Len(g.trials)] ELSE won
     /\ UNCHANGED <<disk, now, up, boot, made, told>>

\* ... and writes the trial; then has_ended.
WriteTrial(q) ==
  LET guess == proc[q].req.guess
      g == [proc[q].gm EXCEPT !.trials = Append(@, guess)]
  IN /\ At(q, "trial")
     /\ file' = [file EXCEPT ![proc[q].fd] = WithTrial(@, guess)]
     /\ IF Over(g) THEN Ending(q, g, "answer") ELSE Go(q, [pc |-> "answer", gm |-> g])
     /\ won' = IF guess = g.key THEN [won EXCEPT ![g.id] = Len(g.trials)] ELSE won
     /\ UNCHANGED <<active, records, scores, now, up, boot, made, told>>

\* OK, or ETM and ENT with the key, or the answer to QUT.
Answer(q) ==
  LET g == proc[q].gm IN
  /\ At(q, "answer")
  /\ told' = IF proc[q].req.kind = "TRY" THEN [told EXCEPT ![g.id] = Len(g.trials)] ELSE told
  /\ Finish(q)
  /\ UNCHANGED <<disk, now, up, boot, made, won>>
-----------------------------------------------------------------------------
Tick ==
  /\ now < MaxTime /\ now' = now + 1
  /\ UNCHANGED <<disk, up, boot, proc, board, ghosts>>

\* The parent is killed, or stops at a SIGINT: its children live on.
Crash ==
  /\ up /\ boot < MaxBoot
  /\ up' = FALSE /\ Finish(Parent)
  /\ UNCHANGED <<disk, now, boot, ghosts>>

\* get_latest: the file of the last server that wrote one.
LatestScores ==
  LET written == {b \in Boots : scores[b] # None}
  IN IF written = {} THEN <<>> ELSE scores[CHOOSE b \in written : \A c \in written : c <= b]

\* setup.
Restart ==
  /\ ~up /\ boot < MaxBoot
  /\ up' = TRUE /\ boot' = boot + 1
  /\ board' = [board EXCEPT ![Parent] = [boot |-> boot', list |-> LatestScores]]
  /\ UNCHANGED <<disk, now, proc, ghosts>>

Ask(p) ==
  \/ \E dur \in Durations : AskStart(p, dur)
  \/ \E key \in Guesses, dur \in Durations : AskDebug(p, key, dur)
  \/ \E guess \in Guesses, nT \in 1..MaxTrials : AskTry(p, guess, nT)
  \/ AskQuit(p)
  \/ \E c \in Children : AskTrials(c, p)

Work(q) ==
  \/ Find(q) \/ Parse(q) \/ ParseFails(q)
  \/ OpenToEnd(q) \/ WriteEnd(q) \/ Move(q) \/ MoveFails(q) \/ EmptyScores(q) \/ WriteScores(q)
  \/ FoundOver(q) \/ FoundStart(q) \/ Create(q) \/ WriteHeader(q) \/ FoundQuit(q) \/ FoundTrials(q)
  \/ FoundNoPlay(q) \/ FoundNoTrial(q) \/ FoundAgain(q) \/ FoundPlay(q) \/ WriteTrial(q) \/ Answer(q)

Next == (\E p \in Players : Ask(p)) \/ (\E q \in Procs : Work(q)) \/ Tick \/ Crash \/ Restart

Spec == Init /\ [][Next]_vars
-----------------------------------------------------------------------------
Lists == {board[q].list : q \in Procs} \cup {scores[b] : b \in {c \in Boots : scores[c] # None}}

\* Every scoreboard, in memory and on disk, lists a game once and only with the number of
\* trials that won it, whoever ended the game and however often the server was started:
\* a game that is left on disk by a server that stops is scored by the next one.
ScoredOnce ==
  \A list \in Lists : \A i \in DOMAIN list :
    /\ won[list[i].game] = list[i].tries
    /\ \A j \in DOMAIN list : list[i].game = list[j].game => i = j

\* A trial that the player was told of is in the file of the game, whatever happens
\* to the server, for as long as that file has no last line.
ToldTrialsAreOnDisk ==
  \A p \in Players : LET f == file[active[p]] IN
    active[p] # None /\ f.head /\ f.end = NoEnd => told[f.id] <= Len(f.trials)

\* Nothing but the end of a game takes anything out of the file of a game that goes on:
\* create, the children and a new server leave its header and its trials there.
OngoingIsKept ==
  [][\A p \in Players :
       LET f == file[active[p]]
           g == file'[active'[p]]
       IN active[p] # None /\ f.head /\ f.end = NoEnd /\ active'[p] = active[p]
            => g.head /\ g.id = f.id /\ IsPrefix(f.trials, g.trials)]_vars

\* What the last line of a file says is so: has_ended 'writes the game to disk if it ends
\* on the method call (not if the game ended due to some other reason)' (game.hpp:99-101).
EndsAreTrue ==
  \A i \in Inodes : LET f == file[i] IN
    f.head /\ f.end # NoEnd =>
      CASE f.end.why = "WON" -> won[f.id] = Len(f.trials)
        [] f.end.why = "LOST_TIME" -> f.start + f.dur < now
        [] f.end.why = "LOST_TRIES" -> Len(f.trials) = MaxTrials
        [] OTHER -> TRUE
=============================================================================
