----------------------------- MODULE GamePlayer -----------------------------
(***************************************************************************)
(* The player of 3rd year/CN (client/client.cpp) and the datagrams between *)
(* it and the server (common/common.cpp).  A request is sent again when no *)
(* answer has come in time, up to MaxResend times in all, and the first    *)
(* datagram that comes, whatever it answers, is its answer.  Datagrams may *)
(* be lost or late but do not overtake one another.  The server answers    *)
(* them one at a time (what happens inside one answer is in GameServer);   *)
(* the trials are asked for over TCP, which loses nothing.                 *)
(*                                                                         *)
(* Every command of the user has a number, cmd, which the program does not *)
(* know: it tells in the properties what an answer is the answer of.       *)
(***************************************************************************)
EXTENDS Mastermind

CONSTANTS MaxResend,    \* MAX_RESEND
          MaxCommands,  \* bound of a run: the commands of the user
          Nothing

ASSUME PlayerAssumption ==
  /\ MaxResend \in Nat \ {0} /\ MaxCommands \in Nat
  /\ Nothing \notin [cmd : Nat, key : Guesses, trials : Seq(Guesses), end : {NoEnd}, start : {0}, dur : {0}]

VARIABLES
  client,    \* "ready" for a command, "waiting" in udp_connection::request, "over"
  isPlidSet, inGame, trial,   \* is_plid_set, in_game, current_trial
  request,   \* what the client waits for
  sends,     \* retries, counted from 1
  toServer, toClient,   \* datagrams under way and in the buffers of the sockets
  game,      \* the active game of the server, Nothing if there is none
  timeUp,    \* its time is over (has_ended finds out at the next request)
  commands,  \* commands so far
  plays,     \* the commands that became a trial, in their order
  late,      \* a datagram took longer than the timeout
  shown      \* of the last OK to a try: is it the answer of that try, and is it right?
player == <<client, isPlidSet, inGame, trial, request, sends>>
net == <<toServer, toClient>>
server == <<game, timeUp>>
playerGhosts == <<commands, plays, late, shown>>
playerVars == <<player, net, server, playerGhosts>>

PlayerInit ==
  /\ client = "ready" /\ isPlidSet = FALSE /\ inGame = FALSE /\ trial = 0 /\ request = Nothing /\ sends = 0
  /\ toServer = <<>> /\ toClient = <<>>
  /\ game = Nothing /\ timeUp = FALSE
  /\ commands = 0 /\ plays = <<>> /\ late = FALSE /\ shown = [own |-> TRUE, right |-> TRUE]

Clock == IF timeUp THEN 1 ELSE 0
-----------------------------------------------------------------------------
\* Commands of the user.  udp_connection::request sends the datagram and waits.
AskServer(r) ==
  /\ commands' = commands + 1
  /\ request' = r
  /\ toServer' = Append(toServer, r)
  /\ client' = "waiting" /\ sends' = 1
  /\ UNCHANGED <<isPlidSet, trial, toClient, server, plays, late, shown>>

May == client = "ready" /\ commands < MaxCommands
Command == commands + 1

\* do_start.
Start == May /\ ~inGame /\ AskServer([cmd |-> Command, kind |-> "SNG", keys |-> Guesses]) /\ UNCHANGED inGame
\* do_debug: the key is in the request.
Debug ==
  \E key \in Guesses :
    May /\ ~inGame /\ AskServer([cmd |-> Command, kind |-> "DBG", keys |-> {key}]) /\ UNCHANGED inGame
\* do_try.
Try ==
  \E guess \in Guesses :
    May /\ inGame /\ AskServer([cmd |-> Command, kind |-> "TRY", guess |-> guess, nT |-> trial + 1])
      /\ UNCHANGED inGame
\* do_quit, or do_exit in a game: end_game leaves the game before the server answers.
Quit ==
  \E exit \in BOOLEAN :
    May /\ inGame /\ AskServer([cmd |-> Command, kind |-> "QUT", exit |-> exit]) /\ inGame' = FALSE

\* do_exit.
Exit ==
  /\ client = "ready" /\ ~inGame /\ client' = "over"
  /\ UNCHANGED <<isPlidSet, inGame, trial, request, sends, net, server, playerGhosts>>

\* do_show_trials: has_ended may end the game on the server; FIN and NOK end it here.
ShowTrials ==
  /\ May /\ isPlidSet /\ commands' = commands + 1
  /\ LET ongoing == game # Nothing /\ Status(game, Clock) = "ONGOING" IN
       /\ game' = IF ongoing THEN game ELSE Nothing
       /\ inGame' = (inGame /\ ongoing)
  /\ UNCHANGED <<client, isPlidSet, trial, request, sends, net, timeUp, plays, late, shown>>
-----------------------------------------------------------------------------
\* recvfrom times out: send again, or give up (socket_error ends the program).
InTime == toServer = <<>> /\ toClient = <<>>

\* A bug: no limit.
ResendForever ==
  /\ client = "waiting" /\ toServer = <<>>
  /\ toServer' = <<request>>
  /\ late' = (late \/ ~InTime)
  /\ UNCHANGED <<client, isPlidSet, inGame, trial, request, sends, toClient, server, commands, plays, shown>>

Resend ==
  /\ client = "waiting" /\ sends < MaxResend
  /\ sends' = sends + 1
  /\ toServer' = Append(toServer, request)
  /\ late' = (late \/ ~InTime)
  /\ UNCHANGED <<client, isPlidSet, inGame, trial, request, toClient, server, commands, plays, shown>>

GiveUp ==
  /\ client = "waiting" /\ sends = MaxResend
  /\ client' = "over" /\ late' = (late \/ ~InTime)
  /\ UNCHANGED <<isPlidSet, inGame, trial, request, sends, net, server, commands, plays, shown>>

Lose ==
  /\ \/ \E i \in DOMAIN toServer : toServer' = RemoveAt(toServer, i) /\ UNCHANGED toClient
     \/ \E i \in DOMAIN toClient : toClient' = RemoveAt(toClient, i) /\ UNCHANGED toServer
  /\ UNCHANGED <<player, server, playerGhosts>>

TimePasses ==
  /\ game # Nothing /\ ~timeUp /\ timeUp' = TRUE
  /\ UNCHANGED <<player, net, game, playerGhosts>>
-----------------------------------------------------------------------------
\* The kind of the answer to each kind of request.
Reply(kind) ==
  CASE kind = "SNG" -> "RSG" [] kind = "DBG" -> "RDB" [] kind = "QUT" -> "RQT" [] kind = "TRY" -> "RTR"

\* The server takes a datagram and answers to its sender.
Asked(kind) == toServer # <<>> /\ Head(toServer).kind = kind
Answers(kind, status) == [cmd |-> Head(toServer).cmd, kind |-> kind, status |-> status]
Serve(answer) ==
  /\ toServer' = Tail(toServer) /\ toClient' = Append(toClient, answer)
  /\ UNCHANGED <<player, commands, late, shown>>

HasEnded == game # Nothing /\ Status(game, Clock) # "ONGOING"

\* start_new_game and start_new_game_debug, game::create.
ServeStart(kind) ==
  \/ /\ Asked(kind) /\ game # Nothing /\ ~HasEnded
     /\ Serve(Answers(Reply(kind), "NOK")) /\ UNCHANGED <<server, plays>>
  \/ /\ Asked(kind) /\ (game = Nothing \/ HasEnded)
     /\ Serve(Answers(Reply(kind), "OK"))
     /\ \E key \in Head(toServer).keys :
          game' = [cmd |-> Head(toServer).cmd, key |-> key, trials |-> <<>>, end |-> NoEnd,
                   start |-> 0, dur |-> 0]
     /\ timeUp' = FALSE /\ UNCHANGED plays

\* end_game; a game that is over is ended by find_active.
ServeQuit ==
  /\ Asked("QUT")
  /\ Serve(Answers("RQT", IF game # Nothing /\ ~HasEnded THEN "OK" ELSE "NOK"))
  /\ game' = Nothing /\ UNCHANGED <<timeUp, plays>>

\* do_try for a game that is not there, or whose time find_active finds to be over.
ServeTryNoGame ==
  /\ Asked("TRY") /\ (game = Nothing \/ HasEnded)
  /\ Serve(Answers("RTR", IF game = Nothing THEN "NOK" ELSE "ETM"))
  /\ game' = Nothing /\ UNCHANGED <<timeUp, plays>>

\* The answer OK of do_try, for the last trial: the number in it and the comparison.
TryOk(g) ==
  [cmd |-> Head(toServer).cmd, kind |-> "RTR", status |-> "OK",
   nT |-> Len(g.trials), res |-> Compare(g.key, Last(g.trials)), key |-> g.key]

\* do_try: a request with an unexpected number, or with the guess of an earlier trial.
ServeNoPlay ==
  /\ Asked("TRY") /\ game # Nothing /\ ~HasEnded
  /\ LET kind == TryKind(game.trials, Head(toServer).guess, Head(toServer).nT) IN
       /\ kind # "PLAY"
       /\ Serve(IF kind = "AGAIN" THEN TryOk(game) ELSE Answers("RTR", kind))
  /\ UNCHANGED <<server, plays>>

\* A bug: the game is left active.
ServePlayOn ==
  LET played == [game EXCEPT !.trials = Append(@, Head(toServer).guess)]
  IN /\ Asked("TRY") /\ game # Nothing /\ ~HasEnded
     /\ TryKind(game.trials, Head(toServer).guess, Head(toServer).nT) = "PLAY"
     /\ Serve(TryOk(played))
     /\ game' = played /\ plays' = Append(plays, Head(toServer).cmd)
     /\ UNCHANGED timeUp

\* do_try: game::guess, which may end the game.
ServePlay ==
  LET played == [game EXCEPT !.trials = Append(@, Head(toServer).guess)]
      status == Status(played, Clock)
  IN /\ Asked("TRY") /\ game # Nothing /\ ~HasEnded
     /\ TryKind(game.trials, Head(toServer).guess, Head(toServer).nT) = "PLAY"
     /\ Serve(IF status = "LOST_TRIES" THEN Answers("RTR", "ENT") ELSE TryOk(played))
     /\ game' = IF status = "ONGOING" THEN played ELSE Nothing
     /\ plays' = Append(plays, Head(toServer).cmd)
     /\ UNCHANGED timeUp
-----------------------------------------------------------------------------
\* The client takes the first datagram of its buffer as the answer.
Receive(kinds) ==
  /\ client = "waiting" /\ toClient # <<>> /\ request.kind \in kinds
  /\ toClient' = Tail(toClient)
  /\ UNCHANGED <<request, sends, toServer, server, commands, plays, late>>

\* bad_response ends the program.
BadResponse ==
  /\ Receive({"SNG", "DBG", "TRY", "QUT"})
  /\ Head(toClient).kind # Reply(request.kind)
  /\ client' = "over"
  /\ UNCHANGED <<isPlidSet, inGame, trial, shown>>

\* do_start and do_debug: setup_game_clientside.
Started ==
  /\ Receive({"SNG", "DBG"}) /\ Head(toClient).kind = Reply(request.kind)
  /\ client' = "ready"
  /\ IF Head(toClient).status = "OK" THEN isPlidSet' = TRUE /\ inGame' = TRUE /\ trial' = 0
     ELSE UNCHANGED <<isPlidSet, inGame, trial>>
  /\ UNCHANGED shown

\* end_game, and the end of do_exit.
HasQuit ==
  /\ Receive({"QUT"}) /\ Head(toClient).kind = "RQT"
  /\ client' = IF request.exit THEN "over" ELSE "ready"
  /\ UNCHANGED <<isPlidSet, inGame, trial, shown>>

\* do_try: every answer but OK; all but DUP close the game.
Refused ==
  /\ Receive({"TRY"}) /\ Head(toClient).kind = "RTR" /\ Head(toClient).status # "OK"
  /\ client' = "ready"
  /\ inGame' = (Head(toClient).status = "DUP")
  /\ UNCHANGED <<isPlidSet, trial, shown>>

\* The definition of the game: for each color, the guess can match it as often as both
\* the key and the guess have it.
Occurs(c, s) == Cardinality({i \in Positions : s[i] = c})
Common(key, guess) ==
  FoldFunction(+, 0, [c \in Colors |->
    IF Occurs(c, key) <= Occurs(c, guess) THEN Occurs(c, key) ELSE Occurs(c, guess)])
Right(a) ==
  LET same == Cardinality({i \in Positions : a.key[i] = request.guess[i]})
  IN a.res = [nB |-> same, nW |-> Common(a.key, request.guess) - same]

\* do_try: OK counts the trial; another number in the answer is a bad response.
Accepted ==
  LET a == Head(toClient) IN
  /\ Receive({"TRY"}) /\ a.kind = "RTR" /\ a.status = "OK"
  /\ trial' = trial + 1
  /\ IF a.nT # trial' THEN client' = "over" /\ UNCHANGED <<inGame, shown>>
     ELSE /\ client' = "ready"
          /\ inGame' = (a.res.nB # GuessSize)
          /\ shown' = [own |-> a.cmd = request.cmd, right |-> Right(a)]
  /\ UNCHANGED isPlidSet
-----------------------------------------------------------------------------
User == Start \/ Debug \/ Try \/ Quit \/ Exit \/ ShowTrials
ServerNext ==
  ServeStart("SNG") \/ ServeStart("DBG") \/ ServeQuit \/ ServeTryNoGame \/ ServeNoPlay \/ ServePlay
ClientNext == BadResponse \/ Started \/ HasQuit \/ Refused \/ Accepted \/ Resend \/ GiveUp

PlayerNext == User \/ ServerNext \/ ClientNext \/ Lose \/ TimePasses

PlayerSpec == PlayerInit /\ [][PlayerNext]_playerVars /\ WF_playerVars(ClientNext)
-----------------------------------------------------------------------------
\* The values have their types: a game that goes on has a trial left, and no more datagrams
\* are under way than were sent.
PlayerTypeOK ==
  /\ isPlidSet \in BOOLEAN
  /\ client \in {"ready", "waiting", "over"} /\ inGame \in BOOLEAN /\ trial \in 0..MaxTrials
  /\ sends \in 0..MaxResend /\ commands \in 0..MaxCommands
  /\ game # Nothing => Len(game.trials) < MaxTrials
  /\ Len(toServer) <= MaxResend * MaxCommands /\ Len(toClient) <= MaxResend * MaxCommands

\* A try that is sent several times, because it or its answer was lost or late, is one
\* trial: do_try knows it again by its number and its guess.
TriesCountOnce == \A i, j \in DOMAIN plays : plays[i] = plays[j] => i = j

\* If datagrams are lost but none is later than the timeout, the client between two
\* commands is in the game of the server, at its trial, or both are in none.  (The start
\* of a game that is sent twice is the exception: the second answer is NOK, and so are
\* those to the starts after it.)
Agreement ==
  client = "ready" /\ ~late =>
    /\ inGame => game # Nothing /\ Len(game.trials) = trial
    /\ game # Nothing =>
         inGame \/ (request.kind \in {"SNG", "DBG"} /\ (request.cmd > game.cmd \/ sends > 1))

\* ... and what it tells the player of a guess is the answer to that guess, and is right.
\* (With an answer that is late this fails: the second DUP of a guess that was sent twice
\* is taken for the answer to the next guess, and the OK of that one for the answer to
\* the guess after it, which has the same number.)
ToldTheTruth == ~late => shown.own /\ shown.right

\* A command returns, or the program ends.
CommandsReturn == client = "waiting" ~> client # "waiting"
=============================================================================
