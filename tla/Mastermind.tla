----------------------------- MODULE Mastermind -----------------------------
(***************************************************************************)
(* The game of 3rd year/CN as server/game.cpp plays it, without the files: *)
(* the comparison of a guess with the secret key, what ends a game, and    *)
(* what the server makes of a TRY.  A game is a record with the header of  *)
(* its file (id stands for the file, start and dur are times), the trials  *)
(* so far and, once the last line is there, the reason and time of the end. *)
(***************************************************************************)
EXTENDS Integers, Sequences, FiniteSets, SequencesExt

CONSTANTS Colors,     \* VALID_COLORS
          GuessSize,  \* GUESS_SIZE
          MaxTrials,  \* MAX_TRIALS
          NoEnd       \* the end of a game that goes on

ASSUME MastermindAssumption ==
  IsFiniteSet(Colors) /\ GuessSize \in Nat \ {0} /\ MaxTrials \in Nat \ {0}

Positions == 1..GuessSize
Guesses == [Positions -> Colors]

Reasons == {"WON", "LOST_TRIES", "LOST_TIME", "QUIT"}

\* nB of game::compare: the guess is right in these positions.
Blacks(key, guess) == {i \in Positions : key[i] = guess[i]}

\* A bug: the positions of the key that were guessed right may be taken again.
WhitesOfBlacks(key, guess) ==
  {i \in Positions \ Blacks(key, guess) : \E j \in Positions : key[j] = guess[i]}

\* nW of game::compare: from left to right, each other position of the guess takes the
\* first position of the key with its color that is not taken (sec_mask).
Whites(key, guess) ==
  LET Take(mask, i) ==
        LET free == {j \in Positions \ mask : key[j] = guess[i]}
        IN IF i \in Blacks(key, guess) \/ free = {} THEN mask
           ELSE mask \cup {CHOOSE j \in free : \A k \in free : j <= k}
      mask == FoldLeft(Take, Blacks(key, guess), [i \in Positions |-> i])
  IN mask \ Blacks(key, guess)

Compare(key, guess) == [nB |-> Cardinality(Blacks(key, guess)), nW |-> Cardinality(Whites(key, guess))]

\* game::score, from the number of trials.
Score(tries) == ((MaxTrials - tries + 1) * 100) \div MaxTrials

\* game::has_ended, its tests in their order.
Status(g, now) ==
  IF g.end # NoEnd THEN g.end.why
  ELSE IF g.trials # <<>> /\ Last(g.trials) = g.key THEN "WON"
  ELSE IF Len(g.trials) >= MaxTrials THEN "LOST_TRIES"
  ELSE IF g.start + g.dur < now THEN "LOST_TIME" ELSE "ONGOING"

\* The time that is written as the end of a game.
EndTime(g, now) == IF now > g.start + g.dur THEN g.start + g.dur ELSE now

\* game::is_duplicate: the first trial with this guess, MaxTrials + 1 if there is none.
DuplicateAt(trials, guess) ==
  LET same == {i \in DOMAIN trials : trials[i] = guess}
  IN IF same = {} THEN MaxTrials + 1 ELSE CHOOSE i \in same : \A j \in same : i <= j

\* A bug: a request that is sent again is one more trial.
TryKindPlaysAgain(trials, guess, nT) ==
  IF nT > Len(trials) + 1 THEN "INV" ELSE IF DuplicateAt(trials, guess) < Len(trials) THEN "DUP" ELSE "PLAY"

\* A bug: the guess of a request that is sent again is a duplicate.
TryKindAgainIsDup(trials, guess, nT) ==
  IF DuplicateAt(trials, guess) # MaxTrials + 1 THEN "DUP"
  ELSE IF nT = Len(trials) + 1 THEN "PLAY" ELSE "INV"

\* do_try, once the game is found and its time is not over: a request with the number
\* of the next trial is a play, one with the number of the last trial and its guess is
\* a request sent again, the others are invalid.
TryKind(trials, guess, nT) ==
  LET curr == Len(trials)
      same == DuplicateAt(trials, guess)
  IN IF nT # curr + 1 THEN IF nT = curr /\ same = curr THEN "AGAIN" ELSE "INV"
     ELSE IF same # MaxTrials + 1 THEN "DUP" ELSE "PLAY"
=============================================================================
