------------------------------ MODULE GameProofs ------------------------------
(***************************************************************************)
(* Proofs about the game: about the course of a game (GameFlow), for any   *)
(* number of players, balls and requests, and, further down, about the     *)
(* balls in play (BallsInPlay), for any number of balls.                   *)
(*                                                                         *)
(* That every player gets the balls due rests on Turns: what the others'   *)
(* balls are, given the current player's, at every stage of a turn.        *)
(***************************************************************************)
EXTENDS GameFlow, BallsInPlay, TLAPS

InTurn == {"turn_started", "ball_starting", "ball_started", "ball_playing",
           "ball_ending", "turn_ending"}
AtEnd == {"game_ending", "game_ended"}
AtStart == {"game_starting", "awaiting_player", "game_started"}

-------------------------------------------------------------------------------
(* Types.                                                                   *)

\* There is a player by the time the task needs one, and room for all requests.
Present ==
  /\ players + requests <= MaxList
  /\ player_event = TRUE => players >= 1
  /\ pc \in {"game_started", "turn_starting"} \cup InTurn \cup AtEnd => players >= 1
  /\ pc \in {"turn_starting"} \cup InTurn => player >= 1

TypeInv == TypeOK /\ Present

\* The setter keeps the count of balls within the balls there are.
LEMMA SetterType ==
  ASSUME TypeOK, NEW n \in Int, SetBallsInPlay(n)
  PROVE  balls_in_play' \in 0..KnownBalls /\ end_ball_event' \in BOOLEAN
<1>1. balls_in_play' \in 0..KnownBalls
  BY GameAssumption DEF SetBallsInPlay
<1>2. end_ball_event' \in BOOLEAN
  BY DEF SetBallsInPlay, TypeOK
<1> QED
  BY <1>1, <1>2

LEMMA NextPlayerType ==
  ASSUME TypeOK, players >= 1
  PROVE  NextPlayer \in 1..players
  BY DEF TypeOK, NextPlayer, NoPlayer

\* The part of the type invariant that says which variables are Boolean.
Flags ==
  /\ ending \in BOOLEAN /\ slam_tilted \in BOOLEAN
  /\ end_ball_event \in BOOLEAN /\ player_event \in BOOLEAN
  /\ watching \in BOOLEAN /\ interrupted \in BOOLEAN

Numbers ==
  /\ pc \in Step
  /\ players \in 0..MaxList
  /\ player \in 0..players
  /\ balls_in_play \in 0..KnownBalls
  /\ requests \in 0..Requests /\ crowd \in 0..Requests
  /\ adding \subseteq 1..players
  /\ loose \in Nat /\ luck \in 0..MaxLuck

Scores == ball \in [Number -> Nat] /\ extra_balls \in [Number -> Nat]

LEMMA InitType == Init => TypeInv
<1> SUFFICES ASSUME Init PROVE TypeInv
  OBVIOUS
<1>1. Flags
  BY Zenon DEF Init, Flags
<1>2. Numbers /\ Present
  BY GameAssumption
     DEF Init, Numbers, Present, Step, NoPlayer, MaxList, InTurn, AtEnd
<1>3. Scores
  BY DEF Init, Scores
<1> QED
  BY <1>1, <1>2, <1>3 DEF TypeInv, TypeOK, Flags, Numbers, Scores

LEMMA FlagsStep ==
  ASSUME Flags, [Next]_vars
  PROVE  Flags'
<1> USE DEF Flags
<1>1. CASE Run
  BY <1>1, Zenon DEF Run
<1>9. CASE GameStarting
  <2>1. player_event' \in BOOLEAN
    BY <1>9 DEF GameStarting
  <2> QED
    BY <1>9, <2>1, Zenon DEF GameStarting, playerVars, ballVars, flagVars
<1>2. CASE AwaitPlayer \/ GameStarted \/ TurnStarting \/ TurnStarted
  BY <1>2, Zenon DEF AwaitPlayer, GameStarted, TurnStarting, TurnStarted,
     playerVars, joinVars, ballVars, flagVars
<1>3. CASE BallStarting \/ BallStarted \/ BallEnding \/ BallEnded
  BY <1>3, Zenon DEF BallStarting, BallStarted, BallEnding, BallEnded, SetBallsInPlay,
     playerVars, joinVars, ballVars, flagVars
<1>4. CASE TurnEnded \/ GameEnding \/ GameEnded
  BY <1>4, Zenon DEF TurnEnded, GameEnding, GameEnded,
     playerVars, joinVars, ballVars, flagVars
<1>5. CASE Joining
  BY <1>5, Zenon DEF Joining, RequestDenied, RequestGranted, PlayerAdded,
     playerVars, ballVars, flagVars
<1>6. CASE Drain \/ AddBall \/ AwardExtraBall \/ RequestPlayerAdd
  BY <1>6, Zenon DEF Drain, AddBall, AwardExtraBall, RequestPlayerAdd, SetBallsInPlay,
     playerVars, joinVars, ballVars, flagVars
<1>7. CASE EndBall \/ EndGame \/ SlamTilt \/ StopGame
  BY <1>7, Zenon DEF EndBall, EndGame, SlamTilt, StopGame,
     playerVars, joinVars, ballVars, flagVars
<1>8. CASE UNCHANGED vars
  BY <1>8, Zenon DEF vars, playerVars, joinVars, ballVars, flagVars
<1> QED
  BY <1>1, <1>2, <1>3, <1>4, <1>5, <1>6, <1>7, <1>8, <1>9 DEF Next, GameTask, Others

LEMMA ScoresStep ==
  ASSUME Scores, [Next]_vars
  PROVE  Scores'
<1> USE DEF Scores
<1>1. CASE Run
  BY <1>1 DEF Run
<1>2. CASE AwardExtraBall
  <2>1. CASE player \in Number
    BY <1>2, <2>1 DEF AwardExtraBall
  <2>2. CASE player \notin Number
    BY <1>2, <2>2 DEF AwardExtraBall
  <2> QED
    BY <2>1, <2>2
<1>3. CASE TurnStarting
  <2>1. CASE player \in Number
    BY <1>3, <2>1 DEF TurnStarting
  <2>2. CASE player \notin Number
    BY <1>3, <2>2 DEF TurnStarting
  <2> QED
    BY <2>1, <2>2
<1>4. CASE BallEnded
  <2>1. CASE extra_balls[player] > 0 /\ player \in Number
    BY <1>4, <2>1 DEF BallEnded
  <2>2. CASE ~(extra_balls[player] > 0 /\ player \in Number)
    BY <1>4, <2>2 DEF BallEnded
  <2> QED
    BY <2>1, <2>2
<1>5. CASE UNCHANGED <<ball, extra_balls>>
  BY <1>5
<1>6. [Next]_vars => \/ Run \/ AwardExtraBall \/ TurnStarting \/ BallEnded
                     \/ UNCHANGED <<ball, extra_balls>>
  BY Zenon DEF Next, GameTask, Joining, Others, Drain, AddBall, EndBall, EndGame, SlamTilt,
     StopGame, RequestPlayerAdd, RequestDenied, RequestGranted, PlayerAdded, GameStarting,
     AwaitPlayer, GameStarted, TurnStarted, BallStarting, BallStarted, BallEnding,
     TurnEnded, GameEnding, GameEnded, vars, playerVars
<1> QED
  BY <1>1, <1>2, <1>3, <1>4, <1>5, <1>6

LEMMA NumbersStep ==
  ASSUME TypeInv, [Next]_vars
  PROVE  (Numbers /\ Present)'
<1>0. Numbers /\ Present
  BY DEF TypeInv, TypeOK, Numbers
<1> USE GameAssumption, <1>0 DEF Numbers, Present, Step, MaxList, NoPlayer, InTurn, AtEnd, At
<1>1. CASE Drain
  <2>1. balls_in_play' \in 0..KnownBalls
    <3>1. CASE watching
      BY <1>1, <3>1, SetterType DEF Drain, TypeInv
    <3>2. CASE ~watching
      BY <1>1, <3>2 DEF Drain
    <3> QED
      BY <3>1, <3>2
  <2> QED
    BY <1>1, <2>1 DEF Drain, playerVars, joinVars
<1>2. CASE AddBall
  <2>1. balls_in_play' \in 0..KnownBalls
    BY <1>2, SetterType DEF AddBall, TypeInv
  <2> QED
    BY <1>2, <2>1 DEF AddBall, playerVars, joinVars
<1>3. CASE AwardExtraBall
  BY <1>3 DEF AwardExtraBall, ballVars, joinVars
<1>4. CASE EndBall \/ EndGame \/ SlamTilt \/ StopGame
  BY <1>4 DEF EndBall, EndGame, SlamTilt, StopGame, playerVars, joinVars, ballVars
<1>5. CASE RequestPlayerAdd
  BY <1>5 DEF RequestPlayerAdd, CanAdd, playerVars, ballVars
<1>6. CASE RequestDenied
  BY <1>6 DEF RequestDenied, playerVars, ballVars
<1>18. CASE RequestGranted
  <2>1. /\ players' = players + 1 /\ players' >= 1
        /\ requests' = requests - 1
        /\ UNCHANGED <<pc, player, player_event, crowd, balls_in_play, loose, luck>>
    BY <1>18 DEF RequestGranted, ballVars
  <2>2. adding' \subseteq 1..players'
    BY <1>18, <2>1 DEF RequestGranted
  <2> QED
    BY <1>18, <2>1, <2>2 DEF RequestGranted
<1>7. ASSUME NEW i \in adding, PlayerAdded(i)
      PROVE  (Numbers /\ Present)'
  BY <1>7 DEF PlayerAdded, ballVars
<1>8. CASE Run
  BY <1>8 DEF Run
<1>9. CASE GameStarting
  <2>1. /\ pc' = "awaiting_player"
        /\ player_event' = TRUE => players >= 1
        /\ requests' = 0 \/ (players = 0 /\ requests' = 1)
        /\ UNCHANGED <<players, player, adding, crowd, balls_in_play, loose, luck>>
    <3>1. player_event' = TRUE => players > 0
      BY <1>9, Zenon DEF GameStarting
    <3>2. requests' = 0 \/ (players = 0 /\ requests' = 1)
      BY <1>9 DEF GameStarting
    <3>3. /\ pc' = "awaiting_player"
          /\ UNCHANGED <<players, player, adding, crowd, balls_in_play, loose, luck>>
      BY <1>9 DEF GameStarting, playerVars, ballVars
    <3>4. player_event' = TRUE => players >= 1
      BY <3>1
    <3> QED
      BY <3>2, <3>3, <3>4
  <2> QED
    BY <2>1
<1>10. CASE AwaitPlayer \/ GameEnding \/ GameEnded
  BY <1>10 DEF AwaitPlayer, GameEnding, GameEnded, playerVars, joinVars, ballVars
<1>11. CASE GameStarted
  BY <1>11, NextPlayerType DEF GameStarted, joinVars, ballVars, TypeInv
<1>12. CASE TurnStarting \/ TurnStarted
  BY <1>12 DEF TurnStarting, TurnStarted, playerVars, joinVars, ballVars
<1>13. CASE BallStarting
  <2>1. balls_in_play' \in 0..KnownBalls
    BY <1>13, SetterType DEF BallStarting, TypeInv
  <2> QED
    BY <1>13, <2>1 DEF BallStarting, playerVars, joinVars
<1>14. CASE BallStarted
  BY <1>14 DEF BallStarted, playerVars, joinVars
<1>19. CASE BallEnding
  BY <1>19 DEF BallEnding, playerVars, joinVars
<1>15. CASE BallEnded
  BY <1>15 DEF BallEnded, joinVars, ballVars
<1>16. CASE TurnEnded
  <2>1. player' \in 1..players
    BY <1>16, NextPlayerType DEF TurnEnded, TypeInv
  <2> QED
    BY <1>16, <2>1 DEF TurnEnded, joinVars, ballVars
<1>17. CASE UNCHANGED vars
  BY <1>17 DEF vars, playerVars, joinVars, ballVars
<1> QED
  BY <1>1, <1>2, <1>3, <1>4, <1>5, <1>6, <1>7, <1>8, <1>9, <1>10, <1>11, <1>12,
     <1>13, <1>14, <1>15, <1>16, <1>17, <1>18, <1>19
     DEF Next, GameTask, Joining, Others

LEMMA TypeStep ==
  ASSUME TypeInv, [Next]_vars
  PROVE  TypeInv'
<1>1. Flags /\ Scores
  BY DEF TypeInv, TypeOK, Flags, Scores
<1>2. Flags' /\ Scores' /\ Numbers' /\ Present'
  BY <1>1, FlagsStep, ScoresStep, NumbersStep
<1> QED
  BY <1>2 DEF TypeInv, TypeOK, Flags, Scores, Numbers

\* The list of players, the current player and the counters stay within their
\* ranges, whatever joins, drains or ends the game meanwhile (Game._run).
THEOREM TypeInvariance == Spec => []TypeInv
<1>1. TypeInv /\ [Next]_vars => TypeInv'
  BY TypeStep
<1> QED
  BY InitType, <1>1, PTL DEF Spec

THEOREM TypeCorrect == Spec => []TypeOK
  BY TypeInvariance, PTL DEF TypeInv
-------------------------------------------------------------------------------
(* Places in the game.                                                      *)

\* Every request under way has a place, or is one of the crowd.
Places == players + requests <= MaxPlayers + crowd

LEMMA OtherSteps ==
  [Next]_vars => \/ RequestPlayerAdd \/ RequestDenied \/ RequestGranted
                 \/ Run \/ GameStarting
                 \/ UNCHANGED <<players, requests, crowd>>
  BY Zenon DEF Next, GameTask, Joining, Others, Drain, AddBall, AwardExtraBall, EndBall,
     EndGame, SlamTilt, StopGame, PlayerAdded, AwaitPlayer, GameStarted, TurnStarting,
     TurnStarted, BallStarting, BallStarted, BallEnding, BallEnded, TurnEnded,
     GameEnding, GameEnded, vars, playerVars, joinVars

\* A request that was let in finds a place; the players beyond the limit are no more
\* than the requests that were under way when the last place was asked for again
\* (request_player_add, _player_add_request_complete).
THEOREM PlayersWithinMaxHolds == Spec => []PlayersWithinMax
<1>1. Init => Places
  BY GameAssumption DEF Init, Places
<1>2. TypeInv /\ Places /\ [Next]_vars => Places'
  <2> SUFFICES ASSUME TypeInv, Places, [Next]_vars
               PROVE  Places'
    OBVIOUS
  <2> USE GameAssumption DEF Places, TypeInv, TypeOK
  <2>1. CASE RequestPlayerAdd
    BY <2>1 DEF RequestPlayerAdd, CanAdd, playerVars
  <2>2. CASE RequestDenied
    BY <2>2 DEF RequestDenied, playerVars
  <2>3. CASE RequestGranted
    BY <2>3 DEF RequestGranted
  <2>4. CASE Run
    BY <2>4 DEF Run, At
  <2>5. CASE GameStarting
    BY <2>5 DEF GameStarting, CanAdd, At, playerVars
  <2>6. CASE UNCHANGED <<players, requests, crowd>>
    BY <2>6
  <2> QED
    BY <2>1, <2>2, <2>3, <2>4, <2>5, <2>6, OtherSteps
<1>3. TypeInv /\ Places => PlayersWithinMax
  BY GameAssumption DEF TypeInv, TypeOK, MaxList, Places, PlayersWithinMax
<1> QED
  BY <1>1, <1>2, <1>3, TypeInvariance, PTL DEF Spec

-------------------------------------------------------------------------------
(* Balls.                                                                   *)

\* Drains are counted from the start of a ball to its end.  A game that does not wait
\* for empty playfields counts balls of the last turn, but never misses one.
Counted ==
  /\ watching <=> pc \in {"ball_started", "ball_playing"}
  /\ watching => balls_in_play <= loose + (IF pc = "ball_started" THEN 1 ELSE 0)
  /\ watching /\ balls_in_play = 0 => end_ball_event
  /\ BallsCounted

LEMMA CountedInit == Init => Counted
  BY DEF Init, Counted, BallsCounted

LEMMA CountedStep ==
  ASSUME TypeInv, Counted, [Next]_vars
  PROVE  Counted'
<1> USE GameAssumption DEF TypeInv, TypeOK, Counted, BallsCounted, At
<1>1. CASE Drain
  BY <1>1 DEF Drain, SetBallsInPlay
<1>2. CASE AddBall
  BY <1>2 DEF AddBall, SetBallsInPlay
<1>3. CASE EndBall \/ EndGame
  BY <1>3 DEF EndBall, EndGame, ballVars
<1>4. CASE SlamTilt
  BY <1>4 DEF SlamTilt, ballVars
<1>5. CASE StopGame
  BY <1>5 DEF StopGame
<1>6. CASE Run
  BY <1>6 DEF Run
<1>7. CASE GameStarting \/ AwaitPlayer \/ GameStarted \/ TurnStarting
  BY <1>7 DEF GameStarting, AwaitPlayer, GameStarted, TurnStarting, ballVars
<1>8. CASE TurnStarted
  BY <1>8 DEF TurnStarted, ballVars
<1>9. CASE BallStarting
  BY <1>9 DEF BallStarting, SetBallsInPlay
<1>10. CASE BallStarted
  BY <1>10 DEF BallStarted
<1>11. CASE BallEnding
  BY <1>11 DEF BallEnding
<1>12. CASE BallEnded
  BY <1>12 DEF BallEnded, ballVars
<1>13. CASE TurnEnded
  BY <1>13 DEF TurnEnded, ballVars
<1>14. CASE GameEnding \/ GameEnded
  BY <1>14 DEF GameEnding, GameEnded, ballVars
<1>15. CASE UNCHANGED <<pc, ballVars, end_ball_event>>
  BY <1>15 DEF ballVars
<1>16. Joining \/ AwardExtraBall \/ RequestPlayerAdd \/ UNCHANGED vars
         => UNCHANGED <<pc, ballVars, end_ball_event>>
  BY Zenon DEF Joining, AwardExtraBall, RequestPlayerAdd, RequestDenied, RequestGranted,
     PlayerAdded, vars
<1> QED
  BY <1>1, <1>2, <1>3, <1>4, <1>5, <1>6, <1>7, <1>8, <1>9, <1>10, <1>11, <1>12,
     <1>13, <1>14, <1>15, <1>16
     DEF Next, GameTask, Others

\* Whatever drains while balls are counted belongs to the current ball, and its
\* last drain ends it (Game.ball_drained, Game._end_ball).
THEOREM BallsCountedHolds == Spec => [](BallsCounted /\ LastDrainEndsBall)
<1>1. TypeInv /\ Counted /\ [Next]_vars => Counted'
  BY CountedStep
<1>2. TypeInv /\ Counted => BallsCounted /\ LastDrainEndsBall
  BY GameAssumption DEF TypeInv, TypeOK, Counted, LastDrainEndsBall
<1> QED
  BY CountedInit, <1>1, <1>2, TypeInvariance, PTL DEF Spec

-------------------------------------------------------------------------------
(* Turns.                                                                   *)

\* What the balls of all players are, given the current player's.
Turns ==
  /\ \A i \in Number : i > players => ball[i] = 0
  /\ pc \in AtStart => player \in {0, 1} /\ \A i \in Number : ball[i] = 0
  /\ pc = "turn_starting" =>
       /\ ball[player] < BallsPerGame
       /\ \A i \in 1..players :
            ball[i] = IF i < player THEN ball[player] + 1 ELSE ball[player]
  /\ pc \in InTurn =>
       /\ ball[player] >= 1
       /\ \A i \in 1..players :
            ball[i] = IF i <= player THEN ball[player] ELSE ball[player] - 1

\* A request under way was made before anybody's second ball.
Joinable ==
  requests > 0 =>
    /\ \A i \in 1..players : ball[i] <= 1
    /\ pc = "turn_starting" => ball[player] = 0

\* Who set ending.
Endings ==
  /\ pc \in AtEnd => ending /\ requests = 0
  /\ slam_tilted => interrupted
  /\ ending => interrupted \/ pc \in AtEnd \cup {"no_game"}

TurnsInv ==
  Turns /\ Joinable /\ Endings /\ TurnsInOrder /\ BallsWithinGame /\ EverybodyPlayed

\* What the parts of the invariant say of a state is about these variables only.
LEMMA SameTurns ==
  ASSUME TurnsInv, UNCHANGED <<pc, players, player, ball, requests>>
  PROVE  (Turns /\ Joinable /\ TurnsInOrder /\ BallsWithinGame)'
  BY DEF TurnsInv, Turns, Joinable, TurnsInOrder, BallsWithinGame

LEMMA SameEndings ==
  ASSUME TurnsInv, UNCHANGED <<pc, players, ball, requests, ending, slam_tilted, interrupted>>
  PROVE  (Endings /\ EverybodyPlayed)'
  BY DEF TurnsInv, Endings, EverybodyPlayed

\* Steps within a turn.
LEMMA InTurnStep ==
  ASSUME TurnsInv, pc \in InTurn, pc' \in InTurn,
         UNCHANGED <<players, player, ball, requests, ending, slam_tilted, interrupted>>
  PROVE  TurnsInv'
<1> USE DEF InTurn, AtStart, AtEnd
<1>1. Turns' /\ Joinable'
  BY DEF TurnsInv, Turns, Joinable
<1>2. Endings' /\ EverybodyPlayed'
  BY DEF TurnsInv, Endings, EverybodyPlayed
<1>3. TurnsInOrder' /\ BallsWithinGame'
  BY DEF TurnsInv, TurnsInOrder, BallsWithinGame
<1> QED
  BY <1>1, <1>2, <1>3 DEF TurnsInv

LEMMA TurnsInit == Init => TurnsInv
  BY GameAssumption
     DEF Init, TurnsInv, Turns, Joinable, Endings, TurnsInOrder, BallsWithinGame,
         EverybodyPlayed, AtStart, AtEnd, InTurn, NoPlayer

\* A new player has no balls yet, and nobody else has played a second one.
LEMMA GrantedTurns ==
  ASSUME TypeInv, TurnsInv, RequestGranted
  PROVE  TurnsInv'
<1> USE GameAssumption DEF TypeInv, TypeOK, MaxList, Number
<1>1. /\ players' = players + 1 /\ requests > 0 /\ requests' = requests - 1
      /\ UNCHANGED <<pc, player, ball, ending, slam_tilted, interrupted>>
  BY DEF RequestGranted, flagVars
<1>2. players' \in Number /\ ball[players'] = 0
  BY <1>1 DEF TurnsInv, Turns, Present
<1>3. Joinable'
  BY <1>1, <1>2 DEF TurnsInv, Joinable
<1>4. Turns'
  <2>1. CASE pc = "turn_starting"
    BY <1>1, <1>2, <2>1 DEF TurnsInv, Turns, Joinable, Present, AtStart, InTurn
  <2>2. CASE pc \in InTurn
    BY <1>1, <1>2, <2>2 DEF TurnsInv, Turns, Joinable, Present, AtStart, InTurn
  <2>3. CASE pc # "turn_starting" /\ pc \notin InTurn
    BY <1>1, <2>3 DEF TurnsInv, Turns
  <2> QED
    BY <2>1, <2>2, <2>3
<1>5. Endings' /\ EverybodyPlayed'
  BY <1>1 DEF TurnsInv, Endings, EverybodyPlayed, AtEnd
<1>6. TurnsInOrder'
  <2> SUFFICES ASSUME NEW i \in 1..players', NEW j \in 1..players', i < j
               PROVE  ball'[i] - ball'[j] \in {0, 1}
    BY DEF TurnsInOrder
  <2>1. CASE j = players'
    BY <1>1, <1>2, <2>1 DEF TurnsInv, Joinable
  <2>2. CASE j # players'
    <3>1. i \in 1..players /\ j \in 1..players
      BY <1>1, <2>2
    <3>2. ball[i] - ball[j] \in {0, 1}
      BY <3>1 DEF TurnsInv, TurnsInOrder
    <3> QED
      BY <1>1, <3>2
  <2> QED
    BY <2>1, <2>2
<1>7. BallsWithinGame'
  BY <1>1, <1>2 DEF TurnsInv, BallsWithinGame
<1> QED
  BY <1>3, <1>4, <1>5, <1>6, <1>7 DEF TurnsInv

LEMMA RequestTurns ==
  ASSUME TypeInv, TurnsInv, RequestPlayerAdd, "late_join" \notin Unusual
  PROVE  TurnsInv'
<1> USE DEF TypeInv, TypeOK, MaxList, Number
<1>1. /\ UNCHANGED <<pc, players, player, ball, ending, slam_tilted, interrupted>>
      /\ pc # "no_game" /\ ~ending
      /\ player # NoPlayer => ball[player] <= 1
      /\ pc = "turn_starting" => ~(ball[player] > 0)
  BY DEF RequestPlayerAdd, CanAdd, playerVars, flagVars
<1>2. Turns' /\ TurnsInOrder' /\ BallsWithinGame' /\ EverybodyPlayed'
  BY <1>1 DEF TurnsInv, Turns, TurnsInOrder, BallsWithinGame, EverybodyPlayed
<1>3. Endings'
  BY <1>1 DEF TurnsInv, Endings
<1>4. Joinable'
  <2>1. pc \in AtStart \cup {"turn_starting"} \cup InTurn
    BY <1>1 DEF TurnsInv, Endings, Step, AtStart, AtEnd, InTurn
  <2>2. CASE pc \in AtStart
    <3>1. \A i \in Number : ball[i] = 0
      BY <2>2 DEF TurnsInv, Turns
    <3>2. \A i \in 1..players : ball[i] = 0
      BY <3>1, GameAssumption
    <3>3. pc # "turn_starting"
      BY <2>2 DEF AtStart
    <3> QED
      BY <1>1, <3>2, <3>3 DEF Joinable
  <2>3. CASE pc = "turn_starting"
    BY <1>1, <2>3 DEF TurnsInv, Turns, Joinable, Present
  <2>4. CASE pc \in InTurn
    <3>1. player \in 1..players /\ pc # "turn_starting"
      BY <2>4 DEF Present, InTurn
    <3>2. ball[player] <= 1
      BY <1>1, <3>1 DEF NoPlayer
    <3>3. \A i \in 1..players : i \in Number /\ ball[i] \in Nat
      BY GameAssumption
    <3>4. \A i \in 1..players :
            ball[i] = IF i <= player THEN ball[player] ELSE ball[player] - 1
      BY <2>4 DEF TurnsInv, Turns
    <3>5. \A i \in 1..players : ball[i] <= ball[player]
      BY <3>1, <3>3, <3>4
    <3>6. \A i \in 1..players : ball[i] <= 1
      BY <3>1, <3>2, <3>5, <3>3
    <3> QED
      BY <1>1, <3>1, <3>6 DEF Joinable
  <2> QED
    BY <2>1, <2>2, <2>3, <2>4
<1> QED
  BY <1>2, <1>3, <1>4 DEF TurnsInv

LEMMA TurnStartingTurns ==
  ASSUME TypeInv, TurnsInv, TurnStarting
  PROVE  TurnsInv'
<1> USE GameAssumption DEF TypeInv, TypeOK, MaxList, Number
<1>1. /\ pc = "turn_starting" /\ pc' = "turn_started" /\ requests = 0
      /\ player \in 1..players /\ player \in Number
      /\ ball' = [ball EXCEPT ![player] = ball[player] + 1]
      /\ UNCHANGED <<players, player, requests, ending, slam_tilted, interrupted>>
  BY DEF TurnStarting, At, Present, joinVars, flagVars
<1>2. /\ ball[player] < BallsPerGame
      /\ \A i \in 1..players :
           ball[i] = IF i < player THEN ball[player] + 1 ELSE ball[player]
  BY <1>1 DEF TurnsInv, Turns
<1>3. /\ ball'[player] = ball[player] + 1
      /\ \A i \in Number : i # player => ball'[i] = ball[i]
  BY <1>1
<1>4. \A i \in 1..players :
        ball'[i] = IF i <= player THEN ball[player] + 1 ELSE ball[player]
  BY <1>1, <1>2, <1>3
<1>5. Turns'
  <2>1. \A i \in Number : i > players => ball'[i] = 0
    BY <1>1, <1>3 DEF TurnsInv, Turns
  <2>2. ball[player] \in Nat
    BY <1>1
  <2>3. /\ ball'[player'] >= 1
        /\ \A i \in 1..players' :
             ball'[i] = IF i <= player' THEN ball'[player'] ELSE ball'[player'] - 1
    <3>1. player' = player /\ players' = players /\ player \in 1..players
      BY <1>1
    <3>2. ball'[player] = ball[player] + 1 /\ ball[player] \in Nat
      BY <1>3, <2>2
    <3> HIDE DEF TypeInv, TypeOK
    <3> QED
      BY <3>1, <3>2, <1>4
  <2>4. pc' \notin AtStart /\ pc' # "turn_starting"
    BY <1>1 DEF AtStart
  <2> QED
    BY <1>1, <2>1, <2>3, <2>4 DEF Turns
<1>6. TurnsInOrder' /\ BallsWithinGame'
  BY <1>1, <1>2, <1>4 DEF TurnsInOrder, BallsWithinGame
<1>7. Joinable' /\ Endings' /\ EverybodyPlayed'
  BY <1>1 DEF TurnsInv, Joinable, Endings, EverybodyPlayed, AtEnd
<1> QED
  BY <1>5, <1>6, <1>7 DEF TurnsInv

\* The first turn, or the end before it.
LEMMA GameStartedTurns ==
  ASSUME TypeInv, TurnsInv, GameStarted
  PROVE  TurnsInv'
<1> USE GameAssumption DEF TypeInv, TypeOK, MaxList, Number
<1>1. /\ pc = "game_started" /\ requests = 0 /\ players >= 1
      /\ UNCHANGED <<players, ball, requests, ending, slam_tilted, interrupted>>
  BY DEF GameStarted, At, Present, joinVars, flagVars
<1>2. /\ \A i \in Number : ball[i] = 0
      /\ player \in {0, 1}
  BY <1>1 DEF TurnsInv, Turns, AtStart
<1>3. TurnsInOrder' /\ BallsWithinGame' /\ Joinable'
  BY <1>1, <1>2 DEF TurnsInOrder, BallsWithinGame, Joinable
<1>4. CASE ending
  <2>1. pc' = "game_ending" /\ interrupted
    BY <1>1, <1>4 DEF GameStarted, TurnsInv, Endings, AtEnd
  <2> QED
    BY <1>1, <1>2, <1>3, <1>4, <2>1
       DEF TurnsInv, Turns, Endings, EverybodyPlayed, AtStart, AtEnd, InTurn
<1>5. CASE ~ending
  <2>1. pc' = "turn_starting" /\ player' = 1
    BY <1>2, <1>5 DEF GameStarted, NextPlayer, NoPlayer
  <2> QED
    BY <1>1, <1>2, <1>3, <1>5, <2>1
       DEF TurnsInv, Turns, Endings, EverybodyPlayed, AtStart, AtEnd, InTurn
<1> QED
  BY <1>4, <1>5

\* The last turn ends with everybody's last ball; the next one is up after any
\* other, who is a ball behind unless all have played.
LEMMA TurnEndedTurns ==
  ASSUME TypeInv, TurnsInv, TurnEnded
  PROVE  TurnsInv'
<1> USE GameAssumption DEF TypeInv, TypeOK, MaxList, Number
<1>1. /\ pc = "turn_ending" /\ requests = 0 /\ player \in 1..players
      /\ UNCHANGED <<players, ball, requests, slam_tilted, interrupted>>
  BY DEF TurnEnded, At, Present, InTurn, joinVars
<1>2. /\ ball[player] >= 1
      /\ \A i \in 1..players :
           ball[i] = IF i <= player THEN ball[player] ELSE ball[player] - 1
      /\ \A i \in 1..players : ball[i] <= BallsPerGame
  BY <1>1 DEF TurnsInv, Turns, BallsWithinGame, InTurn
<1>3. TurnsInOrder' /\ BallsWithinGame' /\ Joinable'
  BY <1>1 DEF TurnsInv, TurnsInOrder, BallsWithinGame, Joinable
<1>4. \A i \in Number : i > players => ball[i] = 0
  BY DEF TurnsInv, Turns
<1>5. (ending => interrupted) /\ (slam_tilted => interrupted)
  BY <1>1 DEF TurnsInv, Endings, AtEnd
<1>6. CASE LastTurn
  <2>1. pc' = "game_ending" /\ ending'
    BY <1>6 DEF TurnEnded
  <2>2. ~interrupted => \A i \in 1..players : ball[i] = BallsPerGame
    BY <1>1, <1>2, <1>5, <1>6 DEF LastTurn
  <2> QED
    BY <1>1, <1>3, <1>4, <1>5, <2>1, <2>2
       DEF TurnsInv, Turns, Endings, EverybodyPlayed, AtStart, AtEnd, InTurn
<1>7. CASE ~LastTurn /\ ending
  <2>1. pc' = "game_ending" /\ ending' /\ interrupted
    BY <1>5, <1>7 DEF TurnEnded
  <2> QED
    BY <1>1, <1>3, <1>4, <1>5, <2>1
       DEF TurnsInv, Turns, Endings, EverybodyPlayed, AtStart, AtEnd, InTurn
<1>8. CASE ~LastTurn /\ ~ending
  <2>1. pc' = "turn_starting" /\ ~ending' /\ player' = NextPlayer
    BY <1>8 DEF TurnEnded
  <2>2. CASE player < players
    <3>1. player' = player + 1
      BY <1>1, <2>1, <2>2 DEF NextPlayer, NoPlayer
    <3>2. ball[player'] = ball[player] - 1
      BY <1>1, <1>2, <2>2, <3>1
    <3>3. Turns'
      BY <1>1, <1>2, <1>4, <2>1, <2>2, <3>1, <3>2 DEF Turns, AtStart, InTurn
    <3> QED
      BY <1>1, <1>3, <1>5, <2>1, <3>3 DEF TurnsInv, Endings, EverybodyPlayed, AtEnd
  <2>3. CASE player = players
    <3>1. player' = 1 /\ ball[player] < BallsPerGame
      BY <1>1, <1>8, <2>1, <2>3 DEF NextPlayer, NoPlayer, LastTurn
    <3>2. ball[1] = ball[player]
      BY <1>1, <1>2
    <3>3. Turns'
      BY <1>1, <1>2, <1>4, <2>1, <2>3, <3>1, <3>2 DEF Turns, AtStart, InTurn
    <3> QED
      BY <1>1, <1>3, <1>5, <2>1, <3>3 DEF TurnsInv, Endings, EverybodyPlayed, AtEnd
  <2> QED
    BY <1>1, <2>2, <2>3
<1> QED
  BY <1>6, <1>7, <1>8

LEMMA TurnsStep ==
  ASSUME TypeInv, TurnsInv, [Next]_vars,
         "late_join" \notin Unusual, "overtaking" \notin Unusual
  PROVE  TurnsInv'
<1>1. CASE UNCHANGED <<pc, players, player, ball, requests, ending, slam_tilted, interrupted>>
  BY <1>1, SameTurns, SameEndings DEF TurnsInv
<1>2. CASE EndGame \/ SlamTilt
  <2>1. UNCHANGED <<pc, players, player, ball, requests>> /\ interrupted'
    BY <1>2 DEF EndGame, SlamTilt, playerVars, joinVars
  <2>2. ending => ending'
    BY <1>2 DEF EndGame, SlamTilt
  <2>3. Endings' /\ EverybodyPlayed'
    BY <2>1, <2>2 DEF TurnsInv, Endings, EverybodyPlayed
  <2> QED
    BY <2>1, <2>3, SameTurns DEF TurnsInv
<1>3. CASE StopGame \/ GameEnded
  <2>1. /\ pc' = "no_game"
        /\ UNCHANGED <<players, player, ball, requests, ending, slam_tilted, interrupted>>
    BY <1>3 DEF StopGame, GameEnded, playerVars, joinVars, flagVars
  <2> QED
    BY <2>1 DEF TurnsInv, Turns, Joinable, Endings, TurnsInOrder, BallsWithinGame,
       EverybodyPlayed, AtStart, AtEnd, InTurn
<1>4. CASE RequestPlayerAdd
  BY <1>4, RequestTurns
<1>5. CASE RequestDenied
  <2>1. /\ requests > 0 /\ requests' = requests - 1
        /\ UNCHANGED <<pc, players, player, ball, ending, slam_tilted, interrupted>>
    BY <1>5 DEF RequestDenied, playerVars, flagVars
  <2>2. Turns' /\ TurnsInOrder' /\ BallsWithinGame' /\ EverybodyPlayed'
    BY <2>1 DEF TurnsInv, Turns, TurnsInOrder, BallsWithinGame, EverybodyPlayed
  <2>3. Joinable' /\ Endings'
    BY <2>1 DEF TurnsInv, Joinable, Endings, TypeInv, TypeOK
  <2> QED
    BY <2>2, <2>3 DEF TurnsInv
<1>6. CASE RequestGranted
  BY <1>6, GrantedTurns
<1>7. ASSUME NEW i \in adding, PlayerAdded(i)
      PROVE  TurnsInv'
  <2>1. UNCHANGED <<pc, players, ball, requests, ending, slam_tilted, interrupted>>
    BY <1>7 DEF PlayerAdded, flagVars
  <2>2. CASE player = NoPlayer
    <3>1. player' = 1 /\ player = 0
      BY <1>7, <2>2 DEF PlayerAdded, TypeInv, TypeOK, NoPlayer
    <3>2. pc # "turn_starting" /\ pc \notin InTurn
      BY <3>1 DEF TypeInv, Present
    <3>3. Turns' /\ Joinable'
      BY <2>1, <3>1, <3>2 DEF TurnsInv, Turns, Joinable
    <3> QED
      BY <2>1, <3>3, SameEndings
         DEF TurnsInv, TurnsInOrder, BallsWithinGame
  <2>3. CASE player # NoPlayer
    <3>1. UNCHANGED player
      BY <1>7, <2>3 DEF PlayerAdded
    <3> QED
      BY <2>1, <3>1, SameTurns, SameEndings DEF TurnsInv
  <2> QED
    BY <2>2, <2>3
<1>8. CASE Run
  BY <1>8, GameAssumption
     DEF Run, At, TurnsInv, Turns, Joinable, Endings, TurnsInOrder, BallsWithinGame,
         EverybodyPlayed, AtStart, AtEnd, InTurn, NoPlayer
<1>9. CASE GameStarting
  <2>1. /\ pc = "game_starting" /\ pc' = "awaiting_player"
        /\ requests' > 0 => players = 0
        /\ UNCHANGED <<players, player, ball, ending, slam_tilted, interrupted>>
    BY <1>9 DEF GameStarting, At, playerVars, flagVars
  <2> QED
    BY <2>1 DEF TurnsInv, Turns, Joinable, Endings, TurnsInOrder, BallsWithinGame,
       EverybodyPlayed, AtStart, AtEnd, InTurn
<1>10. CASE AwaitPlayer
  <2>1. /\ pc = "awaiting_player" /\ pc' = "game_started"
        /\ UNCHANGED <<players, player, ball, requests, ending, slam_tilted, interrupted>>
    BY <1>10 DEF AwaitPlayer, At, playerVars, joinVars, flagVars
  <2> QED
    BY <2>1 DEF TurnsInv, Turns, Joinable, Endings, TurnsInOrder, BallsWithinGame,
       EverybodyPlayed, AtStart, AtEnd, InTurn
<1>11. CASE GameStarted
  BY <1>11, GameStartedTurns
<1>12. CASE TurnStarting
  BY <1>12, TurnStartingTurns
<1>13. CASE TurnStarted \/ BallStarting \/ BallStarted \/ BallEnding \/ BallEnded
  <2>1. /\ pc \in InTurn /\ pc' \in InTurn
        /\ UNCHANGED <<players, player, ball, requests, ending, slam_tilted, interrupted>>
    BY <1>13 DEF TurnStarted, BallStarting, BallStarted, BallEnding, BallEnded, At,
       InTurn, playerVars, joinVars, flagVars
  <2> QED
    BY <2>1, InTurnStep
<1>14. CASE TurnEnded
  BY <1>14, TurnEndedTurns
<1>15. CASE GameEnding
  <2>1. /\ pc = "game_ending" /\ pc' = "game_ended"
        /\ UNCHANGED <<players, player, ball, requests, ending, slam_tilted, interrupted>>
    BY <1>15 DEF GameEnding, At, playerVars, joinVars, flagVars
  <2> QED
    BY <2>1 DEF TurnsInv, Turns, Joinable, Endings, TurnsInOrder, BallsWithinGame,
       EverybodyPlayed, AtStart, AtEnd, InTurn
<1>16. Drain \/ AddBall \/ AwardExtraBall \/ EndBall \/ UNCHANGED vars
         => UNCHANGED <<pc, players, player, ball, requests, ending, slam_tilted, interrupted>>
  BY Zenon DEF Drain, AddBall, AwardExtraBall, EndBall, vars, playerVars, joinVars, flagVars
<1> QED
  BY <1>1, <1>2, <1>3, <1>4, <1>5, <1>6, <1>7, <1>8, <1>9, <1>10, <1>11, <1>12,
     <1>13, <1>14, <1>15, <1>16
     DEF Next, GameTask, Joining, Others

\* Every player gets the balls of the game, in turn and none too many, and a game
\* that nobody ends early ends when all have had theirs, unless players join
\* between two turns or overtake each other (Game._run, request_player_add).
THEOREM TurnsHold ==
  ASSUME "late_join" \notin Unusual, "overtaking" \notin Unusual
  PROVE  Spec => [](TurnsInOrder /\ BallsWithinGame /\ EverybodyPlayed)
<1>1. TypeInv /\ TurnsInv /\ [Next]_vars => TurnsInv'
  BY TurnsStep
<1>2. TurnsInv => TurnsInOrder /\ BallsWithinGame /\ EverybodyPlayed
  BY DEF TurnsInv
<1> QED
  BY TurnsInit, <1>1, <1>2, TypeInvariance, PTL DEF Spec

\* A game that comes to its end by itself has given every player every ball
\* (Game._run, _run_player_turn), if nobody joins between two turns or overtakes.
THEOREM EverybodyPlaysHolds ==
  ASSUME "late_join" \notin Unusual, "overtaking" \notin Unusual
  PROVE  Spec => []EverybodyPlayed
BY TurnsHold, PTL

-------------------------------------------------------------------------------
(* Proofs about BallsInPlay, for any numbers of balls and any configurations. *)
(*                                                                            *)
(* Three invariants, each of which needs the one before: Bounds, the types    *)
(* and what bounds the numbers of balls; Books, which balls are still owed to *)
(* the playfield, given the phase of the ball; and Clean, what a multiball, a *)
(* lock and a tilt may leave behind at every stage of the end of a ball.      *)

SaveType == [on : BOOLEAN, left : 0..SaveBalls, early : 0..1, scheduled : Nat, delayed : Nat]
MbType == [on : BOOLEAN, shoot : BOOLEAN, saving : BOOLEAN, counting : BOOLEAN, timer : BOOLEAN,
           target : Nat, excess : Nat]
HoldType == [on : BOOLEAN, held : 0..LiveBalls, released : 0..LiveBalls]
LockType == [on : BOOLEAN, count : 0..BallsToLock, inside : 0..LockCapacity,
             remaining : 0..LockCapacity]
TiltType == [tilted : BOOLEAN, collect : Int, drains : BOOLEAN, atEnd : BOOLEAN, called : BOOLEAN,
             queue : BOOLEAN, swinging : BOOLEAN, delay : BOOLEAN]

GameTypes == /\ conf \in Configs /\ phase \in Phases
             /\ endEvent \in BOOLEAN /\ running \in BOOLEAN
             /\ bip \in 0..LiveBalls /\ on_playfield \in 0..LiveBalls /\ coming \in Nat
DeviceTypes == /\ save \in SaveType /\ mb \in MbType /\ hold \in HoldType
               /\ lock \in LockType /\ tilt \in TiltType

\* The type invariant in two parts.
LEMMA TypesAre == BallsTypeOK <=> GameTypes /\ DeviceTypes
  BY DEF BallsTypeOK, GameTypes, DeviceTypes, SaveType, MbType, HoldType, LockType, TiltType

-----------------------------------------------------------------------------
(* The operators of BallsInPlay. *)

\* What the library's operators yield for two numbers.
LEMMA MinOfTwo ==
  ASSUME NEW a \in Int, NEW b \in Int
  PROVE  Min({a, b}) = IF a <= b THEN a ELSE b
  BY DEF Min

LEMMA MaxOfTwo ==
  ASSUME NEW a \in Int, NEW b \in Int
  PROVE  Max({a, b}) = IF a >= b THEN a ELSE b
  BY DEF Max

\* A ball that the save gives back is one less to save, and comes by one way.
LEMMA SavedIs ==
  ASSUME conf \in Configs, NEW s \in SaveType, s.on, s.left > 0
  PROVE  /\ Saved(s) \in SaveType
         /\ Saved(s).on => s.left > 1
         /\ Saved(s).left = s.left - 1
         /\ Saved(s).early = s.early
         /\ Saved(s).delayed = IF conf.eject = "delay" THEN s.delayed + 1 ELSE s.delayed
         /\ Saved(s).scheduled = IF conf.eject = "event" THEN s.scheduled + 1 ELSE s.scheduled
<1>1. /\ Saved(s).on = (s.left > 1)
      /\ Saved(s).left = s.left - 1
      /\ Saved(s).early = s.early
      /\ Saved(s).delayed = IF conf.eject = "delay" THEN s.delayed + 1 ELSE s.delayed
      /\ Saved(s).scheduled = IF conf.eject = "event" THEN s.scheduled + 1 ELSE s.scheduled
  BY DEF SaveType, Saved
<1> DEFINE more == s.left > 1
           n == IF conf.eject = "delay" THEN s.delayed + 1 ELSE s.delayed
           k == IF conf.eject = "event" THEN s.scheduled + 1 ELSE s.scheduled
           l == s.left - 1
<1>2. more \in BOOLEAN /\ n \in Nat /\ k \in Nat /\ l \in 0..SaveBalls
  BY BallsAssumption DEF SaveType
<1>3. Saved(s) = [s EXCEPT !.left = l, !.on = more, !.delayed = n, !.scheduled = k]
  BY DEF Saved, SaveType
<1> HIDE DEF more, n, k, l
<1>4. Saved(s) \in SaveType
  BY <1>2, <1>3 DEF SaveType
<1>5. Saved(s).on => s.left > 1
  BY <1>1, Zenon
<1> QED BY <1>1, <1>4, <1>5

\* What each operator makes of a device's fields.
LEMMA SaveOffIs ==
  ASSUME NEW s \in SaveType
  PROVE  /\ SaveOff(s) \in SaveType /\ SaveOff(s).on = FALSE
         /\ SaveOff(s).early = s.early /\ SaveOff(s).left = s.left
         /\ SaveOff(s).scheduled = s.scheduled /\ SaveOff(s).delayed = s.delayed
  BY DEF SaveType, SaveOff

LEMMA ShootingIs ==
  ASSUME NEW m \in MbType
  PROVE  /\ Shooting(m) \in MbType
         /\ Shooting(m).shoot /\ Shooting(m).saving
         /\ Shooting(m).counting = m.counting /\ Shooting(m).target = m.target
         /\ Shooting(m).excess = m.excess
  BY DEF MbType, Shooting

LEMMA StoppedIs ==
  ASSUME NEW m \in MbType
  PROVE  /\ Stopped(m) \in MbType
         /\ ~Stopped(m).shoot /\ ~Stopped(m).saving /\ Stopped(m).counting
         /\ Stopped(m).target = m.target /\ Stopped(m).excess = m.excess
  BY DEF MbType, Stopped

\* One ball more for the multiball, which the game counts or not.
LEMMA AddIs ==
  ASSUME mb \in MbType, bip \in 0..LiveBalls, AddABall
  PROVE  /\ mb.target > 0 /\ mb' \in MbType /\ mb'.target = mb.target + 1 /\ mb'.shoot
         /\ IF mb.shoot THEN mb'.saving = mb.saving /\ mb'.counting = mb.counting ELSE mb'.saving
         /\ \/ bip < LiveBalls /\ bip' = bip + 1 /\ mb'.excess = mb.excess
            \/ bip = LiveBalls /\ bip' = bip /\ mb'.excess = mb.excess + 1
         /\ bip = LiveBalls => conf.eject # "delay" \/ "end_delayed" \in Irregular
<1> DEFINE t == mb.target + 1
           e == IF bip < LiveBalls THEN mb.excess ELSE mb.excess + 1
           m == [mb EXCEPT !.target = t, !.excess = e]
           b == Min({bip + 1, LiveBalls})
<1>1. LiveBalls \in Nat /\ bip \in 0..LiveBalls
  BY BallsAssumption
<1>2. mb.target \in Nat /\ mb.excess \in Nat
  BY DEF MbType
<1>3. t \in Nat /\ e \in Nat
  BY <1>2
<1>4. b = IF bip < LiveBalls THEN bip + 1 ELSE bip
  BY <1>1, MinOfTwo
<1>5. /\ mb.target > 0 /\ bip' = b /\ mb' = IF mb.shoot THEN m ELSE Shooting(m)
      /\ bip < LiveBalls \/ conf.eject # "delay" \/ "end_delayed" \in Irregular
  BY DEF AddABall, MbType
<1> HIDE DEF t, e, b
<1>6. /\ m \in MbType /\ m.target = t /\ m.excess = e
      /\ m.shoot = mb.shoot /\ m.saving = mb.saving /\ m.counting = mb.counting
  BY <1>3 DEF MbType
<1> HIDE DEF m
<1>7. mb' \in MbType /\ mb'.target = t /\ mb'.excess = e /\ mb'.shoot
  BY <1>5, <1>6, ShootingIs DEF MbType
<1>8. IF mb.shoot THEN mb'.saving = mb.saving /\ mb'.counting = mb.counting ELSE mb'.saving
  BY <1>5, <1>6, ShootingIs
<1>9. \/ bip < LiveBalls /\ bip' = bip + 1 /\ mb'.excess = mb.excess
      \/ bip = LiveBalls /\ bip' = bip /\ mb'.excess = mb.excess + 1
  BY <1>1, <1>4, <1>5, <1>7 DEF e
<1> QED BY <1>1, <1>5, <1>7, <1>8, <1>9 DEF t

LEMMA TiltDoneIs ==
  ASSUME NEW t \in TiltType
  PROVE  /\ TiltDone(t) \in TiltType
         /\ TiltDone(t).called = t.called
         /\ \/ ~TiltDone(t).tilted
            \/ /\ TiltDone(t).tilted = t.tilted /\ TiltDone(t).atEnd = t.atEnd
               /\ TiltDone(t).queue = t.queue
  BY DEF TiltType, TiltDone

LEMMA CollectedIs ==
  ASSUME NEW t \in TiltType
  PROVE  /\ Collected(t) \in TiltType
         /\ Collected(t).called = t.called
         /\ \/ ~Collected(t).tilted
            \/ /\ Collected(t).tilted = t.tilted /\ Collected(t).atEnd = t.atEnd
               /\ Collected(t).queue = t.queue
<1> DEFINE u == [t EXCEPT !.collect = @ - 1]
<1>1. u \in TiltType /\ u.tilted = t.tilted /\ u.atEnd = t.atEnd /\ u.queue = t.queue /\ u.called = t.called
  BY DEF TiltType
<1>2. Collected(t) \in {t, u, TiltDone(u)}
  BY DEF Collected
<1> HIDE DEF u
<1> QED BY <1>1, <1>2, TiltDoneIs

\* A reset moves all held balls to the released ones; nothing may be released yet.
LEMMA HoldResetIs ==
  ASSUME NEW h \in HoldType, h.released = 0 \/ h.held = 0
  PROVE  /\ HoldReset(h) \in HoldType
         /\ HoldReset(h).on = h.on /\ HoldReset(h).held = 0
         /\ HoldReset(h).released = h.released + h.held
<1> DEFINE n == h.released + h.held
<1>1. n \in 0..LiveBalls
  BY BallsAssumption DEF HoldType
<1>2. HoldReset(h) = [h EXCEPT !.held = 0, !.released = n]
  BY DEF HoldType, HoldReset
<1>3. 0 \in 0..LiveBalls
  BY BallsAssumption
<1> HIDE DEF n
<1>4. /\ HoldReset(h) \in HoldType
      /\ HoldReset(h).on = h.on /\ HoldReset(h).held = 0
      /\ HoldReset(h).released = n
  BY <1>1, <1>2, <1>3 DEF HoldType
<1> QED BY <1>4 DEF n

\* What a drain leaves to the game and the handlers after it.
LeftInPlay(balls) == IF Counting THEN (IF bip >= balls THEN bip - balls ELSE 0) ELSE bip
\* The game counts first, and the hold, the lock and the multiball see what is left.
LEMMA TheRest ==
  ASSUME GameTypes, DeviceTypes, NEW balls \in {0, 1},
         HandlersOfTheRest(balls)
  PROVE  /\ bip' = LeftInPlay(balls)
         /\ endEvent' = (endEvent \/ (bip > 0 /\ bip' = 0))
         /\ hold' \in HoldType /\ hold'.on = hold.on /\ hold'.held = hold.held
         /\ hold'.released <= hold.released
         /\ lock' \in LockType /\ lock'.inside = lock.inside /\ lock'.on = lock.on
         /\ lock'.remaining <= lock.remaining
         /\ mb' \in MbType /\ mb'.on = mb.on /\ mb'.shoot = mb.shoot /\ mb'.saving = mb.saving
         /\ mb'.excess = mb.excess
         /\ IF mb.counting /\ (~Game \/ bip' - balls < 1)
            THEN mb'.target = 0 /\ ~mb'.counting
            ELSE mb' = mb
<1> DEFINE r == Min({balls, hold.released})
           l == Min({balls - r, lock.remaining})
           b == Max({bip - balls, 0})
<1>1. r \in 0..1 /\ r <= hold.released /\ balls - r \in 0..1
  BY MinOfTwo DEF DeviceTypes, HoldType
<1>2. l \in 0..1 /\ l <= lock.remaining
  <2> HIDE DEF r
  <2> QED BY <1>1, MinOfTwo DEF DeviceTypes, LockType
<1>3. b = IF bip >= balls THEN bip - balls ELSE 0
  BY MaxOfTwo DEF GameTypes
<1>4. /\ bip' = IF Counting THEN b ELSE bip
      /\ endEvent' = (endEvent \/ (bip > 0 /\ bip' = 0))
      /\ hold' = [hold EXCEPT !.released = @ - r]
      /\ lock' = [lock EXCEPT !.remaining = @ - l]
      /\ mb' = IF mb.counting /\ (~Game \/ bip' - balls < 1)
               THEN [mb EXCEPT !.target = 0, !.counting = FALSE]
               ELSE mb
  BY DEF HandlersOfTheRest
<1> HIDE DEF r, l, b
<1>5. bip' = LeftInPlay(balls)
  BY <1>3, <1>4 DEF LeftInPlay
<1>6. /\ hold' \in HoldType /\ hold'.on = hold.on /\ hold'.held = hold.held
      /\ hold'.released <= hold.released
  <2> DEFINE n == hold.released - r
  <2>1. hold.released \in 0..LiveBalls
    BY DEF DeviceTypes, HoldType
  <2>2. n \in 0..LiveBalls /\ n <= hold.released
    BY <1>1, <2>1, BallsAssumption
  <2>3. hold' = [hold EXCEPT !.released = n]
    BY <1>4
  <2> HIDE DEF n
  <2> QED BY <2>2, <2>3 DEF DeviceTypes, HoldType
<1>7. /\ lock' \in LockType /\ lock'.inside = lock.inside /\ lock'.on = lock.on
      /\ lock'.remaining <= lock.remaining
  <2> DEFINE n == lock.remaining - l
  <2>1. lock.remaining \in 0..LockCapacity
    BY DEF DeviceTypes, LockType
  <2>2. n \in 0..LockCapacity /\ n <= lock.remaining
    BY <1>2, <2>1, BallsAssumption
  <2>3. lock' = [lock EXCEPT !.remaining = n]
    BY <1>4
  <2> HIDE DEF n
  <2> QED BY <2>2, <2>3 DEF DeviceTypes, LockType
<1>9. CASE mb.counting /\ (~Game \/ bip' - balls < 1)
  <2>1. mb' = [mb EXCEPT !.target = 0, !.counting = FALSE]
    BY <1>4, <1>9
  <2>2. /\ mb' \in MbType /\ mb'.on = mb.on /\ mb'.shoot = mb.shoot /\ mb'.saving = mb.saving
        /\ mb'.target = 0 /\ ~mb'.counting /\ mb'.excess = mb.excess
    BY <2>1 DEF DeviceTypes, MbType
  <2> QED BY <2>2, <1>4, <1>5, <1>6, <1>7, <1>9
<1>10. CASE ~(mb.counting /\ (~Game \/ bip' - balls < 1))
  <2>1. mb' = mb
    BY <1>4, <1>10
  <2> QED BY <2>1, <1>4, <1>5, <1>6, <1>7, <1>10 DEF DeviceTypes
<1> QED BY <1>9, <1>10

-----------------------------------------------------------------------------
(* Which actions change a variable. *)

\* Only these change the save; likewise the lemmas below for the other variables.
LEMMA WhoSave ==
  ASSUME [BallsNext]_ballsVars
  PROVE  \/ save' = save
         \/ BallWillEnd \/ StopModes \/ StopMode \/ BallDrain
         \/ EnableSave \/ SaveTimeout \/ EarlyBallSave
         \/ DelayedEject \/ EjectDelayOver
  BY DEF BallsNext, GameStep, GoTo, ballsVars, devices,
         StartTurn, LetTurnStart, StartBall, ServeBall,
         FinishBall, HoldIsEmpty, EmptyLock, LockIsEmpty,
         EndTilted, StartGame, BallHasEnded, Arrive,
         StartMultiball, AddABall, StopMultiball, ShootAgainOver,
         HoldBall, ReleaseOne, LockBall, ResetLockCount,
         StartMode, Settle, RequestEnd, TiltGame

LEMMA WhoMb ==
  ASSUME [BallsNext]_ballsVars
  PROVE  \/ mb' = mb
         \/ StartBall \/ BallWillEnd \/ StopModes \/ StopMode
         \/ StartMode \/ BallDrain \/ StartMultiball \/ AddABall
         \/ StopMultiball \/ ShootAgainOver
  BY DEF BallsNext, GameStep, GoTo, ballsVars, devices,
         StartTurn, LetTurnStart, ServeBall, FinishBall,
         HoldIsEmpty, EmptyLock, LockIsEmpty, EndTilted,
         StartGame, BallHasEnded, Arrive, EnableSave,
         SaveTimeout, EarlyBallSave, DelayedEject, EjectDelayOver,
         HoldBall, ReleaseOne, LockBall, ResetLockCount,
         Settle, RequestEnd, TiltGame

LEMMA WhoHold ==
  ASSUME [BallsNext]_ballsVars
  PROVE  \/ hold' = hold
         \/ StartBall \/ BallWillEnd \/ StopModes \/ StopMode
         \/ StartMode \/ BallDrain \/ HoldBall \/ ReleaseOne
  BY DEF BallsNext, GameStep, GoTo, ballsVars, devices,
         StartTurn, LetTurnStart, ServeBall, FinishBall,
         HoldIsEmpty, EmptyLock, LockIsEmpty, EndTilted,
         StartGame, BallHasEnded, Arrive, EnableSave,
         SaveTimeout, EarlyBallSave, DelayedEject, EjectDelayOver,
         StartMultiball, AddABall, StopMultiball, ShootAgainOver,
         LockBall, ResetLockCount, Settle, RequestEnd,
         TiltGame

LEMMA WhoLock ==
  ASSUME [BallsNext]_ballsVars
  PROVE  \/ lock' = lock
         \/ StartTurn \/ EmptyLock \/ StartGame \/ StopModes
         \/ StopMode \/ StartMode \/ BallDrain \/ StartMultiball
         \/ LockBall \/ ResetLockCount
  BY DEF BallsNext, GameStep, GoTo, ballsVars, devices,
         LetTurnStart, StartBall, ServeBall, FinishBall,
         BallWillEnd, HoldIsEmpty, LockIsEmpty, EndTilted,
         BallHasEnded, Arrive, EnableSave, SaveTimeout,
         EarlyBallSave, DelayedEject, EjectDelayOver, AddABall,
         StopMultiball, ShootAgainOver, HoldBall, ReleaseOne,
         Settle, RequestEnd, TiltGame

LEMMA WhoTilt ==
  ASSUME [BallsNext]_ballsVars
  PROVE  \/ tilt' = tilt
         \/ BallWillEnd \/ EndTilted \/ StartGame \/ BallDrain
         \/ Settle
         \/ \E swinging \in BOOLEAN : TiltGame(swinging)
  BY DEF BallsNext, GameStep, GoTo, ballsVars, devices,
         StartTurn, LetTurnStart, StartBall, ServeBall,
         FinishBall, HoldIsEmpty, EmptyLock, LockIsEmpty,
         StopModes, BallHasEnded, Arrive, EnableSave,
         SaveTimeout, EarlyBallSave, DelayedEject, EjectDelayOver,
         StartMultiball, AddABall, StopMultiball, ShootAgainOver,
         HoldBall, ReleaseOne, LockBall, ResetLockCount,
         StartMode, StopMode, RequestEnd, RemoveDevices

LEMMA WhoBip ==
  ASSUME [BallsNext]_ballsVars
  PROVE  \/ bip' = bip
         \/ StartBall \/ FinishBall \/ BallDrain \/ StartMultiball
         \/ AddABall
  BY DEF BallsNext, GameStep, GoTo, ballsVars, devices,
         StartTurn, LetTurnStart, ServeBall, BallWillEnd,
         HoldIsEmpty, EmptyLock, LockIsEmpty, StopModes,
         EndTilted, StartGame, BallHasEnded, Arrive, EnableSave,
         SaveTimeout, EarlyBallSave, DelayedEject, EjectDelayOver,
         StopMultiball, ShootAgainOver, HoldBall, ReleaseOne,
         LockBall, ResetLockCount, StartMode, StopMode,
         Settle, RequestEnd, TiltGame, RemoveDevices

LEMMA WhoPlayfield ==
  ASSUME [BallsNext]_ballsVars
  PROVE  \/ on_playfield' = on_playfield
         \/ BallDrain \/ Arrive \/ HoldBall \/ LockBall
  BY DEF BallsNext, GameStep, GoTo, ballsVars, devices,
         StartTurn, LetTurnStart, StartBall, ServeBall,
         FinishBall, BallWillEnd, HoldIsEmpty, EmptyLock,
         LockIsEmpty, StopModes, EndTilted, StartGame,
         BallHasEnded, EnableSave, SaveTimeout, EarlyBallSave,
         DelayedEject, EjectDelayOver, StartMultiball, AddABall,
         StopMultiball, ShootAgainOver, ReleaseOne, ResetLockCount,
         StartMode, StopMode, Settle, RequestEnd, TiltGame,
         RemoveDevices

LEMMA WhoEndEvent ==
  ASSUME [BallsNext]_ballsVars
  PROVE  \/ endEvent' = endEvent
         \/ StartTurn \/ LetTurnStart \/ BallDrain \/ RequestEnd
         \/ \E next \in {"start", "turn", "over"} : BallHasEnded(next)
         \/ \E swinging \in BOOLEAN : TiltGame(swinging)
  BY DEF BallsNext, GameStep, GoTo, ballsVars, devices,
         StartBall, ServeBall, FinishBall, BallWillEnd,
         HoldIsEmpty, EmptyLock, LockIsEmpty, StopModes,
         EndTilted, StartGame, Arrive, EnableSave,
         SaveTimeout, EarlyBallSave, DelayedEject, EjectDelayOver,
         StartMultiball, AddABall, StopMultiball, ShootAgainOver,
         HoldBall, ReleaseOne, LockBall, ResetLockCount,
         StartMode, StopMode, Settle, RemoveDevices

LEMMA WhoRunning ==
  ASSUME [BallsNext]_ballsVars
  PROVE  \/ running' = running
         \/ StartMode \/ StopMode \/ StopModes
  BY DEF BallsNext, GameStep, GoTo, ballsVars, devices,
         StartTurn, LetTurnStart, StartBall, ServeBall,
         FinishBall, BallWillEnd, HoldIsEmpty, EmptyLock,
         LockIsEmpty, EndTilted, StartGame, BallHasEnded, BallDrain,
         Arrive, EnableSave, SaveTimeout, EarlyBallSave,
         DelayedEject, EjectDelayOver, StartMultiball, AddABall,
         StopMultiball, ShootAgainOver, HoldBall, ReleaseOne,
         LockBall, ResetLockCount, Settle, RequestEnd,
         TiltGame

LEMMA WhoPhase ==
  ASSUME [BallsNext]_ballsVars
  PROVE  \/ phase' = phase
         \/ StartTurn \/ LetTurnStart \/ StartBall \/ ServeBall
         \/ FinishBall \/ BallWillEnd \/ HoldIsEmpty \/ EmptyLock
         \/ LockIsEmpty \/ StopModes \/ EndTilted \/ StartGame
         \/ \E next \in {"start", "turn", "over"} : BallHasEnded(next)
  BY DEF BallsNext, GameStep, GoTo, ballsVars, devices, BallDrain,
         Arrive, EnableSave, SaveTimeout, EarlyBallSave,
         DelayedEject, EjectDelayOver, StartMultiball, AddABall,
         StopMultiball, ShootAgainOver, HoldBall, ReleaseOne,
         LockBall, ResetLockCount, StartMode, StopMode,
         Settle, RequestEnd, TiltGame

LEMMA WhoConf ==
  ASSUME [BallsNext]_ballsVars
  PROVE  \/ conf' = conf
  BY DEF BallsNext, GameStep, GoTo, ballsVars, devices,
         StartTurn, LetTurnStart, StartBall, ServeBall,
         FinishBall, BallWillEnd, HoldIsEmpty, EmptyLock,
         LockIsEmpty, StopModes, EndTilted, StartGame,
         BallHasEnded, BallDrain, Arrive, EnableSave, SaveTimeout,
         EarlyBallSave, DelayedEject, EjectDelayOver,
         StartMultiball, AddABall, StopMultiball, ShootAgainOver,
         HoldBall, ReleaseOne, LockBall, ResetLockCount,
         StartMode, StopMode, Settle, RequestEnd, TiltGame,
         RemoveDevices

\* The phases in which a hold of the machine is on.
HoldPhases == {"serve", "playing", "will_end"}
\* The types, and a save that is on has balls left to save.
Kinds == /\ GameTypes /\ DeviceTypes
         /\ save.on => save.left > 0

\* A ball drains in one of three ways.
LEMMA DrainIs ==
  ASSUME Kinds, BallDrain
  PROVE  /\ on_playfield > 0 /\ on_playfield' = on_playfield - 1
         /\ tilt' = Collected(tilt) /\ UNCHANGED <<conf, phase, running>>
         /\ save' \in SaveType /\ coming' \in Nat
         /\ save'.on => save.on /\ save'.left > 0
         /\ \/ /\ HandlersOfTheRest(0)
               /\ save.early = 1 /\ save'.early = 0 /\ coming' = coming
               /\ save'.scheduled = save.scheduled /\ save'.delayed = save.delayed
            \/ /\ HandlersOfTheRest(0)
               /\ save.early = 0 /\ save'.early = 0
               /\ coming' + save'.scheduled + save'.delayed
                    = coming + save.scheduled + save.delayed + 1
               /\ save'.scheduled = save.scheduled
                    \/ (conf.eject = "event" /\ save.on /\ bip > 0)
               /\ save'.delayed = save.delayed
                    \/ (conf.eject = "delay" /\ save.on /\ bip > 0)
            \/ /\ HandlersOfTheRest(1)
               /\ save.early = 0 /\ save' = save /\ coming' = coming
               /\ ~SaveTakes /\ ~MbTakes
<1>1. /\ on_playfield > 0 /\ on_playfield' = on_playfield - 1
      /\ tilt' = Collected(tilt) /\ UNCHANGED <<conf, phase, running>>
      /\ \/ EarlySavedDrains \/ SavedByBallSave
         \/ SavedByMultiball \/ NobodySaves
  BY DEF BallDrain
<1>2. /\ save \in SaveType /\ save.early \in 0..1 /\ save.scheduled \in Nat /\ save.delayed \in Nat
      /\ coming \in Nat /\ conf \in Configs
      /\ save.on => save.left > 0
  BY DEF Kinds, DeviceTypes, SaveType, GameTypes
<1>3. CASE EarlySavedDrains
  <2>1. /\ save.early = 1 /\ save' = [save EXCEPT !.early = 0] /\ coming' = coming
        /\ HandlersOfTheRest(0)
    BY <1>2, <1>3 DEF EarlySavedDrains, EarlyTakes, SaveType
  <2>2. /\ save' \in SaveType /\ save'.on = save.on /\ save'.left = save.left /\ save'.early = 0
        /\ save'.scheduled = save.scheduled /\ save'.delayed = save.delayed
    BY <1>2, <2>1 DEF SaveType
  <2> QED BY <1>1, <1>2, <2>1, <2>2
<1>4. CASE SavedByBallSave
  <2>1. /\ save.early = 0 /\ save.on /\ bip > 0 /\ save' = Saved(save)
        /\ coming' = coming + AtOnce /\ HandlersOfTheRest(0)
    BY <1>2, <1>4 DEF SavedByBallSave, EarlyTakes, SaveTakes
  <2>2. /\ save' \in SaveType /\ (save'.on => save.left > 1) /\ save'.left = save.left - 1
        /\ save'.early = 0
        /\ save'.delayed = IF conf.eject = "delay" THEN save.delayed + 1 ELSE save.delayed
        /\ save'.scheduled = IF conf.eject = "event" THEN save.scheduled + 1 ELSE save.scheduled
    BY <1>2, <2>1, SavedIs
  <2>3. /\ coming' + save'.scheduled + save'.delayed
             = coming + save.scheduled + save.delayed + 1
        /\ coming' \in Nat
    <3>1. conf.eject \in {"none", "delay", "event"}
      BY <1>2, BallsAssumption
    <3> QED BY <1>2, <2>1, <2>2, <3>1 DEF AtOnce
  <2>4. save.left \in Int
    BY <1>2 DEF SaveType
  <2>5. save'.on => save'.left > 0
    BY <2>2, <2>4
  <2> QED BY <1>1, <2>1, <2>2, <2>3, <2>5
<1>5. CASE SavedByMultiball
  BY <1>1, <1>2, <1>5 DEF SavedByMultiball, EarlyTakes
<1>6. CASE NobodySaves
  BY <1>1, <1>2, <1>6 DEF NobodySaves, EarlyTakes
<1> QED BY <1>1, <1>3, <1>4, <1>5, <1>6

\* The devices of a mode that stops.
LEMMA RemoveIs ==
  ASSUME Kinds, RemoveDevices
  PROVE  /\ ~running'
         /\ save' \in SaveType /\ coming' \in Nat
         /\ save'.on => save.on /\ save'.left = save.left
         /\ save'.early = save.early /\ save'.delayed = save.delayed
         /\ coming' + save'.scheduled = coming + save.scheduled
         /\ IF InMode("save") THEN ~save'.on /\ save'.scheduled = 0
            ELSE save' = save
         /\ mb' \in MbType /\ mb'.target = mb.target /\ mb'.excess = mb.excess
         /\ mb'.saving \/ mb'.counting \/ ~(mb.saving \/ mb.counting)
         /\ mb'.shoot => mb.shoot /\ ~InMode("mb")
         /\ mb'.saving => mb.saving /\ (InMode("mb") => ~mb.shoot)
         /\ hold' \in HoldType /\ hold'.held = hold.held /\ hold'.released = hold.released
         /\ hold'.on => hold.on
         /\ lock' \in LockType /\ lock'.inside = lock.inside
         /\ lock'.remaining = lock.remaining
<1>1. /\ save \in SaveType /\ save.scheduled \in Nat /\ coming \in Nat
      /\ mb \in MbType /\ hold \in HoldType /\ lock \in LockType
  BY DEF Kinds, DeviceTypes, SaveType, GameTypes
<1>2. /\ ~running'
      /\ save' = IF InMode("save") THEN [SaveOff(save) EXCEPT !.scheduled = 0]
                 ELSE save
      /\ coming' = IF InMode("save") THEN coming + save.scheduled ELSE coming
      /\ mb' = IF ~InMode("mb") THEN mb
               ELSE [(IF mb.shoot THEN Stopped(mb) ELSE mb) EXCEPT !.on = FALSE]
      /\ hold' = IF InMode("hold") THEN [hold EXCEPT !.on = FALSE] ELSE hold
      /\ lock' = [lock EXCEPT !.on = FALSE]
  BY DEF RemoveDevices
<1>3. /\ hold' \in HoldType /\ hold'.held = hold.held /\ hold'.released = hold.released
      /\ hold'.on => hold.on
  BY <1>1, <1>2 DEF HoldType
<1>4. lock' \in LockType /\ lock'.inside = lock.inside /\ lock'.remaining = lock.remaining
  BY <1>1, <1>2 DEF LockType
<1>5. /\ save' \in SaveType /\ coming' \in Nat
      /\ save'.on => save.on /\ save'.left = save.left
      /\ save'.early = save.early /\ save'.delayed = save.delayed
      /\ coming' + save'.scheduled = coming + save.scheduled
      /\ IF InMode("save") THEN ~save'.on /\ save'.scheduled = 0 ELSE save' = save
  <2>1. CASE InMode("save")
    <3> DEFINE s == SaveOff(save)
    <3>1. /\ s \in SaveType /\ s.on = FALSE /\ s.early = save.early /\ s.left = save.left
          /\ s.delayed = save.delayed
      BY <1>1, SaveOffIs
    <3>2. save' = [s EXCEPT !.scheduled = 0] /\ coming' = coming + save.scheduled
      BY <1>2, <2>1
    <3> HIDE DEF s
    <3>3. /\ save' \in SaveType /\ save'.on = FALSE /\ save'.early = s.early
          /\ save'.left = s.left /\ save'.delayed = s.delayed /\ save'.scheduled = 0
      BY <3>1, <3>2 DEF SaveType
    <3> QED BY <1>1, <2>1, <3>1, <3>2, <3>3
  <2>2. CASE ~InMode("save")
    BY <1>1, <1>2, <2>2
  <2> QED BY <2>1, <2>2
<1>6. /\ mb' \in MbType /\ mb'.target = mb.target /\ mb'.excess = mb.excess
      /\ mb'.saving \/ mb'.counting \/ ~(mb.saving \/ mb.counting)
      /\ mb'.shoot => mb.shoot /\ ~InMode("mb")
      /\ mb'.saving => mb.saving /\ (InMode("mb") => ~mb.shoot)
  <2>1. CASE InMode("mb") /\ mb.shoot
    <3> DEFINE m == Stopped(mb)
    <3>1. /\ m \in MbType /\ ~m.shoot /\ ~m.saving /\ m.counting /\ m.target = mb.target
          /\ m.excess = mb.excess
      BY <1>1, StoppedIs
    <3>2. mb' = [m EXCEPT !.on = FALSE]
      BY <1>2, <2>1
    <3> HIDE DEF m
    <3>3. /\ mb' \in MbType /\ mb'.shoot = m.shoot /\ mb'.saving = m.saving
          /\ mb'.counting = m.counting /\ mb'.target = m.target /\ mb'.excess = m.excess
      BY <3>1, <3>2 DEF MbType
    <3> QED BY <3>1, <3>3
  <2>2. CASE InMode("mb") /\ ~mb.shoot
    <3>1. mb' = [mb EXCEPT !.on = FALSE]
      BY <1>2, <2>2
    <3>2. /\ mb' \in MbType /\ mb'.shoot = mb.shoot /\ mb'.saving = mb.saving
          /\ mb'.counting = mb.counting /\ mb'.target = mb.target /\ mb'.excess = mb.excess
      BY <1>1, <3>1 DEF MbType
    <3> QED BY <2>2, <3>2
  <2>3. CASE ~InMode("mb")
    BY <1>1, <1>2, <2>3
  <2> QED BY <2>1, <2>2, <2>3
<1> QED BY <1>2, <1>3, <1>4, <1>5, <1>6

-----------------------------------------------------------------------------
(* The bounds. *)

\* What bounds the balls that are counted.
\* The phases in which the mode of the devices may run.
ModePhases == HoldPhases \cup {"hold", "lock", "lock_wait", "modes"}
Fits == on_playfield + hold.held + lock.inside <= LiveBalls
Counts == /\ running => phase \in ModePhases
          /\ phase \in ModePhases => bip <= 1 \/ bip <= mb.target
Holds == /\ hold.released > 0 => phase = "hold"
         /\ InMode("hold") \/ (hold.on \/ hold.held > 0 => phase \in HoldPhases)
Bounds == Kinds /\ Fits /\ Counts /\ Holds

\* Events control a device only while a ball is played.
Timely == "late_events" \notin Irregular

\* What Usable demands.
LEMMA UsableIs ==
  ASSUME Timely, NEW d, Usable(d)
  PROVE  Counting /\ ~endEvent /\ (InMode(d) => running)
  BY DEF Timely, Usable

\* A device is controlled while a ball is played, or while its mode is on.
LEMMA UsableWhen ==
  ASSUME Counts, NEW d, Usable(d)
  PROVE  phase \in ModePhases
  BY DEF Counts, Usable, Counting, ModePhases, HoldPhases

\* Where the game may go from a phase.
LEMMA Moves ==
  ASSUME [BallsNext]_ballsVars
  PROVE  \/ phase' = phase
         \/ phase = "turn" /\ phase' \in {"turn_wait", "start"} /\ StartTurn
         \/ phase = "turn_wait" /\ phase' = "start" /\ LetTurnStart
         \/ phase = "start" /\ phase' = "serve" /\ StartBall
         \/ phase = "serve" /\ phase' = "playing" /\ ServeBall
         \/ phase = "playing" /\ phase' = "will_end" /\ FinishBall
         \/ phase = "will_end" /\ phase' = "hold" /\ BallWillEnd
         \/ phase = "hold" /\ phase' = "lock" /\ HoldIsEmpty
         \/ phase = "lock" /\ phase' \in {"lock_wait", "modes"} /\ EmptyLock
         \/ phase = "lock_wait" /\ phase' = "modes" /\ LockIsEmpty
         \/ phase = "modes" /\ phase' = "tilt" /\ StopModes
         \/ phase = "tilt" /\ phase' = "tilt_wait" /\ EndTilted
         \/ phase = "tilt_wait" /\ phase' \in {"start", "turn", "over"}
              /\ \E next \in {"start", "turn", "over"} : BallHasEnded(next)
         \/ phase = "over" /\ phase' = "turn" /\ StartGame
<1>1. \/ phase' = phase
      \/ StartTurn \/ LetTurnStart \/ StartBall \/ ServeBall
      \/ FinishBall \/ BallWillEnd \/ HoldIsEmpty \/ EmptyLock
      \/ LockIsEmpty \/ StopModes \/ EndTilted \/ StartGame
      \/ \E next \in {"start", "turn", "over"} : BallHasEnded(next)
  BY WhoPhase
<1>2. StartTurn => phase = "turn" /\ phase' \in {"turn_wait", "start"}
  BY DEF StartTurn, GoTo
<1>3. /\ LetTurnStart => phase = "turn_wait" /\ phase' = "start"
      /\ StartBall => phase = "start" /\ phase' = "serve"
      /\ ServeBall => phase = "serve" /\ phase' = "playing"
      /\ FinishBall => phase = "playing" /\ phase' = "will_end"
  BY DEF LetTurnStart, StartBall, ServeBall, FinishBall, GoTo
<1>4. /\ BallWillEnd => phase = "will_end" /\ phase' = "hold"
      /\ HoldIsEmpty => phase = "hold" /\ phase' = "lock"
      /\ EmptyLock => phase = "lock" /\ phase' \in {"lock_wait", "modes"}
      /\ LockIsEmpty => phase = "lock_wait" /\ phase' = "modes"
  BY DEF BallWillEnd, HoldIsEmpty, EmptyLock, LockIsEmpty, GoTo
<1>5. /\ StopModes => phase = "modes" /\ phase' = "tilt"
      /\ EndTilted => phase = "tilt" /\ phase' = "tilt_wait"
      /\ StartGame => phase = "over" /\ phase' \in {"over", "turn"}
  BY DEF StopModes, EndTilted, StartGame, GoTo
<1>6. \A next \in {"start", "turn", "over"} :
        BallHasEnded(next) => phase = "tilt_wait" /\ phase' = next
  BY DEF BallHasEnded, GoTo
<1> QED BY <1>1, <1>2, <1>3, <1>4, <1>5, <1>6, Zenon

\* What the types say of the fields.
LEMMA FieldsAre ==
  ASSUME Kinds
  PROVE  /\ conf \in Configs /\ bip \in 0..LiveBalls /\ on_playfield \in 0..LiveBalls
         /\ coming \in Nat
         /\ save \in SaveType /\ save.left \in 0..SaveBalls /\ save.early \in 0..1
         /\ save.scheduled \in Nat /\ save.delayed \in Nat
         /\ mb \in MbType /\ mb.target \in Nat /\ mb.excess \in Nat
         /\ hold \in HoldType /\ hold.held \in 0..LiveBalls /\ hold.released \in 0..LiveBalls
         /\ lock \in LockType /\ lock.count \in 0..BallsToLock
         /\ lock.inside \in 0..LockCapacity /\ lock.remaining \in 0..LockCapacity
         /\ tilt \in TiltType /\ tilt.collect \in Int
<1>1. GameTypes /\ DeviceTypes
  BY DEF Kinds
<1>2. save \in SaveType /\ mb \in MbType /\ hold \in HoldType /\ lock \in LockType /\ tilt \in TiltType
  BY <1>1 DEF DeviceTypes
<1>3. /\ save.left \in 0..SaveBalls /\ save.early \in 0..1
      /\ save.scheduled \in Nat /\ save.delayed \in Nat
  BY <1>2 DEF SaveType
<1>4. mb.target \in Nat /\ mb.excess \in Nat
  BY <1>2 DEF MbType
<1>5. hold.held \in 0..LiveBalls /\ hold.released \in 0..LiveBalls
  BY <1>2 DEF HoldType
<1>6. /\ lock.count \in 0..BallsToLock
      /\ lock.inside \in 0..LockCapacity /\ lock.remaining \in 0..LockCapacity
  BY <1>2 DEF LockType
<1>7. tilt.collect \in Int
  BY <1>2 DEF TiltType
<1> QED BY <1>1, <1>2, <1>3, <1>4, <1>5, <1>6, <1>7 DEF GameTypes

\* The capacities and numbers of the configuration.
LEMMA NumbersAre ==
  /\ LiveBalls \in Nat /\ LiveBalls >= 1 /\ SaveBalls \in Nat /\ SaveBalls >= 1
  /\ MultiBalls \in 2..LiveBalls
  /\ BallsToLock \in Nat /\ BallsToLock >= 1 /\ LockCapacity \in Nat /\ LockCapacity >= 1
  BY BallsAssumption

-----------------------------------------------------------------------------
(* Every variable keeps its type. *)

\* The save never saves below zero.
LEMMA SaveKept ==
  ASSUME Bounds, [BallsNext]_ballsVars
  PROVE  save' \in SaveType /\ (save'.on => save'.left > 0)
<1>1. Kinds /\ save \in SaveType /\ (save.on => save.left > 0) /\ save.left \in Nat
      /\ save.delayed \in Nat /\ save.scheduled \in Nat
  BY FieldsAre DEF Bounds, Kinds
<1>2. CASE save' = save
  BY <1>1, <1>2
<1>3. CASE BallWillEnd
  <2>1. save' = IF ~InMode("save") \/ running THEN SaveOff(save) ELSE save
    BY <1>3 DEF BallWillEnd
  <2> QED BY <1>1, <2>1, SaveOffIs
<1>4. CASE StopModes
  <2>1. save' = save \/ RemoveDevices
    BY <1>4 DEF StopModes
  <2> QED BY <1>1, <2>1, RemoveIs
<1>5. CASE StopMode
  BY <1>1, <1>5, RemoveIs DEF StopMode
<1>6. CASE BallDrain
  BY <1>1, <1>6, DrainIs
<1>7. CASE EnableSave
  <2>1. save' = [save EXCEPT !.on = TRUE, !.left = SaveBalls, !.early = 0]
    BY <1>7 DEF EnableSave
  <2>2. SaveBalls \in 0..SaveBalls /\ SaveBalls > 0 /\ 0 \in 0..1
    BY NumbersAre
  <2>3. save'.left = SaveBalls
    BY <1>1, <2>1 DEF SaveType
  <2>4. save' \in SaveType
    BY ONLY <1>1, <2>1, <2>2, Zenon DEF SaveType
  <2> QED BY <2>2, <2>3, <2>4
<1>8. CASE SaveTimeout
  BY <1>1, <1>8, SaveOffIs DEF SaveTimeout
<1>9. CASE EarlyBallSave
  <2> DEFINE s == Saved(save)
  <2>1. save' = [s EXCEPT !.early = 1] /\ save.on
    BY <1>9 DEF EarlyBallSave
  <2>2. s \in SaveType /\ (s.on => save.left > 1) /\ s.left = save.left - 1
    BY <1>1, <2>1, SavedIs, FieldsAre
  <2> HIDE DEF s
  <2>3. save' \in SaveType /\ save'.on = s.on /\ save'.left = s.left
    BY <2>1, <2>2 DEF SaveType
  <2> QED BY <1>1, <2>2, <2>3
<1>10. CASE DelayedEject
  <2>1. save' = [save EXCEPT !.scheduled = 0]
    BY <1>10 DEF DelayedEject
  <2> QED BY <1>1, <2>1 DEF SaveType
<1>11. CASE EjectDelayOver
  <2> DEFINE n == save.delayed - 1
  <2>1. save' = [save EXCEPT !.delayed = n] /\ n \in Nat
    BY <1>1, <1>11 DEF EjectDelayOver
  <2> HIDE DEF n
  <2> QED BY <1>1, <2>1 DEF SaveType
<1> QED BY WhoSave, <1>2, <1>3, <1>4, <1>5, <1>6, <1>7, <1>8, <1>9, <1>10, <1>11

\* The multiball keeps its type; its target has no limit.
LEMMA MbKept ==
  ASSUME Bounds, [BallsNext]_ballsVars
  PROVE  mb' \in MbType
<1>1. Kinds /\ GameTypes /\ DeviceTypes /\ mb \in MbType /\ mb.target \in Nat /\ bip \in 0..LiveBalls
  BY FieldsAre DEF Bounds, Kinds
<1>2. CASE mb' = mb
  BY <1>1, <1>2
<1>3. CASE StartBall
  <2> DEFINE m == [mb EXCEPT !.excess = 0]
  <2>1. mb' \in {m, [m EXCEPT !.on = TRUE, !.shoot = FALSE]}
    BY <1>3 DEF StartBall
  <2>2. m \in MbType
    BY <1>1 DEF MbType
  <2> HIDE DEF m
  <2> QED BY <2>1, <2>2 DEF MbType
<1>4. CASE BallWillEnd
  <2>1. mb' \in {mb, [mb EXCEPT !.on = FALSE]}
    BY <1>4 DEF BallWillEnd
  <2> QED BY <1>1, <2>1 DEF MbType
<1>5. CASE StopModes
  <2>1. mb' = mb \/ RemoveDevices
    BY <1>5 DEF StopModes
  <2> QED BY <1>1, <2>1, RemoveIs
<1>6. CASE StopMode
  BY <1>1, <1>6, RemoveIs DEF StopMode
<1>7. CASE StartMode
  <2>1. mb' \in {mb, [mb EXCEPT !.on = TRUE]}
    BY <1>7 DEF StartMode
  <2> QED BY <1>1, <2>1 DEF MbType
<1>8. CASE BallDrain
  <2>1. HandlersOfTheRest(0) \/ HandlersOfTheRest(1)
    BY <1>1, <1>8, DrainIs
  <2> QED BY <1>1, <2>1, TheRest
<1>9. CASE StartMultiball
  <2> DEFINE m == Shooting(mb)
  <2>1. mb' = [m EXCEPT !.target = MultiBalls]
    BY <1>9 DEF StartMultiball
  <2>2. m \in MbType /\ MultiBalls \in Nat
    BY <1>1, ShootingIs, NumbersAre
  <2> HIDE DEF m
  <2> QED BY <2>1, <2>2 DEF MbType
<1>10. CASE AddABall
  BY <1>1, <1>10, AddIs
<1>11. CASE StopMultiball
  BY <1>1, <1>11, StoppedIs DEF StopMultiball
<1>12. CASE ShootAgainOver
  <2> DEFINE m == Stopped(mb)
  <2>1. mb' = [m EXCEPT !.timer = FALSE] /\ m \in MbType
    BY <1>1, <1>12, StoppedIs DEF ShootAgainOver
  <2> HIDE DEF m
  <2> QED BY <2>1 DEF MbType
<1> QED BY WhoMb, <1>2, <1>3, <1>4, <1>5, <1>6, <1>7, <1>8, <1>9, <1>10, <1>11, <1>12

\* A reset happens while nothing is released: at the start and at the end of a ball.
LEMMA HoldKept ==
  ASSUME Bounds, [BallsNext]_ballsVars
  PROVE  hold' \in HoldType
<1>1. /\ Kinds /\ GameTypes /\ DeviceTypes /\ hold \in HoldType
      /\ hold.held \in 0..LiveBalls /\ hold.released \in 0..LiveBalls
      /\ hold.released > 0 => phase = "hold"
  BY FieldsAre DEF Bounds, Kinds, Holds
<1>2. CASE hold' = hold
  BY <1>1, <1>2
<1> DEFINE h == HoldReset(hold)
<1>3. hold.released = 0 => h \in HoldType
  BY <1>1, HoldResetIs
<1>4. CASE StartBall
  <2>1. phase = "start" /\ hold' \in {hold, [h EXCEPT !.on = TRUE]}
    BY <1>4 DEF StartBall
  <2>2. h \in HoldType
    BY <1>1, <1>3, <2>1
  <2> HIDE DEF h
  <2> QED BY <1>1, <2>1, <2>2 DEF HoldType
<1>5. CASE BallWillEnd
  <2>1. phase = "will_end" /\ hold' \in {hold, [h EXCEPT !.on = InMode("hold")]}
    BY <1>5 DEF BallWillEnd
  <2>2. h \in HoldType /\ InMode("hold") \in BOOLEAN
    BY <1>1, <1>3, <2>1 DEF InMode
  <2> HIDE DEF h
  <2> QED BY <1>1, <2>1, <2>2 DEF HoldType
<1>6. CASE StopModes
  <2>1. hold' = hold \/ RemoveDevices
    BY <1>6 DEF StopModes
  <2> QED BY <1>1, <2>1, RemoveIs
<1>7. CASE StopMode
  BY <1>1, <1>7, RemoveIs DEF StopMode
<1>8. CASE StartMode
  <2>1. hold' \in {hold, [hold EXCEPT !.on = TRUE]}
    BY <1>8 DEF StartMode
  <2> QED BY <1>1, <2>1 DEF HoldType
<1>9. CASE BallDrain
  <2>1. HandlersOfTheRest(0) \/ HandlersOfTheRest(1)
    BY <1>1, <1>9, DrainIs
  <2> QED BY <1>1, <2>1, TheRest
<1>10. CASE HoldBall
  <2> DEFINE n == hold.held + 1
  <2>1. hold' = [hold EXCEPT !.held = n]
    BY <1>10 DEF HoldBall
  <2>2. on_playfield > 0 /\ on_playfield + hold.held + lock.inside <= LiveBalls
    BY <1>10 DEF HoldBall, Bounds, Fits
  <2>3. n \in 0..LiveBalls
    BY <1>1, <2>2, FieldsAre, NumbersAre
  <2> HIDE DEF n
  <2> QED BY <1>1, <2>1, <2>3 DEF HoldType
<1>11. CASE ReleaseOne
  <2> DEFINE n == hold.held - 1
  <2>1. hold' = [hold EXCEPT !.held = n] /\ n \in 0..LiveBalls
    BY <1>1, <1>11, NumbersAre DEF ReleaseOne
  <2> HIDE DEF n
  <2> QED BY <1>1, <2>1 DEF HoldType
<1> QED BY WhoHold, <1>2, <1>4, <1>5, <1>6, <1>7, <1>8, <1>9, <1>10, <1>11

\* The lock takes no ball it has no place for.
LEMMA LockKept ==
  ASSUME Bounds, [BallsNext]_ballsVars
  PROVE  lock' \in LockType
<1>1. /\ Kinds /\ GameTypes /\ DeviceTypes /\ lock \in LockType
      /\ lock.count \in 0..BallsToLock /\ lock.inside \in 0..LockCapacity
      /\ lock.remaining \in 0..LockCapacity
  BY FieldsAre DEF Bounds, Kinds
<1>n. /\ LockCapacity \in Nat /\ LockCapacity >= 1 /\ BallsToLock \in Nat /\ BallsToLock >= 1
      /\ 0 \in 0..LockCapacity /\ 0 \in 0..BallsToLock /\ 1 \in 0..LockCapacity
  BY NumbersAre
<1>2. CASE lock' = lock
  BY <1>1, <1>2
<1>3. CASE StartTurn
  <2> DEFINE n == lock.inside - 1
  <2>1. \/ lock' = [lock EXCEPT !.count = 0]
        \/ lock.inside >= LockCapacity /\ lock' = [lock EXCEPT !.count = 0, !.inside = n, !.remaining = 1]
    BY <1>1, <1>3 DEF StartTurn, LockType
  <2>2. lock.inside >= LockCapacity => n \in 0..LockCapacity
    BY <1>1, <1>n
  <2> HIDE DEF n
  <2>3. CASE lock' = [lock EXCEPT !.count = 0]
    BY <1>1, <1>n, <2>3 DEF LockType
  <2>4. CASE lock.inside >= LockCapacity /\ lock' = [lock EXCEPT !.count = 0, !.inside = n, !.remaining = 1]
    <3>1. n \in 0..LockCapacity
      BY <2>2, <2>4
    <3> QED BY ONLY <1>1, <1>n, <2>4, <3>1, Zenon DEF LockType
  <2> QED BY <2>1, <2>3, <2>4
<1>4. CASE EmptyLock
  <2>1. lock' = lock \/ lock' = [lock EXCEPT !.inside = 0, !.remaining = lock.inside]
    BY <1>4 DEF EmptyLock
  <2>2. CASE lock' = [lock EXCEPT !.inside = 0, !.remaining = lock.inside]
    BY ONLY <1>1, <1>n, <2>2, Zenon DEF LockType
  <2> QED BY <1>1, <2>1, <2>2
<1>5. CASE StartGame
  <2>1. lock' = lock \/ lock' = [lock EXCEPT !.inside = 0]
    BY <1>5 DEF StartGame
  <2>2. CASE lock' = [lock EXCEPT !.inside = 0]
    BY <1>1, <1>n, <2>2 DEF LockType
  <2> QED BY <1>1, <2>1, <2>2
<1>6. CASE StopModes
  <2>1. lock' = lock \/ RemoveDevices
    BY <1>6 DEF StopModes
  <2> QED BY <1>1, <2>1, RemoveIs
<1>7. CASE StopMode
  BY <1>1, <1>7, RemoveIs DEF StopMode
<1>8. CASE StartMode
  <2>1. lock' = [lock EXCEPT !.on = TRUE]
    BY <1>8 DEF StartMode
  <2> QED BY <1>1, <2>1 DEF LockType
<1>9. CASE BallDrain
  <2>1. HandlersOfTheRest(0) \/ HandlersOfTheRest(1)
    BY <1>1, <1>9, DrainIs
  <2> QED BY <1>1, <2>1, TheRest
<1>10. CASE StartMultiball
  <2> DEFINE added == IF MultiBalls > bip THEN MultiBalls - bip ELSE 0
             taken == Min({added, lock.inside})
             n == lock.inside - taken
  <2>1. lock' = [lock EXCEPT !.inside = n]
    BY <1>1, <1>10 DEF StartMultiball, LockType
  <2>2. added \in Nat
    BY <1>1, NumbersAre, FieldsAre
  <2> HIDE DEF added
  <2>3. taken \in 0..lock.inside
    BY <1>1, <2>2, MinOfTwo
  <2> HIDE DEF taken
  <2>4. n \in 0..LockCapacity
    BY <1>1, <2>3, <1>n
  <2> HIDE DEF n
  <2> QED BY <1>1, <2>1, <2>4 DEF LockType
<1>11. CASE LockBall
  <2> DEFINE c == lock.count + 1
             stays == LockCapacity - lock.inside >= 1
                        /\ (lock.count + 1 = BallsToLock \/ LockCapacity - lock.inside > 1)
             n == IF stays THEN lock.inside + 1 ELSE lock.inside
  <2>1. lock' = [lock EXCEPT !.count = c, !.inside = n]
    BY <1>1, <1>11 DEF LockBall, LockType
  <2>2. c \in 0..BallsToLock
    BY <1>1, <1>11, <1>n DEF LockBall
  <2>3. n \in 0..LockCapacity
    BY <1>1, <1>n
  <2> HIDE DEF c, n
  <2> QED BY <1>1, <2>1, <2>2, <2>3 DEF LockType
<1>12. CASE ResetLockCount
  <2>1. lock' = [lock EXCEPT !.count = 0]
    BY <1>12 DEF ResetLockCount
  <2> QED BY <1>1, <1>n, <2>1 DEF LockType
<1> QED BY WhoLock, <1>2, <1>3, <1>4, <1>5, <1>6, <1>7, <1>8, <1>9, <1>10, <1>11, <1>12

\* The tilt keeps its type; its count of balls may well be below zero.
LEMMA TiltKept ==
  ASSUME Bounds, [BallsNext]_ballsVars
  PROVE  tilt' \in TiltType
<1>1. /\ Kinds /\ GameTypes /\ DeviceTypes /\ tilt \in TiltType
      /\ on_playfield \in Nat /\ coming \in Nat
  BY FieldsAre DEF Bounds, Kinds
<1>2. CASE tilt' = tilt
  BY <1>1, <1>2
<1>3. CASE BallWillEnd
  <2>1. tilt' = [tilt EXCEPT !.called = tilt.atEnd]
    BY <1>3 DEF BallWillEnd
  <2> QED BY <1>1, <2>1 DEF TiltType
<1>4. CASE EndTilted
  <2> DEFINE t == [tilt EXCEPT !.queue = TRUE, !.called = FALSE]
  <2>1. t \in TiltType
    BY <1>1 DEF TiltType
  <2>2. tilt' \in {tilt, t, TiltDone(t)}
    BY <1>4 DEF EndTilted
  <2> HIDE DEF t
  <2> QED BY <1>1, <2>1, <2>2, TiltDoneIs
<1>5. CASE StartGame
  <2> DEFINE b == IF phase' = "turn" THEN FALSE ELSE tilt.tilted
  <2>1. tilt' = [tilt EXCEPT !.tilted = b] /\ b \in BOOLEAN
    BY <1>1, <1>5 DEF StartGame, TiltType
  <2> HIDE DEF b
  <2> QED BY <1>1, <2>1 DEF TiltType
<1>6. CASE BallDrain
  BY <1>1, <1>6, CollectedIs DEF BallDrain
<1>7. CASE Settle
  <2> DEFINE t == [tilt EXCEPT !.swinging = FALSE, !.delay = FALSE]
  <2>1. t \in TiltType
    BY <1>1 DEF TiltType
  <2>2. tilt' \in {t, TiltDone(t)}
    BY <1>7 DEF Settle
  <2> HIDE DEF t
  <2> QED BY <2>1, <2>2, TiltDoneIs
<1>8. CASE \E swinging \in BOOLEAN : TiltGame(swinging)
  <2>1. PICK swinging \in BOOLEAN : TiltGame(swinging)
    BY <1>8
  <2> DEFINE n == on_playfield + coming
  <2>2. tilt' = [tilt EXCEPT !.tilted = TRUE, !.collect = n, !.drains = TRUE,
                             !.atEnd = TRUE, !.swinging = swinging]
    BY <2>1 DEF TiltGame
  <2>3. n \in Int
    BY <1>1
  <2> HIDE DEF n
  <2> QED BY ONLY <1>1, <2>2, <2>3, Zenon DEF TiltType
<1> QED BY WhoTilt, <1>2, <1>3, <1>4, <1>5, <1>6, <1>7, <1>8

\* Only these ask for a ball or let one arrive.
LEMMA WhoComing ==
  ASSUME [BallsNext]_ballsVars
  PROVE  \/ coming' = coming
         \/ StartTurn \/ StartBall \/ ServeBall \/ BallWillEnd
         \/ EmptyLock \/ StopModes \/ StartGame \/ BallDrain
         \/ Arrive \/ EarlyBallSave \/ DelayedEject
         \/ EjectDelayOver \/ StartMultiball \/ AddABall
         \/ ReleaseOne \/ LockBall \/ StopMode
  BY DEF BallsNext, GameStep, GoTo, ballsVars, devices,
         LetTurnStart, FinishBall, HoldIsEmpty, LockIsEmpty,
         EndTilted, BallHasEnded, EnableSave, SaveTimeout,
         StopMultiball, ShootAgainOver, HoldBall, ResetLockCount,
         StartMode, Settle, RequestEnd, TiltGame

\* What becomes of the hold's balls.
LEMMA HoldMoves ==
  ASSUME Bounds, [BallsNext]_ballsVars
  PROVE  \/ /\ hold'.held = hold.held /\ hold'.released <= hold.released
            /\ hold'.on => hold.on
         \/ /\ StartMode /\ hold'.held = hold.held /\ hold'.released = hold.released
            /\ hold'.on => hold.on \/ InMode("hold")
         \/ /\ StartBall /\ ~InMode("hold") /\ hold.released = 0
            /\ hold'.held = 0 /\ hold'.released = hold.held
         \/ /\ BallWillEnd /\ hold.released = 0
            /\ hold'.held = 0 /\ hold'.released = hold.held
            /\ hold'.on => InMode("hold")
         \/ /\ HoldBall /\ hold'.held = hold.held + 1 /\ hold'.released = hold.released
            /\ hold.on
         \/ /\ ReleaseOne /\ hold'.held = hold.held - 1 /\ hold'.released = hold.released
            /\ hold'.on => hold.on
<1>1. /\ Kinds /\ GameTypes /\ DeviceTypes /\ hold \in HoldType
      /\ hold.held \in 0..LiveBalls /\ hold.released \in 0..LiveBalls
      /\ hold.released > 0 => phase = "hold"
  BY FieldsAre DEF Bounds, Kinds, Holds
<1> DEFINE h == HoldReset(hold)
<1>2. hold.released = 0 =>
        h \in HoldType /\ h.held = 0 /\ h.released = hold.held
  BY <1>1, HoldResetIs
<1>3. CASE hold' = hold
  BY <1>1, <1>3
<1>4. CASE StartBall
  <2>1. /\ phase = "start"
        /\ hold' = IF InMode("hold") THEN hold ELSE [h EXCEPT !.on = TRUE]
    BY <1>4 DEF StartBall
  <2>2. hold.released = 0
    BY <1>1, <2>1
  <2>3. h \in HoldType /\ h.held = 0 /\ h.released = hold.held
    BY <1>2, <2>2
  <2> HIDE DEF h
  <2>4. CASE ~InMode("hold")
    <3>1. hold'.held = h.held /\ hold'.released = h.released
      BY <2>1, <2>3, <2>4 DEF HoldType
    <3> QED BY <1>4, <2>2, <2>3, <2>4, <3>1
  <2> QED BY <1>3, <2>1, <2>4
<1>5. CASE BallWillEnd
  <2>1. /\ phase = "will_end"
        /\ IF ~InMode("hold") \/ running
           THEN hold' = [h EXCEPT !.on = InMode("hold")] ELSE hold' = hold
    BY <1>5 DEF BallWillEnd
  <2>2. hold.released = 0
    BY <1>1, <2>1
  <2>3. h \in HoldType /\ h.held = 0 /\ h.released = hold.held
    BY <1>2, <2>2
  <2> HIDE DEF h
  <2>4. CASE hold' = [h EXCEPT !.on = InMode("hold")]
    <3>1. hold'.held = h.held /\ hold'.released = h.released /\ hold'.on = InMode("hold")
      BY <2>3, <2>4 DEF HoldType
    <3> QED BY <1>5, <2>2, <2>3, <3>1
  <2> QED BY <1>3, <2>1, <2>4
<1>6. CASE StopModes \/ StopMode
  <2>1. hold' = hold \/ RemoveDevices
    BY <1>6 DEF StopModes, StopMode
  <2> QED BY <1>1, <1>3, <2>1, RemoveIs
<1>7. CASE StartMode
  <2>1. hold' = IF InMode("hold") THEN [hold EXCEPT !.on = TRUE] ELSE hold
    BY <1>7 DEF StartMode
  <2>2. CASE InMode("hold")
    <3>1. hold'.held = hold.held /\ hold'.released = hold.released
      BY <1>1, <2>1, <2>2 DEF HoldType
    <3> QED BY <1>7, <2>2, <3>1
  <2> QED BY <1>3, <2>1, <2>2
<1>8. CASE BallDrain
  <2>1. HandlersOfTheRest(0) \/ HandlersOfTheRest(1)
    BY <1>1, <1>8, DrainIs
  <2> QED BY <1>1, <2>1, TheRest
<1>9. CASE HoldBall
  <2>1. hold.on /\ hold' = [hold EXCEPT !.held = @ + 1]
    BY <1>9 DEF HoldBall
  <2>2. hold'.held = hold.held + 1 /\ hold'.released = hold.released
    BY <1>1, <2>1 DEF HoldType
  <2> QED BY <1>9, <2>1, <2>2
<1>10. CASE ReleaseOne
  <2>1. hold' = [hold EXCEPT !.held = @ - 1]
    BY <1>10 DEF ReleaseOne
  <2>2. hold'.held = hold.held - 1 /\ hold'.released = hold.released /\ hold'.on = hold.on
    BY <1>1, <2>1 DEF HoldType
  <2> QED BY <1>10, <2>2
<1> QED BY WhoHold, <1>3, <1>4, <1>5, <1>6, <1>7, <1>8, <1>9, <1>10

\* What becomes of the balls in the lock.
LEMMA LockMoves ==
  ASSUME Bounds, [BallsNext]_ballsVars
  PROVE  /\ \/ lock'.inside <= lock.inside
            \/ LockBall /\ lock'.inside <= lock.inside + 1
         /\ \/ lock'.remaining <= lock.remaining
            \/ StartTurn /\ phase' = "turn_wait"
            \/ EmptyLock /\ phase' = "lock_wait"
<1>1. /\ Kinds /\ GameTypes /\ DeviceTypes /\ lock \in LockType
      /\ lock.inside \in Nat /\ lock.remaining \in Nat
  BY FieldsAre, NumbersAre DEF Bounds, Kinds
<1>2. CASE lock' = lock
  BY <1>1, <1>2
<1>3. CASE StartTurn
  <2>1. \/ lock' = [lock EXCEPT !.count = 0]
        \/ phase' = "turn_wait" /\ lock' = [lock EXCEPT !.count = 0, !.inside = @ - 1, !.remaining = 1]
    BY <1>3 DEF StartTurn, GoTo
  <2>2. CASE lock' = [lock EXCEPT !.count = 0]
    BY <1>1, <2>2 DEF LockType
  <2>3. CASE phase' = "turn_wait" /\ lock' = [lock EXCEPT !.count = 0, !.inside = @ - 1, !.remaining = 1]
    <3>1. lock'.inside = lock.inside - 1
      BY <1>1, <2>3 DEF LockType
    <3> QED BY <1>1, <1>3, <2>3, <3>1
  <2> QED BY <2>1, <2>2, <2>3
<1>4. CASE EmptyLock
  <2>1. \/ lock' = lock
        \/ phase' = "lock_wait" /\ lock' = [lock EXCEPT !.inside = 0, !.remaining = lock.inside]
    BY <1>4 DEF EmptyLock, GoTo
  <2>2. CASE phase' = "lock_wait" /\ lock' = [lock EXCEPT !.inside = 0, !.remaining = lock.inside]
    <3>1. lock'.inside = 0
      BY <1>1, <2>2 DEF LockType
    <3> QED BY <1>1, <1>4, <2>2, <3>1
  <2> QED BY <1>2, <2>1, <2>2
<1>5. CASE StartGame
  <2>1. lock' = lock \/ lock' = [lock EXCEPT !.inside = 0]
    BY <1>5 DEF StartGame
  <2>2. CASE lock' = [lock EXCEPT !.inside = 0]
    <3>1. lock'.inside = 0 /\ lock'.remaining = lock.remaining
      BY <1>1, <2>2 DEF LockType
    <3> QED BY <1>1, <3>1
  <2> QED BY <1>2, <2>1, <2>2
<1>6. CASE StopModes \/ StopMode
  <2>1. lock' = lock \/ RemoveDevices
    BY <1>6 DEF StopModes, StopMode
  <2> QED BY <1>1, <1>2, <2>1, RemoveIs
<1>8. CASE StartMode \/ ResetLockCount
  <2>1. lock' = [lock EXCEPT !.on = TRUE] \/ lock' = [lock EXCEPT !.count = 0]
    BY <1>8 DEF StartMode, ResetLockCount
  <2>2. lock'.inside = lock.inside /\ lock'.remaining = lock.remaining
    BY <1>1, <2>1 DEF LockType
  <2> QED BY <1>1, <2>2
<1>9. CASE BallDrain
  <2>1. HandlersOfTheRest(0) \/ HandlersOfTheRest(1)
    BY <1>1, <1>9, DrainIs
  <2> QED BY <1>1, <2>1, TheRest
<1>10. CASE StartMultiball
  <2> DEFINE added == IF MultiBalls > bip THEN MultiBalls - bip ELSE 0
             taken == Min({added, lock.inside})
             n == lock.inside - taken
  <2>1. lock' = [lock EXCEPT !.inside = n]
    BY <1>1, <1>10 DEF StartMultiball, LockType
  <2>2. added \in Nat
    BY <1>1, NumbersAre, FieldsAre
  <2> HIDE DEF added
  <2>3. taken \in 0..lock.inside
    BY <1>1, <2>2, MinOfTwo
  <2> HIDE DEF taken
  <2>4. n <= lock.inside
    BY <1>1, <2>3
  <2> HIDE DEF n
  <2>5. lock'.inside = n /\ lock'.remaining = lock.remaining
    BY <1>1, <2>1 DEF LockType
  <2> QED BY <1>1, <2>4, <2>5
<1>11. CASE LockBall
  <2> DEFINE n == lock'.inside
  <2>1. /\ lock'.inside \in {lock.inside, lock.inside + 1}
        /\ lock'.remaining = lock.remaining
    BY <1>1, <1>11 DEF LockBall, LockType
  <2> QED BY <1>1, <1>11, <2>1
<1> QED BY WhoLock, <1>2, <1>3, <1>4, <1>5, <1>6, <1>8, <1>9, <1>10, <1>11

\* The balls on the playfield, in the hold and in the lock are balls of the machine.
LEMMA FitsKept ==
  ASSUME Bounds, [BallsNext]_ballsVars
  PROVE  Fits' /\ on_playfield' \in Nat
<1>1. /\ Kinds /\ on_playfield \in Nat /\ hold.held \in Nat /\ lock.inside \in Nat
      /\ on_playfield + hold.held + lock.inside <= LiveBalls
  BY FieldsAre, NumbersAre DEF Bounds, Fits
<1>2. hold' \in HoldType /\ lock' \in LockType
  BY HoldKept, LockKept
<1>3. hold'.held \in Nat /\ lock'.inside \in Nat
  BY <1>2, NumbersAre DEF HoldType, LockType
<1>4. CASE Arrive
  <2>1. /\ on_playfield + hold.held + lock.inside < LiveBalls
        /\ on_playfield' = on_playfield + 1 /\ hold' = hold /\ lock' = lock
    BY <1>4 DEF Arrive, devices
  <2> QED BY <1>1, <2>1, NumbersAre DEF Fits
<1>5. CASE HoldBall
  <2>1. on_playfield > 0 /\ on_playfield' = on_playfield - 1 /\ lock' = lock
        /\ hold' = [hold EXCEPT !.held = @ + 1]
    BY <1>5 DEF HoldBall
  <2>2. hold'.held = hold.held + 1
    BY <1>1, <2>1, FieldsAre DEF HoldType
  <2>3. Fits'
    BY <1>1, <2>1, <2>2, NumbersAre DEF Fits
  <2> QED BY <1>1, <2>1, <2>3
<1>6. CASE LockBall
  <2>1. on_playfield > 0 /\ on_playfield' = on_playfield - 1 /\ hold' = hold
    BY <1>6 DEF LockBall
  <2>2. lock'.inside <= lock.inside + 1
    BY <1>1, <1>3, LockMoves
  <2>3. Fits'
    BY <1>1, <1>3, <2>1, <2>2, NumbersAre DEF Fits
  <2> QED BY <1>1, <2>1, <2>3
<1>7. CASE ~Arrive /\ ~HoldBall /\ ~LockBall
  <2>1. on_playfield' = on_playfield \/ (on_playfield > 0 /\ on_playfield' = on_playfield - 1)
    BY <1>7, WhoPlayfield DEF BallDrain
  <2>2. lock'.inside <= lock.inside
    BY <1>7, LockMoves
  <2>3. hold'.held <= hold.held
    BY <1>1, <1>7, HoldMoves
  <2>4. Fits'
    BY <1>1, <1>3, <2>1, <2>2, <2>3, NumbersAre DEF Fits
  <2> QED BY <1>1, <2>1, <2>4
<1> QED BY <1>4, <1>5, <1>6, <1>7

\* A ball is asked for, or arrives.
LEMMA ComingKept ==
  ASSUME Bounds, [BallsNext]_ballsVars
  PROVE  coming' \in Nat
<1>1. /\ Kinds /\ coming \in Nat /\ save.scheduled \in Nat /\ hold.held \in Nat
      /\ lock.inside \in Nat /\ bip \in Nat /\ MultiBalls \in Nat
      /\ save \in SaveType
  BY FieldsAre, NumbersAre DEF Bounds
<1>2. CASE \/ StartTurn \/ StartBall \/ ServeBall \/ BallWillEnd
           \/ EmptyLock \/ StartGame
  <2>1. coming' \in {coming, coming + 1, coming + hold.held, coming + lock.inside}
    BY <1>2, Zenon DEF StartTurn, StartBall, ServeBall, BallWillEnd,
           EmptyLock, StartGame
  <2> QED BY <1>1, <2>1
<1>3. CASE StopModes \/ StopMode
  <2>1. coming' = coming \/ RemoveDevices
    BY <1>3 DEF StopModes, StopMode
  <2> QED BY <1>1, <2>1, RemoveIs
<1>4. CASE BallDrain
  BY <1>1, <1>4, DrainIs
<1>5. CASE \/ Arrive \/ EarlyBallSave \/ DelayedEject \/ EjectDelayOver
           \/ AddABall \/ ReleaseOne \/ LockBall
  BY <1>1, <1>5 DEF Arrive, EarlyBallSave, DelayedEject, EjectDelayOver,
         AddABall, ReleaseOne, LockBall, AtOnce
<1>6. CASE StartMultiball
  BY <1>1, <1>6 DEF StartMultiball
<1> QED BY WhoComing, <1>1, <1>2, <1>3, <1>4, <1>5, <1>6

\* What becomes of the multiball's target.
LEMMA TargetMoves ==
  ASSUME Bounds, [BallsNext]_ballsVars
  PROVE  \/ mb'.target = mb.target
         \/ BallDrain
         \/ StartMultiball /\ mb.target = 0 /\ mb'.target = MultiBalls
         \/ AddABall /\ mb.target > 0 /\ mb'.target = mb.target + 1
<1>1. Kinds /\ mb \in MbType /\ bip \in 0..LiveBalls
  BY FieldsAre DEF Bounds
<1>2. CASE mb' = mb
  BY <1>2
<1>3. CASE StartBall \/ BallWillEnd \/ StartMode
  <2> DEFINE m == [mb EXCEPT !.excess = 0]
  <2>1. m \in MbType /\ m.target = mb.target
    BY <1>1 DEF MbType
  <2>2. mb' \in {mb, m, [m EXCEPT !.on = TRUE, !.shoot = FALSE], [mb EXCEPT !.on = FALSE],
                 [mb EXCEPT !.on = TRUE]}
    BY <1>3 DEF StartBall, BallWillEnd, StartMode
  <2> HIDE DEF m
  <2> QED BY <1>1, <2>1, <2>2 DEF MbType
<1>4. CASE StopModes \/ StopMode
  <2>1. mb' = mb \/ RemoveDevices
    BY <1>4 DEF StopModes, StopMode
  <2> QED BY <1>1, <2>1, RemoveIs
<1>5. CASE StartMultiball
  <2> DEFINE m == Shooting(mb)
  <2>1. mb' = [m EXCEPT !.target = MultiBalls] /\ mb.target = 0
    BY <1>5 DEF StartMultiball
  <2>2. m \in MbType
    BY <1>1, ShootingIs
  <2> HIDE DEF m
  <2>3. mb'.target = MultiBalls
    BY <2>1, <2>2 DEF MbType
  <2> QED BY <1>5, <2>1, <2>3
<1>6. CASE AddABall
  BY <1>1, <1>6, AddIs
<1>7. CASE StopMultiball
  BY <1>1, <1>7, StoppedIs DEF StopMultiball
<1>8. CASE ShootAgainOver
  <2> DEFINE m == Stopped(mb)
  <2>1. mb' = [m EXCEPT !.timer = FALSE] /\ m \in MbType /\ m.target = mb.target
    BY <1>1, <1>8, StoppedIs DEF ShootAgainOver
  <2> HIDE DEF m
  <2> QED BY <2>1 DEF MbType
<1> QED BY WhoMb, <1>2, <1>3, <1>4, <1>5, <1>6, <1>7, <1>8

\* The mode of the devices runs only during a ball and its end.
LEMMA RunningKept ==
  ASSUME [BallsNext]_ballsVars, running => phase \in ModePhases
  PROVE  running' => phase' \in ModePhases
<1>1. CASE StartMode
  BY <1>1 DEF StartMode, Counting, ModePhases, HoldPhases
<1>2. CASE StopMode
  BY <1>2 DEF StopMode, RemoveDevices
<1>3. CASE StopModes
  BY <1>3 DEF StopModes, RemoveDevices
<1>4. CASE running' = running /\ ~StopModes
  <2>1. phase \in ModePhases => phase' \in ModePhases
    BY <1>4, Moves DEF ModePhases, HoldPhases
  <2> QED BY <1>4, <2>1
<1> QED BY WhoRunning, <1>1, <1>2, <1>3, <1>4

\* balls_in_play is one, or at most what a multiball counts with.
LEMMA CountsKept ==
  ASSUME Bounds, [BallsNext]_ballsVars
  PROVE  bip' \in 0..LiveBalls /\ Counts'
<1>1. /\ Kinds /\ GameTypes /\ DeviceTypes /\ bip \in 0..LiveBalls /\ mb.target \in Nat
      /\ mb \in MbType
      /\ Counts
      /\ phase \in ModePhases => bip <= 1 \/ bip <= mb.target
  BY FieldsAre DEF Bounds, Counts, Kinds
<1>2. LiveBalls \in Nat /\ LiveBalls >= 1 /\ MultiBalls \in 2..LiveBalls
  BY NumbersAre
<1>r. running' => phase' \in ModePhases
  BY <1>1, RunningKept DEF Counts
<1>3. CASE StartBall
  <2>1. bip' = 1
    BY <1>3 DEF StartBall
  <2> QED BY <1>2, <1>r, <2>1 DEF Counts
<1>4. CASE FinishBall
  <2>1. bip' = 0
    BY <1>4 DEF FinishBall
  <2> QED BY <1>2, <1>r, <2>1 DEF Counts
<1>5. CASE BallDrain
  <2>1. PICK balls \in {0, 1} : HandlersOfTheRest(balls)
    BY <1>1, <1>5, DrainIs
  <2>2. /\ bip' = LeftInPlay(balls)
        /\ IF mb.counting /\ (~Game \/ bip' - balls < 1)
           THEN mb'.target = 0
           ELSE mb' = mb
    BY <1>1, <2>1, TheRest
  <2>3. phase' = phase /\ (phase \in ModePhases => Game)
    BY <1>5 DEF BallDrain, ModePhases, HoldPhases, Game
  <2>4. bip' \in 0..LiveBalls /\ bip' <= bip
    BY <1>1, <1>2, <2>2 DEF LeftInPlay
  <2>5. phase \in ModePhases => bip' <= 1 \/ bip' <= mb'.target
    <3>1. CASE mb.counting /\ (~Game \/ bip' - balls < 1)
      <4> DEFINE left == bip'
      <4>1. Game => left - balls < 1
        BY <3>1
      <4>2. left \in Int
        BY <2>4, <1>2
      <4> HIDE DEF left
      <4>3. Game => left <= 1
        BY <4>1, <4>2
      <4> QED BY <2>3, <4>3 DEF left
    <3>2. CASE ~(mb.counting /\ (~Game \/ bip' - balls < 1))
      BY <1>1, <1>2, <2>2, <2>4, <3>2
    <3> QED BY <3>1, <3>2
  <2> QED BY <1>r, <2>3, <2>4, <2>5 DEF Counts
<1>6. CASE StartMultiball
  <2>1. /\ bip' = bip + (IF MultiBalls > bip THEN MultiBalls - bip ELSE 0)
        /\ mb.target = 0 /\ Usable("mb")
    BY <1>6 DEF StartMultiball
  <2>2. phase \in ModePhases
    BY <1>1, <2>1, UsableWhen
  <2>3. bip' = MultiBalls
    BY <1>1, <1>2, <2>1, <2>2
  <2>4. mb'.target = MultiBalls
    <3> DEFINE m == Shooting(mb)
    <3>1. mb' = [m EXCEPT !.target = MultiBalls]
      BY <1>6 DEF StartMultiball
    <3>2. m \in MbType
      BY <1>1, ShootingIs DEF DeviceTypes
    <3> HIDE DEF m
    <3> QED BY <3>1, <3>2 DEF MbType
  <2> QED BY <1>2, <1>r, <2>3, <2>4 DEF Counts
<1>7. CASE AddABall
  <2>1. phase \in ModePhases
    BY <1>1, <1>7, UsableWhen DEF AddABall
  <2>2. /\ mb.target > 0 /\ mb'.target = mb.target + 1
        /\ \/ bip < LiveBalls /\ bip' = bip + 1
           \/ bip = LiveBalls /\ bip' = bip
    BY <1>1, <1>7, AddIs
  <2>3. bip' \in 0..LiveBalls /\ bip' <= mb'.target
    BY <1>1, <1>2, <2>1, <2>2
  <2> QED BY <1>r, <2>3 DEF Counts
<1>8. CASE /\ ~StartBall /\ ~FinishBall /\ ~BallDrain
           /\ ~StartMultiball /\ ~AddABall
  <2>1. bip' = bip
    BY <1>8, WhoBip
  <2>2. mb'.target = mb.target
    BY <1>8, TargetMoves
  <2>3. phase' \in ModePhases => phase \in ModePhases
    BY <1>8, Moves DEF ModePhases, HoldPhases
  <2> QED BY <1>1, <1>r, <2>1, <2>2, <2>3 DEF Counts
<1> QED BY <1>3, <1>4, <1>5, <1>6, <1>7, <1>8

\* A hold of the machine is on, and has balls, only while a ball is played; what it
\* released at the end of the ball is waited for before anything else.
LEMMA HoldsKept ==
  ASSUME Bounds, [BallsNext]_ballsVars
  PROVE  Holds'
<1>1. /\ Kinds /\ hold.held \in Nat /\ hold.released \in Nat
      /\ hold.released > 0 => phase = "hold"
      /\ InMode("hold") \/ (hold.on \/ hold.held > 0 => phase \in HoldPhases)
  BY FieldsAre, NumbersAre DEF Bounds, Holds
<1>2. hold'.released \in Nat /\ hold'.held \in Nat
  BY HoldKept, NumbersAre DEF HoldType
<1>3. conf' = conf
  BY WhoConf
<1> DEFINE mode == InMode("hold")
           on == hold.on
           held == hold.held > 0
<1>4. mode' = mode
  BY <1>3 DEF InMode
<1>5. /\ hold'.released > hold.released =>
           BallWillEnd \/ (StartBall /\ ~mode /\ hold'.released = hold.held)
      /\ on' \/ held' => on \/ held \/ StartBall \/ (StartMode /\ mode)
                          \/ (BallWillEnd /\ mode)
      /\ BallWillEnd => mode \/ (~on' /\ ~held')
  <2>1. BallWillEnd => ~StartMode /\ ~StartBall /\ ~HoldBall /\ ~ReleaseOne
    <3>1. BallWillEnd => phase = "will_end" /\ phase' = "hold"
      BY DEF BallWillEnd, GoTo
    <3>2. /\ StartMode => phase' = phase
          /\ HoldBall => phase' = phase
          /\ ReleaseOne => phase' = phase
          /\ StartBall => phase' = "serve"
      BY DEF StartMode, HoldBall, ReleaseOne, StartBall, GoTo
    <3> QED BY <3>1, <3>2
  <2>2. BallWillEnd /\ ~mode => ~on' /\ ~held'
    <3>1. SUFFICES ASSUME BallWillEnd, ~mode
                   PROVE  ~on' /\ ~held'
      OBVIOUS
    <3> DEFINE h == HoldReset(hold)
    <3>2. hold' = [h EXCEPT !.on = mode] /\ phase = "will_end"
      BY <3>1 DEF BallWillEnd
    <3>3. h \in HoldType /\ h.held = 0
      BY <1>1, <3>2, HoldResetIs, FieldsAre
    <3> HIDE DEF h
    <3>4. hold'.on = mode /\ hold'.held = 0
      BY <3>2, <3>3 DEF HoldType
    <3> QED BY <3>1, <3>4
  <2>3. HoldBall => on
    BY DEF HoldBall
  <2>4. ReleaseOne => held
    BY DEF ReleaseOne
  <2> QED BY <1>1, <1>2, <2>2, <2>3, <2>4, HoldMoves
<1>6. hold'.released > 0 => phase' = "hold"
  <2>1. CASE BallWillEnd
    BY <2>1 DEF BallWillEnd, GoTo
  <2>2. CASE StartBall /\ ~mode /\ hold'.released = hold.held
    <3>1. phase = "start"
      BY <2>2 DEF StartBall
    <3> QED BY <1>1, <2>2, <3>1 DEF HoldPhases
  <2>3. CASE hold'.released <= hold.released
    <3>1. hold'.released > 0 => hold.released > 0 /\ phase = "hold"
      BY <1>1, <1>2, <2>3
    <3>2. phase = "hold" => phase' = "hold" \/ HoldIsEmpty
      BY Moves
    <3>3. HoldIsEmpty => hold.released = 0
      BY DEF HoldIsEmpty
    <3> QED BY <3>1, <3>2, <3>3
  <2> QED BY <1>1, <1>2, <1>5, <2>1, <2>2, <2>3
<1>7. mode \/ (on' \/ held' => phase' \in HoldPhases)
  <2>1. StartBall => phase' \in HoldPhases
    BY DEF StartBall, GoTo, HoldPhases
  <2>2. phase \in HoldPhases => phase' \in HoldPhases \/ BallWillEnd
    BY Moves DEF HoldPhases
  <2> QED BY <1>1, <1>5, <2>1, <2>2
<1> QED BY <1>4, <1>6, <1>7 DEF Holds

\* All of the bounds together.
LEMMA BoundsKept ==
  ASSUME Bounds, [BallsNext]_ballsVars
  PROVE  Bounds'
<1>1. /\ conf \in Configs /\ phase \in Phases /\ endEvent \in BOOLEAN /\ running \in BOOLEAN
      /\ Kinds /\ GameTypes
  BY DEF Bounds, Kinds, GameTypes
<1>2. conf' \in Configs
  BY <1>1, WhoConf
<1>3. phase' \in Phases
  BY <1>1, Moves DEF Phases
<1>4. endEvent' \in BOOLEAN
  <2>1. CASE BallDrain
    <3>1. HandlersOfTheRest(0) \/ HandlersOfTheRest(1)
      BY <1>1, <2>1, DrainIs
    <3> QED BY <1>1, <3>1 DEF HandlersOfTheRest
  <2>2. CASE ~BallDrain
    BY <1>1, <2>2, WhoEndEvent DEF StartTurn, LetTurnStart, BallHasEnded,
           RequestEnd, TiltGame
  <2> QED BY <2>1, <2>2
<1>5. running' \in BOOLEAN
  <2>1. StopMode \/ StopModes => running' \in BOOLEAN
    BY <1>1 DEF StopMode, StopModes, RemoveDevices
  <2> QED BY <1>1, <2>1, WhoRunning DEF StartMode
<1>6. Fits' /\ on_playfield' \in Nat
  BY FitsKept
<1>7. hold' \in HoldType /\ lock' \in LockType
  BY HoldKept, LockKept
<1>8. on_playfield' \in 0..LiveBalls
  <2>1. hold'.held \in Nat /\ lock'.inside \in Nat
    BY <1>7, NumbersAre DEF HoldType, LockType
  <2> QED BY <1>6, <2>1, NumbersAre DEF Fits
<1>9. GameTypes'
  BY <1>2, <1>3, <1>4, <1>5, <1>8, ComingKept, CountsKept DEF GameTypes
<1>10. DeviceTypes'
  BY <1>7, SaveKept, MbKept, TiltKept DEF DeviceTypes
<1>11. Kinds'
  BY <1>9, <1>10, SaveKept DEF Kinds
<1> QED BY <1>6, <1>11, CountsKept, HoldsKept DEF Bounds

LEMMA InitBounds ==
  ASSUME BallsInit
  PROVE  Bounds
<1>1. LiveBalls \in Nat /\ SaveBalls \in Nat /\ BallsToLock \in Nat /\ LockCapacity \in Nat
  BY NumbersAre
<1>2. GameTypes
  <2>1. /\ conf \in Configs /\ phase = "turn" /\ endEvent = FALSE /\ bip = 0 /\ running = FALSE
        /\ on_playfield = 0 /\ coming = 0
    BY DEF BallsInit
  <2>2. phase \in Phases
    BY <2>1 DEF Phases
  <2>3. 0 \in 0..LiveBalls
    BY <1>1
  <2> QED BY <2>1, <2>2, <2>3, Zenon DEF GameTypes
<1>3. save \in SaveType /\ save.on = FALSE
  BY <1>1 DEF BallsInit, SaveType
<1>4. mb \in MbType
  BY <1>1 DEF BallsInit, MbType
<1>5. hold \in HoldType /\ hold.on = FALSE /\ hold.held = 0 /\ hold.released = 0
  BY <1>1 DEF BallsInit, HoldType
<1>6. lock \in LockType /\ lock.inside = 0
  BY <1>1 DEF BallsInit, LockType
<1>7. tilt \in TiltType
  BY DEF BallsInit, TiltType
<1>8. bip = 0 /\ on_playfield = 0 /\ running = FALSE
  BY DEF BallsInit
<1> QED BY <1>1, <1>2, <1>3, <1>4, <1>5, <1>6, <1>7, <1>8
        DEF Bounds, Kinds, DeviceTypes, Fits, Counts, Holds

\* The first of the three invariants.
LEMMA BoundsHold == BallsSpec => []Bounds
<1>1. BallsInit => Bounds
  BY InitBounds
<1>2. Bounds /\ [BallsNext]_ballsVars => Bounds'
  BY BoundsKept
<1> QED BY <1>1, <1>2, PTL DEF BallsSpec

\* No count of balls that are somewhere exceeds the balls there are, and none goes below
\* zero, whatever the devices are configured to (the setter of balls_in_play, BallHold and
\* MultiballLock): the game's number, what a hold or a lock has, and what is on the
\* playfield.  Late events and tilts at any time included; the target of a multiball is
\* only a natural number.
THEOREM BallsTypesHold == BallsSpec => []BallsTypeOK
<1>1. Bounds => BallsTypeOK
  BY TypesAre DEF Bounds, Kinds
<1> QED BY <1>1, BoundsHold, PTL

-----------------------------------------------------------------------------
(* The books of the balls. *)

Playing == Counting /\ ~endEvent
\* The ball of the player that is still to be served.
Served == IF phase = "serve" THEN 1 ELSE 0
LEMMA OwedIs ==
  Owed = on_playfield + coming + hold.held + save.scheduled + save.delayed + Served
  BY DEF Owed, Served
LEMMA NextOwedIs ==
  Owed' = on_playfield' + coming' + hold'.held + save'.scheduled + save'.delayed + Served'
  BY DEF Owed, Served

\* What the books of the balls need: no hold in a mode, whose balls nobody releases when
\* the ball ends while the mode is off; a save that waits for an event in a mode, which
\* ejects what is scheduled when it stops; and none of the orders that break the books.
Ordered ==
  /\ Irregular \cap {"late_events", "reenable", "end_delayed"} = {}
  /\ \A c \in Configs : "hold" \notin c.inMode /\ (c.eject = "event" => "save" \in c.inMode)

SavesInTime ==
  /\ save.on /\ InMode("save") => running
  /\ save.scheduled > 0 => conf.eject = "event" /\ running
  /\ (conf.eject = "delay" /\ save.on) \/ save.delayed > 0 => Playing /\ conf.eject = "delay"
Balanced ==
  /\ bip + save.early <= Owed
  /\ Playing => bip >= 1 /\ bip + save.early + mb.excess = Owed
\* A ball that is not counted would let the ball end while an eject delay runs.
Capped == conf.eject = "delay" => mb.excess = 0
Books ==
  /\ bip > 0 => Counting
  /\ SavesInTime
  /\ Balanced
  /\ Capped

LEMMA OrderedIs ==
  ASSUME Ordered, conf \in Configs
  PROVE  /\ Timely /\ ~InMode("hold") /\ (conf.eject = "event" => InMode("save"))
         /\ "reenable" \notin Irregular /\ "end_delayed" \notin Irregular
  BY DEF Ordered, Timely, InMode

\* A ball comes to be played only at its start, and its end is never withdrawn.
LEMMA PlayingFrom ==
  ASSUME [BallsNext]_ballsVars, Playing'
  PROVE  Playing \/ StartBall
<1>1. phase' \in {"serve", "playing"} /\ ~endEvent'
  BY DEF Playing, Counting
<1>2. Counting \/ StartBall
  BY <1>1, Moves DEF Counting
<1>3. ~endEvent \/ StartTurn \/ LetTurnStart
       \/ \E next \in {"start", "turn", "over"} : BallHasEnded(next)
  BY <1>1, WhoEndEvent DEF BallDrain, EarlySavedDrains, SavedByBallSave,
     SavedByMultiball, NobodySaves, HandlersOfTheRest, RequestEnd,
     TiltGame
<1>4. ~StartTurn /\ ~LetTurnStart
  BY <1>1 DEF StartTurn, LetTurnStart, GoTo
<1>5. ~\E next \in {"start", "turn", "over"} : BallHasEnded(next)
  BY <1>1 DEF BallHasEnded, GoTo
<1> QED BY <1>2, <1>3, <1>4, <1>5 DEF Playing

\* Only a ball that starts and one that is added touch the balls that are not counted.
LEMMA ExcessKept ==
  ASSUME Bounds, [BallsNext]_ballsVars, ~StartBall, ~AddABall
  PROVE  mb'.excess = mb.excess
<1>1. Kinds /\ mb \in MbType /\ GameTypes /\ DeviceTypes
  BY FieldsAre DEF Bounds, Kinds
<1>2. CASE mb' = mb
  BY <1>2
<1>3. CASE BallWillEnd \/ StartMode
  <2>1. mb' \in {mb, [mb EXCEPT !.on = FALSE], [mb EXCEPT !.on = TRUE]}
    BY <1>3 DEF BallWillEnd, StartMode
  <2> QED BY <1>1, <2>1 DEF MbType
<1>4. CASE StopModes \/ StopMode
  <2>1. mb' = mb \/ RemoveDevices
    BY <1>4 DEF StopModes, StopMode
  <2> QED BY <1>1, <2>1, RemoveIs
<1>5. CASE StartMultiball
  <2> DEFINE m == Shooting(mb)
  <2>1. mb' = [m EXCEPT !.target = MultiBalls]
    BY <1>5 DEF StartMultiball
  <2>2. m \in MbType /\ m.excess = mb.excess
    BY <1>1, ShootingIs
  <2> HIDE DEF m
  <2> QED BY <2>1, <2>2 DEF MbType
<1>6. CASE StopMultiball
  BY <1>1, <1>6, StoppedIs DEF StopMultiball
<1>7. CASE ShootAgainOver
  <2> DEFINE m == Stopped(mb)
  <2>1. mb' = [m EXCEPT !.timer = FALSE] /\ m \in MbType /\ m.excess = mb.excess
    BY <1>1, <1>7, StoppedIs DEF ShootAgainOver
  <2> HIDE DEF m
  <2> QED BY <2>1 DEF MbType
<1>8. CASE BallDrain
  <2>1. HandlersOfTheRest(0) \/ HandlersOfTheRest(1)
    BY <1>1, <1>8, DrainIs
  <2> QED BY <1>1, <2>1, TheRest
<1> QED BY WhoMb, <1>2, <1>3, <1>4, <1>5, <1>6, <1>7, <1>8

\* What a ball that starts makes of them.
LEMMA StartsWithNone ==
  ASSUME mb \in MbType, StartBall
  PROVE  mb'.excess = 0
<1> DEFINE m == [mb EXCEPT !.excess = 0]
<1>1. m \in MbType /\ m.excess = 0
  BY DEF MbType
<1>2. mb' \in {m, [m EXCEPT !.on = TRUE, !.shoot = FALSE]}
  BY DEF StartBall
<1> HIDE DEF m
<1> QED BY <1>1, <1>2 DEF MbType

LEMMA CappedKept ==
  ASSUME Bounds, Ordered, Books, [BallsNext]_ballsVars
  PROVE  Capped'
<1>1. /\ mb \in MbType /\ bip \in 0..LiveBalls /\ conf \in Configs /\ conf' = conf /\ Capped
  BY FieldsAre, WhoConf DEF Bounds, Books
<1>2. CASE StartBall
  BY <1>1, <1>2, StartsWithNone DEF Capped
<1>3. CASE AddABall
  <2>1. "end_delayed" \notin Irregular
    BY <1>1, OrderedIs
  <2> QED BY <1>1, <1>3, <2>1, AddIs DEF Capped
<1>4. CASE ~StartBall /\ ~AddABall
  BY <1>1, <1>4, ExcessKept DEF Capped
<1> QED BY <1>2, <1>3, <1>4

\* What becomes of the balls of the save.
LEMMA SaveMoves ==
  ASSUME Bounds, Ordered, [BallsNext]_ballsVars
  PROVE  \/ /\ save'.scheduled = save.scheduled /\ save'.delayed = save.delayed
            /\ save'.early = save.early /\ (save'.on => save.on)
            /\ \/ ~StopMode /\ ~StopModes
               \/ running' = running /\ coming' = coming
         \/ /\ StopMode \/ StopModes
            /\ ~running'
            /\ save'.early = save.early /\ save'.delayed = save.delayed
            /\ coming' + save'.scheduled = coming + save.scheduled
            /\ save'.on => save.on
            /\ InMode("save") => ~save'.on /\ save'.scheduled = 0
            /\ save'.scheduled <= save.scheduled
         \/ /\ EnableSave /\ Playing /\ (InMode("save") => running)
            /\ save.early = 0 /\ save'.early = 0
            /\ save'.scheduled = save.scheduled /\ save'.delayed = save.delayed
         \/ /\ EarlyBallSave /\ Playing /\ (InMode("save") => running)
            /\ save.on /\ save.early = 0 /\ save'.early = 1
            /\ coming' + save'.scheduled + save'.delayed = coming + save.scheduled + save.delayed + 1
            /\ save'.scheduled = save.scheduled \/ conf.eject = "event"
            /\ save'.delayed = save.delayed \/ conf.eject = "delay"
         \/ /\ DelayedEject
            /\ save'.early = save.early /\ save'.scheduled = 0 /\ save'.delayed = save.delayed
            /\ coming' = coming + save.scheduled /\ save'.on = save.on
         \/ /\ EjectDelayOver /\ save.delayed > 0
            /\ save'.early = save.early /\ save'.scheduled = save.scheduled
            /\ save'.delayed = save.delayed - 1
            /\ coming' = coming + 1 /\ save'.on = save.on
         \/ BallDrain
<1>1. /\ Kinds /\ save \in SaveType /\ (save.on => save.left > 0) /\ conf \in Configs
      /\ save.scheduled \in Nat /\ save.delayed \in Nat /\ coming \in Nat
      /\ save.early \in 0..1
  BY FieldsAre DEF Bounds, Kinds
<1>2. /\ Timely /\ "reenable" \notin Irregular
  BY <1>1, OrderedIs
<1>3. CASE StopModes \/ StopMode
  <2>1. CASE RemoveDevices
    BY <1>1, <1>3, <2>1, RemoveIs
  <2>2. CASE ~RemoveDevices
    <3>1. save' = save /\ coming' = coming /\ running' = running
      BY <1>3, <2>2 DEF StopModes, StopMode
    <3> QED BY <1>3, <3>1
  <2> QED BY <2>1, <2>2
<1>4. CASE save' = save /\ ~StopModes /\ ~StopMode
  BY <1>4
<1>5. CASE (BallWillEnd \/ SaveTimeout) /\ ~StopModes /\ ~StopMode
  <2>1. save' = save \/ save' = SaveOff(save)
    BY <1>5 DEF BallWillEnd, SaveTimeout
  <2> QED BY <1>1, <1>4, <1>5, <2>1, SaveOffIs
<1>6. CASE EnableSave
  <2>1. /\ Usable("save") /\ save.early = 0
        /\ save' = [save EXCEPT !.on = TRUE, !.left = SaveBalls, !.early = 0]
    BY <1>2, <1>6 DEF EnableSave
  <2>2. save'.early = 0 /\ save'.scheduled = save.scheduled /\ save'.delayed = save.delayed
    BY <1>1, <2>1 DEF SaveType
  <2>3. Playing /\ (InMode("save") => running)
    BY <1>2, <2>1, UsableIs DEF Playing
  <2> QED BY <1>6, <2>1, <2>2, <2>3
<1>7. CASE EarlyBallSave
  <2> DEFINE s == Saved(save)
  <2>1. /\ Usable("save") /\ save.on /\ save.early = 0
        /\ save' = [s EXCEPT !.early = 1] /\ coming' = coming + AtOnce
    BY <1>7 DEF EarlyBallSave
  <2>2. /\ s \in SaveType
        /\ s.delayed = IF conf.eject = "delay" THEN save.delayed + 1 ELSE save.delayed
        /\ s.scheduled = IF conf.eject = "event" THEN save.scheduled + 1 ELSE save.scheduled
    BY <1>1, <2>1, SavedIs
  <2> HIDE DEF s
  <2>3. save'.early = 1 /\ save'.scheduled = s.scheduled /\ save'.delayed = s.delayed
    BY <2>1, <2>2 DEF SaveType
  <2>4. conf.eject \in {"none", "delay", "event"}
    BY <1>1, BallsAssumption
  <2>5. /\ coming' + save'.scheduled + save'.delayed = coming + save.scheduled + save.delayed + 1
        /\ save'.scheduled = save.scheduled \/ conf.eject = "event"
        /\ save'.delayed = save.delayed \/ conf.eject = "delay"
    BY <1>1, <2>1, <2>2, <2>3, <2>4 DEF AtOnce
  <2>6. Playing /\ (InMode("save") => running)
    BY <1>2, <2>1, UsableIs DEF Playing
  <2> QED BY <1>7, <2>1, <2>3, <2>5, <2>6
<1>8. CASE DelayedEject
  <2>1. save' = [save EXCEPT !.scheduled = 0] /\ coming' = coming + save.scheduled
    BY <1>8 DEF DelayedEject
  <2>2. /\ save'.scheduled = 0 /\ save'.delayed = save.delayed /\ save'.early = save.early
        /\ save'.on = save.on
    BY <1>1, <2>1 DEF SaveType
  <2> QED BY <1>8, <2>1, <2>2
<1>9. CASE EjectDelayOver
  <2>1. save.delayed > 0 /\ save' = [save EXCEPT !.delayed = @ - 1] /\ coming' = coming + 1
    BY <1>9 DEF EjectDelayOver
  <2>2. /\ save'.scheduled = save.scheduled /\ save'.delayed = save.delayed - 1
        /\ save'.early = save.early /\ save'.on = save.on
    BY <1>1, <2>1 DEF SaveType
  <2> QED BY <1>9, <2>1, <2>2
<1> QED BY WhoSave, <1>3, <1>4, <1>5, <1>6, <1>7, <1>8, <1>9

\* A ball that is played is over by a request, by a tilt, or with its last drain.
LEMMA PlayingEnds ==
  ASSUME [BallsNext]_ballsVars, Playing, Ordered, Kinds
  PROVE  \/ Playing'
         \/ ~Delayed /\ save' = save
         \/ BallDrain /\ bip > 0 /\ bip' = 0
<1>1. phase \in {"serve", "playing"} /\ ~endEvent /\ "end_delayed" \notin Irregular
  BY FieldsAre, OrderedIs DEF Playing, Counting
<1>2. phase' \in {"serve", "playing"}
  BY <1>1, Moves DEF FinishBall
<1>3. CASE ~endEvent'
  BY <1>2, <1>3 DEF Playing, Counting
<1>4. CASE endEvent' /\ BallDrain
  <2>1. PICK balls \in {0, 1} : HandlersOfTheRest(balls)
    BY <1>4, DrainIs
  <2>2. endEvent' = (endEvent \/ (bip > 0 /\ bip' = 0))
    BY <2>1, TheRest DEF Kinds
  <2> QED BY <1>1, <1>4, <2>2, Zenon
<1>5. CASE endEvent' /\ ~BallDrain
  <2>1. RequestEnd \/ \E swinging \in BOOLEAN : TiltGame(swinging)
    <3>1. ~StartTurn /\ ~LetTurnStart
      BY <1>1 DEF StartTurn, LetTurnStart
    <3>2. ~\E next \in {"start", "turn", "over"} : BallHasEnded(next)
      BY <1>1 DEF BallHasEnded
    <3>3. endEvent' # endEvent
      BY <1>1, <1>5
    <3> QED BY <1>5, <3>1, <3>2, <3>3, WhoEndEvent
  <2>2. RequestEnd => ~Delayed /\ save' = save
    BY <1>1 DEF RequestEnd, devices
  <2>3. (\E swinging \in BOOLEAN : TiltGame(swinging)) => ~Delayed /\ save' = save
    BY <1>1 DEF TiltGame
  <2> QED BY <2>1, <2>2, <2>3
<1> QED BY <1>3, <1>4, <1>5

\* What a save still owes it pays while the ball is played and its mode runs.
LEMMA InTimeKept ==
  ASSUME Bounds, Ordered, Books, [BallsNext]_ballsVars
  PROVE  SavesInTime'
<1>1. /\ Kinds /\ conf \in Configs /\ conf' = conf
      /\ save.scheduled \in Nat /\ save.delayed \in Nat /\ save.early \in 0..1
      /\ on_playfield \in Nat /\ coming \in Nat /\ hold.held \in Nat /\ bip \in Nat
  BY FieldsAre, NumbersAre, WhoConf DEF Bounds
<1>2. conf.eject = "event" => InMode("save")
  BY <1>1, OrderedIs
<1> DEFINE moded == InMode("save")
           slow == conf.eject = "delay"
<1>3. moded' = moded /\ slow' = slow
  BY <1>1 DEF InMode
<1>4. /\ save.on /\ moded => running
      /\ save.scheduled > 0 => conf.eject = "event" /\ running
      /\ (slow /\ save.on) \/ save.delayed > 0 => Playing /\ slow
  BY DEF Books, SavesInTime
<1>5. save' \in SaveType /\ save'.scheduled \in Nat /\ save'.delayed \in Nat
  BY SaveKept, OrderedIs, <1>1 DEF SaveType
<1>6. ~StopMode /\ ~StopModes => (running => running')
  BY WhoRunning DEF StartMode
<1>7. CASE BallDrain
  <2>1. /\ UNCHANGED <<phase, running>>
        /\ save'.on => save.on
        /\ save'.scheduled = save.scheduled \/ (conf.eject = "event" /\ save.on)
        /\ save'.delayed = save.delayed \/ (slow /\ save.on)
    BY <1>1, <1>7, DrainIs
  <2>2. CASE Playing => Playing'
    <3>1. save'.scheduled > 0 => conf.eject = "event" /\ running'
      BY <1>2, <1>4, <2>1
    <3>2. (slow /\ save'.on) \/ save'.delayed > 0 => Playing' /\ slow
      BY <1>4, <2>1, <2>2
    <3>3. save'.on /\ moded => running'
      BY <1>4, <2>1
    <3> QED BY <1>1, <1>3, <3>1, <3>2, <3>3 DEF SavesInTime
  <2>3. CASE Playing /\ ~Playing'
    <3>1. \/ bip > 0 /\ bip' = 0
          \/ ~Delayed /\ save' = save
      BY <1>1, <2>3, PlayingEnds
    <3>2. ~(slow /\ save'.on) /\ ~(save'.delayed > 0)
      <4>1. CASE ~Delayed /\ save' = save
        <5>1. ~slow \/ (~save.on /\ ~(save.delayed > 0))
          BY <4>1 DEF Delayed
        <5> QED BY <1>4, <4>1, <5>1
      <4>2. CASE bip > 0 /\ bip' = 0
        <5>1. HandlersOfTheRest(1) /\ save' = save /\ ~SaveTakes
          <6>1. HandlersOfTheRest(0) => bip' = bip
            <7>1. HandlersOfTheRest(0) => bip' = LeftInPlay(0)
              BY <1>1, TheRest DEF Kinds
            <7> QED BY <1>1, <7>1 DEF LeftInPlay
          <6> QED BY <1>1, <1>7, <4>2, <6>1, DrainIs
        <5>2. ~save.on
          BY <2>3, <4>2, <5>1 DEF SaveTakes, Playing, Counting, Game
        <5>3. bip = 1
          <6>1. bip' = LeftInPlay(1)
            BY <1>1, <5>1, TheRest DEF Kinds
          <6> QED BY <1>1, <2>3, <4>2, <6>1 DEF LeftInPlay, Playing
        <5>4. slow => save.delayed = 0
          <6>1. /\ bip + save.early + mb.excess = Owed /\ on_playfield > 0 /\ Served \in Nat
                /\ save.early = 0 /\ (slow => mb.excess = 0)
            BY <1>1, <1>7, <2>3, <5>1, DrainIs
               DEF Books, Balanced, Capped, Served, BallDrain, NobodySaves, EarlyTakes
          <6> QED BY <1>1, <5>3, <6>1, OwedIs
        <5> QED BY <1>1, <1>4, <5>1, <5>2, <5>4
      <4> QED BY <3>1, <4>1, <4>2
    <3>3. save'.scheduled > 0 => conf.eject = "event" /\ running'
      BY <1>2, <1>4, <2>1
    <3>4. save'.on /\ moded => running'
      BY <1>4, <2>1
    <3> QED BY <1>1, <1>3, <3>2, <3>3, <3>4 DEF SavesInTime
  <2> QED BY <2>2, <2>3
<1>8. CASE ~BallDrain
  <2>1. /\ save'.on /\ moded => running'
        /\ save'.scheduled > 0 => conf.eject = "event" /\ running'
    <3>1. CASE /\ save'.scheduled = save.scheduled /\ (save'.on => save.on)
               /\ \/ ~StopMode /\ ~StopModes
                  \/ running' = running
      BY <1>4, <1>6, <3>1
    <3>2. CASE /\ StopMode \/ StopModes
               /\ moded => ~save'.on /\ save'.scheduled = 0
               /\ save'.scheduled <= save.scheduled
      BY <1>1, <1>2, <1>4, <1>5, <3>2
    <3>3. CASE /\ EnableSave \/ EarlyBallSave
               /\ moded => running
               /\ save'.scheduled = save.scheduled \/ conf.eject = "event"
      <4>1. running' = running
        BY <3>3 DEF EnableSave, EarlyBallSave
      <4> QED BY <1>2, <1>4, <3>3, <4>1
    <3>4. CASE /\ DelayedEject \/ EjectDelayOver
               /\ save'.scheduled = 0 \/ save'.scheduled = save.scheduled
               /\ save'.on = save.on
      <4>1. running' = running
        BY <3>4 DEF DelayedEject, EjectDelayOver
      <4> QED BY <1>4, <3>4, <4>1
    <3> QED BY <1>8, <3>1, <3>2, <3>3, <3>4, SaveMoves
  <2>2. (slow /\ save'.on) \/ save'.delayed > 0 => Playing' /\ slow
    <3>1. CASE (save'.on => save.on) /\ save'.delayed <= save.delayed
      <4>1. (slow /\ save'.on) \/ save'.delayed > 0 => (slow /\ save.on) \/ save.delayed > 0
        BY <1>1, <1>5, <3>1
      <4>2. Playing => Playing' \/ (~Delayed /\ save' = save)
        BY <1>1, <1>8, PlayingEnds
      <4>3. ~Delayed => ~slow \/ (~save.on /\ ~(save.delayed > 0))
        BY DEF Delayed
      <4> QED BY <1>4, <4>1, <4>2, <4>3
    <3>2. CASE /\ EnableSave \/ EarlyBallSave
               /\ Playing
               /\ save'.delayed = save.delayed \/ slow
      <4>1. phase' = phase /\ endEvent' = endEvent
        BY <3>2 DEF EnableSave, EarlyBallSave
      <4>2. Playing'
        BY <3>2, <4>1 DEF Playing, Counting
      <4> QED BY <1>4, <3>2, <4>2
    <3>3. CASE save'.delayed = save.delayed - 1 /\ save'.on = save.on
      BY <1>1, <3>1, <3>3
    <3>4. CASE save'.delayed = save.delayed /\ (save'.on => save.on)
      BY <1>1, <3>1, <3>4
    <3> QED BY <1>1, <1>8, <3>2, <3>3, <3>4, SaveMoves
  <2> QED BY <1>1, <1>3, <2>1, <2>2 DEF SavesInTime
<1> QED BY <1>7, <1>8

\* What is owed besides a ball that was given back early.
Net == Owed - save.early
LEMMA NetOf ==
  Net = (on_playfield + coming + hold.held + save.scheduled + save.delayed + Served)
          - save.early
  BY OwedIs, Zenon DEF Net
LEMMA NextNetOf ==
  Net' = (on_playfield' + coming' + hold'.held + save'.scheduled + save'.delayed + Served')
           - save'.early
  BY NextOwedIs, Zenon DEF Net

\* The numbers of which the books consist.
LEMMA PartsAre ==
  ASSUME Kinds
  PROVE  /\ on_playfield \in Nat /\ coming \in Nat /\ hold.held \in Nat /\ bip \in Nat
         /\ save.scheduled \in Nat /\ save.delayed \in Nat /\ save.early \in 0..1
         /\ Served \in 0..1 /\ mb.excess \in Nat
  BY FieldsAre, NumbersAre DEF Served

\* Which of the books a step is, if it is not a drain and does not start a ball.
Even == Net' = Net /\ bip' = bip /\ mb'.excess = mb.excess
Added == /\ Net' - bip' - mb'.excess = Net - bip - mb.excess
         /\ bip' >= bip /\ mb'.excess >= mb.excess
More == Net' >= Net /\ bip' <= bip /\ ~Playing'

\* The special steps, one by one.
LEMMA EvenSteps ==
  ASSUME Kinds, Kinds',
         \/ HoldBall \/ ReleaseOne \/ LockBall \/ Arrive \/ ServeBall
  PROVE  Even
<1>1. /\ on_playfield \in Nat /\ coming \in Nat /\ hold.held \in Nat /\ bip \in Nat
      /\ save.scheduled \in Nat /\ save.delayed \in Nat /\ save.early \in 0..1
      /\ hold \in HoldType /\ mb.excess \in Nat
  BY PartsAre, FieldsAre
<1>e. mb'.excess = mb.excess
  BY DEF HoldBall, ReleaseOne, LockBall, Arrive, ServeBall, devices
<1>2. CASE HoldBall
  <2>1. /\ on_playfield' = on_playfield - 1 /\ hold' = [hold EXCEPT !.held = @ + 1]
        /\ coming' = coming /\ save' = save /\ phase' = phase /\ bip' = bip
    BY <1>2 DEF HoldBall
  <2>2. hold'.held = hold.held + 1
    BY <1>1, <2>1 DEF HoldType
  <2> QED BY <1>e, <1>1, <2>1, <2>2, NetOf, NextNetOf DEF Even, Served
<1>3. CASE ReleaseOne
  <2>1. /\ on_playfield' = on_playfield /\ hold' = [hold EXCEPT !.held = @ - 1]
        /\ coming' = coming + 1 /\ save' = save /\ phase' = phase /\ bip' = bip
    BY <1>3 DEF ReleaseOne
  <2>2. hold'.held = hold.held - 1
    BY <1>1, <2>1 DEF HoldType
  <2> QED BY <1>e, <1>1, <2>1, <2>2, NetOf, NextNetOf DEF Even, Served
<1>4. CASE LockBall
  <2>1. /\ on_playfield' = on_playfield - 1 /\ hold' = hold
        /\ coming' = coming + 1 /\ save' = save /\ phase' = phase /\ bip' = bip
    BY <1>4 DEF LockBall
  <2> QED BY <1>e, <1>1, <2>1, NetOf, NextNetOf DEF Even, Served
<1>5. CASE Arrive
  <2>1. /\ on_playfield' = on_playfield + 1 /\ hold' = hold
        /\ coming' = coming - 1 /\ save' = save /\ phase' = phase /\ bip' = bip
    BY <1>5 DEF Arrive, devices
  <2> QED BY <1>e, <1>1, <2>1, NetOf, NextNetOf DEF Even, Served
<1>6. CASE ServeBall
  <2>1. /\ on_playfield' = on_playfield /\ hold' = hold
        /\ coming' = coming + 1 /\ save' = save /\ bip' = bip
        /\ phase = "serve" /\ phase' = "playing"
    BY <1>6 DEF ServeBall, devices, GoTo
  <2>2. Served = 1 /\ Served' = 0
    BY <2>1 DEF Served
  <2> QED BY <1>e, <1>1, <2>1, <2>2, NetOf, NextNetOf DEF Even
<1> QED BY <1>2, <1>3, <1>4, <1>5, <1>6

\* A ball more in play is a ball more that will come.
LEMMA AddedSteps ==
  ASSUME Bounds, Kinds', Ordered, [BallsNext]_ballsVars,
         \/ StartMultiball \/ AddABall \/ EnableSave \/ EarlyBallSave
         \/ DelayedEject \/ EjectDelayOver
  PROVE  Added
<1>1. /\ on_playfield \in Nat /\ coming \in Nat /\ hold.held \in Nat /\ bip \in Nat
      /\ save.scheduled \in Nat /\ save.delayed \in Nat /\ save.early \in 0..1
      /\ Served \in 0..1 /\ mb.excess \in Nat /\ mb \in MbType
  BY PartsAre, FieldsAre DEF Bounds
<1>n. MultiBalls \in Nat
  BY NumbersAre
<1>e. ~AddABall => mb'.excess = mb.excess
  <2>1. phase' = phase
    BY DEF StartMultiball, AddABall, EnableSave, EarlyBallSave, DelayedEject, EjectDelayOver
  <2>2. ~StartBall
    BY <2>1 DEF StartBall, GoTo
  <2> QED BY <2>2, ExcessKept
<1>a. AddABall => /\ coming' = coming + 1
                  /\ \/ bip' = bip + 1 /\ mb'.excess = mb.excess
                     \/ bip' = bip /\ mb'.excess = mb.excess + 1
  <2>1. bip \in 0..LiveBalls
    BY FieldsAre DEF Bounds
  <2> QED BY <1>1, <2>1, AddIs DEF AddABall
<1>2. CASE StartMultiball \/ AddABall
  <2>1. /\ on_playfield' = on_playfield /\ hold' = hold /\ save' = save /\ phase' = phase
    BY <1>2 DEF StartMultiball, AddABall
  <2>2. Served' = Served
    BY <2>1 DEF Served
  <2>3. CASE AddABall
    BY <1>1, <1>a, <2>1, <2>2, <2>3, NetOf, NextNetOf DEF Added
  <2>4. CASE StartMultiball /\ ~AddABall
    <3> DEFINE n == IF MultiBalls > bip THEN MultiBalls - bip ELSE 0
    <3>1. coming' = coming + n /\ bip' = bip + n
      BY <2>4 DEF StartMultiball
    <3>2. n \in Nat
      BY <1>1, <1>n
    <3> HIDE DEF n
    <3> QED BY <1>e, <1>1, <2>1, <2>2, <2>4, <3>1, <3>2, NetOf, NextNetOf DEF Added
  <2> QED BY <1>2, <2>3, <2>4
<1>3. CASE EnableSave /\ ~AddABall
  <2>1. /\ on_playfield' = on_playfield /\ hold' = hold /\ coming' = coming /\ phase' = phase
        /\ bip' = bip /\ save.early = 0 /\ save' = [save EXCEPT !.on = TRUE, !.left = SaveBalls, !.early = 0]
    BY <1>3, OrderedIs, FieldsAre DEF EnableSave, Bounds
  <2>2. save'.early = 0 /\ save'.scheduled = save.scheduled /\ save'.delayed = save.delayed
    BY <2>1, FieldsAre DEF SaveType, Bounds
  <2>3. Served' = Served
    BY <2>1 DEF Served
  <2> QED BY <1>e, <1>1, <1>3, <2>1, <2>2, <2>3, NetOf, NextNetOf DEF Added
<1>4. CASE EarlyBallSave /\ ~AddABall
  <2>1. /\ on_playfield' = on_playfield /\ hold' = hold /\ phase' = phase /\ bip' = bip
    BY <1>4 DEF EarlyBallSave
  <2>2. /\ save.early = 0 /\ save'.early = 1
        /\ coming' + save'.scheduled + save'.delayed = coming + save.scheduled + save.delayed + 1
    <3> DEFINE s == Saved(save)
    <3>1. /\ save.on /\ save.early = 0
          /\ save' = [s EXCEPT !.early = 1] /\ coming' = coming + AtOnce
      BY <1>4 DEF EarlyBallSave
    <3>2. /\ save \in SaveType /\ conf \in Configs /\ (save.on => save.left > 0)
      BY FieldsAre DEF Bounds, Kinds
    <3>3. /\ s \in SaveType
          /\ s.delayed = IF conf.eject = "delay" THEN save.delayed + 1 ELSE save.delayed
          /\ s.scheduled = IF conf.eject = "event" THEN save.scheduled + 1 ELSE save.scheduled
      BY <3>1, <3>2, SavedIs
    <3> HIDE DEF s
    <3>4. save'.early = 1 /\ save'.scheduled = s.scheduled /\ save'.delayed = s.delayed
      BY <3>1, <3>3 DEF SaveType
    <3>5. conf.eject \in {"none", "delay", "event"}
      BY <3>2, BallsAssumption
    <3> QED BY <1>1, <3>1, <3>3, <3>4, <3>5 DEF AtOnce
  <2>3. Served' = Served
    BY <2>1 DEF Served
  <2>4. coming' \in Nat /\ save'.scheduled \in Nat /\ save'.delayed \in Nat
    BY FieldsAre DEF Kinds, GameTypes, DeviceTypes, SaveType
  <2> QED BY <1>e, <1>1, <1>4, <2>1, <2>2, <2>3, <2>4, NetOf, NextNetOf DEF Added
<1>5. CASE (DelayedEject \/ EjectDelayOver) /\ ~AddABall
  <2>1. /\ on_playfield' = on_playfield /\ hold' = hold /\ phase' = phase /\ bip' = bip
    BY <1>5 DEF DelayedEject, EjectDelayOver
  <2>2. Served' = Served
    BY <2>1 DEF Served
  <2>3. CASE DelayedEject
    <3>1. save' = [save EXCEPT !.scheduled = 0] /\ coming' = coming + save.scheduled
      BY <2>3 DEF DelayedEject
    <3>2. save'.scheduled = 0 /\ save'.delayed = save.delayed /\ save'.early = save.early
      BY <3>1, FieldsAre DEF SaveType, Bounds
    <3> QED BY <1>e, <1>1, <1>5, <2>1, <2>2, <3>1, <3>2, NetOf, NextNetOf DEF Added
  <2>4. CASE EjectDelayOver
    <3>1. save' = [save EXCEPT !.delayed = @ - 1] /\ coming' = coming + 1
      BY <2>4 DEF EjectDelayOver
    <3>2. /\ save'.scheduled = save.scheduled /\ save'.delayed = save.delayed - 1
          /\ save'.early = save.early
      BY <3>1, FieldsAre DEF SaveType, Bounds
    <3> QED BY <1>e, <1>1, <1>5, <2>1, <2>2, <3>1, <3>2, NetOf, NextNetOf DEF Added
  <2> QED BY <1>5, <2>3, <2>4
<1> QED BY <1>2, <1>3, <1>4, <1>5

\* Between two balls, and at the end of one, balls are only given back.
LEMMA MoreSteps ==
  ASSUME Bounds, Kinds', Ordered, [BallsNext]_ballsVars,
         \/ StartTurn \/ FinishBall \/ BallWillEnd \/ EmptyLock
         \/ StopModes \/ StartGame
  PROVE  More
<1>1. /\ on_playfield \in Nat /\ coming \in Nat /\ hold.held \in Nat /\ bip \in Nat
      /\ save.scheduled \in Nat /\ save.delayed \in Nat /\ save.early \in 0..1
      /\ Served \in 0..1 /\ lock.inside \in Nat /\ Kinds /\ mb.excess \in Nat
  BY PartsAre, FieldsAre, NumbersAre DEF Bounds
<1>e. mb'.excess = mb.excess
  <2>1. (~StartBall /\ ~AddABall) \/ mb' = mb
    BY DEF StartTurn, FinishBall, BallWillEnd, EmptyLock, StopModes, StartGame,
           StartBall, AddABall, Usable, Counting, GoTo, devices
  <2> QED BY <2>1, ExcessKept
<1>2. ~Playing' /\ Served = 0 /\ Served' = 0
  <2>1. phase \notin {"serve"} /\ phase' \notin {"serve", "playing"}
    BY DEF StartTurn, FinishBall, BallWillEnd, EmptyLock, StopModes,
       StartGame, GoTo
  <2> QED BY <2>1 DEF Playing, Counting, Served
<1>3. CASE StartTurn \/ EmptyLock \/ StartGame
  <2>1. /\ on_playfield' = on_playfield /\ hold' = hold /\ save' = save /\ bip' = bip
        /\ coming' \in {coming, coming + 1, coming + lock.inside}
    BY <1>3, Zenon DEF StartTurn, EmptyLock, StartGame
  <2> QED BY <1>e, <1>1, <1>2, <2>1, NetOf, NextNetOf DEF More
<1>4. CASE FinishBall
  <2>1. /\ on_playfield' = on_playfield /\ hold' = hold /\ save' = save /\ bip' = 0
        /\ coming' = coming
    BY <1>4 DEF FinishBall, devices
  <2> QED BY <1>e, <1>1, <1>2, <2>1, NetOf, NextNetOf DEF More
<1>5. CASE BallWillEnd
  <2>1. on_playfield' = on_playfield /\ bip' = bip
    BY <1>5 DEF BallWillEnd
  <2>2. save' = save \/ save' = SaveOff(save)
    BY <1>5 DEF BallWillEnd
  <2>3. /\ save'.scheduled = save.scheduled /\ save'.delayed = save.delayed
        /\ save'.early = save.early
    BY <1>1, <2>2, SaveOffIs, FieldsAre
  <2>4. coming' + hold'.held >= coming + hold.held
    <3> DEFINE h == HoldReset(hold)
    <3>1. /\ phase = "will_end"
          /\ \/ hold' = [h EXCEPT !.on = InMode("hold")] /\ coming' = coming + hold.held
             \/ hold' = hold /\ coming' = coming
      BY <1>5 DEF BallWillEnd
    <3>2. hold.released = 0
      BY <1>1, <3>1, FieldsAre, NumbersAre DEF Bounds, Holds
    <3>3. h \in HoldType /\ h.held = 0
      BY <1>1, <3>2, HoldResetIs, FieldsAre
    <3> HIDE DEF h
    <3>4. CASE hold' = [h EXCEPT !.on = InMode("hold")] /\ coming' = coming + hold.held
      <4>1. hold'.held = 0
        BY <3>3, <3>4 DEF HoldType
      <4> QED BY <1>1, <3>4, <4>1
    <3>5. CASE hold' = hold /\ coming' = coming
      BY <1>1, <3>5
    <3> QED BY <3>1, <3>4, <3>5
  <2>5. coming' \in Nat /\ hold'.held \in Nat
    BY NumbersAre DEF Kinds, GameTypes, DeviceTypes, HoldType
  <2> QED BY <1>e, <1>1, <1>2, <2>1, <2>3, <2>4, <2>5, NetOf, NextNetOf DEF More
<1>6. CASE StopModes
  <2>1. on_playfield' = on_playfield /\ bip' = bip
    BY <1>6 DEF StopModes
  <2>2. \/ coming' = coming /\ save' = save /\ hold' = hold
        \/ RemoveDevices
    BY <1>6 DEF StopModes
  <2>3. /\ coming' + save'.scheduled = coming + save.scheduled /\ save'.delayed = save.delayed
        /\ save'.early = save.early /\ hold'.held = hold.held
    BY <1>1, <2>2, RemoveIs
  <2>4. coming' \in Nat /\ save'.scheduled \in Nat
    BY DEF Kinds, GameTypes, DeviceTypes, SaveType
  <2> QED BY <1>e, <1>1, <1>2, <2>1, <2>3, <2>4, NetOf, NextNetOf DEF More
<1> QED BY <1>3, <1>4, <1>5, <1>6

\* Every step but a drain and the start of a ball is one of the three.
LEMMA OwedMoves ==
  ASSUME Bounds, Ordered, [BallsNext]_ballsVars,
         ~BallDrain, ~StartBall
  PROVE  Even \/ Added \/ More
<1>1. /\ on_playfield \in Nat /\ coming \in Nat /\ hold.held \in Nat /\ bip \in Nat
      /\ save.scheduled \in Nat /\ save.delayed \in Nat /\ save.early \in 0..1
      /\ Served \in 0..1 /\ Kinds /\ conf \in Configs /\ mb.excess \in Nat
  BY PartsAre, FieldsAre DEF Bounds
<1>2. Timely
  BY <1>1, OrderedIs
<1>3. Kinds'
  BY <1>2, BoundsKept DEF Bounds
<1>4. CASE \/ HoldBall \/ ReleaseOne \/ LockBall \/ Arrive
           \/ ServeBall
  BY <1>1, <1>3, <1>4, EvenSteps
<1>5. CASE \/ StartMultiball \/ AddABall \/ EnableSave \/ EarlyBallSave
           \/ DelayedEject \/ EjectDelayOver
  BY <1>3, <1>5, AddedSteps
<1>6. CASE \/ StartTurn \/ FinishBall \/ BallWillEnd \/ EmptyLock
           \/ StopModes \/ StartGame
  BY <1>3, <1>6, MoreSteps
<1>e. ~AddABall => mb'.excess = mb.excess
  BY ExcessKept
<1>7. CASE StopMode /\ ~AddABall
  <2>1. on_playfield' = on_playfield /\ bip' = bip /\ phase' = phase /\ RemoveDevices
    BY <1>7 DEF StopMode
  <2>3. /\ coming' + save'.scheduled = coming + save.scheduled /\ save'.delayed = save.delayed
        /\ save'.early = save.early /\ hold'.held = hold.held
    BY <1>1, <2>1, RemoveIs
  <2>4. coming' \in Nat /\ save'.scheduled \in Nat
    BY <1>3 DEF Kinds, GameTypes, DeviceTypes, SaveType
  <2>5. Served' = Served
    BY <2>1 DEF Served
  <2> QED BY <1>e, <1>1, <1>7, <2>1, <2>3, <2>4, <2>5, NetOf, NextNetOf DEF Even
<1>8. CASE /\ ~HoldBall /\ ~ReleaseOne /\ ~LockBall /\ ~Arrive
           /\ ~ServeBall
           /\ ~StartMultiball /\ ~AddABall /\ ~EnableSave
           /\ ~EarlyBallSave /\ ~DelayedEject /\ ~EjectDelayOver
           /\ ~StartTurn /\ ~FinishBall /\ ~BallWillEnd /\ ~EmptyLock
           /\ ~StopModes /\ ~StartGame /\ ~StopMode
  <2>1. on_playfield' = on_playfield
    BY <1>8, WhoPlayfield
  <2>2. coming' = coming
    BY <1>8, WhoComing
  <2>3. bip' = bip
    BY <1>8, WhoBip
  <2>4. Served' = Served
    BY <1>8, Moves DEF Served
  <2>5. hold'.held = hold.held
    <3>1. hold' = hold \/ StartMode
      BY <1>8, WhoHold
    <3>2. StartMode => hold' \in {hold, [hold EXCEPT !.on = TRUE]}
      BY DEF StartMode
    <3> QED BY <1>1, <3>1, <3>2, FieldsAre DEF HoldType
  <2>6. /\ save'.scheduled = save.scheduled /\ save'.delayed = save.delayed
        /\ save'.early = save.early
    BY <1>8, SaveMoves
  <2> QED BY <1>e, <1>8, <2>1, <2>2, <2>3, <2>4, <2>5, <2>6, NetOf, NextNetOf DEF Even
<1> QED BY <1>4, <1>5, <1>6, <1>7, <1>8

\* The balance, in terms of Net.
LEMMA NetIs ==
  ASSUME Kinds
  PROVE  /\ Net \in Int /\ Owed \in Nat
         /\ Balanced <=> /\ bip <= Net
                         /\ Playing => bip >= 1 /\ bip + mb.excess = Net
<1>1. /\ on_playfield \in Nat /\ coming \in Nat /\ hold.held \in Nat /\ bip \in Nat
      /\ save.scheduled \in Nat /\ save.delayed \in Nat /\ save.early \in 0..1
      /\ Served \in 0..1 /\ mb.excess \in Nat
  BY PartsAre
<1>2. Owed \in Nat
  BY <1>1, OwedIs
<1>3. Net \in Int
  BY <1>1, <1>2 DEF Net
<1>4. bip + save.early <= Owed <=> bip <= Net
  BY <1>1, <1>2 DEF Net
<1>5. bip + save.early + mb.excess = Owed <=> bip + mb.excess = Net
  BY <1>1, <1>2 DEF Net
<1> QED BY <1>2, <1>3, <1>4, <1>5 DEF Balanced

\* The same of the next state.
LEMMA NextNetIs ==
  ASSUME Kinds'
  PROVE  /\ Net' \in Int /\ mb'.excess \in Nat
         /\ Balanced' <=> /\ bip' <= Net'
                          /\ Playing' => bip' >= 1 /\ bip' + mb'.excess = Net'
<1>1. /\ GameTypes' /\ save' \in SaveType /\ hold' \in HoldType /\ mb' \in MbType /\ LiveBalls \in Nat
  BY NumbersAre DEF Kinds, DeviceTypes
<1>2. /\ on_playfield' \in Nat /\ coming' \in Nat /\ bip' \in Nat /\ hold'.held \in Nat
      /\ save'.scheduled \in Nat /\ save'.delayed \in Nat /\ save'.early \in 0..1
      /\ Served' \in 0..1 /\ mb'.excess \in Nat
  BY <1>1 DEF GameTypes, SaveType, HoldType, MbType, Served
<1>3. Owed' \in Nat
  BY <1>2, NextOwedIs
<1>4. Net' \in Int
  BY <1>2, <1>3 DEF Net
<1>5. bip' + save'.early <= Owed' <=> bip' <= Net'
  BY <1>2, <1>3 DEF Net
<1>6. bip' + save'.early + mb'.excess = Owed' <=> bip' + mb'.excess = Net'
  BY <1>2, <1>3 DEF Net
<1> QED BY <1>2, <1>4, <1>5, <1>6 DEF Balanced

\* A drain takes a ball that was saved early, brings one back, or is counted.
LEMMA DrainNet ==
  ASSUME Kinds, Kinds', BallDrain
  PROVE  /\ mb'.excess = mb.excess
         /\ \/ Net' = Net /\ bip' = bip /\ HandlersOfTheRest(0)
            \/ /\ Net' = Net - 1 /\ save.early = 0 /\ HandlersOfTheRest(1)
               /\ ~SaveTakes /\ ~MbTakes /\ Owed >= 1 /\ Net = Owed
<1>1. /\ on_playfield \in Nat /\ coming \in Nat /\ hold.held \in Nat /\ bip \in Nat
      /\ save.scheduled \in Nat /\ save.delayed \in Nat /\ save.early \in 0..1
      /\ Served \in 0..1 /\ GameTypes /\ DeviceTypes /\ mb.excess \in Nat
  BY PartsAre DEF Kinds
<1>2. /\ coming' \in Nat /\ save'.scheduled \in Nat /\ save'.delayed \in Nat
  BY DEF Kinds, GameTypes, DeviceTypes, SaveType
<1>3. /\ on_playfield > 0 /\ on_playfield' = on_playfield - 1 /\ phase' = phase
      /\ \/ /\ HandlersOfTheRest(0)
            /\ save.early = 1 /\ save'.early = 0 /\ coming' = coming
            /\ save'.scheduled = save.scheduled /\ save'.delayed = save.delayed
         \/ /\ HandlersOfTheRest(0)
            /\ save.early = 0 /\ save'.early = 0
            /\ coming' + save'.scheduled + save'.delayed
                 = coming + save.scheduled + save.delayed + 1
         \/ /\ HandlersOfTheRest(1)
            /\ save.early = 0 /\ save' = save /\ coming' = coming
            /\ ~SaveTakes /\ ~MbTakes
  BY DrainIs
<1>4. Served' = Served
  BY <1>3 DEF Served
<1>5. hold'.held = hold.held /\ mb'.excess = mb.excess
  BY <1>1, <1>3, TheRest
<1>6. HandlersOfTheRest(0) => bip' = bip
  <2>1. HandlersOfTheRest(0) => bip' = LeftInPlay(0)
    BY <1>1, TheRest
  <2> QED BY <1>1, <2>1 DEF LeftInPlay
<1>7. CASE /\ HandlersOfTheRest(0)
           /\ save.early = 1 /\ save'.early = 0 /\ coming' = coming
           /\ save'.scheduled = save.scheduled /\ save'.delayed = save.delayed
  <2>1. Net' = Net
    BY <1>1, <1>3, <1>4, <1>5, <1>7, NetOf, NextNetOf
  <2> QED BY <1>5, <1>6, <1>7, <2>1
<1>8. CASE /\ HandlersOfTheRest(0)
           /\ save.early = 0 /\ save'.early = 0
           /\ coming' + save'.scheduled + save'.delayed
                = coming + save.scheduled + save.delayed + 1
  <2>1. on_playfield' = on_playfield - 1
    BY <1>3
  <2>2. Owed' = Owed
    BY <1>1, <1>2, <1>4, <1>5, <1>8, <2>1, OwedIs, NextOwedIs
  <2>3. Net' = Net
    BY <1>5, <1>8, <2>2 DEF Net
  <2> QED BY <1>5, <1>6, <1>8, <2>3
<1>9. CASE /\ HandlersOfTheRest(1)
           /\ save.early = 0 /\ save' = save /\ coming' = coming
           /\ ~SaveTakes /\ ~MbTakes
  <2>1. Net' = Net - 1
    BY <1>1, <1>3, <1>4, <1>5, <1>9, NetOf, NextNetOf
  <2>2. Owed >= 1 /\ Net = Owed
    BY <1>1, <1>3, <1>9, OwedIs DEF Net
  <2> QED BY <1>5, <1>9, <2>1, <2>2
<1> QED BY <1>3, <1>7, <1>8, <1>9

\* A ball starts with empty books.
LEMMA StartsEmpty ==
  ASSUME Bounds, Ordered, Books, StartBall
  PROVE  /\ phase = "start" /\ phase' = "serve" /\ bip' = 1
         /\ on_playfield = 0 /\ coming = 0 /\ hold.held = 0 /\ hold.released = 0
         /\ save.scheduled = 0 /\ save.delayed = 0 /\ save.early = 0 /\ Owed = 0
         /\ UNCHANGED <<on_playfield, save, endEvent, running>>
<1>1. /\ on_playfield \in Nat /\ coming \in Nat /\ hold.held \in Nat /\ bip \in Nat
      /\ save.scheduled \in Nat /\ save.delayed \in Nat /\ save.early \in 0..1
      /\ hold.released \in Nat /\ conf \in Configs /\ Kinds
  BY PartsAre, FieldsAre, NumbersAre DEF Bounds
<1>2. /\ phase = "start" /\ phase' = "serve" /\ bip' = 1 /\ on_playfield + coming = 0
      /\ UNCHANGED <<on_playfield, save, endEvent, running>>
  BY DEF StartBall, GoTo
<1>3. on_playfield = 0 /\ coming = 0
  BY <1>1, <1>2
<1>4. hold.held = 0 /\ hold.released = 0
  <2>1. ~(hold.held > 0)
    BY <1>1, <1>2, OrderedIs DEF Bounds, Holds, HoldPhases
  <2>2. ~(hold.released > 0)
    BY <1>2 DEF Bounds, Holds
  <2> QED BY <1>1, <2>1, <2>2
<1>5. ~running /\ ~Playing
  BY <1>2 DEF Bounds, Counts, ModePhases, HoldPhases, Playing, Counting
<1>6. save.scheduled = 0 /\ save.delayed = 0
  <2>1. ~(save.scheduled > 0) /\ ~(save.delayed > 0)
    BY <1>5 DEF Books, SavesInTime
  <2> QED BY <1>1, <2>1
<1>7. Owed = 0
  BY <1>2, <1>3, <1>4, <1>6, OwedIs DEF Served
<1>8. save.early = 0
  BY <1>1, <1>7 DEF Books, Balanced
<1> QED BY <1>2, <1>3, <1>4, <1>6, <1>7, <1>8

\* The balance itself: drains take from both sides, and the last one ends the ball.
LEMMA BalancedKept ==
  ASSUME Bounds, Ordered, Books, [BallsNext]_ballsVars
  PROVE  Balanced'
<1>1. /\ Kinds /\ conf \in Configs /\ bip \in Nat /\ mb.excess \in Nat /\ GameTypes /\ DeviceTypes
  BY PartsAre, FieldsAre DEF Bounds, Kinds
<1>2. Kinds'
  BY <1>1, OrderedIs, BoundsKept DEF Bounds
<1>3. /\ Net \in Int /\ bip <= Net
      /\ Playing => bip >= 1 /\ bip + mb.excess = Net
  BY <1>1, NetIs DEF Books
<1>4. /\ Net' \in Int /\ bip' \in Nat /\ mb'.excess \in Nat
      /\ (/\ bip' <= Net'
          /\ Playing' => bip' >= 1 /\ bip' + mb'.excess = Net') => Balanced'
  <2>1. /\ Net' \in Int /\ mb'.excess \in Nat
        /\ Balanced' <=> /\ bip' <= Net'
                         /\ Playing' => bip' >= 1 /\ bip' + mb'.excess = Net'
    BY <1>2, NextNetIs
  <2>2. bip' \in Nat
    BY <1>2, NumbersAre DEF Kinds, GameTypes
  <2> QED BY <2>1, <2>2
<1>5. CASE StartBall
  <2>1. /\ phase' = "serve" /\ bip' = 1 /\ on_playfield' = 0 /\ save' = save
        /\ save.early = 0 /\ save.scheduled = 0 /\ save.delayed = 0
        /\ coming = 0 /\ hold.held = 0 /\ mb'.excess = 0
    BY <1>5, StartsEmpty, StartsWithNone, FieldsAre DEF Bounds
  <2>2. coming' = 0 /\ hold'.held = 0
    <3> DEFINE h == HoldReset(hold)
    <3>1. /\ coming' \in {coming, coming + hold.held}
          /\ hold' \in {hold, [h EXCEPT !.on = TRUE]}
      BY <1>5 DEF StartBall
    <3>2. h \in HoldType /\ h.held = 0
      BY <1>1, <2>1, HoldResetIs, FieldsAre
    <3> HIDE DEF h
    <3> QED BY <2>1, <3>1, <3>2 DEF HoldType
  <2>3. Served' = 1
    BY <2>1 DEF Served
  <2>4. Net' = 1
    BY <2>1, <2>2, <2>3, NextNetOf
  <2> QED BY <1>4, <2>1, <2>4
<1>6. CASE BallDrain
  <2>1. CASE Net' = Net /\ bip' = bip /\ mb'.excess = mb.excess /\ HandlersOfTheRest(0)
    <3>1. Playing' => Playing
      BY <1>6, PlayingFrom DEF BallDrain, StartBall, GoTo
    <3> QED BY <1>3, <1>4, <2>1, <3>1
  <2>2. CASE /\ Net' = Net - 1 /\ save.early = 0 /\ HandlersOfTheRest(1)
             /\ Owed >= 1 /\ Net = Owed /\ mb'.excess = mb.excess
    <3>1. /\ bip' = LeftInPlay(1) /\ endEvent' = (endEvent \/ (bip > 0 /\ bip' = 0))
          /\ phase' = phase
      BY <1>1, <1>6, <2>2, TheRest DEF BallDrain
    <3>2. bip > 0 => Counting
      BY DEF Books
    <3>3. bip' = IF bip > 0 THEN bip - 1 ELSE 0
      BY <1>1, <3>1, <3>2 DEF LeftInPlay
    <3>4. bip' <= Net'
      BY <1>1, <1>3, <2>2, <3>3
    <3>5. Playing' => Playing /\ ~(bip > 0 /\ bip' = 0)
      <4> DEFINE last == bip > 0 /\ bip' = 0
      <4>1. endEvent' = (endEvent \/ last)
        BY <3>1
      <4> HIDE DEF last
      <4>2. Playing' => Playing /\ ~last
        BY <3>1, <4>1, Zenon DEF Playing, Counting
      <4> QED BY <4>2 DEF last
    <3>6. Playing' => bip' >= 1 /\ bip' + mb'.excess = Net'
      <4>1. SUFFICES ASSUME Playing'
                     PROVE  bip' >= 1 /\ bip' + mb'.excess = Net'
        OBVIOUS
      <4>2. bip >= 1 /\ bip + mb.excess = Net /\ ~(bip > 0 /\ bip' = 0)
        BY <1>3, <3>5, <4>1
      <4>3. bip' = bip - 1
        BY <1>1, <3>3, <4>2
      <4> QED BY <1>1, <2>2, <4>2, <4>3
    <3> QED BY <1>4, <3>4, <3>6
  <2> QED BY <1>1, <1>2, <1>6, <2>1, <2>2, DrainNet
<1>7. CASE ~StartBall /\ ~BallDrain
  <2>1. Even \/ Added \/ More
    BY <1>7, OwedMoves
  <2>2. Playing' => Playing
    BY <1>7, PlayingFrom
  <2>3. CASE More
    BY <1>1, <1>3, <1>4, <2>3 DEF More
  <2>4. CASE Even \/ Added
    <3> DEFINE net == Net'
               balls == bip'
               over == mb'.excess
    <3>1. balls >= bip /\ over >= mb.excess /\ net - balls - over = Net - bip - mb.excess
      BY <1>1, <1>3, <2>4 DEF Even, Added
    <3>2. net \in Int /\ balls \in Nat /\ over \in Nat
      BY <1>4
    <3> HIDE DEF net, balls, over
    <3>3. balls <= net /\ (bip >= 1 /\ bip + mb.excess = Net => balls >= 1 /\ balls + over = net)
      BY <1>1, <1>3, <3>1, <3>2
    <3> QED BY <1>3, <1>4, <2>2, <3>3 DEF net, balls, over
  <2> QED BY <2>1, <2>3, <2>4
<1> QED BY <1>5, <1>6, <1>7

\* The count is cleared when the drains are no longer counted.
LEMMA CountingKept ==
  ASSUME Bounds, Ordered, Books, [BallsNext]_ballsVars
  PROVE  bip' > 0 => (Counting)'
<1>1. /\ Kinds /\ GameTypes /\ DeviceTypes /\ bip \in Nat /\ conf \in Configs
      /\ bip > 0 => Counting
  BY PartsAre, FieldsAre DEF Bounds, Kinds, Books
<1>2. Timely
  BY <1>1, OrderedIs
<1>3. CASE StartBall
  BY <1>3 DEF StartBall, GoTo, Counting
<1>4. CASE FinishBall
  BY <1>4 DEF FinishBall
<1>5. CASE BallDrain
  <2>1. PICK balls \in {0, 1} : HandlersOfTheRest(balls)
    BY <1>1, <1>5, DrainIs
  <2>2. bip' = LeftInPlay(balls) /\ phase' = phase
    BY <1>1, <1>5, <2>1, TheRest DEF BallDrain
  <2>3. bip' > 0 => bip > 0
    BY <1>1, <2>2 DEF LeftInPlay
  <2> QED BY <1>1, <2>2, <2>3 DEF Counting
<1>6. CASE StartMultiball \/ AddABall
  <2>1. phase' = phase /\ Usable("mb")
    BY <1>6 DEF StartMultiball, AddABall
  <2> QED BY <1>2, <2>1, UsableIs DEF Counting
<1>7. CASE /\ ~StartBall /\ ~FinishBall /\ ~BallDrain
           /\ ~StartMultiball /\ ~AddABall
  <2>1. bip' = bip
    BY <1>7, WhoBip
  <2>2. Counting => (Counting)'
    BY <1>7, Moves DEF Counting
  <2> QED BY <1>1, <2>1, <2>2
<1> QED BY <1>3, <1>4, <1>5, <1>6, <1>7

LEMMA BooksKept ==
  ASSUME Ordered, Bounds, Books, [BallsNext]_ballsVars
  PROVE  Bounds' /\ Books'
<1> QED BY BoundsKept, CountingKept, InTimeKept, BalancedKept, CappedKept DEF Books

LEMMA InitBooks ==
  ASSUME BallsInit
  PROVE  Books
<1>1. /\ phase = "turn" /\ running = FALSE /\ bip = 0 /\ on_playfield = 0 /\ coming = 0
      /\ save.on = FALSE /\ save.early = 0 /\ save.scheduled = 0 /\ save.delayed = 0
      /\ hold.held = 0 /\ mb.excess = 0
  BY DEF BallsInit
<1>2. ~Playing /\ Served = 0
  BY <1>1 DEF Playing, Counting, Served
<1> QED BY <1>1, <1>2, OwedIs DEF Books, SavesInTime, Balanced, Capped

\* The second of the three invariants.
LEMMA BooksHold ==
  ASSUME Ordered
  PROVE  BallsSpec => [](Bounds /\ Books)
<1>1. BallsInit => Bounds /\ Books
  BY InitBounds, InitBooks
<1>2. Bounds /\ Books /\ [BallsNext]_ballsVars => (Bounds /\ Books)'
  BY BooksKept
<1> QED BY <1>1, <1>2, PTL DEF BallsSpec

\* While a ball is played, balls_in_play, the early saved balls and those that a multiball
\* added although all were in play are the balls on the playfield, coming to it, held or
\* still to be ejected by a save (Game.ball_drained and the handlers of ball_drain before
\* it, Multiball.add_a_ball, the setter of balls_in_play): the ball does not end before
\* the last of those that are counted has drained.
THEOREM InPlayHolds ==
  ASSUME Ordered
  PROVE  BallsSpec => []InPlayMatches
<1>1. Bounds /\ Books => InPlayMatches
  BY DEF Books, Balanced, InPlayMatches, Playing
<1> QED BY <1>1, BooksHold, PTL

-----------------------------------------------------------------------------
(* A clean start. *)

\* What a clean start needs besides: the multiball is a mode's, for reset() of a machine's
\* leaves handlers and target behind, and no tilt comes between two balls.
Tidy == /\ Ordered
        /\ Irregular \subseteq {"tilt_early", "tilt_inside"}
        /\ \A c \in Configs : "mb" \in c.inMode

Shots == /\ mb.saving => mb.shoot
         /\ mb.shoot => running
         /\ mb.target > 0 => mb.saving \/ mb.counting
         /\ mb.target > 0 => Net >= 1
Waits == lock.remaining > 0 => phase \in {"turn_wait", "lock_wait"}
Tilts == tilt.tilted =>
           \/ phase \in {"start", "serve", "playing"} /\ endEvent /\ tilt.atEnd
           \/ phase = "will_end" /\ tilt.atEnd
           \/ phase \in {"hold", "lock", "lock_wait", "modes", "tilt"} /\ tilt.called
           \/ phase = "tilt_wait" /\ tilt.queue
Clean == Shots /\ Waits /\ Tilts

LEMMA TidyIs ==
  ASSUME Tidy, conf \in Configs
  PROVE  /\ Ordered /\ Timely /\ InMode("mb") /\ "tilt_between" \notin Irregular
  BY OrderedIs DEF Tidy, InMode

\* What becomes of shoot again, its handlers and the target.
LEMMA MbMoves ==
  ASSUME Bounds, Tidy, [BallsNext]_ballsVars
  PROVE  \/ /\ mb'.shoot = mb.shoot /\ mb'.saving = mb.saving /\ mb'.counting = mb.counting
            /\ mb'.target = mb.target
            /\ \/ ~StopMode /\ ~StopModes
               \/ running' = running
         \/ /\ ~mb'.shoot /\ (mb'.saving => mb.saving /\ ~mb.shoot) /\ mb'.target = mb.target
            /\ mb'.saving \/ mb'.counting \/ ~(mb.saving \/ mb.counting)
         \/ /\ StartMultiball \/ AddABall
            /\ mb'.shoot /\ Playing /\ running
            /\ \/ mb'.saving
               \/ mb'.saving = mb.saving /\ mb'.counting = mb.counting /\ mb.target > 0
         \/ BallDrain
<1>1. /\ Kinds /\ mb \in MbType /\ conf \in Configs /\ bip \in 0..LiveBalls
  BY FieldsAre DEF Bounds
<1>2. /\ Timely /\ InMode("mb")
  BY <1>1, TidyIs
<1>3. CASE mb' = mb /\ ~StopMode /\ ~StopModes
  BY <1>3
<1>4. CASE (StartBall \/ BallWillEnd) /\ ~StopMode /\ ~StopModes
  <2>1. mb' \in {mb, [mb EXCEPT !.excess = 0]}
    BY <1>2, <1>4 DEF StartBall, BallWillEnd
  <2>2. /\ mb'.shoot = mb.shoot /\ mb'.saving = mb.saving /\ mb'.counting = mb.counting
        /\ mb'.target = mb.target
    BY <1>1, <2>1 DEF MbType
  <2> QED BY <1>4, <2>2
<1>5. CASE StartMode
  <2>1. mb' = [mb EXCEPT !.on = TRUE]
    BY <1>2, <1>5 DEF StartMode
  <2>2. /\ mb'.shoot = mb.shoot /\ mb'.saving = mb.saving /\ mb'.counting = mb.counting
        /\ mb'.target = mb.target
    BY <1>1, <2>1 DEF MbType
  <2>3. ~StopMode /\ ~StopModes
    BY <1>5 DEF StartMode, StopMode, StopModes, Counting
  <2> QED BY <2>2, <2>3
<1>6. CASE StopModes \/ StopMode
  <2>1. CASE RemoveDevices
    BY <1>1, <1>2, <2>1, RemoveIs
  <2>2. CASE ~RemoveDevices
    <3>1. mb' = mb /\ running' = running
      BY <1>6, <2>2 DEF StopModes, StopMode
    <3> QED BY <3>1
  <2> QED BY <2>1, <2>2
<1>7. CASE StartMultiball
  <2> DEFINE m == Shooting(mb)
  <2>1. mb' = [m EXCEPT !.target = MultiBalls] /\ Usable("mb")
    BY <1>7 DEF StartMultiball
  <2>2. m \in MbType /\ m.shoot /\ m.saving
    BY <1>1, ShootingIs
  <2> HIDE DEF m
  <2>3. mb'.shoot = m.shoot /\ mb'.saving = m.saving
    BY <2>1, <2>2 DEF MbType
  <2>4. Playing /\ running
    BY <1>2, <2>1, UsableIs DEF Playing
  <2> QED BY <1>7, <2>2, <2>3, <2>4
<1>8. CASE AddABall
  <2>1. Usable("mb")
    BY <1>8 DEF AddABall
  <2>2. Playing /\ running
    BY <1>2, <2>1, UsableIs DEF Playing
  <2> QED BY <1>1, <1>8, <2>2, AddIs
<1>9. CASE StopMultiball
  BY <1>1, <1>9, StoppedIs DEF StopMultiball
<1>10. CASE ShootAgainOver
  <2> DEFINE m == Stopped(mb)
  <2>1. mb' = [m EXCEPT !.timer = FALSE] /\ m \in MbType /\ m.target = mb.target
        /\ ~m.shoot /\ ~m.saving /\ m.counting
    BY <1>1, <1>10, StoppedIs DEF ShootAgainOver
  <2> HIDE DEF m
  <2>2. /\ mb'.shoot = m.shoot /\ mb'.saving = m.saving /\ mb'.counting = m.counting
        /\ mb'.target = m.target
    BY <2>1 DEF MbType
  <2> QED BY <2>1, <2>2
<1> QED BY WhoMb, <1>3, <1>4, <1>5, <1>6, <1>7, <1>8, <1>9, <1>10

\* Shoot again does not outlive its mode, and a multiball that counts has a ball to wait for.
LEMMA ShotsKept ==
  ASSUME Bounds, Tidy, Books, Clean, [BallsNext]_ballsVars
  PROVE  Shots'
<1>1. /\ Kinds /\ GameTypes /\ DeviceTypes /\ mb \in MbType /\ conf \in Configs
      /\ mb.target \in Nat /\ bip \in Nat /\ Net \in Int /\ bip <= Net
  BY PartsAre, FieldsAre, NetIs, NumbersAre DEF Bounds, Kinds, Books
<1>2. /\ Timely /\ Ordered
  BY <1>1, TidyIs
<1>3. Kinds' /\ mb' \in MbType /\ mb'.target \in Nat /\ Net' \in Int
  <2>1. Kinds' /\ mb' \in MbType
    BY <1>2, BoundsKept, MbKept DEF Bounds
  <2>2. mb'.target \in Nat
    BY <2>1, NumbersAre DEF MbType
  <2> QED BY <2>1, <2>2, NextNetIs
<1>4. /\ mb.saving => mb.shoot
      /\ mb.shoot => running
      /\ mb.target > 0 => mb.saving \/ mb.counting
      /\ mb.target > 0 => Net >= 1
  BY DEF Clean, Shots
<1>5. ~StopMode /\ ~StopModes => (running => running')
  BY WhoRunning DEF StartMode
<1>6. CASE BallDrain
  <2>1. running' = running
    BY <1>6 DEF BallDrain
  <2>2. PICK balls \in {0, 1} : HandlersOfTheRest(balls)
    BY <1>1, <1>6, DrainIs
  <2>3. /\ mb'.shoot = mb.shoot /\ mb'.saving = mb.saving
        /\ \/ mb'.target = 0
           \/ mb' = mb
    BY <1>1, <2>2, TheRest
  <2>4. mb'.target > 0 => Net' >= 1
    <3>1. CASE Net' = Net
      BY <1>4, <2>3, <3>1
    <3>2. CASE /\ Net' = Net - 1 /\ HandlersOfTheRest(1) /\ ~MbTakes /\ Net >= 1
      <4>1. SUFFICES ASSUME mb'.target > 0, ~(Net >= 2)
                     PROVE  FALSE
        BY <1>1, <3>2
      <4>2. mb' = mb /\ mb.target > 0
        BY <2>3, <4>1
      <4>3. bip <= 1
        BY <1>1, <3>2, <4>1
      <4>4. ~(mb.counting /\ (~Game \/ bip' - 1 < 1)) /\ bip' = LeftInPlay(1)
        BY <1>1, <1>3, <3>2, <4>1, TheRest
      <4>5. bip' \in 0..1 /\ bip' - 1 < 1
        BY <1>1, <4>3, <4>4 DEF LeftInPlay
      <4>6. ~mb.counting
        BY <4>4, <4>5
      <4>7. mb.saving /\ running /\ Game
        BY <1>4, <4>2, <4>6 DEF Bounds, Counts, ModePhases, HoldPhases, Game
      <4>8. ~(mb.target - bip + 1 > 0)
        BY <3>2, <4>7 DEF MbTakes
      <4> QED BY <1>1, <4>2, <4>3, <4>8
    <3>3. \/ Net' = Net
          \/ Net' = Net - 1 /\ HandlersOfTheRest(1) /\ ~MbTakes /\ Net >= 1
      BY <1>1, <1>3, <1>6, DrainNet
    <3> QED BY <3>1, <3>2, <3>3
  <2> QED BY <1>1, <1>4, <2>1, <2>3, <2>4 DEF Shots
<1>7. CASE StartBall
  <2> DEFINE m == [mb EXCEPT !.excess = 0]
  <2>1. Owed = 0 /\ save.early = 0 /\ running' = running /\ mb' = m
    BY <1>1, <1>2, <1>7, StartsEmpty, TidyIs DEF StartBall
  <2>2. ~(mb.target > 0)
    BY <1>1, <1>4, <2>1 DEF Net
  <2>3. /\ mb'.shoot = mb.shoot /\ mb'.saving = mb.saving /\ mb'.counting = mb.counting
        /\ mb'.target = mb.target
    BY <1>1, <2>1 DEF MbType
  <2> QED BY <1>4, <2>1, <2>2, <2>3 DEF Shots
<1>8. CASE ~BallDrain /\ ~StartBall
  <2>1. Net' >= Net /\ (Playing => Net >= 1)
    <3>1. Even \/ Added \/ More
      BY <1>2, <1>8, OwedMoves
    <3>2. Playing => bip >= 1
      BY <1>1, NetIs DEF Books
    <3>3. Net' >= Net
      <4> DEFINE net == Net'
                 balls == bip'
                 over == mb'.excess
      <4>1. bip' \in Nat
        BY <1>3, NumbersAre DEF Kinds, GameTypes
      <4>2. \/ net = Net
            \/ net - balls - over = Net - bip - mb.excess /\ balls >= bip /\ over >= mb.excess
            \/ net >= Net
        BY <3>1 DEF Even, Added, More
      <4>3. net \in Int /\ balls \in Nat /\ over \in Nat /\ mb.excess \in Nat
        BY <1>1, <1>3, <4>1 DEF MbType
      <4> HIDE DEF net, balls, over
      <4>4. net >= Net
        BY <1>1, <4>2, <4>3
      <4> QED BY <4>4 DEF net
    <3> QED BY <1>1, <3>2, <3>3
  <2>2. mb.target > 0 => Net' >= 1
    BY <1>1, <1>3, <1>4, <2>1
  <2>3. CASE /\ mb'.shoot = mb.shoot /\ mb'.saving = mb.saving /\ mb'.counting = mb.counting
             /\ mb'.target = mb.target
             /\ \/ ~StopMode /\ ~StopModes
                \/ running' = running
    BY <1>4, <1>5, <2>2, <2>3 DEF Shots
  <2>4. CASE /\ ~mb'.shoot /\ (mb'.saving => mb.saving /\ ~mb.shoot) /\ mb'.target = mb.target
             /\ mb'.saving \/ mb'.counting \/ ~(mb.saving \/ mb.counting)
    BY <1>4, <2>2, <2>4 DEF Shots
  <2>5. CASE /\ StartMultiball \/ AddABall
             /\ mb'.shoot /\ Playing /\ running
             /\ \/ mb'.saving
                \/ mb'.saving = mb.saving /\ mb'.counting = mb.counting /\ mb.target > 0
    <3>1. running' = running
      BY <2>5 DEF StartMultiball, AddABall
    <3>2. Net' >= 1
      BY <1>1, <1>3, <2>1, <2>5
    <3> QED BY <1>4, <2>5, <3>1, <3>2 DEF Shots
  <2> QED BY <1>8, <2>3, <2>4, <2>5, MbMoves
<1> QED BY <1>6, <1>7, <1>8

\* What the lock waits for has drained before the game goes on.
LEMMA WaitsKept ==
  ASSUME Bounds, Tidy, Clean, [BallsNext]_ballsVars
  PROVE  Waits'
<1>1. /\ Kinds /\ lock.remaining \in Nat /\ conf \in Configs
  BY FieldsAre, NumbersAre DEF Bounds
<1>2. Timely
  BY <1>1, TidyIs
<1>3. lock'.remaining \in Nat
  BY <1>2, LockKept, NumbersAre DEF LockType
<1>4. CASE lock'.remaining <= lock.remaining
  <2>1. SUFFICES ASSUME lock'.remaining > 0
                 PROVE  phase' \in {"turn_wait", "lock_wait"}
    BY DEF Waits
  <2>2. lock.remaining > 0
    BY <1>1, <1>3, <1>4, <2>1
  <2>3. phase \in {"turn_wait", "lock_wait"}
    BY <2>2 DEF Clean, Waits
  <2>4. ~LetTurnStart /\ ~LockIsEmpty
    BY <2>2 DEF LetTurnStart, LockIsEmpty
  <2> QED BY <2>3, <2>4, Moves
<1>5. CASE phase' = "turn_wait" \/ phase' = "lock_wait"
  BY <1>5 DEF Waits
<1> QED BY <1>2, <1>4, <1>5, LockMoves

\* A tilt is remembered from the end of the ball to the wait for its balls.
LEMMA TiltsKept ==
  ASSUME Bounds, Tidy, Clean, [BallsNext]_ballsVars
  PROVE  Tilts'
<1>1. /\ Kinds /\ tilt \in TiltType /\ conf \in Configs /\ GameTypes /\ DeviceTypes
  BY FieldsAre DEF Bounds, Kinds
<1>2. Timely /\ "tilt_between" \notin Irregular
  BY <1>1, TidyIs
<1>3. Tilts
  BY DEF Clean
<1>4. ASSUME tilt' = tilt \/ \/ ~tilt'.tilted
                           \/ /\ tilt'.tilted = tilt.tilted /\ tilt'.atEnd = tilt.atEnd
                              /\ tilt'.queue = tilt.queue /\ tilt'.called = tilt.called,
             phase' = phase, endEvent => endEvent'
      PROVE  Tilts'
  BY <1>3, <1>4 DEF Tilts
<1>5. CASE BallDrain
  <2>1. tilt' = Collected(tilt) /\ phase' = phase
    BY <1>5 DEF BallDrain
  <2>2. endEvent => endEvent'
    <3>1. PICK balls \in {0, 1} : HandlersOfTheRest(balls)
      BY <1>1, <1>5, DrainIs
    <3> QED BY <3>1, <1>1, TheRest
  <2> QED BY <1>1, <1>4, <2>1, <2>2, CollectedIs
<1>6. CASE Settle
  <2> DEFINE t == [tilt EXCEPT !.swinging = FALSE, !.delay = FALSE]
  <2>1. /\ t \in TiltType /\ t.tilted = tilt.tilted /\ t.atEnd = tilt.atEnd /\ t.queue = tilt.queue
        /\ t.called = tilt.called
    BY <1>1 DEF TiltType
  <2>2. tilt' \in {t, TiltDone(t)} /\ phase' = phase /\ endEvent' = endEvent
    BY <1>6 DEF Settle
  <2> HIDE DEF t
  <2> QED BY <1>4, <2>1, <2>2, TiltDoneIs
<1>7. CASE \E swinging \in BOOLEAN : TiltGame(swinging)
  <2>1. PICK swinging \in BOOLEAN : TiltGame(swinging)
    BY <1>7
  <2>2. /\ tilt' = [tilt EXCEPT !.tilted = TRUE, !.collect = on_playfield + coming, !.drains = TRUE,
                             !.atEnd = TRUE, !.swinging = swinging]
        /\ endEvent' = TRUE /\ phase' = phase /\ phase \in {"start", "serve", "playing"}
    BY <1>2, <2>1 DEF TiltGame, Early
  <2>3. tilt'.atEnd = TRUE
    BY <1>1, <2>2 DEF TiltType
  <2> QED BY <2>2, <2>3 DEF Tilts
<1>8. CASE BallWillEnd
  <2>1. /\ tilt' = [tilt EXCEPT !.called = tilt.atEnd] /\ phase = "will_end" /\ phase' = "hold"
    BY <1>8 DEF BallWillEnd, GoTo
  <2>2. tilt'.called = tilt.atEnd /\ tilt'.tilted = tilt.tilted
    BY <1>1, <2>1 DEF TiltType
  <2> QED BY <1>3, <2>1, <2>2 DEF Tilts
<1>9. CASE EndTilted
  <2> DEFINE t == [tilt EXCEPT !.queue = TRUE, !.called = FALSE]
  <2>1. t \in TiltType /\ t.queue = TRUE
    BY <1>1 DEF TiltType
  <2>2. /\ phase = "tilt" /\ phase' = "tilt_wait"
        /\ tilt' = IF ~tilt.called THEN tilt
                   ELSE IF t.collect = 0 THEN TiltDone(t) ELSE t
    BY <1>9 DEF EndTilted, GoTo
  <2> HIDE DEF t
  <2>3. CASE ~tilt.called
    BY <1>3, <2>2, <2>3 DEF Tilts
  <2>4. CASE tilt.called
    <3>1. tilt' = t \/ tilt' = TiltDone(t)
      BY <2>2, <2>4
    <3>2. tilt'.tilted => tilt'.queue
      BY <2>1, <3>1, TiltDoneIs
    <3> QED BY <2>2, <3>2 DEF Tilts
  <2> QED BY <2>3, <2>4
<1>10. CASE StartGame
  <2>1. phase = "over" /\ \E b \in BOOLEAN : (b => tilt.tilted) /\ tilt' = [tilt EXCEPT !.tilted = b]
    <3>1. /\ phase = "over"
          /\ tilt' = [tilt EXCEPT !.tilted = IF phase' = "turn" THEN FALSE ELSE @]
      BY <1>10 DEF StartGame
    <3>2. tilt.tilted \in BOOLEAN
      BY <1>1 DEF TiltType
    <3> QED BY <1>1, <3>1, <3>2 DEF TiltType
  <2>2. ~tilt.tilted
    BY <1>3, <2>1 DEF Tilts
  <2>3. tilt'.tilted = FALSE
    BY <1>1, <2>1, <2>2 DEF TiltType
  <2> QED BY <2>3 DEF Tilts
<1>11. CASE /\ tilt' = tilt /\ ~BallDrain
  <2>1. CASE tilt.tilted
    <3>1. endEvent => endEvent' \/ StartTurn \/ LetTurnStart
                       \/ \E next \in {"start", "turn", "over"} : BallHasEnded(next)
      BY <1>11, WhoEndEvent DEF RequestEnd, TiltGame
    <3>2. ~StartTurn /\ ~LetTurnStart
      BY <1>3, <2>1 DEF StartTurn, LetTurnStart, Tilts
    <3>3. ~\E next \in {"start", "turn", "over"} : BallHasEnded(next)
      BY <1>3, <2>1 DEF BallHasEnded, Tilts
    <3>4. phase' = phase => Tilts'
      BY <1>3, <1>11, <3>1, <3>2, <3>3 DEF Tilts
    <3>5. phase' # phase => \/ phase = "start" /\ phase' = "serve"
                            \/ phase = "serve" /\ phase' = "playing"
                            \/ phase = "playing" /\ phase' = "will_end"
                            \/ phase = "will_end" /\ phase' = "hold" /\ BallWillEnd
                            \/ phase = "hold" /\ phase' = "lock"
                            \/ phase = "lock" /\ phase' \in {"lock_wait", "modes"}
                            \/ phase = "lock_wait" /\ phase' = "modes"
                            \/ phase = "modes" /\ phase' = "tilt"
                            \/ phase = "tilt" /\ phase' = "tilt_wait" /\ EndTilted
      BY <1>3, <2>1, <3>3, Moves DEF Tilts
    <3>6. BallWillEnd \/ EndTilted => Tilts'
      BY <1>8, <1>9
    <3> QED BY <1>3, <1>11, <2>1, <3>1, <3>2, <3>3, <3>4, <3>5, <3>6 DEF Tilts
  <2> QED BY <1>11, <2>1 DEF Tilts
<1> QED BY WhoTilt, <1>5, <1>6, <1>7, <1>8, <1>9, <1>10, <1>11

LEMMA InitClean ==
  ASSUME BallsInit
  PROVE  Clean
<1>1. mb.saving = FALSE /\ mb.shoot = FALSE /\ mb.target = 0
  BY DEF BallsInit
<1>2. lock.remaining = 0 /\ tilt.tilted = FALSE
  BY DEF BallsInit
<1> QED BY <1>1, <1>2 DEF Clean, Shots, Waits, Tilts

\* The third of the three invariants.
LEMMA CleanHold ==
  ASSUME Tidy
  PROVE  BallsSpec => [](Bounds /\ Books /\ Clean)
<1>1. BallsInit => Bounds /\ Books /\ Clean
  BY InitBounds, InitBooks, InitClean
<1>2. Bounds /\ Books /\ Clean /\ [BallsNext]_ballsVars => (Bounds /\ Books /\ Clean)'
  BY BooksKept, ShotsKept, WaitsKept, TiltsKept DEF Tidy, Clean
<1> QED BY <1>1, <1>2, PTL DEF BallsSpec

\* A ball starts with nothing of the one before (Game._start_ball): the handlers of
\* ball_ending have stopped, emptied and waited for whatever was on, and a tilt is
\* remembered until its balls have been collected.
THEOREM StartsCleanHolds ==
  ASSUME Tidy
  PROVE  BallsSpec => EachBallStartsClean
<1> DEFINE Fresh == /\ tilt.tilted => endEvent
                    /\ mb.target = 0 /\ ~mb.saving
                    /\ hold.held = 0 /\ hold.released = 0 /\ lock.remaining = 0
                    /\ save.early = 0 /\ save.scheduled = 0 /\ save.delayed = 0
           Start == GoTo("serve") /\ phase = "start"
<1>1. ASSUME Bounds, Books, Clean, [BallsNext]_ballsVars, Start
      PROVE  Fresh
  <2>1. StartBall
    BY <1>1, Moves DEF GoTo
  <2>2. /\ Ordered /\ Kinds /\ mb.target \in Nat /\ lock.remaining \in Nat
    BY <1>1, FieldsAre, NumbersAre DEF Bounds, Tidy
  <2>3. /\ hold.held = 0 /\ hold.released = 0 /\ Owed = 0
        /\ save.scheduled = 0 /\ save.delayed = 0 /\ save.early = 0 /\ phase = "start"
    BY <1>1, <2>1, <2>2, StartsEmpty
  <2>4. mb.target = 0
    <3>1. ~(mb.target > 0)
      BY <1>1, <2>3 DEF Clean, Shots, Net
    <3> QED BY <2>2, <3>1
  <2>5. ~mb.saving
    BY <1>1, <2>3 DEF Clean, Shots, Bounds, Counts, ModePhases, HoldPhases
  <2>6. lock.remaining = 0
    <3>1. ~(lock.remaining > 0)
      BY <1>1, <2>3 DEF Clean, Waits
    <3> QED BY <2>2, <3>1
  <2>7. tilt.tilted => endEvent
    BY <1>1, <2>3 DEF Clean, Tilts
  <2> QED BY <2>3, <2>4, <2>5, <2>6, <2>7
<1>2. EachBallStartsClean <=> [][Start => Fresh]_ballsVars
  BY DEF EachBallStartsClean
<1>3. Bounds /\ Books /\ Clean /\ [BallsNext]_ballsVars => [Start => Fresh]_ballsVars
  BY <1>1
<1> HIDE DEF Start, Fresh
<1> QED BY <1>2, <1>3, CleanHold, PTL DEF BallsSpec
===============================================================================
