------------------------------- MODULE GameFlow -------------------------------
(***************************************************************************)
(* The course of a game: the task of the game mode (mpf/modes/game), from   *)
(* game_starting over the players' turns and balls to game_ended.           *)
(*                                                                         *)
(* The task is sequential but waits for events in many places, and while   *)
(* it waits balls drain, players join, and the ball or the game is ended by *)
(* others.  What it finds after a wait need not be what it left before.    *)
(***************************************************************************)
EXTENDS Integers

CONSTANTS MaxPlayers,   \* game: max_players
          BallsPerGame, \* game: balls_per_game
          KnownBalls,   \* ball_controller.num_balls_known
          Requests,     \* bound on requests to join that wait in the event queue
          MaxLuck,      \* bound on extra balls and multiballs of a game
          WaitForEmpty, \* game: wait_for_empty_playfields_on_ball_start
          Unusual       \* what may happen besides: "late_join", a player asks to
                        \* join between two turns; "overtaking", the second
                        \* player is added before the first

ASSUME GameAssumption ==
  /\ MaxPlayers \in Nat \ {0}
  /\ BallsPerGame \in Nat \ {0}
  /\ KnownBalls \in Nat \ {0}
  /\ Requests \in Nat \ {0}
  /\ MaxLuck \in Nat
  /\ WaitForEmpty \in BOOLEAN
  /\ Unusual \subseteq {"late_join", "overtaking"}

VARIABLES pc,              \* what the task of the game waits for
          players,         \* len(player_list) and num_players
          player,          \* number of the current player, or 0
          ball,            \* ball of every player
          extra_balls,     \* extra_balls of every player
          ending, slam_tilted,
          balls_in_play,   \* _balls_in_play
          end_ball_event,  \* _end_ball_event is set
          player_event,    \* _at_least_one_player_event is set
          watching,        \* ball_drained is a handler of ball_drain
          requests,        \* player_add_request events under way
          adding,          \* players whose player_adding event is under way
          crowd,           \* history: the most requests that were under way when
                           \* the last place was asked for once more
          loose,           \* balls on the playfield or on their way to it
          luck,            \* extra balls and multiballs so far
          interrupted      \* history: the game was ended before its time

playerVars == <<players, player, ball, extra_balls>>
joinVars == <<player_event, requests, adding, crowd>>
ballVars == <<balls_in_play, watching, loose>>
flagVars == <<ending, slam_tilted, interrupted>>
vars == <<pc, playerVars, joinVars, ballVars, flagVars, end_ball_event, luck>>

NoPlayer == 0
MaxList == MaxPlayers + Requests
Number == 1..MaxList

Init ==
  /\ pc = "no_game"
  /\ players = 0
  /\ player = NoPlayer
  /\ ball = [i \in Number |-> 0]
  /\ extra_balls = [i \in Number |-> 0]
  /\ ending = FALSE
  /\ slam_tilted = FALSE
  /\ balls_in_play = 0
  /\ end_ball_event = FALSE
  /\ player_event = FALSE
  /\ watching = FALSE
  /\ requests = 0
  /\ adding = {}
  /\ crowd = 0
  /\ loose = 0
  /\ luck = 0
  /\ interrupted = FALSE

-------------------------------------------------------------------------------
(* Balls in play.                                                           *)

\* Mutant of SetBallsInPlay: nobody hears of the last ball.
SetBallsSilently(n) ==
  /\ balls_in_play' = IF n > KnownBalls THEN KnownBalls ELSE IF n < 0 THEN 0 ELSE n
  /\ UNCHANGED end_ball_event

\* The setter of balls_in_play: between 0 and the balls there are, and the end
\* of the ball when it falls to 0.
SetBallsInPlay(n) ==
  LET new == IF n > KnownBalls THEN KnownBalls ELSE IF n < 0 THEN 0 ELSE n
  IN  /\ balls_in_play' = new
      /\ end_ball_event' = (end_ball_event \/ (balls_in_play > 0 /\ new = 0))

\* A ball drains.  Between two balls nobody counts it.
Drain ==
  /\ loose > 0
  /\ loose' = loose - 1
  /\ IF watching THEN SetBallsInPlay(balls_in_play - 1)
     ELSE UNCHANGED <<balls_in_play, end_ball_event>>
  /\ UNCHANGED <<pc, playerVars, joinVars, watching, flagVars, luck>>

\* A multiball adds a ball to the game and to the playfield.  Here it has one to add; a
\* multiball that asks for more than there are is in BallsInPlay.
AddBall ==
  /\ pc \in {"ball_started", "ball_playing"}
  /\ luck < MaxLuck
  /\ balls_in_play \in 1..KnownBalls-1
  /\ luck' = luck + 1
  /\ loose' = loose + 1
  /\ SetBallsInPlay(balls_in_play + 1)
  /\ UNCHANGED <<pc, playerVars, joinVars, watching, flagVars>>

AwardExtraBall ==
  /\ pc # "no_game"
  /\ player # NoPlayer
  /\ luck < MaxLuck
  /\ luck' = luck + 1
  /\ extra_balls' = [extra_balls EXCEPT ![player] = @ + 1]
  /\ UNCHANGED <<pc, players, player, ball, joinVars, ballVars, flagVars, end_ball_event>>

-------------------------------------------------------------------------------
(* The end of a ball or of the game, from outside.                          *)

\* end_ball(), by a tilt, the ball search or an event.
EndBall ==
  /\ pc # "no_game"
  /\ end_ball_event' = TRUE
  /\ UNCHANGED <<pc, playerVars, joinVars, ballVars, flagVars, luck>>

EndGame ==
  /\ pc # "no_game"
  /\ ending' = TRUE
  /\ end_ball_event' = TRUE
  /\ interrupted' = TRUE
  /\ UNCHANGED <<pc, playerVars, joinVars, ballVars, slam_tilted, luck>>

\* slam_tilt() sets the flag; tilt() ends the ball unless one is tilted already
\* or the game is ending.
SlamTilt ==
  /\ pc # "no_game"
  /\ slam_tilted' = TRUE
  /\ interrupted' = TRUE
  /\ \/ end_ball_event' = TRUE /\ ~ending
     \/ UNCHANGED end_ball_event
  /\ UNCHANGED <<pc, playerVars, joinVars, ballVars, ending, luck>>

\* The game mode is stopped: its task is cancelled and its handlers are removed.
StopGame ==
  /\ pc # "no_game"
  /\ pc' = "no_game"
  /\ watching' = FALSE
  /\ UNCHANGED <<playerVars, joinVars, balls_in_play, loose, flagVars, end_ball_event, luck>>

-------------------------------------------------------------------------------
(* Players join.                                                            *)

\* Mutant of CanAdd: one player too many.
CanAddOneMore ==
  /\ ~ending
  /\ players <= MaxPlayers
  /\ player # NoPlayer => ball[player] <= 1

CanAdd ==
  /\ ~ending
  /\ players < MaxPlayers
  /\ player # NoPlayer => ball[player] <= 1

\* request_player_add: the checks are made now, the player is added later.
RequestPlayerAdd ==
  /\ pc # "no_game"
  /\ CanAdd
  /\ requests < Requests
  /\ (pc = "turn_starting" /\ ball[player] > 0) => "late_join" \in Unusual
  /\ requests' = requests + 1
  /\ crowd' = IF players + requests >= MaxPlayers /\ requests > crowd THEN requests ELSE crowd
  /\ UNCHANGED <<pc, playerVars, player_event, adding, ballVars, flagVars, end_ball_event, luck>>

\* _player_add_request_complete, in the same pass of the event loop.
RequestDenied ==
  /\ requests > 0
  /\ requests' = requests - 1
  /\ UNCHANGED <<pc, playerVars, player_event, adding, crowd, ballVars, flagVars, end_ball_event, luck>>

RequestGranted ==
  /\ requests > 0
  /\ requests' = requests - 1
  /\ players' = players + 1
  /\ adding' = adding \cup {players + 1}
  /\ UNCHANGED <<pc, player, ball, extra_balls, player_event, crowd, ballVars, flagVars,
                 end_ball_event, luck>>

\* _player_adding_complete; player_adding is a queue event and may take its time.
PlayerAdded(i) ==
  /\ i \in adding
  /\ (player = NoPlayer /\ i > 1) => "overtaking" \in Unusual
  /\ adding' = adding \ {i}
  /\ player' = IF player = NoPlayer THEN i ELSE player
  /\ player_event' = TRUE
  /\ UNCHANGED <<pc, players, ball, extra_balls, requests, crowd, ballVars, flagVars,
                 end_ball_event, luck>>

-------------------------------------------------------------------------------
(* The task.  It goes on in iterations of asyncio, so never while a request *)
(* to join and its callback are being handled.                              *)

At(step) == pc = step /\ requests = 0

Run ==
  /\ At("no_game")
  /\ adding = {}
  /\ pc' = "game_starting"
  /\ players' = 0
  /\ player' = NoPlayer
  /\ ball' = [i \in Number |-> 0]
  /\ extra_balls' = [i \in Number |-> 0]
  /\ ending' = FALSE
  /\ slam_tilted' = FALSE
  /\ balls_in_play' = 0
  /\ end_ball_event' = FALSE
  /\ player_event' = FALSE
  /\ crowd' = 0
  /\ luck' = 0
  /\ interrupted' = FALSE
  /\ UNCHANGED <<watching, requests, adding, loose>>

\* Handlers of game_starting may have added players; if not, one is requested.
GameStarting ==
  /\ At("game_starting")
  /\ pc' = "awaiting_player"
  /\ player_event' = (players > 0)
  /\ requests' = IF players = 0 /\ CanAdd THEN 1 ELSE 0
  /\ UNCHANGED <<playerVars, adding, crowd, ballVars, flagVars, end_ball_event, luck>>

AwaitPlayer ==
  /\ At("awaiting_player")
  /\ player_event
  /\ pc' = "game_started"
  /\ UNCHANGED <<playerVars, joinVars, ballVars, flagVars, end_ball_event, luck>>

\* Mutant of NextPlayer: the last player is never up.
NextButLast == IF player # NoPlayer /\ player < players - 1 THEN player + 1 ELSE 1

\* _rotate_players
NextPlayer == IF player # NoPlayer /\ player < players THEN player + 1 ELSE 1

\* The head of the game loop, with the rotation at the start of a first turn.
GameStarted ==
  /\ At("game_started")
  /\ IF ending
     THEN pc' = "game_ending" /\ UNCHANGED player
     ELSE /\ pc' = "turn_starting"
          /\ player' = IF player = NoPlayer THEN NextPlayer ELSE player
  /\ UNCHANGED <<players, ball, extra_balls, joinVars, ballVars, flagVars, end_ball_event, luck>>

TurnStarting ==
  /\ At("turn_starting")
  /\ pc' = "turn_started"
  /\ ball' = [ball EXCEPT ![player] = @ + 1]
  /\ UNCHANGED <<players, player, extra_balls, joinVars, ballVars, flagVars,
                 end_ball_event, luck>>

\* _run_ball clears the event first.
TurnStarted ==
  /\ At("turn_started")
  /\ pc' = "ball_starting"
  /\ end_ball_event' = FALSE
  /\ UNCHANGED <<playerVars, joinVars, ballVars, flagVars, luck>>

\* Mutant of BallStarting: does not wait.
StartBallAtOnce ==
  /\ At("ball_starting")
  /\ pc' = "ball_started"
  /\ watching' = TRUE
  /\ SetBallsInPlay(1)
  /\ UNCHANGED <<playerVars, joinVars, loose, flagVars, luck>>

\* _start_ball waits for empty playfields, unless it is configured not to.
BallStarting ==
  /\ At("ball_starting")
  /\ WaitForEmpty => loose = 0
  /\ pc' = "ball_started"
  /\ watching' = TRUE
  /\ SetBallsInPlay(1)
  /\ UNCHANGED <<playerVars, joinVars, loose, flagVars, luck>>

BallStarted ==
  /\ At("ball_started")
  /\ pc' = "ball_playing"
  /\ loose' = loose + 1
  /\ UNCHANGED <<playerVars, joinVars, balls_in_play, watching, flagVars,
                 end_ball_event, luck>>

\* _end_ball
BallEnding ==
  /\ At("ball_playing")
  /\ end_ball_event
  /\ pc' = "ball_ending"
  /\ watching' = FALSE
  /\ balls_in_play' = 0
  /\ UNCHANGED <<playerVars, joinVars, loose, flagVars, end_ball_event, luck>>

\* Mutant of BallEnded: an extra ball is always awarded.
ShootAgain ==
  /\ At("ball_ending")
  /\ extra_balls' = [extra_balls EXCEPT ![player] = @ - 1]
  /\ end_ball_event' = FALSE
  /\ pc' = "ball_starting"
  /\ UNCHANGED <<players, player, ball, joinVars, ballVars, flagVars, luck>>

\* An extra ball for the same player comes before the end of the turn.
BallEnded ==
  /\ At("ball_ending")
  /\ IF extra_balls[player] > 0 /\ ~slam_tilted
     THEN /\ extra_balls' = [extra_balls EXCEPT ![player] = @ - 1]
          /\ end_ball_event' = FALSE
          /\ pc' = "ball_starting"
     ELSE /\ pc' = "turn_ending"
          /\ UNCHANGED <<extra_balls, end_ball_event>>
  /\ UNCHANGED <<players, player, ball, joinVars, ballVars, flagVars, luck>>

\* Mutant of LastTurn: the first player to finish ends the game.
LastTurnEarly == slam_tilted \/ ball[player] >= BallsPerGame

LastTurn == slam_tilted \/ (ball[player] >= BallsPerGame /\ player = players)

TurnEnded ==
  /\ At("turn_ending")
  /\ ending' = (ending \/ LastTurn)
  /\ player' = IF LastTurn THEN player ELSE NextPlayer
  /\ pc' = IF ending' THEN "game_ending" ELSE "turn_starting"
  /\ UNCHANGED <<players, ball, extra_balls, joinVars, ballVars, slam_tilted,
                 interrupted, end_ball_event, luck>>

GameEnding ==
  /\ At("game_ending")
  /\ pc' = "game_ended"
  /\ UNCHANGED <<playerVars, joinVars, ballVars, flagVars, end_ball_event, luck>>

\* _run returns and the mode stops (AsyncMode._mode_ended).
GameEnded ==
  /\ At("game_ended")
  /\ pc' = "no_game"
  /\ UNCHANGED <<playerVars, joinVars, ballVars, flagVars, end_ball_event, luck>>

GameTask ==
  \/ GameStarting \/ AwaitPlayer \/ GameStarted
  \/ TurnStarting \/ TurnStarted
  \/ BallStarting \/ BallStarted \/ BallEnding \/ BallEnded
  \/ TurnEnded \/ GameEnding \/ GameEnded

Joining ==
  \/ RequestDenied \/ RequestGranted
  \/ \E i \in adding : PlayerAdded(i)

Others ==
  \/ AddBall \/ AwardExtraBall
  \/ EndBall \/ EndGame \/ SlamTilt \/ StopGame
  \/ RequestPlayerAdd

Next == Run \/ GameTask \/ Joining \/ Drain \/ Others

Spec == Init /\ [][Next]_vars

\* Events are handled, and no ball stays on the playfield for ever.  Requests to
\* join hold the task up for one pass of the event loop only, and passes end.
Fairness ==
  /\ SF_vars(GameTask) /\ WF_vars(Joining) /\ WF_vars(Drain)
  /\ []<>(requests = 0)

FairSpec == Spec /\ Fairness

-------------------------------------------------------------------------------
(* Properties.                                                              *)

Step == {"no_game", "game_starting", "awaiting_player", "game_started",
         "turn_starting", "turn_started", "ball_starting", "ball_started",
         "ball_playing", "ball_ending", "turn_ending", "game_ending", "game_ended"}

\* Types; the current player is one of the list, and extra balls are never
\* overdrawn.
TypeOK ==
  /\ pc \in Step
  /\ players \in 0..MaxList
  /\ player \in 0..players
  /\ ball \in [Number -> Nat]
  /\ extra_balls \in [Number -> Nat]
  /\ ending \in BOOLEAN /\ slam_tilted \in BOOLEAN
  /\ balls_in_play \in 0..KnownBalls
  /\ end_ball_event \in BOOLEAN /\ player_event \in BOOLEAN
  /\ watching \in BOOLEAN /\ interrupted \in BOOLEAN
  /\ requests \in 0..Requests /\ crowd \in 0..Requests
  /\ adding \subseteq 1..players
  /\ loose \in Nat /\ luck \in 0..MaxLuck

\* The place a request asks for is still free when it is granted, however many requests
\* and answers are under way: the limit is exceeded at most by requests for the last
\* place that were made while others, which had asked for it, were not answered yet.
PlayersWithinMax == players <= MaxPlayers + crowd

\* request_player_add: "the current number of players must be less than the max number
\* allowed."  Not claimed by a run: TLC refutes it, the last place is asked for twice
\* before the first answer.
NeverOverMax == players <= MaxPlayers

\* Nobody gets more balls than the game has, extra balls aside.
BallsWithinGame == \A i \in 1..players : ball[i] <= BallsPerGame

\* The players take turns in their order: an earlier player is at most one ball
\* ahead of a later one, and never behind.
TurnsInOrder ==
  \A i, j \in 1..players : i < j => ball[i] - ball[j] \in {0, 1}

\* A game that comes to its end by itself has given every player all balls.
EverybodyPlayed ==
  pc \in {"game_ending", "game_ended"} /\ ~interrupted =>
    \A i \in 1..players : ball[i] = BallsPerGame

\* While balls are counted, balls_in_play is what is on the playfield, and the
\* ball that is still to be added: no ball of the last player drains for this
\* one, and the ball ends neither too early nor never.  A game that does not wait
\* for empty playfields asks for just that.
BallsCounted ==
  WaitForEmpty /\ watching => balls_in_play = loose + (IF pc = "ball_started" THEN 1 ELSE 0)

\* The last drain of a ball is never missed: with nothing left to drain, nobody
\* else would end the ball.
LastDrainEndsBall == pc = "ball_playing" /\ loose = 0 => end_ball_event

\* A game with a player comes to its end.
GameEnds == pc = "game_started" ~> pc = "no_game"

\* end_game() ends the game at whatever stage it is: "This triggers the game
\* end manually." Not claimed by a run: TLC refutes it, since a game that
\* end_game() finds waiting for its first player waits for good.
EndGameEnds == ending ~> pc = "no_game"
===============================================================================
