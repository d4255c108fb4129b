------------------------------ MODULE BallsInPlay ------------------------------
(***************************************************************************)
(* Which balls count as in play.  The game keeps one number, balls_in_play, *)
(* and the devices that add, keep back or swallow balls share the relay     *)
(* event ball_drain with it: ball saves, multiballs, ball holds, multiball  *)
(* locks and the tilt.  The sequence of a ball (Game._run_ball) is one      *)
(* task; ball_ending is a queue event whose handlers run one after the      *)
(* other, and each of them may wait for balls to drain.                     *)
(*                                                                         *)
(* GameProofs extends this module and GameFlow: a name they would share is  *)
(* another one here.                                                       *)
(***************************************************************************)
EXTENDS Integers, FiniteSetsExt

CONSTANTS LiveBalls,     \* balls the machine knows (num_balls_known)
          SaveBalls,     \* balls_to_save of the ball save
          MultiBalls,    \* ball_count of the multiball, of ball_count_type total
          BallsToLock, LockCapacity,
          Configs,       \* the configurations of the devices, one of which BallsInit chooses
          MaxTarget,     \* bounds on the target of the multiball, and on the balls that
          MaxExcess,     \* are added to one ball beyond those the machine knows
          Irregular      \* steps left out of most instances, see their uses

Machine == {"save", "mb", "hold"}
ASSUME BallsAssumption ==
  /\ LiveBalls \in Nat \ {0} /\ SaveBalls \in Nat \ {0} /\ MultiBalls \in 2..LiveBalls
  /\ BallsToLock \in Nat \ {0} /\ LockCapacity \in Nat \ {0}
  /\ MaxTarget \in Nat /\ MaxExcess \in Nat
  /\ Configs \subseteq [eject : {"none", "delay", "event"},   \* how a saved ball comes back
                        inMode : SUBSET Machine,  \* devices of a game mode, the others are the machine's
                        empties : BOOLEAN,        \* empty_lock_devices_on_ball_end
                        holds : Nat,              \* balls_to_hold
                        settle : BOOLEAN]         \* a tilt may have to wait for the bob to settle
  /\ Irregular \subseteq {"reenable", "late_events", "tilt_between", "tilt_early", "tilt_inside", "end_delayed"}

VARIABLES
  conf,
  phase,     \* where Game.run is, and which handler of a queue event it waits for
  endEvent,  \* _end_ball_event
  bip,       \* _balls_in_play
  running,   \* the game mode that holds the devices of conf.inMode and the lock
  on_playfield,  \* balls on the playfield
  coming,    \* balls requested for it that have not arrived
  save,      \* ball_save: enabled, saves_remaining, early_saved, _scheduled_balls, delays of _add_balls
  mb,        \* multiball: enabled, shoot_again, its two drain handlers, the stop delay, balls_live_target;
             \* excess is history: balls it added in this ball that balls_in_play does not count
  hold,      \* ball_hold: enabled, balls_held, _released_balls
  lock,      \* multiball_lock: enabled, _locked_balls, balls in the device, balls it waits for
  tilt       \* tilt: game.tilted, _balls_to_collect, handlers, queue, settle time and delay

ballsVars == <<conf, phase, endEvent, bip, running, on_playfield, coming, save, mb, hold, lock, tilt>>
devices == <<save, mb, hold, lock, tilt>>

Phases == {"turn", "turn_wait", "start", "serve", "playing", "will_end",
           "hold", "lock", "lock_wait", "modes", "tilt", "tilt_wait", "over"}

BallsTypeOK ==
  /\ conf \in Configs /\ phase \in Phases /\ endEvent \in BOOLEAN /\ running \in BOOLEAN
  /\ bip \in 0..LiveBalls /\ on_playfield \in 0..LiveBalls /\ coming \in Nat
  /\ save \in [on : BOOLEAN, left : 0..SaveBalls, early : 0..1, scheduled : Nat, delayed : Nat]
  /\ mb \in [on : BOOLEAN, shoot : BOOLEAN, saving : BOOLEAN, counting : BOOLEAN, timer : BOOLEAN,
             target : Nat, excess : Nat]
  /\ hold \in [on : BOOLEAN, held : 0..LiveBalls, released : 0..LiveBalls]
  /\ lock \in [on : BOOLEAN, count : 0..BallsToLock, inside : 0..LockCapacity, remaining : 0..LockCapacity]
  /\ tilt \in [tilted : BOOLEAN, collect : Int, drains : BOOLEAN,
               atEnd : BOOLEAN, called : BOOLEAN, queue : BOOLEAN, swinging : BOOLEAN, delay : BOOLEAN]

Game == phase # "over"
\* the handler of Game.ball_drained is registered
Counting == phase \in {"serve", "playing"}
InMode(d) == d \in conf.inMode
\* events that control a device come while its mode runs and a ball is played, but
\* for late events
Usable(d) == /\ InMode(d) => running
             /\ (Counting /\ ~endEvent) \/ (InMode(d) /\ "late_events" \in Irregular)

BallsInit ==
  /\ conf \in Configs
  /\ phase = "turn" /\ endEvent = FALSE /\ bip = 0 /\ running = FALSE
  /\ on_playfield = 0 /\ coming = 0
  /\ save = [on |-> FALSE, left |-> 0, early |-> 0, scheduled |-> 0, delayed |-> 0]
  /\ mb = [on |-> FALSE, shoot |-> FALSE, saving |-> FALSE, counting |-> FALSE, timer |-> FALSE, target |-> 0,
            excess |-> 0]
  /\ hold = [on |-> FALSE, held |-> 0, released |-> 0]
  /\ lock = [on |-> FALSE, count |-> 0, inside |-> 0, remaining |-> 0]
  /\ tilt = [tilted |-> FALSE, collect |-> 0, drains |-> FALSE, atEnd |-> FALSE, called |-> FALSE,
             queue |-> FALSE, swinging |-> FALSE, delay |-> FALSE]

-----------------------------------------------------------------------------
(* The ball save. *)

\* disable() leaves early_saved and the scheduled balls
SaveOff(s) == [s EXCEPT !.on = FALSE]
\* _reduce_remaining_saves_and_disable_if_zero and _schedule_balls, for one ball
Saved(s) ==
  [s EXCEPT !.left = @ - 1, !.on = s.left > 1,
            !.delayed = IF conf.eject = "delay" THEN @ + 1 ELSE @,
            !.scheduled = IF conf.eject = "event" THEN @ + 1 ELSE @]
AtOnce == IF conf.eject = "none" THEN 1 ELSE 0

EnableSave ==
  /\ Usable("save") /\ ~save.on
  /\ save.early = 0 \/ "reenable" \in Irregular
  /\ save' = [save EXCEPT !.on = TRUE, !.left = SaveBalls, !.early = 0]
  /\ UNCHANGED <<conf, phase, endEvent, bip, running, on_playfield, coming, mb, hold, lock, tilt>>

\* the active time and the grace period are over, or a disable event
SaveTimeout ==
  /\ save.on
  /\ save' = SaveOff(save)
  /\ UNCHANGED <<conf, phase, endEvent, bip, running, on_playfield, coming, mb, hold, lock, tilt>>

\* a ball is given back before the old one has drained
EarlyBallSave ==
  /\ Usable("save") /\ save.on /\ bip > 0 /\ save.early = 0
  /\ save' = [Saved(save) EXCEPT !.early = 1]
  /\ coming' = coming + AtOnce
  /\ UNCHANGED <<conf, phase, endEvent, bip, running, on_playfield, mb, hold, lock, tilt>>

DelayedEject ==
  /\ Usable("save") /\ save.scheduled > 0
  /\ coming' = coming + save.scheduled
  /\ save' = [save EXCEPT !.scheduled = 0]
  /\ UNCHANGED <<conf, phase, endEvent, bip, running, on_playfield, mb, hold, lock, tilt>>

EjectDelayOver ==
  /\ save.delayed > 0
  /\ save' = [save EXCEPT !.delayed = @ - 1]
  /\ coming' = coming + 1
  /\ UNCHANGED <<conf, phase, endEvent, bip, running, on_playfield, mb, hold, lock, tilt>>

-----------------------------------------------------------------------------
(* The multiball.  Its handler with priority 1000 saves balls while shoot    *)
(* again lasts; the one that counts the rest is registered by stop().        *)

Stopped(m) == [m EXCEPT !.shoot = FALSE, !.saving = FALSE, !.counting = TRUE]
Shooting(m) == [m EXCEPT !.shoot = TRUE, !.saving = TRUE, !.timer = TRUE]

StartMultiball ==
  /\ Usable("mb") /\ mb.on /\ mb.target = 0
  /\ LET added == IF MultiBalls > bip THEN MultiBalls - bip ELSE 0
         fromLock == Min({added, lock.inside})
     IN /\ coming' = coming + added
        /\ lock' = [lock EXCEPT !.inside = @ - fromLock]
        /\ bip' = bip + added
  /\ mb' = [Shooting(mb) EXCEPT !.target = MultiBalls]
  /\ UNCHANGED <<conf, phase, endEvent, running, on_playfield, save, hold, tilt>>

\* The target has no limit, and neither has the request; the setter of balls_in_play caps
\* the number at the balls the machine knows.  A ball that is not counted lets the ball end
\* too early, while the eject delay of a save may still run.
AddABall ==
  /\ Usable("mb") /\ mb.target > 0 /\ mb.target < MaxTarget
  /\ bip < LiveBalls \/ mb.excess < MaxExcess
  /\ bip < LiveBalls \/ conf.eject # "delay" \/ "end_delayed" \in Irregular
  /\ coming' = coming + 1
  /\ bip' = Min({bip + 1, LiveBalls})
  /\ LET more == [mb EXCEPT !.target = @ + 1, !.excess = IF bip < LiveBalls THEN @ ELSE @ + 1]
     IN mb' = IF mb.shoot THEN more ELSE Shooting(more)
  /\ UNCHANGED <<conf, phase, endEvent, running, on_playfield, save, hold, lock, tilt>>

\* a stop event
StopMultiball ==
  /\ Usable("mb")
  /\ mb' = Stopped(mb)
  /\ UNCHANGED <<conf, phase, endEvent, bip, running, on_playfield, coming, save, hold, lock, tilt>>

\* Mutant of ShootAgainOver: the delay resets the flag and leaves the handler.
ShootAgainStays ==
  /\ mb.timer
  /\ mb' = [mb EXCEPT !.timer = FALSE]
  /\ UNCHANGED <<conf, phase, endEvent, bip, running, on_playfield, coming, save, hold, lock, tilt>>

\* the delay disable_shoot_again calls stop(), which nothing else cancels
ShootAgainOver ==
  /\ mb.timer
  /\ mb' = [Stopped(mb) EXCEPT !.timer = FALSE]
  /\ UNCHANGED <<conf, phase, endEvent, bip, running, on_playfield, coming, save, hold, lock, tilt>>

-----------------------------------------------------------------------------
(* The ball hold and the multiball lock. *)

HoldBall ==
  /\ hold.on /\ on_playfield > 0 /\ hold.held < conf.holds
  /\ on_playfield' = on_playfield - 1
  /\ hold' = [hold EXCEPT !.held = @ + 1]
  /\ UNCHANGED <<conf, phase, endEvent, bip, running, coming, save, mb, lock, tilt>>

ReleaseOne ==
  /\ Usable("hold") /\ hold.held > 0
  /\ hold' = [hold EXCEPT !.held = @ - 1]
  /\ coming' = coming + 1
  /\ UNCHANGED <<conf, phase, endEvent, bip, running, on_playfield, save, mb, lock, tilt>>

\* reset(): the balls released by it do not count as in play
HoldReset(h) == [h EXCEPT !.held = 0, !.released = @ + h.held]

\* Mutant of LockBall: the lock does not bail out when it is full.
LockBallUncounted ==
  /\ lock.on /\ Game /\ on_playfield > 0
  /\ LET space == LockCapacity - lock.inside
         full == lock.count + 1 = BallsToLock
         stays == space >= 1 /\ (full \/ space > 1)
     IN lock' = [lock EXCEPT !.count = @ + 1, !.inside = IF stays THEN @ + 1 ELSE @]
  /\ on_playfield' = on_playfield - 1
  /\ coming' = coming + 1
  /\ UNCHANGED <<conf, phase, endEvent, bip, running, save, mb, hold, tilt>>

\* _lock_ball with the counting strategy no_virtual: a ball that stays inside is replaced
LockBall ==
  /\ lock.on /\ Game /\ on_playfield > 0 /\ lock.count < BallsToLock
  /\ LET space == LockCapacity - lock.inside
         full == lock.count + 1 = BallsToLock
         stays == space >= 1 /\ (full \/ space > 1)
     IN lock' = [lock EXCEPT !.count = @ + 1, !.inside = IF stays THEN @ + 1 ELSE @]
  /\ on_playfield' = on_playfield - 1
  /\ coming' = coming + 1
  /\ UNCHANGED <<conf, phase, endEvent, bip, running, save, mb, hold, tilt>>

ResetLockCount ==
  /\ running /\ Counting /\ ~endEvent /\ lock.count > 0
  /\ lock' = [lock EXCEPT !.count = 0]
  /\ UNCHANGED <<conf, phase, endEvent, bip, running, on_playfield, coming, save, mb, hold, tilt>>

-----------------------------------------------------------------------------
(* The tilt. *)

\* _tilt_done: the handlers of the drains and of ball_ending are removed, but a
\* ball_ending that is under way still calls the latter
TiltDone(t) ==
  IF t.swinging THEN [t EXCEPT !.delay = TRUE]
  ELSE [t EXCEPT !.tilted = FALSE, !.queue = FALSE, !.drains = FALSE, !.atEnd = FALSE]

\* balls that will drain although they are not on the playfield yet
Early == phase \in {"start", "serve"}
Inside == \/ hold.held > 0 \/ (conf.empties /\ lock.inside > 0) \/ save.scheduled > 0
          \/ conf.settle /\ (save.on \/ mb.saving)
\* eject_delay is not over, or the save may still start it
Delayed == conf.eject = "delay" /\ (save.on \/ save.delayed > 0)

\* Tilt.tilt: what is on the playfield, or on its way there, has to be collected
TiltGame(swinging) ==
  /\ Game /\ ~tilt.tilted
  /\ Early \/ phase = "playing" \/ "tilt_between" \in Irregular
  /\ ~Early \/ "tilt_early" \in Irregular
  /\ ~Inside \/ "tilt_inside" \in Irregular
  /\ ~Delayed \/ "end_delayed" \in Irregular
  /\ swinging => conf.settle
  /\ tilt' = [tilt EXCEPT !.tilted = TRUE, !.collect = on_playfield + coming, !.drains = TRUE,
                          !.atEnd = TRUE, !.swinging = swinging]
  /\ endEvent' = TRUE
  /\ UNCHANGED <<conf, phase, bip, running, on_playfield, coming, save, mb, hold, lock>>

\* the settle time is over, and with it the delay that waits for it
Settle ==
  /\ tilt.swinging
  /\ LET calm == [tilt EXCEPT !.swinging = FALSE, !.delay = FALSE]
     IN tilt' = IF tilt.delay THEN TiltDone(calm) ELSE calm
  /\ UNCHANGED <<conf, phase, endEvent, bip, running, on_playfield, coming, save, mb, hold, lock>>

\* _tilted_ball_drain
Collected(t) ==
  LET u == [t EXCEPT !.collect = @ - 1]
  IN IF ~t.drains THEN t ELSE IF u.collect <= 0 THEN TiltDone(u) ELSE u

-----------------------------------------------------------------------------
(* A ball drains: the relay event ball_drain, in the order of its handlers.  *)
(* One event comes for each ball, and each handler passes on what it leaves. *)

EarlyTakes == save.early > 0
SaveTakes == save.on /\ Game /\ bip > 0
\* target - balls_in_play + balls, at least one
MbTakes == mb.saving /\ Game /\ mb.target - bip + 1 > 0

\* what is left to the handlers with priority 20 (the game) and 1 (the others)
HandlersOfTheRest(balls) ==
  LET counted == IF Counting THEN Max({bip - balls, 0}) ELSE bip
      forHold == Min({balls, hold.released})
      rest == balls - forHold
  IN /\ bip' = counted
     /\ endEvent' = (endEvent \/ (bip > 0 /\ counted = 0))
     /\ hold' = [hold EXCEPT !.released = @ - forHold]
     /\ lock' = [lock EXCEPT !.remaining = @ - Min({rest, lock.remaining})]
     /\ mb' = IF mb.counting /\ (~Game \/ counted - balls < 1)
              THEN [mb EXCEPT !.target = 0, !.counting = FALSE]
              ELSE mb

\* Mutant of EarlySavedDrains: the other handlers still see the ball.
EarlySavedDrainsOn ==
  /\ save.early > 0
  /\ save' = [save EXCEPT !.early = @ - 1]
  /\ UNCHANGED coming
  /\ HandlersOfTheRest(1)

\* 1001: the ball of an early save is not the game's any more
EarlySavedDrains ==
  /\ EarlyTakes
  /\ save' = [save EXCEPT !.early = @ - 1]
  /\ UNCHANGED coming
  /\ HandlersOfTheRest(0)
\* 1000: the ball save and the multiball, in the order of their registration
SavedByBallSave ==
  /\ ~EarlyTakes /\ SaveTakes
  /\ save' = Saved(save)
  /\ coming' = coming + AtOnce
  /\ HandlersOfTheRest(0)
SavedByMultiball ==
  /\ ~EarlyTakes /\ MbTakes
  /\ coming' = coming + 1
  /\ UNCHANGED save
  /\ HandlersOfTheRest(0)
NobodySaves ==
  /\ ~EarlyTakes /\ ~SaveTakes /\ ~MbTakes
  /\ UNCHANGED <<save, coming>>
  /\ HandlersOfTheRest(1)

BallDrain ==
  /\ on_playfield > 0
  /\ on_playfield' = on_playfield - 1
  /\ tilt' = Collected(tilt)
  /\ EarlySavedDrains \/ SavedByBallSave \/ SavedByMultiball \/ NobodySaves
  /\ UNCHANGED <<conf, phase, running>>

\* a requested ball reaches the playfield; one has to be left in the machine for it
Arrive ==
  /\ coming > 0 /\ on_playfield + hold.held + lock.inside < LiveBalls
  /\ coming' = coming - 1 /\ on_playfield' = on_playfield + 1
  /\ UNCHANGED <<conf, phase, endEvent, bip, running, devices>>

-----------------------------------------------------------------------------
(* The game mode that holds devices. *)

StartMode ==
  /\ Counting /\ ~running
  /\ running' = TRUE
  /\ mb' = IF InMode("mb") THEN [mb EXCEPT !.on = TRUE] ELSE mb
  /\ hold' = IF InMode("hold") THEN [hold EXCEPT !.on = TRUE] ELSE hold
  /\ lock' = [lock EXCEPT !.on = TRUE]
  /\ UNCHANGED <<conf, phase, endEvent, bip, on_playfield, coming, save, tilt>>

\* Mutant of RemoveDevices: shoot again goes on without its mode.
RemoveDevicesOnly ==
  /\ running' = FALSE
  /\ save' = IF InMode("save") THEN [SaveOff(save) EXCEPT !.scheduled = 0] ELSE save
  /\ coming' = IF InMode("save") THEN coming + save.scheduled ELSE coming
  /\ mb' = IF InMode("mb") THEN [mb EXCEPT !.on = FALSE] ELSE mb
  /\ hold' = IF InMode("hold") THEN [hold EXCEPT !.on = FALSE] ELSE hold
  /\ lock' = [lock EXCEPT !.on = FALSE]

\* device_removed_from_mode of each device
RemoveDevices ==
  /\ running' = FALSE
  /\ save' = IF InMode("save") THEN [SaveOff(save) EXCEPT !.scheduled = 0] ELSE save
  /\ coming' = IF InMode("save") THEN coming + save.scheduled ELSE coming
  /\ mb' = IF ~InMode("mb") THEN mb
           ELSE [(IF mb.shoot THEN Stopped(mb) ELSE mb) EXCEPT !.on = FALSE]
  /\ hold' = IF InMode("hold") THEN [hold EXCEPT !.on = FALSE] ELSE hold
  /\ lock' = [lock EXCEPT !.on = FALSE]

StopMode ==
  /\ running /\ Counting
  /\ RemoveDevices
  /\ UNCHANGED <<conf, phase, endEvent, bip, on_playfield, tilt>>

-----------------------------------------------------------------------------
(* The game: _run_ball, and the handlers of its events. *)

GoTo(p) == phase' = p

\* player_turn_starting: a lock that is full of other players' balls lets one go
StartTurn ==
  /\ phase = "turn"
  /\ IF lock.inside >= LockCapacity
     THEN /\ GoTo("turn_wait") /\ coming' = coming + 1
          /\ lock' = [lock EXCEPT !.count = 0, !.inside = @ - 1, !.remaining = 1]
     ELSE /\ GoTo("start") /\ UNCHANGED coming
          /\ lock' = [lock EXCEPT !.count = 0]
  \* _run_ball clears the event
  /\ endEvent' = IF phase' = "start" THEN FALSE ELSE endEvent
  /\ UNCHANGED <<conf, bip, running, on_playfield, save, mb, hold, tilt>>

LetTurnStart ==
  /\ phase = "turn_wait" /\ lock.remaining = 0
  /\ GoTo("start") /\ endEvent' = FALSE
  /\ UNCHANGED <<conf, bip, running, on_playfield, coming, devices>>

\* wait_until_playfields_are_empty, and then ball_starting and ball_started.  The
\* devices of the machine are reset by the first and enabled by the second.
StartBall ==
  /\ phase = "start" /\ on_playfield + coming = 0
  /\ GoTo("serve") /\ bip' = 1
  /\ LET h == HoldReset(hold) IN
     hold' = IF InMode("hold") THEN hold ELSE [h EXCEPT !.on = TRUE]
  /\ coming' = IF InMode("hold") THEN coming ELSE coming + hold.held
  /\ LET m == [mb EXCEPT !.excess = 0]
     IN mb' = IF InMode("mb") THEN m ELSE [m EXCEPT !.on = TRUE, !.shoot = FALSE]
  /\ UNCHANGED <<conf, endEvent, running, on_playfield, save, lock, tilt>>

\* add_ball(player_controlled=True)
ServeBall ==
  /\ phase = "serve"
  /\ GoTo("playing") /\ coming' = coming + 1
  /\ UNCHANGED <<conf, endEvent, bip, running, on_playfield, devices>>

\* end_ball() by an event
RequestEnd ==
  /\ phase = "playing" /\ ~endEvent
  /\ ~Delayed \/ "end_delayed" \in Irregular
  /\ endEvent' = TRUE
  /\ UNCHANGED <<conf, phase, bip, running, on_playfield, coming, devices>>

\* _end_ball: no more drains are counted
FinishBall ==
  /\ phase = "playing" /\ endEvent
  /\ GoTo("will_end") /\ bip' = 0
  /\ UNCHANGED <<conf, endEvent, running, on_playfield, coming, devices>>

\* ball_will_end, and ball_ending is posted
BallWillEnd ==
  /\ phase = "will_end"
  /\ GoTo("hold")
  /\ save' = IF ~InMode("save") \/ running THEN SaveOff(save) ELSE save
  /\ mb' = IF InMode("mb") THEN mb ELSE [mb EXCEPT !.on = FALSE]
  /\ IF ~InMode("hold") \/ running
     THEN /\ hold' = [HoldReset(hold) EXCEPT !.on = InMode("hold")]
          /\ coming' = coming + hold.held
     ELSE UNCHANGED <<hold, coming>>
  /\ tilt' = [tilt EXCEPT !.called = tilt.atEnd]
  /\ UNCHANGED <<conf, endEvent, bip, running, on_playfield, lock>>

\* 10000: the hold waits for the balls it has released
HoldIsEmpty ==
  /\ phase = "hold" /\ hold.released = 0
  /\ GoTo("lock")
  /\ UNCHANGED <<conf, endEvent, bip, running, on_playfield, coming, devices>>

\* 1: the lock gives its balls back and waits for them
EmptyLock ==
  /\ phase = "lock"
  /\ IF conf.empties /\ lock.inside > 0
     THEN /\ GoTo("lock_wait") /\ coming' = coming + lock.inside
          /\ lock' = [lock EXCEPT !.inside = 0, !.remaining = lock.inside]
     ELSE GoTo("modes") /\ UNCHANGED <<coming, lock>>
  /\ UNCHANGED <<conf, endEvent, bip, running, on_playfield, save, mb, hold, tilt>>

LockIsEmpty ==
  /\ phase = "lock_wait" /\ lock.remaining = 0
  /\ GoTo("modes")
  /\ UNCHANGED <<conf, endEvent, bip, running, on_playfield, coming, devices>>

\* 0: the modes of the game stop
StopModes ==
  /\ phase = "modes"
  /\ GoTo("tilt")
  /\ IF running THEN RemoveDevices ELSE UNCHANGED <<running, coming, save, mb, hold, lock>>
  /\ UNCHANGED <<conf, endEvent, bip, on_playfield, tilt>>

\* -1: _ball_ending_tilted, of a tilt before ball_ending was posted
EndTilted ==
  /\ phase = "tilt"
  /\ GoTo("tilt_wait")
  /\ LET t == [tilt EXCEPT !.queue = TRUE, !.called = FALSE]
     IN tilt' = IF ~tilt.called THEN tilt
                ELSE IF t.collect = 0 THEN TiltDone(t) ELSE t
  /\ UNCHANGED <<conf, endEvent, bip, running, on_playfield, coming, save, mb, hold, lock>>

\* the ball has ended: an extra ball, the next turn, or the end of the game
BallHasEnded(next) ==
  /\ phase = "tilt_wait" /\ ~tilt.queue
  /\ next \in {"start", "turn", "over"}
  /\ GoTo(next)
  /\ endEvent' = IF next = "start" THEN FALSE ELSE endEvent
  /\ UNCHANGED <<conf, bip, running, on_playfield, coming, devices>>

\* request_to_start_game collects the balls first
StartGame ==
  /\ phase = "over"
  /\ IF on_playfield + coming + hold.held + lock.inside = 0
     THEN GoTo("turn") /\ UNCHANGED <<coming, lock>>
     ELSE /\ GoTo("over") /\ lock.inside > 0
          /\ coming' = coming + lock.inside /\ lock' = [lock EXCEPT !.inside = 0]
  /\ tilt' = [tilt EXCEPT !.tilted = IF phase' = "turn" THEN FALSE ELSE @]
  /\ UNCHANGED <<conf, endEvent, bip, running, on_playfield, save, mb, hold>>

GameStep ==
  \/ StartTurn \/ LetTurnStart \/ StartBall \/ ServeBall
  \/ FinishBall \/ BallWillEnd \/ HoldIsEmpty \/ EmptyLock \/ LockIsEmpty \/ StopModes \/ EndTilted
  \/ \E next \in {"start", "turn", "over"} : BallHasEnded(next)
  \/ StartGame

BallsNext ==
  \/ GameStep \/ BallDrain \/ Arrive
  \/ EnableSave \/ SaveTimeout \/ EarlyBallSave \/ DelayedEject \/ EjectDelayOver
  \/ StartMultiball \/ AddABall \/ StopMultiball \/ ShootAgainOver
  \/ HoldBall \/ ReleaseOne \/ LockBall \/ ResetLockCount
  \/ StartMode \/ StopMode \/ Settle
  \/ RequestEnd \/ \E swinging \in BOOLEAN : TiltGame(swinging)

\* the task of the game goes on, requested balls arrive, balls drain in the end, delays are over
BallsSpec ==
  /\ BallsInit /\ [][BallsNext]_ballsVars
  /\ WF_ballsVars(GameStep) /\ WF_ballsVars(BallDrain) /\ WF_ballsVars(Arrive)
  /\ WF_ballsVars(EjectDelayOver) /\ WF_ballsVars(ShootAgainOver) /\ WF_ballsVars(Settle)

-----------------------------------------------------------------------------
(* Properties. *)

\* The balls that are on the playfield, on their way to it, held, or scheduled by a save.
Owed == on_playfield + coming + hold.held + save.scheduled + save.delayed
        + (IF phase = "serve" THEN 1 ELSE 0)

\* While a ball is played and its end has not been requested, balls_in_play and the early
\* saved balls are the balls that are in play or will be, but for those that were added
\* when all balls the machine knows were in play already: the ball ends with the last
\* ball that was counted and not before.
InPlayMatches == Counting /\ ~endEvent => bip + save.early + mb.excess = Owed

\* balls_in_play "holds the current number of balls in play" (game.py), once all balls that
\* were requested have come.  Not claimed by a run: TLC refutes it, a ball that is added
\* when all are in play comes after the next drain, and is not counted.
HoldsCurrentNumber == phase = "playing" /\ ~endEvent /\ coming = 0 => bip + save.early = Owed

\* A ball starts with nothing of the one before: no multiball, no shoot again, no
\* ball of a hold, lock or save that is still to come or to drain, and no tilt
\* whose end of the ball was forgotten.
EachBallStartsClean ==
  [][GoTo("serve") /\ phase = "start" =>
       /\ tilt.tilted => endEvent
       /\ mb.target = 0 /\ ~mb.saving
       /\ hold.held = 0 /\ hold.released = 0 /\ lock.remaining = 0
       /\ save.early = 0 /\ save.scheduled = 0 /\ save.delayed = 0]_ballsVars

\* A ball that ends is followed by the next one, or the game ends: the waits for
\* balls to drain all come to an end.
EndsAndGoesOn == (phase = "will_end") ~> (phase \in {"serve", "over"})
=============================================================================
