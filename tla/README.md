# A verification project for the Mission Pinball Framework (MPF)

MPF (`mpf/`) runs pinball machines: it reads switches through a hardware
platform, turns them into events, and runs modes, games and devices that react
to the events and drive coils, lights and shows.  Everything runs on one asyncio
loop, so the hard parts are not data races but *order*: handlers that post
events while events are being handled, callbacks that run when a queue of other
events is finished, tasks that hold a decision across an `await`, and physical
balls that take seconds to arrive or do not arrive at all.

This directory holds TLA+ models of that core, TLC configurations that check
them on small instances, and TLAPS proofs for every instance.

## 1. Inventory

| Part | Source | State | Operations | Talks to |
|---|---|---|---|---|
| Event loop | `core/events.py` 640-669, 777-862 | `event_queue`, `callback_queue`, the local queues of `process_event_queue`, pending `call_soon()`s | `post*`, `process_event_queue`, `stop` | every part posts |
| Event handlers | `core/events.py` 100-480, 671-775, 865-909 | `registered_handlers` by priority, `_queue_tasks`, one `QueuedEvent` per waiting handler | `add_handler`, `remove_*`, dispatch of normal, boolean, relay and queue events | every part registers |
| Mode | `core/mode.py`, `core/async_mode.py` | `_active`, `_starting`, `stopping`, handlers, devices, stop callbacks, the mode's task | `start`, `_started`, `stop`, `_stopped`, `_mode_stopped_callback` | queue events `mode_X_starting`, `mode_X_stopping` |
| Mode controller | `core/mode_controller.py` | `active_modes`, `mode_stop_count` | `set_mode_state`, `_ball_ending` | modes, the game's `ball_ending` queue |
| Game | `modes/game/code/game.py` | players, current player, `balls_in_play`, `ending`, `slam_tilted`, `_end_ball_event` | the task `_run`/`_run_ball`, `request_player_add`, `ball_drained`, `end_ball`, `end_game` | queue and relay events, modes |
| Ball devices | `devices/ball_device/*.py` | counted balls, available balls, incoming balls, eject queue, eject trackers | count, eject, confirm, time out, lose, return | each other, playfields, ball controller |
| Playfield, ball controller | `devices/playfield.py`, `core/ball_controller.py` | balls on the playfield, requested balls | add, remove, `collect_balls` | devices, game |
| Ball features | `devices/ball_save.py`, `multiball.py`, `multiball_lock.py`, `ball_hold.py`, `core/ball_search.py`, `modes/tilt` | counters of balls they owe or hold, timers | claim a drained ball, add or release balls | relay event `ball_drain`, game |
| Switches | `core/switch_controller.py`, `devices/switch.py` | switch states, handlers, timed handlers, ignore windows | state change, add, remove, fire timed, wait | platforms, every part |
| Combo switches | `devices/combo_switch.py` | times since which two groups are active, state, named delays | press, release, mode end | switches, delays, events |
| Files | `core/data_manager.py`, `core/file_manager.py` | data, a dirty flag and a thread for each file, one busy flag for all | save, write, shut down, load | machine variables, high scores, earnings, audits |
| Delays and timers | `core/delays.py`, `devices/timer.py` | pending calls, ticks | add, reset, remove, run now, pause, jump | every part |
| Counters, logic blocks, shots, achievements, drop targets, diverters ... | `devices/*.py` | per player or machine state | event handlers | events, delays |
| Ports | platforms, BCP, DMX, serial drivers | hardware state | I/O | - |
| Presentation | lights, shows, segment displays, config players | layers, running shows | play, stop | - |
| Start-up | config loader and validator, assets, device manager | configuration | load once | - |

What makes each part correct:

* **Event loop** - no posting lost or handled twice; the events an event causes
  are handled before older ones; a callback waits for all events; the loop never
  sleeps with work left.
* **Event handlers** - priority order, a removed handler is not called, a boolean
  event stops at the first refusal, a queue event's callback comes once, after
  every wait is released.
* **Modes** - start and stop alternate, a stopped mode leaves nothing registered,
  every `starting` is followed by `started`, every stop request has an effect.
* **Game** - turns rotate, each player plays each ball, no more players than the
  limit, a ball ends when the last ball in play drains, a game that ends stops.
* **Ball devices** - balls are conserved between counts, available balls and
  incoming balls; one eject at a time from a device; a lost ball is claimed once;
  every eject is confirmed, retried or given up.
* **Ball features** - `balls_in_play` is what is really in play; a ball starts with
  nothing of the last one; every wait for balls on `ball_ending` comes to an end.
* **Files** - a file is whole at any time, never goes back, and holds in the end
  what was saved.
* **Delays, switches** - a removed delay does not fire; a timed switch handler
  fires once per activation and not after deactivation; a combo is only reported
  while both groups are held.

Hazards are listed in `PROJECT.json`, each at its line with the properties that
would catch it, or with a note where no property does yet.

## 2. How the modules fit together

```
EventAgenda   <--refines--  EventQueue  <--proved about--  EventQueueProofs
     |  (instance)
     +--> EventHandlers  <--proved about--  EventHandlersProofs    handlers, queue events, tasks
     |        (refines EventAgenda)
     +--> EventLoop  --extended by-->  ModeLifecycle  <--proved about--  ModeLifecycleProofs
GameFlow      <--proved about--  GameProofs            the task of the game
BallsInPlay   <--proved about--  GameProofs            saves, multiball, hold, lock, tilt and game
BallDevices   <--proved about--  BallDevicesProofs     counting and ejecting, trough to playfield
Switches      <--proved about--  SwitchesProofs        handlers of a switch
ComboSwitch   <--proved about--  ComboSwitchProofs     two groups of switches
DataManagers  <--proved about--  DataManagersProofs    files
```

`EventQueue` models the loop of `EventManager` with the code's own queues.
`EventAgenda` is what the loop promises: one agenda, in which what an event
causes comes right after it and before what already waited, and a stack of
callbacks that are called when no event is left.  `EventQueue` implements it
(`ImplementsAgenda`); the modules above use the agenda instead of the four
queues.  `EventLoop` states the agenda as operators on named variables, so that
`ModeLifecycle` can say "post this event" in an action of its own.  `GameFlow`
needs no agenda: the game's task waits for one event at a time, and what matters
is what others do while it waits.

### EventQueue (`core/events.py` 640-669, 777-862)

| TLA+ | Code |
|---|---|
| `event_queue`, `callback_queue` | the attributes |
| `next_queue`, `inner_queue` | the locals of `process_event_queue` |
| `pc`, `current` | where that method stands, and for which posting user code runs |
| `scheduled` | `call_soon()`s on their way |
| `status` | history of every posting |
| `Post(e, handled)` | `_post`, from a handler, a callback or outside; `handled` is whether `registered_handlers` has the event |
| `TakeQueue`, `PopEvent`, `Refill`, `PushAside` | the inner `while` |
| `TakeCallbacks`, `PopCallback`, `SkipCallbacks`, `CallbackReturns` | the callback stack |
| `HandToTask`, `PushCallback`, `NoCallback` | the ends of `_process_event` and `_process_queue_event` |

Handlers are not modelled here: while user code runs it may post any postings
that were not made yet.

### EventHandlers (`core/events.py` 100-480, 671-775, 865-909)

Looks inside: `registered_handlers` sorted by priority, the snapshot a dispatch
works on, boolean events that stop at the first `False`, relay events that hand
a value on, blocking (`_min_priority`, one entry for all handlers and one for each
facility), kwargs of handler and event, and queue events, each with a task that
calls the handlers one by one and sleeps between two of them while a handler's wait
is not cleared.  Handlers are added and removed at any point where user code runs.

A `QueuedEvent` is an object of its own (`Queue`): a task makes one for each handler
it calls, unless the posting came with one in its kwargs (`given`), as the events do
that a mode posts while it starts.  `waiter` says whether somebody has waited on a
queue, and `sleeper` whose task sleeps on its `asyncio.Event`; a second task that
goes to sleep on the queue takes the place of the first (`events.py:711`).

### ModeLifecycle (`core/mode.py`, `core/async_mode.py`)

One chain of events per mode: `Start` posts the queue event *starting*,
`ModeStarted` (`_started`) posts *started*, `ModeStartHook` calls `mode_start()`;
`Stop`, `ModeStopped` and `ModeStopHook`/`CleanUp`/`StopAnswered` likewise
(`_stopped`, `_mode_stopped_callback`).  `equipped` stands for the handlers and
devices of a mode, `delayed` for a pending delay, `hooked` for "mode_start() was
called and mode_stop() was not", `main_task` and `ended` for the task of an
`AsyncMode` and its done callbacks under way.  Between the links other handlers
start and stop modes (`Environment`).  `wait_queue` is the queue a mode with
`use_wait_queue` holds from its start to its end; `Start` posts *starting* with the
same queue, so that handlers of *starting* can be kept waiting for the mode itself
(`SharedQueue`).  `LoseQueueEvent` is a queue event whose callback never comes.
`early` is history: the mode was stopped before its `mode_start()`.

### GameFlow (`modes/game/code/game.py`, `modes/tilt/code/tilt.py`)

`pc` names the event the game's task waits for; one action leads to the next
wait and does all the code does in between.  `request_player_add`, its callback
and the end of `player_adding` are actions of their own, since other code runs
between them; so are drains, multiballs, extra balls, `end_ball`, `end_game`,
slam tilts and the stop of the mode.  `loose` counts the balls on the playfield
or on their way to it.  The task moves in iterations of asyncio and a request
with its callback is handled within one pass of the event loop, so the task
never moves while a request is under way (`At`).  `crowd` is history: the most
requests that were under way when one more got past the limit.

### BallsInPlay (`ball_save.py`, `multiball.py`, `ball_hold.py`, `multiball_lock.py`, `tilt.py`, `game.py`)

`GameFlow` says when a ball ends; `BallsInPlay` says what counts as a ball.  It
composes one save, one multiball, one hold, one lock and the tilt with the task
of the game over the relay event `ball_drain`, whose handlers take balls by
priority: `EarlySavedDrains` (1001), `SavedByBallSave` and `SavedByMultiball`
(1000), then in `HandlersOfTheRest` the game (20) and the hold, lock and
multiball (1), while the tilt (`Collected`) hears of each ball that enters the
drain.  `phase` is where `Game._run_ball` stands and which handler of
`ball_ending` it waits for: `HoldIsEmpty`, `EmptyLock`/`LockIsEmpty`,
`StopModes`, `EndTilted`.  `conf` is a configuration that `BallsInit` chooses and
nothing changes.  A multiball may add balls when all that the machine knows are in
play: the target goes up, `balls_in_play` stays at its cap (`game.py:238`), and
`excess` keeps count of them.  `on_playfield` and `coming` are balls on the playfield and balls
requested for it.

### BallDevices (`devices/ball_device/*.py`, `devices/playfield.py`)

A chain of devices, the first of which is the trough.  Each has a count task
(`counting`, `BeginCount` ... `IdleBallLost`), the wait for a ball inside the
eject task (`waiter`, `NoteBalls` ... `WaiterArrival`) and the eject task itself
(`pc`, `TakeRequest` ... `EndEject`).  `Settle`, `RollIn`, `Arrive`, `Enter`,
`FallBack`, `GoAstray` and `Vanish` are what balls and ball switches do.  The
books are the attributes of the code: `ball_count`, `available_balls`,
`awaited` (incoming balls that may time out), `playfield_balls`,
`num_balls_requested`.

### Switches, ComboSwitch (`core/switch_controller.py`, `devices/switch.py`, `devices/combo_switch.py`, `core/delays.py`)

`Switches` is one switch and all its handlers.  `calling` and `keys` are the
copies of the lists that the code walks through; while `open`, the callback that
is being called adds and removes handlers.  `due` and `called` are history: when
a handler has to be called, and how often it was.  `ComboSwitch` is the device
on two groups of switches: six named delays (`delays`) race presses, releases,
each other and the end of the device's mode.

### DataManagers (`core/data_manager.py`, `core/file_manager.py`)

The only part with threads.  A step of `pc` is a step of `_writing_thread` or of
`FileManager.save`; the main thread sets `data` and the dirty flag in two steps,
since a thread may look in between, or, for the managers of `Live`, changes the
object it has handed over and then saves it.  A copy of such an object may raise
(`CopyFails`), which ends the thread.  `Exit` ends the process anywhere;
`Restart` loads the files.

## 3. What is checked

### Passing runs

| Run | Bounds | What it shows |
|---|---|---|
| `EventQueue` | 5 postings: two queue events, one with callback, two without | No posting is lost or repeated (`ExactlyOnce`), the loop never sleeps with work (`NoLostWakeup`), the agenda is implemented (`ImplementsAgenda`), every accepted posting is handled (`EventuallyHandled`) |
| `EventHandlers_dispatch` | a boolean and a relay event, 3 handlers with priorities 1, 0, 0, two of them in a facility, one with a value of its own | Priority order, and nobody called after a refusal (`CalledInOrder`), while handlers come and go |
| `EventHandlers_queue` | 2 queue events, which may have each other's queues in their kwargs, 2 handlers | One callback at most and after all waits (`AnsweredOnce`, `AnswerAfterWaits`), and one for every queue event unless `stop()` cancels it (`QueueEventsEnd`) |
| `ModeLifecycle` | 2 modes, 2 starts each, one caller of `stop()` with a callback; one mode has a task and is stopped at any time, the queue events of the other may be lost or wait for the mode itself | What is active is equipped (`ActiveIsEquipped`), what is not leaves nothing behind (`NothingLeftBehind`), the mode's code stays inside the mode unless it was stopped early (`CodeOnlyInMode`), stop callbacks come after the stop (`AnsweredAfterStop`); starts and stops whose event is not lost end, and who asked is told (`RequestsEnd`) |
| `GameFlow` | 3 players at most, 2 balls each, 2 balls in the machine, 2 requests at a time, 2 extra balls or multiballs | Everybody gets the balls due and in turn (`TurnsInOrder`, `EverybodyPlayed`), no more players than the limit and those who asked together (`PlayersWithinMax`), drains count for the right ball (`BallsCounted`), the game ends (`GameEnds`) |
| `BallDevices` | a trough for 2 balls and a launcher for 1, 2 balls, ejects confirmed by an event, 1 mishap | What a device has, is promised and owes add up to `available_balls` (`BooksBalance`), no ball is lost from the books or in them twice (`BallsConserved`), and once all is quiet they are true (`QuietBooksAreTrue`) |
| `BallDevices_live` | the same devices, 1 ball, ejects confirmed by their target, 1 mishap, 1 request waiting | No device waits in front of a target with room (`NoSleepWithRoom`), every eject ends (`EjectsEnd`) |
| `Switches` | an immediate handler, one of 1 s, a waiter of 2 s, a window of 2 s, 4 s, changes reported up to 1 s late | Only registered handlers are called, and only after their time (`CalledRightly`); what is due is called, once (`NoneForgotten`), and events tell the state (`EventsMatchState`) |
| `ComboSwitch` | 2 switches in each group, hold 2, release 1, offset 1, 8 ticks | "both" only while both are held (`BothMeansBoth`); in quiet, the state tells the switches (`QuietStateIsTrue`) |
| `BallsInPlay` | 3 balls, a save of 1, a multiball of 2 that may grow to 4 and by 1 ball beyond those there are, a hold of 1, a lock of 2, 4 configurations | `balls_in_play` is what is in play, but for balls added beyond those there are (`InPlayMatches`), a ball starts with nothing of the last (`EachBallStartsClean`), and each is followed by the next or the end of the game (`EndsAndGoesOn`) |
| `DataManagers` | 2 managers, one with a live client, 2 versions each, 1 error, 1 restart | Files are whole and go forward (`FilesGoForward`), what is saved gets written, if no write has failed and no copy has ended the thread (`SavesGetWritten`) |

Why the bounds are enough.  Five postings give a nesting of depth three with a
posting waiting at every level, which is where `inner_queue` holds two queues.
Three handlers have a tie and an order; two queue events have all overlaps of
two tasks, and a queue that one makes and both use.  Two starts of a mode are one that follows another, and the second
mode is there to be started and stopped from inside the first one's handlers, and goes on
when the first one's events are lost.
Three players have a first, a middle and a last one, and two balls a ball that
is not the last.  One mishap of a ball meets every stage of an eject, and a
second one during it is what `Unusual` is for; a trough for two and two balls
give a queue of ejects and a target that is full, and `Capacity` <<2, 2>> passes
as well (1.1 million states).  Times of 1 and 2 seconds in 4 give a handler that
is due while another waits, and a change between them.  A hold of 2 and a
release of 1 in 8 ticks let every delay of a combo meet two presses of the other
group.  Three balls are one in play, one that is owed and one in a device.  The
four configurations of `BallsInPlay` have each way in which a saved ball comes
back, devices of a mode and of the machine, a lock that is emptied, and a tilt
that settles.  A target of 4 with 3 balls is one more than there are.  The proofs
below do away with the bounds for the safety of every module.

`GameFlow` is checked with games that wait for empty playfields before a ball
(`WaitForEmpty`), which is the default.  Without the wait the balls of
all turns pile up and the states are too many for a run; the proofs cover both.

### What the passing runs leave out

Where the code breaks a property only in an order of calls that can be told
apart, a constant lets that order in, and the passing runs leave it out.  TLC refutes
each of the following:

| Constant | Property | What happens |
|---|---|---|
| `Unusual` "early_removal" (`EventHandlers`) | `QueueEventsEnd` | The last handler of a queue event goes between the event's turn and its task's first step: the task returns without the callback (`events.py:678`) |
| "shared_wait" | `QueueEventsEnd` | Two tasks sleep on one queue: the second replaces the `asyncio.Event` of the first, which sleeps for ever although every wait is cleared (`events.py:711`) |
| `EarlyStart` (`ModeLifecycle`) | `ActiveIsEquipped` | A mode started again by a handler of `mode_X_stopped` loses its handlers to the clean-up of the run before (`mode.py:382`) |
| | `EndedByOwnTask` | The done callback of the last run's task stops the run after it (`async_mode.py:53`) |
| `LateControl` | `NothingLeftBehind` | A delayed control event during the stop leaves a delay behind |
| `Unusual` "late_join" (`GameFlow`) | `BallsWithinGame` | A player who joins while the only player's second turn starts gives that player a ball too many |
| "overtaking" | `TurnsInOrder` | A second player who is added before the first |
| `Unusual` "two_gone", "double_entry", "midway", "unpicked", "both" (`BallDevices`) | `BooksBalance` | Two balls leave at once; a ball enters while `wait_for_ball` handles another; an eject is cancelled meanwhile; a ball is given up before its request is picked up; a ball arrives and another enters its source |
| "late_look", with 2 mishaps | `BooksBalance` | The trough counts new balls while `wait_for_ball` waits, and one of them leaves again before that task looks: it sets the count to what is left, and nobody claims the ball (`ball_count_handler.py:145`) |
| `ByEvent` = {1} | `NoSleepWithRoom`, `EjectsEnd` | A ball given up changes what a target expects, and nobody wakes the source that waits for a change of the count (`ball_count_handler.py:171`) |
| `Unusual` "readd" (`Switches`) | `NoneForgotten` | A timed handler added from a timed callback, while a later one is pending, replaces the scheduled call |
| "twice", `Wrapped` | `CalledRightly` | One of two equal handlers, or a handler added with `return_info` or keyword arguments, is not removed from the timed ones |
| none (`ComboSwitch`) | `InactiveMeansNone` | A short touch of one group posts the event for an inactive combo while the other is held (`combo_switch.py:227`) |
| | `OnlyMeansOnly` | The delay of the event for one group outlives its release |
| `ModeEnds` = "any" | `QuietStateIsTrue` | The mode ends while a group is held, and the state stays |
| `Irregular` "tilt_between" (`BallsInPlay`) | `EachBallStartsClean` | A tilt between two balls: the end of the ball is forgotten, the ball is played tilted (`game.py:107`) |
| "tilt_inside", "tilt_early" | `EndsAndGoesOn` | A ball that was held, or not served yet, drains as well: `_balls_to_collect` is -1, `not self._balls_to_collect` is false, and nobody clears the wait (`tilt.py:223`) |
| "reenable" | `InPlayMatches` | `enable()` resets `early_saved` while the early ball is still out (`ball_save.py:76`) |
| "late_events" | `InPlayMatches`, `EndsAndGoesOn` | A multiball or a save started by an event after the ball has ended |
| "end_delayed" | `InPlayMatches`, `EachBallStartsClean` | An eject delay survives the ball's end, which comes early after a multiball added a ball that is not counted |
| a hold in a mode | `EndsAndGoesOn` | The ball is held again during `ball_ending` and never released |
| | `InPlayMatches` | The mode stops without releasing its balls, and the next ball starts with them |
| a save of the machine that waits for an event | `InPlayMatches` | No mode stops that would eject the scheduled balls, and they come during the next ball |
| a multiball of the machine | `EachBallStartsClean` | `reset()` leaves handlers, the delay and the target |

Besides, a save that waits for an event, together with a hold or a lock that is
emptied, waits for ever: the early save takes the ball that the hold waits for,
while its replacement comes only when the mode stops, after the wait.

Other orders are in the passing runs, whose properties make an exception for them.
Without the exception TLC refutes the property, which a comment or a docstring
states:

| Property | Stated in | What the code does | What the run claims instead |
|---|---|---|---|
| `EventKwargsWin` (`EventHandlers`) | "If there's a conflict, the event-level ones will win" (`events.py:155`) | A handler's own keyword arguments override the event's (`events.py:733`) | - |
| `HooksInOrder` (`ModeLifecycle`) | `mode_start()` is "called whenever this mode starts" (`mode.py:564`), `mode_stop()` "whenever this mode stops" (567) | A stop by a handler of `mode_X_started` runs its whole chain before `mode_start()`, which is then called in a mode that is over (`mode.py:252`) | `CodeOnlyInMode`: nothing else has that effect |
| `StartsEnd` without its exceptions | "The mode will not fully start until the queue is cleared" (`mode.py:231-234`), which no handler has taken | With `use_wait_queue` and a handler of `mode_X_starting`, the event waits for the queue that the mode itself holds until it ends, and the mode never becomes active (`mode.py:227`) | `RequestsEnd`: every other start and stop ends |
| `NeverOverMax` (`GameFlow`) | "the current number of players must be less than the max number allowed" (`game.py:526`) | Two requests for the last place in one pass both get it (`game.py:551`) | `PlayersWithinMax`: no more than those who asked together |
| `CalledMeansDue` (`Switches`) | "if the switch has been in this state for less time than the ms registered" (`switch_controller.py:570-577`) | A timed handler added when its time has passed is scheduled and called all the same, since seconds are compared with milliseconds (`switch_controller.py:580`) | `CalledRightly`, `NoneForgotten`: none is called before its time or forgotten |
| `HoldsCurrentNumber` (`BallsInPlay`) | "Property which holds the current number of balls in play" (`game.py:220`) | A multiball adds a ball while all balls are in play: it is requested, but `balls_in_play` does not count it (`game.py:238`) | `InPlayMatches`: the number is short by these |
| `TriggeredWritesBegin` (`DataManagers`) | "Otherwise this thread will die and all subsequent write attempts will no-op" (`data_manager.py:132-134`) | The copy raises because the client goes on changing the data; it stands outside of the `try`, and the thread is gone (`data_manager.py:128`). Or the writer fails: `is_busy` stays up, and every thread waits for it (`file_manager.py:131`) | `SavesGetWritten`: every other save is written |
| `OneWriterAtATime` | "Set a flag to prevent multiple data writes concurrently" (`file_manager.py:115`) | Two threads look at the flag before either sets it (`data_manager.py:124`) | `FilesGoForward`: the files come to no harm |

### The run that ends in a counterexample

`DataManagers_shutdown`: `LastSaveWritten`, "if dirty write data one last time during
shutdown" (`data_manager.py:140`).  The thread drops its copy after every write, so that
the condition for a last write is never true (line 141): what was saved within the last
wait is lost.

`CHECK_DEADLOCK FALSE` stands in the configurations whose system may really
stop: all postings were made, the machine was shut down, no start or version is
left, the clock is at its bound, or the game waits for a player whom nobody lets
in.  `BallsInPlay` is checked for deadlock.

### Fairness

* `EventQueue`: the callbacks that `call_soon()` scheduled are run, and handlers
  and callbacks return (they are plain functions).
* `EventHandlers`: besides that, asyncio runs every task, and whoever called
  `wait()` on a queue calls `clear()` one day.  The code cannot enforce the
  latter; it is what every user of `wait()` owes.
* `ModeLifecycle`: the loop runs, and a queue event that is neither lost nor waits for
  its own mode comes to its end.  The code does not guarantee that no event is lost
  ("early_removal" and "shared_wait" above), so `LoseQueueEvent` may drop one at any time
  and `RequestsEnd` exempts the request it belonged to: the modes themselves keep nobody
  waiting.  Timers and starts are not fair: nobody has to start a mode.
* `GameFlow`: events are handled and every loose ball drains.  Fairness of the
  task is strong, since requests to join hold it up for a pass of the event loop
  again and again, and `[]<>(requests = 0)` says that passes end.

* `BallDevices`: tasks run, ball switches settle, flying balls come down
  somewhere, an incoming ball times out.  An eject pulse moves the ball if it is
  repeated often enough, and a ball on the playfield drains if it may often
  enough: these two are strong.
* `BallsInPlay`: the game's task goes on, requested balls arrive, balls drain,
  delays and the settling of the tilt bob come to an end.  No event is fair.
* `DataManagers`: the threads run.

## 4. What is proved

`EventQueueProofs`, for any set of postings and any depth of nesting: `TypeOK`,
`Shape`, `ExactlyOnce`, `NoLostWakeup` and `CallbackAfterEvents`.  The only
assumption is `PostingAssumption` (queue events carry a callback).  The inductive
invariant adds to these that code which runs belongs to a posting (`Running`) and
that stacked callbacks are those of handled events (`Progress`); it is needed
because a posting that is in no queue any more is accounted for only by the code
that runs.  The heart of it is `Shape`: an empty `next_queue` implies an empty
`inner_queue`, and no queue pushed aside is empty, so the inner loop may stop at
an empty `next_queue`.

`FollowsAgenda` is the refinement of `EventAgenda` (`ImplementsAgenda`): every step
maps to a step of the agenda or to none.  It rests on the same invariant, as a
callback may start only when no queue holds anything, and on two lemmas about the
queues pushed aside, laid end to end by `FlattenSeq`: pushing a queue puts its
postings in front of all that waited (`FlattenPush`), and taking the first one up
again changes no order (`FlattenPop`).

`GameProofs`, on the course of a game, for any numbers of players, balls and
requests (`GameAssumption`):

* `TypeCorrect`.  The strengthening `Present` says that requests have room in the
  list and that there is a current player from the first turn on.
* `PlayersWithinMaxHolds`, without any restriction: every request under way has a
  place, or is one of the crowd that asked for the last one together (`Places`).  That
  nobody is added beyond the limit at all (`NeverOverMax`) is refuted by TLC.
* `BallsCountedHolds`: `BallsCounted` (which speaks of games that wait for empty
  playfields before a ball, `WaitForEmpty`) and `LastDrainEndsBall`, without any
  restriction.  `Counted` adds that drains are watched exactly while a ball is
  played.
* `TurnsHold`: `TurnsInOrder`, `BallsWithinGame` and `EverybodyPlayed`, if nobody
  joins between two turns or overtakes.  The invariant `Turns` gives the ball of
  every player in terms of the current player's, at each stage of a turn;
  `Joinable` says that requests were made before anybody's second ball, which is
  what makes a new player's 0 fit; `Endings` says who set `ending`.

`GameProofs`, on the balls in play, for any numbers of balls, places and balls to
save and any configurations (`BallsAssumption`).  Each invariant needs the one before:

* `BallsTypesHold` (`BallsTypeOK`), without any restriction: late events, holds of modes
  and tilts at any time included.  `Bounds` says why the numbers stay in range.
  What is on the playfield, held and locked is no more than the machine has
  (`Fits`); while the mode may run `balls_in_play` is one or within the multiball's
  target (`Counts`), which is not bounded by the balls of the machine; and what a hold has released has drained before the next thing
  is released (`Holds`).
* `InPlayHolds` (`InPlayMatches`), if `Ordered`: no hold belongs to a mode, a save
  that waits for an event belongs to one, and `Irregular` has none of "late_events",
  "reenable" and "end_delayed".  TLC refutes it without any one of the five.  Balls
  that a multiball adds beyond the machine's are in it as `excess`: `balls_in_play` is
  short by exactly these.  The
  property speaks of a ball that is played; `Books` says what is owed in the
  meantime.  `balls_in_play` never exceeds what is owed (`Balanced`), a save owes
  scheduled balls only while its mode runs and delayed ones only while the ball is
  played (`SavesInTime`), so that a ball starts with empty books (`StartsEmpty`).
  A step keeps the balance, adds to both sides, or only gives balls back
  (`OwedMoves`); a drain takes from both sides or brings the ball back (`DrainNet`).
* `StartsCleanHolds` (`EachBallStartsClean`), if `Tidy`: besides, the multiball
  belongs to a mode and `Irregular` has at most "tilt_early" and "tilt_inside".
  `Shots` says that shoot again does not outlive its mode and that a multiball with
  a target has a handler and a ball to wait for, so that its last drain resets it;
  `Waits` that the lock's balls have drained; `Tilts` where a tilt is remembered at
  each stage of the end of a ball.

The runs of `BallsInPlay` have configurations and an `Irregular` that satisfy `Tidy`.

`EventHandlersProofs`, for any handlers, priorities, events and waits
(`HandlersAssumption`):

* `DispatchInOrder`: priority order, and nobody called after a refusal; and
  `NoHandlerTwice`, which no run checks: a dispatch calls no handler twice.  What a
  dispatch has still to call is a sorted copy without repetitions (`Sorted` and
  `remove` keep that, for any list), and everything it has called is before it in
  the order (`Registry`, `InOrder`).
* `OneAnswer` and `AnswersWait`.  A posting is in one place at a time: in the agenda,
  with a task, among the callbacks that wait, running, or answered (`Whereabouts`).
  The task goes on only when the wait of the handler it has called is cleared, and
  of all tasks, handlers and callbacks one runs at a time (`TaskStage`, `Alone`).
* `FollowsAgenda`: `Spec => Agenda!Spec`, step by step.  A dispatch is the step
  *StartEvent*, its end *EndEvent*, and what handlers do to each other is a stutter.

`ModeLifecycleProofs`, for any modes, callers and numbers of starts
(`ModeAssumption`), if a mode is started only after the end of its last run
(`EarlyStart` = {}; the table above says what happens otherwise):

* `ModesInvariant`.  What a mode may do next is decided by its flags and by the link
  of its chain that is on its way, and the properties speak of the flags alone.
  `Stage` relates the two: *starting* is on its way only while the mode starts,
  *stopping* only while it stops, *stopped* only when it is over.  When a link is
  done the flag changes, so the link must not be on its way a second time
  (`Single`: in the agenda, the batch, the callbacks and the tasks together), and
  a callback's end must not drop what waits (`Emptied`).
* `HandlersStay` (`ActiveIsEquipped`) and `AnswersAreTrue` (`AnsweredAfterStop`) from
  that alone, `ModeTidiesUp` (`NothingLeftBehind`) if besides no control event comes
  while the mode stops (`LateControl` = {}).
* `HooksMatch` (`CodeOnlyInMode`), whoever stops a mode and whenever: the only way to
  have `mode_start()` called in a mode that is over is a stop before it.  `Hooks` says
  that `mode_start()` is only to be called (`HookPending`) while the mode is active and
  not stopping, or was stopped early.  None of these needs that queue events end.
* `TypesHold` without any restriction.

`BallDevicesProofs`, for any chain of devices, any capacities, numbers of balls and
mishaps (`BallAssumption`), if balls do none of what `Unusual` lists:

* `BooksInvariant`.  The count task, the wait for a ball, the eject task and the
  balls change the same books, so the invariant says for each stage of each task
  what the books may differ by.  `CountStage`, `WaitStage` and `EjectStage` say who
  holds the lock of the counting and what each task has noted; `Observed` that a
  settled count is true and a count after the trough only lags behind balls that
  came in; `Agreed` that a count which differs from the counter is about to be
  corrected.
* `BooksBalanced` follows from `Balances`: what a place has, and what is promised to
  it, less what it owes, with the stages of an eject at which each of these changes.
* `NoBallForgotten` and `QuietBooks` follow from `Conserved`, a statement on sums over
  all devices: the books, and the places of the balls, each sum up to all balls.
  The lemmas on `SumFunction` at the head of the module (one entry changes, or two)
  carry it from step to step.
* `NobodyOversleeps` (`NoSleepWithRoom`), if ejects are confirmed by their target
  (`ByEvent` = {}).

`DataManagersProofs`, for any number of managers, versions, errors, and restarts
(`DataAssumption`): `TypeCorrect` and `FilesGoForwardAlways`.  The property speaks
of the files alone; the invariant `InOrder` adds that the data is no older than
the file, and that a copy on its way to the file is no older than the file and no
newer than the data.

`ComboSwitchProofs`, for any number of switches, any three times and any bound on
the clock (`ComboAssumption`), if the mode of the device does not end
while the device counts something (`ModeEnds` is not "any"; a mode that does end
then leaves `active` and the state behind):

* `BothMeansBothAlways`.  A group that counts as active is held, by a switch or by
  a release that counts down (`ActiveIsHeld`); that needs what a countdown says of
  the press or the release it began with (`Countdowns`, `Past`).  `BecomesBoth`
  shows that "both" is only entered by activating the second group in time.
* `QuietStateIsTrueAlways`, from the same invariant and `OnComesActive`: a group
  that is on and not yet active counts down to it.

`SwitchesProofs`, for any handlers, times and bounds (`SwitchAssumption`):

* `EventsMatchStateAlways`, without any restriction.  The invariant
  `WindowTellsLast` says that within a window the last event posted is the one that
  opened it, so what `_recycle_passed` compares with is what was told last.
* `TypesHold`, also without any.  `Shape` says how times lie: a time in the table is
  that of some handler since the last change, the time that is handled has passed,
  and the next one that was found has not.
* `CalledRightlyAlways`, if no handler is added twice and those with kwargs are not
  removed (`Plain`).  `Right` adds that all lists are free of repetitions, which
  is what makes removing from a list while it is enumerated safe (`DeletedHas`), that
  a handler still to be looked at is in the table at most once, and at its time.
* `NoneForgottenAlways`, for the usual use (`Unusual` = {}).  `Promise` says where
  what is due is to be found: in the copied list, or in the table at its time, where
  the call in progress has not passed it; and that somebody looks there (`Awaited`).
* `KeptHas` and `DeletedHas` say what the two folds over lists return, for any list.

Only model-checked: liveness (`EventuallyHandled`, `QueueEventsEnd`, `RequestsEnd`,
`GameEnds`, `EjectsEnd`, `EndsAndGoesOn`, `SavesGetWritten`), which needs ENABLED.
The induction theorems of the library take an operator and
cannot be used; where a fact about a recursive definition was needed (sums over devices, lists, queues of queues), it is
proved from the least counterexample in a well-founded order instead.

## 5. What is not modelled

Every component is listed in `PROJECT.json` with its status.  Left out for good:
hardware platforms, BCP's wire format, displays and shows as far as they are
presentation, configuration loading, and tools; these are I/O, text or one-off,
and most of the lines of the repository.  Conditions on events (placeholders) and
player variables are choices of the environment.  Exceptions in handlers end the
program and are not modelled.

Left out of the modelled parts: mechanical and player-controlled ejects, jam
switches, entrance counters, `max_eject_attempts` and several targets
(`BallDevices`); balls added by other means than `multiball`, unlimited saves and
the lock's counting per player (`BallsInPlay`); the reading of all switches at
the start (`Switches`); waits that handlers of other than queue events take on a queue
which their event was posted with, such as `mode_X_will_start` (`EventHandlers`); power
cuts, which may lose what was written, as nothing calls `fsync` (`DataManagers`).

Abstractions worth knowing: in `BallDevices` a ball that enters a device is one step
up to its end (`ReceiveExpected`, `ReceiveUnexpected`), the playfield's decrement
included, although the code awaits in between; and the look whether a ball has left
after a failed eject is that of a trough, which knows its balls.  In `GameFlow` a ball
is added only while one is left to add; the number of balls requested beyond those in
the machine is `BallsInPlay`'s.  `GameFlow` starts a game only when no player of the
last one is still being added; a tilt is there a ball that ends, its wait for
balls is in `BallsInPlay`.  In `BallsInPlay`, what is behind a requested ball is
one step, whose stages are in `BallDevices`.  `ModeLifecycle` has no priorities
and no mode code of its own beyond what it may post.

## 6. Plan

1. An abstract `BallTransfer` (every ball is in one place, on its way, or declared
   lost once) that `BallDevices` implements.
2. `Diverter` (eject counts against queue events it holds) and the counters of
   logic blocks with their timers.
