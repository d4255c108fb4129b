---------------------------- MODULE ModeLifecycle ----------------------------
(***************************************************************************)
(* Starting and stopping modes: Mode (mpf/core/mode.py) and AsyncMode      *)
(* (mpf/core/async_mode.py).                                               *)
(*                                                                         *)
(* A start or a stop is a chain of events: start() posts the queue event   *)
(* mode_X_starting, its callback _started posts mode_X_started, and its    *)
(* callback calls mode_start(); likewise for stop().  Any other code runs  *)
(* between the links and may start and stop modes.  The hazard is one      *)
(* chain that begins before another of the same mode is at its end.        *)
(***************************************************************************)
EXTENDS EventLoop, Naturals, FiniteSets

CONSTANTS Mode,
          AsyncMode,    \* the modes with a task of their own
          Caller,       \* those who pass a callback to stop()
          MaxStarts,    \* bound on the starts of a mode
          EarlyStart,   \* modes that may be started before their end is over
          EarlyStop,    \* modes that may be stopped before mode_start()
          LateControl,  \* modes whose control events come while they stop
          SharedQueue,  \* modes that hold the event that starts them while handlers
                        \* of mode_X_starting wait for it
          Lost          \* modes whose queue events may end without the callback

ASSUME ModeAssumption ==
  /\ AsyncMode \subseteq Mode
  /\ EarlyStart \subseteq Mode
  /\ EarlyStop \subseteq Mode
  /\ LateControl \subseteq Mode
  /\ SharedQueue \subseteq Mode
  /\ Lost \subseteq Mode
  /\ MaxStarts \in Nat

VARIABLES starting, active, stopping, \* the flags of every mode
          equipped,       \* event_handlers and mode_devices are installed
          delayed,        \* mode.delay has a delay that has not fired
          stop_callbacks, \* who is told of the end, with the run that was stopped
          wait_queue,     \* _mode_start_wait_queue is held
          main_task,      \* AsyncMode._task
          ended,          \* runs whose task has ended and will call _mode_ended
          machine,        \* running, is_shutting_down, or its stop_future done
          \* History:
          starts,         \* number of the last run of a mode
          stops,          \* number of the last run that has stopped
          hooked,         \* mode_start() was called after the last mode_stop()
          ended_by,       \* run whose task ended the last run, or 0
          early           \* the last stop() came before mode_start()

flagVars == <<starting, active, stopping>>
resourceVars == <<equipped, delayed, stop_callbacks, wait_queue>>
taskVars == <<main_task, ended>>
historyVars == <<starts, stops, hooked, ended_by, early>>
modeVars == <<flagVars, resourceVars, taskVars, machine, historyVars>>
vars == <<loopVars, modeVars>>

Starting(m) == <<"starting", m>>
Started(m) == <<"started", m>>
Stopping(m) == <<"stopping", m>>
Stopped(m) == <<"stopped", m>>
Answers(m) == <<"answers", m>>
\* events_when_started, events_when_stopped and modes_active_modes_changed
News(m) == <<"news", m>>

Init ==
  /\ LoopInit
  /\ starting = [m \in Mode |-> FALSE]
  /\ active = [m \in Mode |-> FALSE]
  /\ stopping = [m \in Mode |-> FALSE]
  /\ equipped = [m \in Mode |-> FALSE]
  /\ delayed = [m \in Mode |-> FALSE]
  /\ stop_callbacks = [m \in Mode |-> <<>>]
  /\ wait_queue = [m \in Mode |-> FALSE]
  /\ main_task = [m \in AsyncMode |-> "none"]
  /\ ended = [m \in AsyncMode |-> {}]
  /\ machine = "running"
  /\ starts = [m \in Mode |-> 0]
  /\ stops = [m \in Mode |-> 0]
  /\ hooked = [m \in Mode |-> FALSE]
  /\ ended_by = [m \in Mode |-> 0]
  /\ early = [m \in Mode |-> FALSE]

\* The loop has the event e, or its callback, still before it or in hand.
Pending(e) ==
  \/ e \in ToSet(agenda) \cup ToSet(batch) \cup ToSet(callbacks) \cup tasks
  \/ running \in {Agenda!Handlers(e), Agenda!Callback(e)}

\* mode_start() of m is still to be called.
HookPending(m) ==
  \/ Started(m) \in ToSet(agenda) \cup ToSet(batch) \cup ToSet(callbacks)
  \/ running = Agenda!Handlers(Started(m))

\* Handlers, hooks of modes and stop callbacks; timers, switches and tasks.
UserCode == running # Agenda!Nothing \/ Idle

\* The run of m before this one is not over: its handlers are still there, or its
\* task has not been heard of.
EndPending(m) == Pending(Stopped(m)) \/ (m \in AsyncMode /\ ended[m] # {})

-------------------------------------------------------------------------------
(* start()                                                                  *)

\* Mutant of Start: an active mode is started once more.
StartActive(m) ==
  /\ UserCode
  /\ starts[m] < MaxStarts
  /\ ~starting[m]
  /\ EndPending(m) => m \in EarlyStart
  /\ starting' = [starting EXCEPT ![m] = TRUE]
  /\ equipped' = [equipped EXCEPT ![m] = TRUE]
  /\ \E held \in BOOLEAN : wait_queue' = [wait_queue EXCEPT ![m] = @ \/ held]
  /\ starts' = [starts EXCEPT ![m] = @ + 1]
  /\ Post(<<Starting(m)>>)
  /\ UNCHANGED <<active, stopping, delayed, stop_callbacks, taskVars,
                 machine, stops, hooked, ended_by, early>>

\* The calls that return early change nothing.  With use_wait_queue the mode holds
\* the queue of the event that starts it, and posts mode_X_starting with this queue.
Start(m) ==
  /\ UserCode
  /\ starts[m] < MaxStarts
  /\ ~active[m] /\ ~starting[m]
  /\ EndPending(m) => m \in EarlyStart
  /\ starting' = [starting EXCEPT ![m] = TRUE]
  /\ equipped' = [equipped EXCEPT ![m] = TRUE]
  /\ \E held \in BOOLEAN : wait_queue' = [wait_queue EXCEPT ![m] = @ \/ held]
  /\ starts' = [starts EXCEPT ![m] = @ + 1]
  /\ Post(<<Starting(m)>>)
  /\ UNCHANGED <<active, stopping, delayed, stop_callbacks, taskVars,
                 machine, stops, hooked, ended_by, early>>

\* AsyncMode creates the task even if Mode._started returned early.
CreateMainTask(m) ==
  main_task' = [n \in AsyncMode |-> IF n = m THEN "running" ELSE main_task[n]]

\* A handler of mode_X_starting that is called with the queue the mode holds leaves
\* the task waiting for it, and the mode lets go of it only at its end.
ModeStarted(m) ==
  /\ Starting(m) \in tasks /\ wait_queue[m] => m \notin SharedQueue
  /\ IF machine # "running"
     THEN QueueCallback(Starting(m), <<>>) /\ UNCHANGED <<active, starting>>
     ELSE /\ QueueCallback(Starting(m), <<News(m), Started(m)>>)
          /\ active' = [active EXCEPT ![m] = TRUE]
          /\ starting' = [starting EXCEPT ![m] = FALSE]
  /\ CreateMainTask(m)
  /\ ended_by' = [ended_by EXCEPT ![m] = 0]
  /\ UNCHANGED <<stopping, resourceVars, ended, machine, starts, stops, hooked, early>>

\* _mode_started_callback calls mode_start() and the start callback.
ModeStartHook(m) ==
  /\ TakeCallback(Started(m))
  /\ hooked' = [hooked EXCEPT ![m] = TRUE]
  /\ UNCHANGED <<flagVars, resourceVars, taskVars, machine, starts, stops, ended_by, early>>

ModeStartHookDone(m) == CallbackDone(Started(m)) /\ UNCHANGED modeVars

-------------------------------------------------------------------------------
(* stop()                                                                   *)

\* Mutant of StopBody: mode_X_stopped does not wait for the queue event.
StopAtOnce(m, callback) ==
  /\ stop_callbacks' = [stop_callbacks EXCEPT ![m] = @ \o callback]
  /\ IF stopping[m]
     THEN UNCHANGED <<stopping, delayed, early, loopVars>>
     ELSE /\ stopping' = [stopping EXCEPT ![m] = TRUE]
          /\ early' = [early EXCEPT ![m] = HookPending(m)]
          /\ delayed' = [delayed EXCEPT ![m] = FALSE]
          /\ Post(<<Stopping(m), Stopped(m)>>)

\* The body of stop() for an active mode.  One that is stopping is only asked
\* to call one more callback.
StopBody(m, callback) ==
  /\ stop_callbacks' = [stop_callbacks EXCEPT ![m] = @ \o callback]
  /\ IF stopping[m]
     THEN UNCHANGED <<stopping, delayed, early, loopVars>>
     ELSE /\ stopping' = [stopping EXCEPT ![m] = TRUE]
          /\ early' = [early EXCEPT ![m] = HookPending(m)]
          /\ delayed' = [delayed EXCEPT ![m] = FALSE]
          /\ Post(<<Stopping(m)>>)

Stop(m, callers) ==
  /\ UserCode
  /\ active[m]
  /\ HookPending(m) => m \in EarlyStop
  /\ StopBody(m, callers)
  /\ UNCHANGED <<starting, active, equipped, wait_queue, taskVars, machine,
                 starts, stops, hooked, ended_by>>

\* The run of m that is stopped is part of the callback's history.  A caller asks
\* once at a time.
StopWithCallback(m, c) ==
  /\ \A i \in DOMAIN stop_callbacks[m] : stop_callbacks[m][i][1] # c
  /\ Stop(m, <<<<c, starts[m]>>>>)

\* _task.cancel() ends a task that still runs; its done callback comes later.
CancelMainTask(m) ==
  /\ main_task' = [n \in AsyncMode |-> IF n = m THEN "none" ELSE main_task[n]]
  /\ ended' = [n \in AsyncMode |-> IF n = m /\ main_task[m] = "running"
                                   THEN ended[n] \cup {starts[m]} ELSE ended[n]]

\* Mutant of ModeStopped: the wait is not released.
StoppedHolding(m) ==
  /\ QueueCallback(Stopping(m), <<News(m), Stopped(m)>>)
  /\ active' = [active EXCEPT ![m] = FALSE]
  /\ stopping' = [stopping EXCEPT ![m] = FALSE]
  /\ UNCHANGED wait_queue
  /\ stops' = [stops EXCEPT ![m] = starts[m]]
  /\ CancelMainTask(m)
  /\ UNCHANGED <<starting, equipped, delayed, stop_callbacks, machine,
                 starts, hooked, ended_by, early>>

\* Mutant of ModeStopped: the flag stays up.
StoppedFlagged(m) ==
  /\ QueueCallback(Stopping(m), <<News(m), Stopped(m)>>)
  /\ active' = [active EXCEPT ![m] = FALSE]
  /\ UNCHANGED stopping
  /\ wait_queue' = [wait_queue EXCEPT ![m] = FALSE]
  /\ stops' = [stops EXCEPT ![m] = starts[m]]
  /\ CancelMainTask(m)
  /\ UNCHANGED <<starting, equipped, delayed, stop_callbacks, machine,
                 starts, hooked, ended_by, early>>

ModeStopped(m) ==
  /\ QueueCallback(Stopping(m), <<News(m), Stopped(m)>>)
  /\ active' = [active EXCEPT ![m] = FALSE]
  /\ stopping' = [stopping EXCEPT ![m] = FALSE]
  /\ wait_queue' = [wait_queue EXCEPT ![m] = FALSE]
  /\ stops' = [stops EXCEPT ![m] = starts[m]]
  /\ CancelMainTask(m)
  /\ UNCHANGED <<starting, equipped, delayed, stop_callbacks, machine,
                 starts, hooked, ended_by, early>>

\* Mutant of ModeStopHook: mode_stop() is not called.
NoStopHook(m) ==
  /\ TakeCallback(Stopped(m))
  /\ UNCHANGED hooked
  /\ UNCHANGED <<flagVars, resourceVars, taskVars, machine, starts, stops, ended_by, early>>

\* _mode_stopped_callback calls mode_stop() first,
ModeStopHook(m) ==
  /\ TakeCallback(Stopped(m))
  /\ hooked' = [hooked EXCEPT ![m] = FALSE]
  /\ UNCHANGED <<flagVars, resourceVars, taskVars, machine, starts, stops, ended_by, early>>

\* then removes handlers and devices and calls the stop callbacks,
CleanUp(m) ==
  /\ running = Agenda!Callback(Stopped(m))
  /\ running' = Agenda!Callback(Answers(m))
  /\ equipped' = [equipped EXCEPT ![m] = FALSE]
  /\ UNCHANGED <<agenda, batch, callbacks, looping, tasks, flagVars, delayed,
                 stop_callbacks, wait_queue, taskVars, machine, historyVars>>

\* and forgets them when all have returned.
StopAnswered(m) ==
  /\ CallbackDone(Answers(m))
  /\ stop_callbacks' = [stop_callbacks EXCEPT ![m] = <<>>]
  /\ UNCHANGED <<flagVars, equipped, delayed, wait_queue, taskVars, machine,
                 historyVars>>

-------------------------------------------------------------------------------
(* The task of an AsyncMode, delays and the shutdown.                       *)

\* The first step of a run's task comes after the loop that the posts of _started
\* have scheduled.
BeforeFirstStep(m, r) == r = starts[m] /\ Pending(Started(m))

\* _run returns by itself.
MainTaskReturns(m) ==
  /\ Idle
  /\ main_task[m] = "running"
  /\ ~BeforeFirstStep(m, starts[m])
  /\ main_task' = [main_task EXCEPT ![m] = "returned"]
  /\ ended' = [ended EXCEPT ![m] = @ \cup {starts[m]}]
  /\ UNCHANGED <<loopVars, flagVars, resourceVars, machine, historyVars>>

\* _mode_ended, the done callback of the task of run r.
ModeEnded(m, r) ==
  /\ Idle
  /\ r \in ended[m]
  /\ ~BeforeFirstStep(m, r)
  /\ ended' = [ended EXCEPT ![m] = @ \ {r}]
  /\ IF active[m]
     THEN /\ StopBody(m, <<>>)
          /\ ended_by' = [ended_by EXCEPT ![m] = IF stopping[m] THEN @ ELSE r]
     ELSE UNCHANGED <<loopVars, stopping, delayed, stop_callbacks, ended_by, early>>
  /\ UNCHANGED <<starting, active, equipped, wait_queue, main_task, machine,
                 starts, stops, hooked>>

\* _control_event_handler, which is one of the mode's handlers.
AddDelay(m) ==
  /\ UserCode
  /\ equipped[m]
  /\ stopping[m] \/ Pending(Stopped(m)) => m \in LateControl
  /\ delayed' = [delayed EXCEPT ![m] = TRUE]
  /\ UNCHANGED <<loopVars, flagVars, equipped, stop_callbacks, wait_queue, taskVars,
                 machine, historyVars>>

DelayFires(m) ==
  /\ Idle
  /\ delayed[m]
  /\ delayed' = [delayed EXCEPT ![m] = FALSE]
  /\ UNCHANGED <<loopVars, flagVars, equipped, stop_callbacks, wait_queue, taskVars,
                 machine, historyVars>>

ShutDown ==
  /\ Idle
  /\ machine = "running"
  /\ machine' = "stopping"
  /\ UNCHANGED <<loopVars, flagVars, resourceVars, taskVars, historyVars>>

\* stop_future is done: _stop_mode_on_machine_stop cancels the tasks there are.
MachineStops ==
  /\ Idle
  /\ machine = "stopping"
  /\ machine' = "stopped"
  /\ main_task' = [m \in AsyncMode |-> "none"]
  /\ ended' = [m \in AsyncMode |-> IF main_task[m] = "running"
                                    THEN ended[m] \cup {starts[m]} ELSE ended[m]]
  /\ UNCHANGED <<loopVars, flagVars, resourceVars, historyVars>>

-------------------------------------------------------------------------------
TakeModeEvent(m) ==
  /\ \/ TakeQueueEvent(Starting(m))
     \/ TakeQueueEvent(Stopping(m))
     \/ TakeEvent(News(m))
     \/ TakeEvent(Started(m))
     \/ TakeEvent(Stopped(m))
  /\ UNCHANGED modeVars

\* Mutant of FinishModeEvent: every event has a callback.
FinishAnyEvent(m) ==
  /\ \E e \in {News(m), Started(m), Stopped(m)} :
       EventDone(e) /\ callbacks' = Append(callbacks, e)
  /\ UNCHANGED modeVars

FinishModeEvent(m) ==
  /\ \/ EventDone(News(m)) /\ UNCHANGED callbacks
     \/ EventDone(Started(m)) /\ callbacks' = Append(callbacks, Started(m))
     \/ EventDone(Stopped(m)) /\ callbacks' = Append(callbacks, Stopped(m))
  /\ UNCHANGED modeVars

Loop ==
  \/ \E m \in Mode : \/ TakeModeEvent(m) \/ FinishModeEvent(m)
                     \/ ModeStartHook(m) \/ ModeStartHookDone(m)
                     \/ ModeStopHook(m) \/ CleanUp(m) \/ StopAnswered(m)
  \/ EndLoop /\ UNCHANGED modeVars

\* The task of a queue event returns at once when the handlers are gone, or sleeps
\* over a queue that another task has taken from it: its callback never comes.
LoseQueueEvent(m) ==
  /\ Idle
  /\ m \in Lost
  /\ \E e \in {Starting(m), Stopping(m)} \cap tasks : tasks' = tasks \ {e}
  /\ UNCHANGED <<agenda, batch, callbacks, running, looping, modeVars>>

QueueDone(m) == ModeStarted(m) \/ ModeStopped(m)

Environment ==
  \/ \E m \in Mode : \/ Start(m) \/ Stop(m, <<>>)
                     \/ AddDelay(m) \/ LoseQueueEvent(m)
                     \/ \E c \in Caller : StopWithCallback(m, c)
  \/ \E m \in AsyncMode : MainTaskReturns(m)
  \/ ShutDown \/ MachineStops

Timers == \E m \in Mode : DelayFires(m)

Next ==
  \/ Loop
  \/ \E m \in Mode : QueueDone(m)
  \/ \E m \in AsyncMode : \E r \in ended[m] : ModeEnded(m, r)
  \/ Timers
  \/ Environment

Spec == Init /\ [][Next]_vars

\* The loop and asyncio go on, and a queue event that is neither lost nor waits for
\* its own mode comes to its end: its handlers let go of it.
Fairness ==
  /\ WF_vars(Loop)
  /\ \A m \in Mode : WF_vars(ModeStarted(m)) /\ WF_vars(ModeStopped(m))

FairSpec == Spec /\ Fairness

-------------------------------------------------------------------------------
(* Properties.                                                              *)

QueueEvent == {"starting", "stopping"} \X Mode
CallbackEvent == QueueEvent \cup {"started", "stopped"} \X Mode
ModeEvent == CallbackEvent \cup {"news"} \X Mode

TypeOK ==
  /\ agenda \in Seq(ModeEvent) /\ batch \in Seq(ModeEvent)
  /\ callbacks \in Seq(CallbackEvent) /\ tasks \subseteq QueueEvent
  /\ looping \in BOOLEAN /\ machine \in {"running", "stopping", "stopped"}
  /\ \A f \in {starting, active, stopping, equipped, delayed, wait_queue, hooked, early} :
       f \in [Mode -> BOOLEAN]
  /\ stop_callbacks \in [Mode -> Seq(Caller \X Nat)]
  /\ main_task \in [AsyncMode -> {"none", "running", "returned"}]
  /\ ended \in [AsyncMode -> SUBSET Nat]
  /\ starts \in [Mode -> 0..MaxStarts]
  /\ stops \in [Mode -> Nat] /\ ended_by \in [Mode -> Nat]

\* An active mode has its handlers and devices (_remove_mode_event_handlers runs
\* at the end of this run, not in the next).
ActiveIsEquipped == \A m \in Mode : active[m] \/ starting[m] => equipped[m]

\* Nothing of a mode that is neither active nor about to be cleaned up is left
\* behind: its handlers, its wait on the event that started it, its task, which
\* "runs as long as the mode is active" (async_mode.py); and no delay outlives the
\* handlers: "all delays scheduled here will be automatically canceled when the mode
\* stops" (mode.py).
NothingLeftBehind ==
  \A m \in Mode : ~starting[m] /\ ~active[m] =>
    /\ ~wait_queue[m]
    /\ equipped[m] => Pending(Stopped(m))
    /\ delayed[m] => equipped[m]
    /\ m \in AsyncMode => main_task[m] = "none" \/ machine # "running"

\* mode_start() is called when the mode becomes active, and mode_stop() after it:
\* the mode's own code is never on in a mode that is over, unless this run or one
\* before it was stopped before its mode_start().
CodeOnlyInMode ==
  \A m \in Mode : hooked[m] => active[m] \/ Pending(Stopped(m)) \/ early[m]

\* mode_start() is called "whenever it becomes active", mode_stop() "whenever this
\* mode stops" (mode.py): the calls come in this order, for each run.  Not
\* claimed by a run: TLC refutes it, with a stop() in a handler of mode_X_started.
HooksInOrder == \A m \in Mode : hooked[m] => active[m] \/ Pending(Stopped(m))

\* A stop callback is called when the run it asked to stop is over.
AnsweredAfterStop ==
  \A m \in Mode : running = Agenda!Callback(Answers(m)) =>
    \A i \in DOMAIN stop_callbacks[m] : stops[m] >= stop_callbacks[m][i][2]

\* The task of an AsyncMode that ends, ends its own run and no later one.  Not claimed
\* by a run: TLC refutes it, the done callback of one run's task stops the next run.
EndedByOwnTask ==
  \A m \in Mode : stopping[m] /\ ended_by[m] # 0 => ended_by[m] = starts[m]

\* The queue event e of m has ended without its callback.
LostEvent(m, e) == m \in Lost /\ ~Pending(e)

\* Every start and stop comes to its end, and who waits for the end is told, but for
\* a start that waits for its own mode and for an event that is lost: with these two
\* the start or stop never ends, and the mode can be neither started nor stopped.
StartsEnd ==
  \A m \in Mode : starting[m] ~> \/ active[m] \/ machine # "running"
                                 \/ m \in SharedQueue /\ wait_queue[m]
                                 \/ starting[m] /\ LostEvent(m, Starting(m))
StopsEnd ==
  \A m \in Mode : stopping[m] \/ stop_callbacks[m] # <<>> ~>
                   \/ ~active[m] /\ ~stopping[m] /\ stop_callbacks[m] = <<>>
                   \/ stopping[m] /\ LostEvent(m, Stopping(m))
RequestsEnd == StartsEnd /\ StopsEnd
===============================================================================
