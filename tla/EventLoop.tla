------------------------------ MODULE EventLoop ------------------------------
(***************************************************************************)
(* The event manager as the code above it sees it: the order of EventAgenda *)
(* for events that come again and again, the loop that is not left before  *)
(* all is done, and the tasks of queue events.  The modules of modes and   *)
(* games say what the handlers and callbacks do.                           *)
(***************************************************************************)
EXTENDS Sequences, SequencesExt

VARIABLES agenda,    \* events waiting, next one first
          batch,     \* events posted by the code that runs now
          callbacks, \* events whose callback waits, most recent last
          running,   \* what runs inside of the loop: handlers or a callback
          looping,   \* process_event_queue is running
          tasks      \* queue events whose handlers run, or wait, in a task

Agenda == INSTANCE EventAgenda WITH Posting <- {}, WithCallback <- {}

loopVars == <<agenda, batch, callbacks, running, looping, tasks>>

LoopInit == Agenda!Init /\ looping = FALSE /\ tasks = {}

\* Nothing but the code of timers, switches and tasks runs.
Idle == running = Agenda!Nothing /\ ~looping

\* What runs now posts the events es, in this order.
Post(es) ==
  /\ IF running = Agenda!Nothing
     THEN agenda' = agenda \o es /\ UNCHANGED batch
     ELSE batch' = batch \o es /\ UNCHANGED agenda
  /\ UNCHANGED <<callbacks, running, looping, tasks>>

\* The loop takes up e: its handlers run.
TakeEvent(e) ==
  /\ Agenda!StartEvent
  /\ running' = Agenda!Handlers(e)
  /\ looping' = TRUE
  /\ UNCHANGED tasks

\* The handlers of e have run.
EventDone(e) ==
  /\ running = Agenda!Handlers(e)
  /\ running' = Agenda!Nothing
  /\ agenda' = batch \o agenda
  /\ batch' = <<>>
  /\ UNCHANGED <<looping, tasks>>

\* A queue event runs nothing in the loop: with handlers it gets a task, which
\* will call its callback; without, the callback waits with the others.
TakeQueueEvent(e) ==
  /\ running = Agenda!Nothing
  /\ agenda # <<>>
  /\ e = Head(agenda)
  /\ agenda' = Tail(agenda)
  /\ looping' = TRUE
  /\ \/ callbacks' = Append(callbacks, e) /\ UNCHANGED tasks
     \/ tasks' = tasks \cup {e} /\ UNCHANGED callbacks
  /\ UNCHANGED <<batch, running>>

\* The loop takes up the callback of e, which runs user code first.
TakeCallback(e) ==
  /\ Agenda!StartCallback
  /\ running' = Agenda!Callback(e)
  /\ looping
  /\ UNCHANGED <<looping, tasks>>

CallbackDone(e) ==
  /\ running = Agenda!Callback(e)
  /\ running' = Agenda!Nothing
  /\ agenda' = batch
  /\ batch' = <<>>
  /\ UNCHANGED <<callbacks, looping, tasks>>

\* The callback of a queue event runs, in the loop or at the end of its task,
\* and posts es.
QueueCallback(e, es) ==
  /\ \/ /\ looping
        /\ running = Agenda!Nothing
        /\ agenda = <<>>
        /\ callbacks # <<>>
        /\ e = Last(callbacks)
        /\ callbacks' = Front(callbacks)
        /\ UNCHANGED tasks
     \/ /\ Idle
        /\ e \in tasks
        /\ tasks' = tasks \ {e}
        /\ UNCHANGED callbacks
  /\ agenda' = agenda \o es
  /\ UNCHANGED <<batch, running, looping>>

\* Nothing is left to do.
EndLoop ==
  /\ looping
  /\ running = Agenda!Nothing
  /\ agenda = <<>>
  /\ callbacks = <<>>
  /\ looping' = FALSE
  /\ UNCHANGED <<agenda, batch, callbacks, running, tasks>>
==============================================================================
