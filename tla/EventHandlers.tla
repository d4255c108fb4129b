---------------------------- MODULE EventHandlers ----------------------------
(***************************************************************************)
(* The handlers of EventManager (mpf/core/events.py): the registry, the    *)
(* dispatch of an event to its handlers, and the tasks that run the        *)
(* handlers of queue events and wait for them.  The order in which events  *)
(* are taken up is EventAgenda's, which EventQueue implements.             *)
(*                                                                         *)
(* Python code runs one piece at a time: either the event loop is in an    *)
(* event or a callback (running), or one task of a queue event is, or some *)
(* other timer, task or switch handler is.  All of it may post events, add *)
(* and remove handlers, and release the waits of queue events.             *)
(***************************************************************************)
EXTENDS Naturals, Sequences, SequencesExt, FiniteSets

CONSTANTS Posting,       \* calls of post*()
          WithCallback,  \* postings with a callback
          QueueEvents,   \* postings by post_queue()
          BooleanEvents, \* postings by post_boolean()
          Handler,       \* registrations: calls of add_handler()
          Event,         \* names of events
          EventOf,       \* the event of every posting and every handler
          Priority,      \* the priority of every handler
          Facility,      \* names of blocking facilities
          FacilityOf,    \* the blocking_facility of every handler, if any
          RelayEvents,   \* postings by post_relay()
          Value,         \* values of one keyword argument
          OwnValue,      \* its value in the kwargs of add_handler(), if any
          Unusual        \* orders the code allows and that only some runs let in

NoHandler == "no_handler"
NoValue == "no_value"
NoFacility == "no_facility"
All == "all"
NoQueue == <<"no", "queue">>
Nobody == "nobody"

\* "early_removal": the last handler of a queue event is removed after the event's
\*   turn and before its task starts.
\* "shared_wait": a queue is waited for while two queue events that were not answered
\*   yet have it in their kwargs or wait for it.
Orders == {"early_removal", "shared_wait"}

ASSUME HandlersAssumption ==
  /\ WithCallback \subseteq Posting
  /\ QueueEvents \subseteq WithCallback
  /\ BooleanEvents \subseteq Posting \ QueueEvents
  /\ \A x \in Posting \cup Handler : EventOf[x] \in Event
  /\ Priority \in [Handler -> Nat]
  /\ FacilityOf \in [Handler -> Facility \cup {NoFacility}]
  /\ Unusual \subseteq Orders
  /\ Nobody \notin Posting
  /\ RelayEvents \subseteq Posting \ (QueueEvents \cup BooleanEvents)
  /\ OwnValue \in [Handler -> Value \cup {NoValue}]

VARIABLES agenda, batch, callbacks, running, \* see EventAgenda
          registered,   \* self.registered_handlers, by event
          stopped,      \* self._stopped
          active,       \* the handler that runs
          rest,         \* the handlers a posting's dispatch still has to call
          min_priority, \* kwargs['_min_priority'] of a posting, 0 for what is not in it
          kwargs,       \* the keyword argument in the kwargs of a posting
          received,     \* the keyword argument the active handler was called with
          task,         \* the task of a queue event
          given,        \* the queue in the kwargs of a queue event, if any
          using,        \* the queue of a queue event's last handler
          waiter,       \* whose handler has waited on a queue, if waiter is set
          sleeper,      \* whose task sleeps on the event of a queue
          \* History:
          posted,       \* postings made so far
          known,        \* handlers in the order they were added
          called,       \* the handlers a posting's dispatch has called
          refused,      \* boolean postings a handler returned False for
          answers       \* how often the callback of a posting was called

agendaVars == <<agenda, batch, callbacks, running>>
dispatchVars == <<active, rest, min_priority, kwargs, received, called, refused>>
queueVars == <<given, using, waiter, sleeper>>
taskVars == <<task, queueVars>>
registryVars == <<registered, known>>
vars == <<agendaVars, dispatchVars, taskVars, registryVars, stopped, posted, answers>>

Agenda == INSTANCE EventAgenda

\* The QueuedEvents: a task makes one for each handler, if the event has none in its
\* kwargs.
Queue == QueueEvents \X Handler

Init ==
  /\ Agenda!Init
  /\ registered = [ev \in Event |-> <<>>]
  /\ stopped = FALSE
  /\ active = NoHandler
  /\ rest = [p \in Posting |-> <<>>]
  /\ min_priority = [p \in Posting |-> [f \in Facility \cup {All} |-> 0]]
  /\ kwargs = [p \in Posting |-> NoValue]
  /\ received = NoValue
  /\ task = [p \in QueueEvents |-> "none"]
  /\ given = [p \in QueueEvents |-> NoQueue]
  /\ using = [p \in QueueEvents |-> NoQueue]
  /\ waiter = [o \in Queue |-> Nobody]
  /\ sleeper = [o \in Queue |-> Nobody]
  /\ posted = {}
  /\ known = <<>>
  /\ called = [p \in Posting |-> <<>>]
  /\ refused = {}
  /\ answers = [p \in Posting |-> 0]

Handlers(p) == registered[EventOf[p]]

-------------------------------------------------------------------------------
(* What any code may do.                                                    *)

RunningTask == {p \in QueueEvents : task[p] = "running"}

Idle == running = Agenda!Nothing /\ RunningTask = {}

\* A handler, a callback, or other code of the asyncio loop runs.
UserCode ==
  active # NoHandler \/ Idle \/ \E p \in WithCallback : running = Agenda!Callback(p)

\* A handler that a task runs can hand its own queue on in the kwargs of a queue event,
\* as Mode.start does.
MayGive(o) ==
  /\ active # NoHandler
  /\ \E t \in RunningTask : using[t] = o
  /\ waiter[o] = Nobody \/ "shared_wait" \in Unusual

Post(p, v, o) ==
  /\ UserCode
  /\ p \notin posted
  /\ o # NoQueue => p \in QueueEvents /\ MayGive(o)
  /\ posted' = posted \cup {p}
  /\ kwargs' = [kwargs EXCEPT ![p] = v]
  /\ IF stopped \/ (p \notin WithCallback /\ Handlers(p) = <<>>)
     THEN UNCHANGED <<agendaVars, given>>
     ELSE /\ Agenda!PostIdle(p) \/ Agenda!PostNested(p)
          /\ given' = IF p \in QueueEvents THEN [given EXCEPT ![p] = o] ELSE given
  /\ UNCHANGED <<active, rest, min_priority, received, called, refused, task, using,
                 waiter, sleeper, registryVars, stopped, answers>>

\* Mutant of Sorted: the new handler comes before those of its priority.
SortedBefore(hs, h) ==
  LET i == Cardinality({j \in DOMAIN hs : Priority[hs[j]] > Priority[h]})
  IN  InsertAt(hs, i + 1, h)

\* add_handler appends and sorts by priority, highest first; Python's sort keeps
\* the order of equals, so the new handler comes after those of its priority.
Sorted(hs, h) ==
  LET i == Cardinality({j \in DOMAIN hs : Priority[hs[j]] >= Priority[h]})
  IN  InsertAt(hs, i + 1, h)

AddHandler(h) ==
  /\ UserCode
  /\ h \notin ToSet(known)
  /\ known' = Append(known, h)
  /\ registered' = [registered EXCEPT ![EventOf[h]] = Sorted(@, h)]
  /\ UNCHANGED <<agendaVars, dispatchVars, taskVars, stopped, posted, answers>>

\* The task of a queue event is to start and h is the only handler left for it.
Awaited(h) ==
  /\ registered[EventOf[h]] = <<h>>
  /\ \E p \in QueueEvents : task[p] = "created" /\ EventOf[p] = EventOf[h]

\* remove_handler_by_key; the other remove methods call it or remove several.
RemoveHandler(h) ==
  /\ UserCode
  /\ h \in ToSet(registered[EventOf[h]])
  /\ Awaited(h) => "early_removal" \in Unusual
  /\ registered' = [registered EXCEPT ![EventOf[h]] = RemoveFirst(@, h)]
  /\ UNCHANGED <<agendaVars, dispatchVars, taskVars, known, stopped, posted, answers>>

\* Another queue event was given the queue and is not answered yet.
Shared(p, o) ==
  \E q \in QueueEvents \ {p} : given[q] = o /\ answers[q] = 0 /\ task[q] # "cancelled"

\* QueuedEvent.wait, which a handler of a queue event calls while it runs.
Wait(p) ==
  /\ task[p] = "running"
  /\ active # NoHandler
  /\ waiter[using[p]] = Nobody
  /\ Shared(p, using[p]) => "shared_wait" \in Unusual
  /\ waiter' = [waiter EXCEPT ![using[p]] = p]
  /\ UNCHANGED <<agendaVars, dispatchVars, task, given, using, sleeper, registryVars,
                 stopped, posted, answers>>

\* Mutant of Clear: the asyncio event is not set.
ClearSilently(o) ==
  /\ UserCode
  /\ waiter[o] # Nobody
  /\ waiter' = [waiter EXCEPT ![o] = Nobody]
  /\ UNCHANGED <<agendaVars, dispatchVars, task, given, using, sleeper, registryVars,
                 stopped, posted, answers>>

\* QueuedEvent.clear: whoever holds the queue releases the wait, maybe before the
\* handler returns, when no task sleeps yet.  It sets the one event the queue has.
Clear(o) ==
  /\ UserCode
  /\ waiter[o] # Nobody
  /\ waiter' = [waiter EXCEPT ![o] = Nobody]
  /\ sleeper' = [sleeper EXCEPT ![o] = Nobody]
  /\ task' = [p \in QueueEvents |->
                IF p = sleeper[o] /\ task[p] = "waiting" THEN "awake" ELSE task[p]]
  /\ UNCHANGED <<agendaVars, dispatchVars, given, using, registryVars, stopped, posted,
                 answers>>

\* stop() cancels the tasks there are; queued events will still start others.
Stop ==
  /\ Idle
  /\ stopped' = TRUE
  /\ task' = [p \in QueueEvents |->
                IF task[p] \in {"created", "waiting", "awake"} THEN "cancelled" ELSE task[p]]
  /\ UNCHANGED <<agendaVars, dispatchVars, queueVars, registryVars, posted, answers>>

-------------------------------------------------------------------------------
(* Dispatch.                                                                *)

\* _process_event starts on a snapshot of the handlers.
ProcessEvent(p) ==
  /\ p \notin QueueEvents
  /\ rest' = [rest EXCEPT ![p] = Handlers(p)]
  /\ UNCHANGED taskVars

\* _process_queue_event only creates a task, or nothing without handlers.
ProcessQueueEvent(p) ==
  /\ p \in QueueEvents
  /\ task' = IF Handlers(p) # <<>> THEN [task EXCEPT ![p] = "created"] ELSE task
  /\ UNCHANGED <<rest, queueVars>>

StartEvent ==
  /\ Idle
  /\ Agenda!StartEvent
  /\ ProcessEvent(Head(agenda)) \/ ProcessQueueEvent(Head(agenda))
  /\ UNCHANGED <<active, min_priority, kwargs, received, called, refused,
                 registryVars, stopped, posted, answers>>

\* _run_handlers or _run_handlers_sequential is in its for loop.
Dispatching(p) == running = Agenda!Handlers(p) \/ p \in RunningTask

\* Only _run_handlers looks at blocking.
Blocked(p, h) ==
  /\ p \notin QueueEvents
  /\ FacilityOf[h] # NoFacility
  /\ \E f \in {All, FacilityOf[h]} : min_priority[p][f] > Priority[h]

\* A handler that is blocked is skipped, as is one whose condition is false: to
\* the others that is a handler that does nothing.
SkipHandler(p) ==
  /\ Dispatching(p)
  /\ active = NoHandler
  /\ rest[p] # <<>>
  /\ Blocked(p, Head(rest[p]))
  /\ rest' = [rest EXCEPT ![p] = Tail(@)]
  /\ UNCHANGED <<agendaVars, active, min_priority, kwargs, received, called,
                 refused, taskVars, registryVars, stopped, posted, answers>>

\* dict(list(kwargs.items()) + list(handler.kwargs.items())): the last one wins.
Merged(p, h) == IF OwnValue[h] # NoValue THEN OwnValue[h] ELSE kwargs[p]

\* kwargs.pop('queue'), or else a QueuedEvent of the handler's own.
QueueFor(p, h) == IF given[p] # NoQueue THEN given[p] ELSE <<p, h>>

CallHandler(p) ==
  /\ Dispatching(p)
  /\ active = NoHandler
  /\ rest[p] # <<>>
  /\ ~Blocked(p, Head(rest[p]))
  /\ active' = Head(rest[p])
  /\ received' = Merged(p, Head(rest[p]))
  /\ rest' = [rest EXCEPT ![p] = Tail(@)]
  /\ called' = [called EXCEPT ![p] = Append(@, Head(rest[p]))]
  /\ using' = IF p \in QueueEvents
              THEN [using EXCEPT ![p] = QueueFor(p, Head(rest[p]))] ELSE using
  /\ UNCHANGED <<agendaVars, min_priority, kwargs, refused, task, given, waiter, sleeper,
                 registryVars, stopped, posted, answers>>

\* Mutant of Refuse: the type of the event is not asked for.
RefuseAny(p) ==
  /\ p \notin QueueEvents
  /\ rest' = [rest EXCEPT ![p] = <<>>]
  /\ refused' = refused \cup {p}
  /\ UNCHANGED <<min_priority, kwargs, task, sleeper>>

\* A handler of a boolean event returns False: the rest is not called.
Refuse(p) ==
  /\ p \in BooleanEvents
  /\ rest' = [rest EXCEPT ![p] = <<>>]
  /\ refused' = refused \cup {p}
  /\ UNCHANGED <<min_priority, kwargs, task, sleeper>>

\* A handler of a relay event returns a dict, for the handlers after it and the
\* callback.
Relay(p, v) ==
  /\ p \in RelayEvents
  /\ kwargs' = [kwargs EXCEPT ![p] = v]
  /\ UNCHANGED <<rest, refused, min_priority, task, sleeper>>

\* A handler returns a _min_priority: a block_event player for any facility, a shot for
\* its own.  It is at most the handler's priority, and only ever raised.
Block(p, f, n) ==
  /\ p \notin QueueEvents
  /\ n <= Priority[active]
  /\ min_priority' = [min_priority EXCEPT ![p][f] = IF @ < n THEN n ELSE @]
  /\ UNCHANGED <<rest, refused, kwargs, task, sleeper>>

\* Mutant of Sleep: the task does not look for a waiter.
SleepNever(p) ==
  /\ p \in RunningTask
  /\ waiter[using[p]] # Nobody
  /\ UNCHANGED <<rest, refused, min_priority, kwargs, task, sleeper>>

\* The task of a queue event sleeps while there is a waiter, on a new asyncio event that
\* takes the place of the one another task may sleep on.
Sleep(p) ==
  /\ p \in RunningTask
  /\ waiter[using[p]] # Nobody
  /\ sleeper' = [sleeper EXCEPT ![using[p]] = p]
  /\ task' = [task EXCEPT ![p] = "waiting"]
  /\ UNCHANGED <<rest, refused, min_priority, kwargs>>

Proceed(p) ==
  /\ p \in QueueEvents => waiter[using[p]] = Nobody
  /\ UNCHANGED <<rest, refused, min_priority, kwargs, task, sleeper>>

HandlerReturns(p) ==
  /\ Dispatching(p)
  /\ active # NoHandler
  /\ \/ Refuse(p) \/ Sleep(p) \/ Proceed(p)
     \/ \E v \in Value : Relay(p, v)
     \/ \E f \in Facility \cup {All}, n \in 0..Priority[active] : Block(p, f, n)
  /\ active' = NoHandler
  /\ received' = NoValue
  /\ UNCHANGED <<agendaVars, called, given, using, waiter, registryVars, stopped, posted,
                 answers>>

\* Mutant of EndEvent: the callback of a queue event goes on the stack, too.
EndAnyEvent(p) ==
  /\ running = Agenda!Handlers(p)
  /\ active = NoHandler
  /\ rest[p] = <<>>
  /\ Agenda!Return
  /\ callbacks' = IF p \in WithCallback THEN Append(callbacks, p) ELSE callbacks
  /\ UNCHANGED <<dispatchVars, taskVars, registryVars, stopped, posted, answers>>

\* The callback of an event goes on the stack, unless a task will call it.
EndEvent(p) ==
  /\ running = Agenda!Handlers(p)
  /\ active = NoHandler
  /\ rest[p] = <<>>
  /\ Agenda!Return
  /\ callbacks' = IF p \in WithCallback /\ (p \in QueueEvents => task[p] = "none")
                  THEN Append(callbacks, p) ELSE callbacks
  /\ UNCHANGED <<dispatchVars, taskVars, registryVars, stopped, posted, answers>>

StartCallback ==
  /\ Idle
  /\ Agenda!StartCallback
  /\ answers' = [answers EXCEPT ![Last(callbacks)] = @ + 1]
  /\ UNCHANGED <<dispatchVars, taskVars, registryVars, stopped, posted>>

EndCallback ==
  /\ \E p \in WithCallback : running = Agenda!Callback(p)
  /\ Agenda!Return
  /\ UNCHANGED <<callbacks, dispatchVars, taskVars, registryVars, stopped, posted, answers>>

-------------------------------------------------------------------------------
(* The task of a queue event: _run_handlers_sequential.                     *)

\* The task starts in a later iteration of the asyncio loop.
StartTask(p) ==
  /\ Idle
  /\ task[p] = "created"
  /\ IF Handlers(p) = <<>>
     THEN /\ task' = [task EXCEPT ![p] = "done"]
          /\ UNCHANGED rest
     ELSE /\ task' = [task EXCEPT ![p] = "running"]
          /\ rest' = [rest EXCEPT ![p] = Handlers(p)]
  /\ UNCHANGED <<agendaVars, active, min_priority, kwargs, received, called, refused,
                 queueVars, registryVars, stopped, posted, answers>>

ResumeTask(p) ==
  /\ Idle
  /\ task[p] = "awake"
  /\ task' = [task EXCEPT ![p] = "running"]
  /\ UNCHANGED <<agendaVars, dispatchVars, queueVars, registryVars, stopped, posted, answers>>

EndTask(p) ==
  /\ task[p] = "running"
  /\ active = NoHandler
  /\ rest[p] = <<>>
  /\ task' = [task EXCEPT ![p] = "done"]
  /\ answers' = [answers EXCEPT ![p] = @ + 1]
  /\ UNCHANGED <<agendaVars, dispatchVars, queueVars, registryVars, stopped, posted>>

-------------------------------------------------------------------------------
Environment ==
  \/ \E p \in Posting, v \in Value \cup {NoValue}, o \in Queue \cup {NoQueue} : Post(p, v, o)
  \/ \E h \in Handler : AddHandler(h) \/ RemoveHandler(h)
  \/ \E p \in QueueEvents : Wait(p)
  \/ Stop

Dispatch(p) == SkipHandler(p) \/ CallHandler(p) \/ HandlerReturns(p) \/ EndEvent(p)

RunTask(p) == StartTask(p) \/ ResumeTask(p) \/ EndTask(p)

Loop ==
  \/ StartEvent \/ StartCallback \/ EndCallback
  \/ \E p \in Posting : Dispatch(p)

Next ==
  \/ Environment
  \/ Loop
  \/ \E p \in QueueEvents : RunTask(p)
  \/ \E o \in Queue : Clear(o)

Spec == Init /\ [][Next]_vars

\* The loop runs, handlers return, asyncio runs every task, and whoever has waited on a
\* queue releases the wait one day.
Fairness ==
  /\ WF_vars(Loop)
  /\ \A p \in QueueEvents : WF_vars(RunTask(p))
  /\ \A o \in Queue : WF_vars(Clear(o))

FairSpec == Spec /\ Fairness

-------------------------------------------------------------------------------
(* Properties.                                                              *)

TypeOK ==
  /\ agenda \in Seq(Posting) /\ batch \in Seq(Posting)
  /\ callbacks \in Seq(WithCallback)
  /\ registered \in [Event -> Seq(Handler)]
  /\ stopped \in BOOLEAN
  /\ active \in Handler \cup {NoHandler}
  /\ rest \in [Posting -> Seq(Handler)]
  /\ min_priority \in [Posting -> [Facility \cup {All} -> Nat]]
  /\ kwargs \in [Posting -> Value \cup {NoValue}]
  /\ received \in Value \cup {NoValue}
  /\ task \in [QueueEvents ->
                 {"none", "created", "running", "waiting", "awake", "done", "cancelled"}]
  /\ given \in [QueueEvents -> Queue \cup {NoQueue}]
  /\ using \in [QueueEvents -> Queue \cup {NoQueue}]
  /\ waiter \in [Queue -> QueueEvents \cup {Nobody}]
  /\ sleeper \in [Queue -> QueueEvents \cup {Nobody}]
  /\ posted \subseteq Posting
  /\ known \in Seq(Handler)
  /\ called \in [Posting -> Seq(Handler)]
  /\ refused \subseteq BooleanEvents
  /\ answers \in [Posting -> Nat]

\* g comes before h: it has the higher priority, or was added first.
Before(g, h) ==
  \/ Priority[g] > Priority[h]
  \/ /\ Priority[g] = Priority[h]
     /\ \E i, j \in DOMAIN known : i < j /\ known[i] = g /\ known[j] = h

\* One dispatch calls its handlers in the order of their priorities, each at
\* most once, whatever is added or removed in the meantime; and none after one that has
\* returned False to a boolean event.
CalledInOrder ==
  \A p \in Posting :
    /\ \A i, j \in DOMAIN called[p] : i < j => Before(called[p][i], called[p][j])
    /\ p \in refused => rest[p] = <<>>

\* The callback of a posting is called at most once, whichever of the stack and
\* the task calls it.
AnsweredOnce == \A p \in Posting : answers[p] <= 1

\* The callback of a queue event is called only after all waits of its handlers are
\* released and no handler is left to call.
AnswerAfterWaits ==
  [][\A p \in QueueEvents :
       answers'[p] # answers[p] =>
         /\ \A o \in Queue : waiter'[o] # p
         /\ rest'[p] = <<>>]_vars

\* The callback was called, or stop() has cancelled the task.
Ended(p) == answers[p] = 1 \/ task[p] = "cancelled"

\* post_queue's docstring: "Once all the handlers release their waits, the callback is
\* called."  No queue event that was taken up stays without an answer when all waits are
\* released, even one that was posted before stop() and is handled after it.  TLC refutes
\* it for the orders "early_removal" and "shared_wait", which its run leaves out.
QueueEventsEnd ==
  \A p \in QueueEvents : p \in ToSet(agenda \o batch) ~> Ended(p)

\* add_handler's docstring: if the kwargs of a handler and of an event conflict,
\* "the event-level ones will win".  Not claimed by a run: TLC refutes it, the handler's win.
EventKwargsWin ==
  \A p \in Posting :
    Dispatching(p) /\ active # NoHandler /\ kwargs[p] # NoValue => received = kwargs[p]
===============================================================================
