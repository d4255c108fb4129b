------------------------------ MODULE EventQueue ------------------------------
(***************************************************************************)
(* EventManager._post and EventManager.process_event_queue of              *)
(* mpf/core/events.py: the queue of posted events, the stack of queues     *)
(* that nested postings push aside, the stack of callbacks, and the        *)
(* call_soon() wakeups that run them.                                      *)
(*                                                                         *)
(* A posting is one call of post(), post_boolean(), post_relay() or        *)
(* post_queue().  What its handlers do is the environment's choice: while  *)
(* they (or a callback) run, they may post any number of other postings.   *)
(* EventHandlers looks inside the handlers.                                *)
(***************************************************************************)
EXTENDS Naturals, Sequences, SequencesExt

CONSTANTS Posting,      \* the postings a behaviour may make, each at most once
          WithCallback, \* those that carry a callback
          QueueEvents   \* those of type "queue", which always carry one

ASSUME PostingAssumption ==
  /\ WithCallback \subseteq Posting
  /\ QueueEvents \subseteq WithCallback

VARIABLES event_queue,    \* self.event_queue
          callback_queue, \* self.callback_queue
          next_queue,     \* local next_queue of process_event_queue
          inner_queue,    \* local inner_queue: the queues pushed aside
          pc,             \* where process_event_queue stands
          current,        \* the posting whose handlers or callback run
          scheduled,      \* process_event_queue calls waiting in call_soon()
          stopped,        \* self._stopped
          status          \* history: what became of every posting

queues == <<event_queue, callback_queue, next_queue, inner_queue>>
vars == <<queues, pc, current, scheduled, stopped, status>>

NoPosting == "no_posting"
UserCode == {"handlers", "callback"}
Places == {"idle", "loop", "events", "callbacks"} \cup UserCode

Init ==
  /\ event_queue = <<>>
  /\ callback_queue = <<>>
  /\ next_queue = <<>>
  /\ inner_queue = <<>>
  /\ pc = "idle"
  /\ current = NoPosting
  /\ scheduled = 0
  /\ stopped = FALSE
  /\ status = [e \in Posting |-> "unposted"]

-------------------------------------------------------------------------------
(* Posting.                                                                 *)

\* An event without callback and without registered handler is dropped at once.
Dropped(e, handled) == stopped \/ (e \notin WithCallback /\ ~handled)

\* Mutant of Post: the condition of the wakeup inverted.
PostWakesBusy(e, handled) ==
  /\ pc \in UserCode \cup {"idle"}
  /\ status[e] = "unposted"
  /\ IF Dropped(e, handled)
     THEN /\ status' = [status EXCEPT ![e] = "dropped"]
          /\ UNCHANGED <<event_queue, scheduled>>
     ELSE /\ status' = [status EXCEPT ![e] = "queued"]
          /\ scheduled' = IF event_queue # <<>> THEN scheduled + 1 ELSE scheduled
          /\ event_queue' = Append(event_queue, e)
  /\ UNCHANGED <<callback_queue, next_queue, inner_queue, pc, current, stopped>>

\* _post: queue the event, and wake up the loop if the queue was empty.
\* Any code may post: a handler, a callback, or (pc = "idle") a timer, a task or
\* the hardware platform.  handled: somebody has registered for the event.
Post(e, handled) ==
  /\ pc \in UserCode \cup {"idle"}
  /\ status[e] = "unposted"
  /\ IF Dropped(e, handled)
     THEN /\ status' = [status EXCEPT ![e] = "dropped"]
          /\ UNCHANGED <<event_queue, scheduled>>
     ELSE /\ status' = [status EXCEPT ![e] = "queued"]
          /\ scheduled' = IF event_queue = <<>> THEN scheduled + 1 ELSE scheduled
          /\ event_queue' = Append(event_queue, e)
  /\ UNCHANGED <<callback_queue, next_queue, inner_queue, pc, current, stopped>>

\* EventManager.stop, on shutdown: later postings are dropped, queued ones are
\* not.
Stop ==
  /\ pc = "idle"
  /\ stopped' = TRUE
  /\ UNCHANGED <<queues, pc, current, scheduled, status>>

-------------------------------------------------------------------------------
(* process_event_queue.                                                     *)

\* The asyncio loop runs a process_event_queue that call_soon() asked for.
RunScheduled ==
  /\ pc = "idle"
  /\ scheduled > 0
  /\ scheduled' = scheduled - 1
  /\ pc' = "loop"
  /\ UNCHANGED <<queues, current, stopped, status>>

\* A delay or a timed switch handler has run and drains the queue itself.
RunDirectly ==
  /\ pc = "idle"
  /\ pc' = "loop"
  /\ UNCHANGED <<queues, current, scheduled, stopped, status>>

\* while self.event_queue or self.callback_queue: with events, start on them.
TakeQueue ==
  /\ pc = "loop"
  /\ event_queue # <<>>
  /\ next_queue' = event_queue
  /\ event_queue' = <<>>
  /\ pc' = "events"
  /\ UNCHANGED <<callback_queue, inner_queue, current, scheduled, stopped, status>>

TakeCallbacks ==
  /\ pc = "loop"
  /\ event_queue = <<>>
  /\ callback_queue # <<>>
  /\ pc' = "callbacks"
  /\ UNCHANGED <<queues, current, scheduled, stopped, status>>

Return ==
  /\ pc = "loop"
  /\ event_queue = <<>>
  /\ callback_queue = <<>>
  /\ pc' = "idle"
  /\ UNCHANGED <<queues, current, scheduled, stopped, status>>

\* Mutant of Refill: the queues pushed aside are not taken up again.
RefillNothing(rest) == next_queue' = rest /\ UNCHANGED inner_queue

\* After popping the last event of next_queue, continue with the queue that was
\* pushed aside last.
Refill(rest) ==
  IF rest = <<>> /\ inner_queue # <<>>
  THEN next_queue' = Head(inner_queue) /\ inner_queue' = Tail(inner_queue)
  ELSE next_queue' = rest /\ UNCHANGED inner_queue

PopEvent ==
  /\ pc = "events"
  /\ next_queue # <<>>
  /\ current' = Head(next_queue)
  /\ Refill(Tail(next_queue))
  /\ status' = [status EXCEPT ![Head(next_queue)] = "handled"]
  /\ pc' = "handlers"
  /\ UNCHANGED <<event_queue, callback_queue, scheduled, stopped>>

\* Mutant of PushAside: next_queue is replaced without being pushed aside.
PushAway ==
  /\ UNCHANGED inner_queue
  /\ next_queue' = IF event_queue # <<>> THEN event_queue ELSE next_queue
  /\ event_queue' = <<>>

\* Mutant of PushAside: what the handlers posted goes last.
PushBehind ==
  /\ UNCHANGED inner_queue
  /\ next_queue' = next_queue \o event_queue
  /\ event_queue' = <<>>

\* What the handlers posted goes first: the rest of next_queue is pushed aside.
\* The inner while goes on as long as next_queue is not empty.
PushAside ==
  IF event_queue # <<>>
  THEN /\ inner_queue' = <<next_queue>> \o inner_queue
       /\ next_queue' = event_queue
       /\ event_queue' = <<>>
  ELSE UNCHANGED <<inner_queue, next_queue, event_queue>>

\* Mutant of PushCallback: "if callback" is missing.
PushAnyCallback ==
  /\ callback_queue' = Append(callback_queue, current)
  /\ status' = [status EXCEPT ![current] = "awaiting_callback"]

\* _process_event and the handlerless case of _process_queue_event: the
\* callback goes on the stack.
PushCallback ==
  /\ current \in WithCallback
  /\ callback_queue' = Append(callback_queue, current)
  /\ status' = [status EXCEPT ![current] = "awaiting_callback"]

\* _process_queue_event with handlers: a task will run them and the callback.
HandToTask ==
  /\ current \in QueueEvents
  /\ status' = [status EXCEPT ![current] = "in_task"]
  /\ UNCHANGED callback_queue

NoCallback ==
  /\ current \notin WithCallback
  /\ status' = [status EXCEPT ![current] = "done"]
  /\ UNCHANGED callback_queue

HandlersReturn ==
  /\ pc = "handlers"
  /\ PushCallback \/ HandToTask \/ NoCallback
  /\ PushAside
  /\ current' = NoPosting
  /\ pc' = IF next_queue' # <<>> THEN "events" ELSE "callbacks"
  /\ UNCHANGED <<scheduled, stopped>>

\* Run one callback, the last one, then look for events again.
PopCallback ==
  /\ pc = "callbacks"
  /\ callback_queue # <<>>
  /\ current' = Last(callback_queue)
  /\ callback_queue' = Front(callback_queue)
  /\ pc' = "callback"
  /\ UNCHANGED <<event_queue, next_queue, inner_queue, scheduled, stopped, status>>

SkipCallbacks ==
  /\ pc = "callbacks"
  /\ callback_queue = <<>>
  /\ pc' = "loop"
  /\ UNCHANGED <<queues, current, scheduled, stopped, status>>

CallbackReturns ==
  /\ pc = "callback"
  /\ status' = [status EXCEPT ![current] = "done"]
  /\ current' = NoPosting
  /\ pc' = "loop"
  /\ UNCHANGED <<queues, scheduled, stopped>>

Pass ==
  \/ TakeQueue \/ TakeCallbacks \/ Return
  \/ PopEvent \/ HandlersReturn
  \/ PopCallback \/ SkipCallbacks \/ CallbackReturns

Next ==
  \/ \E e \in Posting, handled \in BOOLEAN : Post(e, handled)
  \/ Stop
  \/ RunScheduled \/ RunDirectly
  \/ Pass

Spec == Init /\ [][Next]_vars

\* call_soon() callbacks are run, and handlers and callbacks return.
Fairness == WF_vars(RunScheduled) /\ WF_vars(Pass)

FairSpec == Spec /\ Fairness

-------------------------------------------------------------------------------
(* Properties.                                                              *)

Queued == {e \in Posting : status[e] = "queued"}

QueueTypes ==
  /\ event_queue \in Seq(Posting)
  /\ callback_queue \in Seq(WithCallback)
  /\ next_queue \in Seq(Posting)
  /\ inner_queue \in Seq(Seq(Posting))

TypeOK ==
  /\ QueueTypes
  /\ pc \in Places
  /\ current \in Posting \cup {NoPosting}
  /\ scheduled \in Nat
  /\ stopped \in BOOLEAN
  /\ status \in [Posting -> {"unposted", "dropped", "queued", "handled",
                             "awaiting_callback", "in_task", "done"}]

\* All the queues a posting can wait in.
Waiting == <<event_queue, next_queue>> \o inner_queue

NoneForgotten ==
  \A e \in Queued :
    \E i \in DOMAIN Waiting : \E j \in DOMAIN Waiting[i] : Waiting[i][j] = e

NoneTwice ==
  \A i, k \in DOMAIN Waiting : \A j \in DOMAIN Waiting[i], l \in DOMAIN Waiting[k] :
    Waiting[i][j] = Waiting[k][l] => i = k /\ j = l

OnlyQueued ==
  \A i \in DOMAIN Waiting : \A j \in DOMAIN Waiting[i] : Waiting[i][j] \in Queued

\* No event is lost or handled twice: a posting that was accepted stays in
\* exactly one place of one queue until its handlers run.  This is about the
\* way process_event_queue moves queues between next_queue, inner_queue and
\* self.event_queue around the handlers' own postings.
ExactlyOnce == NoneForgotten /\ NoneTwice /\ OnlyQueued

\* What process_event_queue relies on about its local queues, between two of its
\* steps.  It never asks whether inner_queue is empty before it leaves the inner
\* while loop: an empty next_queue must already mean that nothing was pushed
\* aside, and only the oldest queue pushed aside may be empty.
Shape ==
  /\ pc \notin {"events", "handlers"} => next_queue = <<>> /\ inner_queue = <<>>
  /\ pc = "events" => next_queue # <<>> /\ event_queue = <<>>
  /\ pc = "callbacks" => event_queue = <<>>
  /\ next_queue = <<>> => inner_queue = <<>>
  /\ \A i \in 1..Len(inner_queue) : i < Len(inner_queue) => inner_queue[i] # <<>>

\* process_event_queue never returns with work left, and no wakeup is lost: a
\* posting that waits while the loop is idle has a call_soon() on its way.
\* _post only asks for one when it finds the queue empty.
NoLostWakeup ==
  pc = "idle" /\ Queued # {} => scheduled > 0

\* A callback runs only when no event waits anywhere, so the events an event
\* caused are complete before its callback sees the result (the comment in
\* process_event_queue promises it).
CallbackAfterEvents ==
  [][pc # "callback" /\ pc' = "callback" => Queued = {}]_vars

\* The queues implement the agenda: nested postings go in front, in the order
\* they were made.
Agenda == INSTANCE EventAgenda WITH
  agenda <- next_queue \o FlattenSeq(inner_queue)
              \o (IF pc \in UserCode THEN <<>> ELSE event_queue),
  batch <- IF pc \in UserCode THEN event_queue ELSE <<>>,
  callbacks <- callback_queue,
  running <- CASE pc = "handlers" -> <<"handlers", current>>
               [] pc = "callback" -> <<"callback", current>>
               [] OTHER -> <<"nothing">>

ImplementsAgenda == Agenda!Spec

\* Every accepted posting is handled and every callback on the stack is called,
\* provided handlers return and the asyncio loop runs what call_soon() holds.
EventuallyHandled ==
  \A e \in Posting : status[e] = "queued" ~> status[e] \in {"in_task", "done"}
===============================================================================
