----------------------------- MODULE EventAgenda -----------------------------
(***************************************************************************)
(* What the event manager promises about order, free of how it is done.    *)
(*                                                                         *)
(* There is one agenda.  Code running from the asyncio loop posts at its   *)
(* end.  While an event's handlers or a callback run, what they post is    *)
(* collected in a batch, and the whole batch is put in FRONT of the agenda *)
(* when they return: events caused by an event are finished before any     *)
(* event that was already waiting.  Callbacks are stacked and the most     *)
(* recent one runs, but only when the agenda is empty.                     *)
(***************************************************************************)
EXTENDS Sequences, SequencesExt

CONSTANTS Posting,     \* the calls of EventManager.post*() a behaviour makes
          WithCallback \* the postings that carry a callback

VARIABLES agenda,    \* postings waiting, next one first
          batch,     \* postings made by the code that runs now
          callbacks, \* postings whose callback waits, most recent last
          running    \* <<kind, posting>> while handlers or a callback run

avars == <<agenda, batch, callbacks, running>>

Nothing == <<"nothing">>
Handlers(e) == <<"handlers", e>>
Callback(e) == <<"callback", e>>

Init ==
  /\ agenda = <<>>
  /\ batch = <<>>
  /\ callbacks = <<>>
  /\ running = Nothing

\* Code that the asyncio loop runs directly posts e.
PostIdle(e) ==
  /\ running = Nothing
  /\ agenda' = Append(agenda, e)
  /\ UNCHANGED <<batch, callbacks, running>>

\* A handler or a callback posts e.
PostNested(e) ==
  /\ running # Nothing
  /\ batch' = Append(batch, e)
  /\ UNCHANGED <<agenda, callbacks, running>>

StartEvent ==
  /\ running = Nothing
  /\ agenda # <<>>
  /\ running' = Handlers(Head(agenda))
  /\ agenda' = Tail(agenda)
  /\ UNCHANGED <<batch, callbacks>>

StartCallback ==
  /\ running = Nothing
  /\ agenda = <<>>
  /\ callbacks # <<>>
  /\ running' = Callback(Last(callbacks))
  /\ callbacks' = Front(callbacks)
  /\ UNCHANGED <<agenda, batch>>

\* The running code returns.  Handlers leave their event's callback on the
\* stack, or hand it to the task of a queue event.
Return ==
  /\ running # Nothing
  /\ agenda' = batch \o agenda
  /\ batch' = <<>>
  /\ running' = Nothing
  /\ \/ UNCHANGED callbacks
     \/ \E e \in WithCallback :
          /\ running = Handlers(e)
          /\ callbacks' = Append(callbacks, e)

Next ==
  \/ \E e \in Posting : PostIdle(e) \/ PostNested(e)
  \/ StartEvent
  \/ StartCallback
  \/ Return

Spec == Init /\ [][Next]_avars
=============================================================================
