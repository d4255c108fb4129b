------------------------------- MODULE Switches -------------------------------
(***************************************************************************)
(* One switch of the switch controller (mpf/core/switch_controller.py) and  *)
(* its device (mpf/devices/switch.py): handlers that are called at once or  *)
(* after the switch has kept a state for some time, futures that wait for a *)
(* switch, muting, and the window in which further changes post no events.  *)
(*                                                                         *)
(* The callbacks, and the event handlers that run after timed callbacks,    *)
(* add and remove handlers of the same switch while the controller is in    *)
(* the middle of calling them.                                              *)
(***************************************************************************)
EXTENDS Integers, FiniteSetsExt, SequencesExt

CONSTANTS Handlers,  \* callbacks with the state and the time they ask for
          HState,    \* state of each handler
          Ms,        \* time of each handler in seconds, 0 for an immediate one
          Waiters,   \* handlers of wait_for_any_switch
          Wrapped,   \* handlers added with return_info or kwargs, and removed without
          Window,    \* recycle_secs, 0 for none
          MaxTime,   \* bound on the clock
          MaxLag,    \* bound on the age of a reported change
          Unusual    \* what clients may do besides, see SwitchAssumption

ASSUME SwitchAssumption ==
  /\ HState \in [Handlers -> 0..1]
  /\ Ms \in [Handlers -> Nat]
  /\ Waiters \cup Wrapped \subseteq Handlers
  /\ {Window, MaxTime, MaxLag} \subseteq Nat
  \* "twice": the same handler is added twice; "readd": a timed handler is added
  \* from a timed callback while a later one is pending
  /\ Unusual \subseteq {"twice", "readd"}

None == -200000
Never == -100000

VARIABLES
  now,
  \* the Switch
  state, last_change, muted,
  recycle,     \* recycle_clear_time, which is also the time of the scheduled call
  recycled,    \* the state that started the window
  \* the controller
  registered,  \* registered_switches[switch], both states in one sequence
  active,      \* the switch is in _active_timed_switches
  timed,       \* its entry: from a time to the handlers called then
  delay,       \* _timed_switch_handler_delay: time of the scheduled call
  stray,       \* times of calls still scheduled whose entry was overwritten
  future,      \* of each waiter
  failed,      \* a scheduled call raised KeyError
  \* the call in progress
  pc, open,    \* open: a callback or event handler runs and may call back
  calling,     \* handlers of the copied list still to look at
  keys, key,   \* times still to look at, and the one being handled
  next_event_time,
  \* what was promised and done
  wanted,      \* handlers added and not removed since
  due,         \* when each handler has to be called
  called,      \* calls since it was added or the switch changed
  rightly,     \* every call was in order
  posted,      \* state of the last event
  unheard      \* a change while muted

device == <<state, last_change, muted>>
window == <<recycle, recycled, posted, unheard>>
table == <<registered, active, timed, delay, stray>>
call == <<pc, open, calling, keys, key, next_event_time>>
ghosts == <<wanted, due, called, rightly>>
vars == <<now, device, window, table, future, failed, call, ghosts>>

\* The members of T in the sequence s.
Kept(s, T) == FoldLeft(LAMBDA acc, g : IF g \in T THEN Append(acc, g) ELSE acc, <<>>, s)
Without(s, h) == Kept(s, Handlers \ {h})

TypeOK ==
  /\ now \in 0..MaxTime
  /\ state \in 0..1 /\ last_change \in {Never} \cup -MaxLag..MaxTime /\ muted \in BOOLEAN
  /\ recycle \in {None} \cup (Window - MaxLag)..(Window + MaxTime) /\ recycled \in 0..1
  /\ registered \in Seq(Handlers)
  /\ active \in BOOLEAN
  /\ \A k \in DOMAIN timed : timed[k] \in Seq(Handlers)
  /\ delay \in {None} \cup {last_change + Ms[h] : h \in Handlers}
  /\ future \in [Waiters -> {"none", "pending", "done"}]
  /\ pc \in {"idle", "handlers", "timed", "events"}
  /\ keys \subseteq DOMAIN timed
  /\ key \in {None} \cup DOMAIN timed
  /\ next_event_time \in {None} \cup DOMAIN timed

Init ==
  /\ now = 0 /\ state = 0 /\ last_change = Never /\ muted = FALSE
  /\ recycle = None /\ recycled = 0 /\ posted = 0 /\ unheard = FALSE
  /\ registered = <<>> /\ active = FALSE /\ timed = [k \in {} |-> <<>>]
  /\ delay = None /\ stray = {}
  /\ future = [w \in Waiters |-> "none"] /\ failed = FALSE
  /\ pc = "idle" /\ open = FALSE /\ calling = <<>>
  /\ keys = {} /\ key = None /\ next_event_time = None
  /\ wanted = {} /\ due = [h \in Handlers |-> None]
  /\ called = [h \in Handlers |-> 0] /\ rightly = TRUE

(***************************************************************************)
(* The tables.                                                              *)
(***************************************************************************)
\* _add_timed_switch_handler on the record t of active, timed and delay
AddTimed(t, time, h) ==
  LET entry == IF ~t.active THEN [k \in {time} |-> <<h>>]
               ELSE [k \in DOMAIN t.timed \cup {time} |->
                       (IF k \in DOMAIN t.timed THEN t.timed[k] ELSE <<>>)
                         \o (IF k = time THEN <<h>> ELSE <<>>)]
      first == Min(DOMAIN entry)
  IN  [active |-> TRUE, timed |-> entry,
       delay |-> IF t.delay = None \/ first < t.delay THEN first ELSE t.delay]

Table == [active |-> active, timed |-> timed, delay |-> delay]

SetTable(t) == active' = t.active /\ timed' = t.timed /\ delay' = t.delay

\* the deletion in remove_switch_handler_obj, which enumerates the list it shortens
Deleted(s, h) ==
  FoldLeft(LAMBDA acc, g : IF g = h /\ ~acc.skip
                           THEN [kept |-> acc.kept, skip |-> TRUE]
                           ELSE [kept |-> Append(acc.kept, g), skip |-> FALSE],
           [kept |-> <<>>, skip |-> FALSE], s).kept

InState(h) == state = HState[h] /\ (Ms[h] = 0 \/ Ms[h] <= now - last_change)

\* Mutant of StillCounts: only changes from now on are noticed.
StillCountsNever(h) == FALSE

\* The test for a switch that is already in the state: in the code last_change is in
\* seconds and ms is not, so the time of a handler counts a thousandfold.
StillCounts(h) == Ms[h] # 0 /\ last_change > now - 1000 * Ms[h] /\ state = HState[h]

CanAdd(h) ==
  /\ pc = "idle" \/ open
  /\ h \notin wanted \/ ("twice" \in Unusual /\ Len(registered) < 3)
  /\ \/ "readd" \in Unusual
     \/ pc \notin {"timed", "events"}
     \/ ~StillCounts(h)
     \/ next_event_time = None /\ (\A k \in keys : k <= now)

AddEntry(h) ==
  /\ registered' = Append(registered, h)
  /\ IF StillCounts(h) THEN SetTable(AddTimed(Table, last_change + Ms[h], h))
     ELSE UNCHANGED <<active, timed, delay>>
  /\ wanted' = wanted \cup {h}
  /\ due' = [due EXCEPT ![h] = IF state = HState[h] /\ now - last_change < Ms[h] /\ last_change # Never
                               THEN last_change + Ms[h] ELSE None]
  /\ called' = [called EXCEPT ![h] = 0]
  /\ UNCHANGED <<now, device, window, stray, failed, call, rightly>>

\* add_switch_handler_obj
AddHandler(h) == CanAdd(h) /\ h \notin Waiters /\ AddEntry(h) /\ UNCHANGED future

\* Mutant of RemoveEntries: the timed entries of a handler outlive it.
RemoveRegistered(h) ==
  /\ wanted' = wanted \ {h}
  /\ due' = [due EXCEPT ![h] = None]
  /\ registered' = Without(registered, h)
  /\ UNCHANGED <<now, device, window, active, timed, delay, stray, failed, call, called, rightly>>

RemoveEntries(h) ==
  /\ wanted' = wanted \ {h}
  /\ due' = [due EXCEPT ![h] = None]
  /\ IF h \in Wrapped
     THEN UNCHANGED <<registered, timed, calling>>
     ELSE /\ registered' = Without(registered, h)
          /\ calling' = IF pc = "handlers" THEN Without(calling, h) ELSE calling
          /\ timed' = [k \in DOMAIN timed |-> Deleted(timed[k], h)]
  /\ UNCHANGED <<now, device, window, active, delay, stray, failed, pc, open, keys, key,
                 next_event_time, called, rightly>>

\* remove_switch_handler_obj
RemoveHandler(h) ==
  /\ pc = "idle" \/ open
  /\ h \in wanted \ Waiters
  /\ RemoveEntries(h)
  /\ UNCHANGED future

\* wait_for_any_switch with only_on_change or not
Wait(h) ==
  /\ h \in Waiters /\ future[h] = "none"
  /\ CanAdd(h)
  /\ AddEntry(h)
  /\ future' = [future EXCEPT ![h] = "pending"]

CancelWait(h) ==
  /\ h \in Waiters /\ future[h] = "pending"
  /\ pc = "idle" \/ open
  /\ future' = [future EXCEPT ![h] = "done"]
  /\ UNCHANGED <<now, device, window, table, failed, call, ghosts>>

\* _future_done, called by the loop
FutureDone(h) ==
  /\ h \in Waiters /\ future[h] = "done"
  /\ pc = "idle"
  /\ future' = [future EXCEPT ![h] = "none"]
  /\ RemoveEntries(h)

(***************************************************************************)
(* The switch changes.                                                      *)
(***************************************************************************)
\* _post_events_with_recycle, or _post_events without a window
PostEvents(s, ts, quiet) ==
  IF quiet \/ (Window # 0 /\ recycle # None)
  THEN UNCHANGED <<recycle, recycled, posted>> /\ unheard' = (unheard \/ quiet)
  ELSE /\ posted' = s /\ unheard' = FALSE
       /\ IF Window = 0 THEN UNCHANGED <<recycle, recycled>>
          ELSE /\ recycle' = ts + Window /\ recycled' = s

\* process_switch_obj, with _cancel_timed_handlers, up to the first handler
Change(ts) ==
  /\ pc = "idle" /\ ts >= last_change
  /\ state' = 1 - state /\ last_change' = ts
  /\ active' = FALSE /\ timed' = [k \in {} |-> <<>>]
  /\ delay' = IF active THEN None ELSE delay
  /\ PostEvents(1 - state, ts, muted)
  /\ pc' = IF muted THEN "idle" ELSE "handlers"
  /\ calling' = IF muted THEN <<>> ELSE Kept(registered, {h \in Handlers : HState[h] = 1 - state})
  /\ due' = [h \in Handlers |-> IF HState[h] = 1 - state /\ h \in wanted /\ ~muted
                                THEN ts + Ms[h] ELSE None]
  /\ called' = [h \in Handlers |-> 0]
  /\ UNCHANGED <<now, muted, registered, stray, future, failed, open, keys, key,
                 next_event_time, wanted, rightly>>

\* what a call of h does: the callback of a waiter sets its future
Invoke(h) ==
  /\ called' = [called EXCEPT ![h] = @ + 1]
  /\ rightly' = (rightly /\ h \in wanted /\ InState(h))
  /\ future' = IF h \in Waiters THEN [future EXCEPT ![h] = "done"] ELSE future
  /\ open' = (h \notin Waiters)

Skip == open' = FALSE /\ UNCHANGED <<called, rightly, future>>

\* one round of _call_handlers
CallHandler ==
  /\ pc = "handlers" /\ calling # <<>>
  /\ LET h == Head(calling) IN
       IF Ms[h] # 0
       THEN SetTable(AddTimed(Table, last_change + Ms[h], h)) /\ Skip
       ELSE Invoke(h) /\ UNCHANGED <<active, timed, delay>>
  /\ calling' = Tail(calling)
  /\ UNCHANGED <<now, device, window, registered, stray, failed, pc, keys, key,
                 next_event_time, wanted, due>>

HandlersCalled ==
  /\ pc = "handlers" /\ calling = <<>>
  /\ pc' = "idle" /\ open' = FALSE
  /\ UNCHANGED <<now, device, window, table, future, failed, calling, keys, key,
                 next_event_time, ghosts>>

(***************************************************************************)
(* The scheduled call: _process_active_timed_switches.                      *)
(***************************************************************************)
Scheduled == stray \cup (IF delay = None THEN {} ELSE {delay})

BeginTimed(t) ==
  /\ pc = "idle" /\ t \in Scheduled /\ t <= now /\ ~failed
  /\ IF delay = None \/ ~active
     THEN failed' = TRUE /\ stray' = stray \ {t} /\ UNCHANGED <<delay, pc, keys>>
     ELSE /\ delay' = None
          /\ stray' = IF t = delay THEN stray ELSE (stray \ {t}) \cup {delay}
          /\ pc' = "timed" /\ keys' = DOMAIN timed
          /\ UNCHANGED failed
  /\ next_event_time' = None
  /\ UNCHANGED <<now, device, window, registered, active, timed, future, open, calling, key, ghosts>>

\* the next time of the copied list; the order is that of insertion
TakeKey(k) ==
  /\ pc = "timed" /\ key = None /\ k \in keys
  /\ keys' = keys \ {k}
  /\ open' = FALSE
  /\ IF k <= now
     THEN key' = k /\ calling' = timed[k] /\ UNCHANGED next_event_time
     ELSE /\ next_event_time' = IF next_event_time = None \/ next_event_time > k THEN k
                                ELSE next_event_time
          /\ UNCHANGED <<key, calling>>
  /\ UNCHANGED <<now, device, window, table, future, failed, pc, ghosts>>

CallTimed ==
  /\ pc = "timed" /\ key # None /\ calling # <<>>
  /\ LET h == Head(calling) IN
       IF Contains(timed[key], h) THEN Invoke(h) ELSE Skip
  /\ calling' = Tail(calling)
  /\ UNCHANGED <<now, device, window, table, failed, pc, keys, key, next_event_time, wanted, due>>

\* Mutant of KeyDone: all times that have passed are deleted with the first one.
KeyDoneAll ==
  /\ pc = "timed" /\ key # None /\ calling = <<>>
  /\ timed' = [k \in {t \in DOMAIN timed : t > now} |-> timed[k]]
  /\ key' = None /\ open' = FALSE
  /\ UNCHANGED <<now, device, window, registered, active, delay, stray, future, failed, pc,
                 calling, keys, next_event_time, ghosts>>

KeyDone ==
  /\ pc = "timed" /\ key # None /\ calling = <<>>
  /\ timed' = [k \in DOMAIN timed \ {key} |-> timed[k]]
  /\ key' = None /\ open' = FALSE
  /\ UNCHANGED <<now, device, window, registered, active, delay, stray, future, failed, pc,
                 calling, keys, next_event_time, ghosts>>

\* process_event_queue runs event handlers
RunEvents ==
  /\ pc = "timed" /\ key = None /\ keys = {}
  /\ pc' = "events" /\ open' = TRUE
  /\ UNCHANGED <<now, device, window, table, future, failed, calling, keys, key,
                 next_event_time, ghosts>>

TimedDone ==
  /\ pc = "events"
  /\ pc' = "idle" /\ open' = FALSE
  /\ next_event_time' = None
  /\ IF next_event_time = None THEN UNCHANGED <<delay, stray>>
     ELSE /\ delay' = next_event_time
          /\ stray' = IF delay = None THEN stray ELSE stray \cup {delay}
  /\ UNCHANGED <<now, device, window, registered, active, timed, future, failed, calling,
                 keys, key, ghosts>>

\* Mutant of RecyclePassed: the change that ended the window is not made up for.
RecyclePassedSilently ==
  /\ pc = "idle" /\ recycle # None /\ recycle <= now
  /\ recycle' = None
  /\ UNCHANGED <<now, device, recycled, posted, unheard, table, future, failed, call, ghosts>>

(***************************************************************************)
(* The device.                                                              *)
(***************************************************************************)
RecyclePassed ==
  /\ pc = "idle" /\ recycle # None /\ recycle <= now
  /\ recycle' = None
  /\ IF state # recycled THEN posted' = state /\ unheard' = FALSE
     ELSE UNCHANGED <<posted, unheard>>
  /\ UNCHANGED <<now, device, recycled, table, future, failed, call, ghosts>>

\* mute and unmute, by the events of the ball search
Mute ==
  /\ pc = "idle" \/ open
  /\ muted' = ~muted
  /\ UNCHANGED <<now, state, last_change, window, table, future, failed, call, ghosts>>

Tick ==
  /\ pc = "idle" /\ now < MaxTime
  /\ now' = now + 1
  /\ UNCHANGED <<device, window, table, future, failed, call, ghosts>>

Next ==
  \/ \E h \in Handlers : AddHandler(h) \/ RemoveHandler(h)
  \/ \E h \in Waiters : Wait(h) \/ CancelWait(h) \/ FutureDone(h)
  \/ \E lag \in 0..MaxLag : Change(now - lag)
  \/ CallHandler \/ HandlersCalled
  \/ \E t \in Scheduled : BeginTimed(t)
  \/ \E k \in keys : TakeKey(k)
  \/ CallTimed \/ KeyDone \/ RunEvents \/ TimedDone
  \/ RecyclePassed \/ Mute \/ Tick

Spec == Init /\ [][Next]_vars

(***************************************************************************)
(* Properties                                                               *)
(***************************************************************************)
\* A handler is only called while it is registered, and only when the switch has been in
\* its state for its whole time: what removing a handler, changing the switch and the
\* copies of the lists in _call_handlers and _process_active_timed_switches leave behind
\* is never called.  Whether it had to be called at all is what CalledMeansDue asks.
CalledRightly == rightly

\* A handler that was called since the switch changed, or since it was added, had to be
\* called: add_switch_handler_obj puts a handler into the table only if the switch "has
\* been in this state for less time than the ms registered".  Not claimed by a run:
\* TLC refutes it, a handler whose time has passed is scheduled and called as well.
CalledMeansDue == \A h \in wanted : called[h] > 0 => due[h] # None /\ due[h] <= now

\* Once no scheduled call is due, every handler whose time has passed since the switch
\* changed, or since it was registered while the switch was already in its state, has
\* been called, exactly once, whatever callbacks have added and removed in between; and
\* no scheduled call has lost its entry on the way.
NoneForgotten ==
  /\ ~failed
  /\ \A h \in Handlers :
       /\ called[h] <= 1
       /\ pc = "idle" /\ (\A t \in Scheduled : t > now) /\ due[h] # None /\ due[h] <= now
            => called[h] = 1

\* Outside the ignore window the last event that was posted tells the state of the switch,
\* however often the switch has changed within a window, as long as it was not muted.
EventsMatchState == recycle = None /\ ~unheard => posted = state
===============================================================================
