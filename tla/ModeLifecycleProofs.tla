------------------------- MODULE ModeLifecycleProofs -------------------------
(***************************************************************************)
(* Proofs about ModeLifecycle, for any modes, callers and numbers of       *)
(* starts: a mode has its handlers while it starts or is active, leaves    *)
(* nothing behind, its code runs only in it, and a stop callback tells the *)
(* truth.                                                                  *)
(*                                                                         *)
(* What a mode may do next is decided by its flags and by the events of its*)
(* chain that are still on their way: Stage relates the two.  It needs     *)
(* that no queue event of a chain is on its way twice (Single), and that   *)
(* the end of a callback loses no event (Emptied).                         *)
(***************************************************************************)
EXTENDS ModeLifecycle, TLAPS

\* The handlers of an event, and its callback, as what runs.
H(e) == Agenda!Handlers(e)
C(e) == Agenda!Callback(e)

\* What runs in the loop: handlers of events that are no queue events, and callbacks.
RunningType ==
  \/ running = Agenda!Nothing
  \/ \E m \in Mode : running \in {H(News(m)), H(Started(m)), H(Stopped(m)),
                                  C(Started(m)), C(Stopped(m)), C(Answers(m))}

\* The type invariant, with what runs.
Types == TypeOK /\ RunningType

\* A callback is taken when the agenda is empty, and posts to the batch.
Emptied ==
  \A m \in Mode :
    running \in {C(Started(m)), C(Stopped(m)), C(Answers(m))} => agenda = <<>>

\* The event e is in the sequence s, and not twice.
In(s, e) == \E i \in DOMAIN s : s[i] = e
OnceIn(s, e) == \A i, j \in DOMAIN s : s[i] = e /\ s[j] = e => i = j

\* The event e is on its way at most once.
Single(e) ==
  /\ OnceIn(agenda, e) /\ OnceIn(batch, e) /\ OnceIn(callbacks, e)
  /\ ~ (In(agenda, e) /\ In(batch, e))
  /\ ~ (In(agenda, e) /\ In(callbacks, e))
  /\ ~ (In(agenda, e) /\ e \in tasks)
  /\ ~ (In(batch, e) /\ In(callbacks, e))
  /\ ~ (In(batch, e) /\ e \in tasks)
  /\ ~ (In(callbacks, e) /\ e \in tasks)

\* No queue event of a chain is on its way twice.
Singles == \A m \in Mode : Single(Starting(m)) /\ Single(Stopping(m))

\* The flags of m tell which event of its chain may be on its way.
Stage(m) ==
  /\ starting[m] => ~active[m]
  /\ stopping[m] => active[m]
  /\ Pending(Starting(m)) => starting[m]
  /\ Pending(Stopping(m)) => stopping[m]
  /\ Pending(Stopped(m)) => ~starting[m] /\ ~active[m]
  /\ running = C(Answers(m)) => ~active[m]

\* What m has, by its stage.
Resources(m) ==
  /\ starting[m] \/ active[m] => equipped[m]
  /\ equipped[m] => starting[m] \/ active[m] \/ Pending(Stopped(m))
  /\ wait_queue[m] => starting[m] \/ active[m]
  /\ m \notin LateControl =>
       (delayed[m] => equipped[m] /\ ~stopping[m] /\ ~Pending(Stopped(m)))

\* The task of m, and those of its earlier runs.
TaskOf(m) ==
  m \in AsyncMode =>
    /\ ended[m] \subseteq {starts[m]}
    /\ main_task[m] = "none" \/ starting[m] \/ active[m]

\* mode_start() and mode_stop() of m: whoever stops a mode before its mode_start()
\* stops it early.
Hooks(m) ==
  /\ HookPending(m) => early[m] \/ (active[m] /\ ~stopping[m])
  /\ hooked[m] => active[m] \/ Pending(Stopped(m)) \/ early[m]
  /\ running = C(Stopped(m)) => ~hooked[m]

\* Who waits for the end of m.
Answering(m) ==
  \A i \in DOMAIN stop_callbacks[m] :
    /\ stop_callbacks[m][i][2] <= starts[m]
    /\ Pending(Stopped(m)) \/ running = C(Answers(m)) => stop_callbacks[m][i][2] <= stops[m]

\* What is true of each mode, and the inductive invariant.
ModeInv(m) == Stage(m) /\ Resources(m) /\ TaskOf(m) /\ Hooks(m) /\ Answering(m)

IInv == Types /\ Emptied /\ Singles /\ \A m \in Mode : ModeInv(m)

-------------------------------------------------------------------------------
(* Names and sequences.                                                     *)

\* An event is known by its kind and its mode.
LEMMA Names ==
  ASSUME NEW m, NEW n
  PROVE  /\ Starting(m) = Starting(n) => m = n
         /\ Started(m) = Started(n) => m = n
         /\ Stopping(m) = Stopping(n) => m = n
         /\ Stopped(m) = Stopped(n) => m = n
         /\ Answers(m) = Answers(n) => m = n
         /\ Starting(m) \notin {Started(n), Stopping(n), Stopped(n), Answers(n), News(n)}
         /\ Started(m) \notin {Stopping(n), Stopped(n), Answers(n), News(n)}
         /\ Stopping(m) \notin {Stopped(n), Answers(n), News(n)}
         /\ Stopped(m) \notin {Answers(n), News(n)}
         /\ Answers(m) # News(n)
BY DEF Starting, Started, Stopping, Stopped, Answers, News

\* What runs says what it is and of which event.
LEMMA Running ==
  ASSUME NEW e, NEW f
  PROVE  /\ H(e) = H(f) => e = f
         /\ C(e) = C(f) => e = f
         /\ H(e) # C(f)
         /\ H(e) # Agenda!Nothing /\ C(e) # Agenda!Nothing
<1>1. H(e)[1] = "handlers" /\ H(e)[2] = e /\ H(f)[2] = f
  BY DEF H, Agenda!Handlers
<1>2. C(f)[1] = "callback" /\ C(f)[2] = f /\ C(e)[1] = "callback" /\ C(e)[2] = e
  BY DEF C, Agenda!Callback
<1>3. Agenda!Nothing[1] = "nothing"
  BY DEF Agenda!Nothing
<1>4. H(e) = H(f) => e = f
  BY <1>1
<1>5. C(e) = C(f) => e = f
  BY <1>2
<1>6. H(e) # C(f)
  BY <1>1, <1>2
<1>7. H(e) # Agenda!Nothing /\ C(e) # Agenda!Nothing
  BY <1>1, <1>2, <1>3
<1> QED BY <1>4, <1>5, <1>6, <1>7

\* Names do not change.
LEMMA Rigid ==
  ASSUME NEW m
  PROVE  /\ Starting(m)' = Starting(m) /\ Started(m)' = Started(m) /\ Stopping(m)' = Stopping(m)
         /\ Stopped(m)' = Stopped(m) /\ Answers(m)' = Answers(m) /\ News(m)' = News(m)
         /\ H(m)' = H(m) /\ C(m)' = C(m)
BY DEF Starting, Started, Stopping, Stopped, Answers, News, H, C, Agenda!Handlers, Agenda!Callback

\* The events of a mode, and those that have a callback.
LEMMA Events ==
  ASSUME NEW m \in Mode
  PROVE  /\ Starting(m) \in QueueEvent /\ Stopping(m) \in QueueEvent
         /\ {Starting(m), Stopping(m), Started(m), Stopped(m)} \subseteq CallbackEvent
         /\ {Starting(m), Stopping(m), Started(m), Stopped(m), News(m)} \subseteq ModeEvent
BY DEF Starting, Started, Stopping, Stopped, News, QueueEvent, CallbackEvent, ModeEvent

\* The elements of a sequence.
LEMMA Elements ==
  ASSUME NEW s, NEW e
  PROVE  e \in ToSet(s) <=> In(s, e)
BY DEF ToSet, In

\* Sequences put one after the other.
LEMMA Joined ==
  ASSUME NEW S, NEW s \in Seq(S), NEW t \in Seq(S), NEW e
  PROVE  /\ s \o t \in Seq(S)
         /\ In(s \o t, e) <=> In(s, e) \/ In(t, e)
         /\ OnceIn(s, e) /\ OnceIn(t, e) /\ ~ (In(s, e) /\ In(t, e)) => OnceIn(s \o t, e)
<1>1. /\ s \o t \in Seq(S) /\ Len(s) \in Nat /\ Len(t) \in Nat
      /\ DOMAIN s = 1..Len(s) /\ DOMAIN t = 1..Len(t) /\ DOMAIN (s \o t) = 1..(Len(s) + Len(t))
      /\ \A i \in 1..Len(s) : (s \o t)[i] = s[i]
      /\ \A i \in 1..(Len(s) + Len(t)) : i > Len(s) => (s \o t)[i] = t[i - Len(s)]
  OBVIOUS
<1>2. \A i \in DOMAIN (s \o t) :
        \/ i \in DOMAIN s /\ (s \o t)[i] = s[i]
        \/ i - Len(s) \in DOMAIN t /\ (s \o t)[i] = t[i - Len(s)]
  BY <1>1
<1>3. \A i \in DOMAIN s : i \in DOMAIN (s \o t) /\ (s \o t)[i] = s[i]
  BY <1>1
<1>4. \A i \in DOMAIN t : i + Len(s) \in DOMAIN (s \o t) /\ (s \o t)[i + Len(s)] = t[i]
  BY <1>1
<1>5. In(s \o t, e) <=> In(s, e) \/ In(t, e)
  BY <1>2, <1>3, <1>4 DEF In
<1>6. ASSUME OnceIn(s, e), OnceIn(t, e), ~ (In(s, e) /\ In(t, e)) PROVE OnceIn(s \o t, e)
  <2>1. SUFFICES ASSUME NEW i \in DOMAIN (s \o t), NEW j \in DOMAIN (s \o t),
                        (s \o t)[i] = e, (s \o t)[j] = e
                 PROVE  i = j
    BY DEF OnceIn
  <2>2. i \in Int /\ j \in Int /\ Len(s) \in Int
    BY <1>1
  <2>3. CASE i \in DOMAIN s /\ (s \o t)[i] = s[i] /\ j \in DOMAIN s /\ (s \o t)[j] = s[j]
    BY <1>6, <2>1, <2>3 DEF OnceIn
  <2>4. CASE /\ i - Len(s) \in DOMAIN t /\ (s \o t)[i] = t[i - Len(s)]
             /\ j - Len(s) \in DOMAIN t /\ (s \o t)[j] = t[j - Len(s)]
    <3>1. i - Len(s) = j - Len(s)
      BY <1>6, <2>1, <2>4 DEF OnceIn
    <3> QED BY <2>2, <3>1
  <2> QED BY <1>2, <1>6, <2>1, <2>3, <2>4 DEF In
<1> QED BY <1>1, <1>5, <1>6

\* One event, and two.
LEMMA Short ==
  ASSUME NEW S, NEW x \in S, NEW y \in S, NEW e
  PROVE  /\ <<>> \in Seq(S) /\ ~In(<<>>, e) /\ OnceIn(<<>>, e)
         /\ <<x>> \in Seq(S) /\ (In(<<x>>, e) <=> e = x) /\ OnceIn(<<x>>, e)
         /\ <<x, y>> \in Seq(S) /\ (In(<<x, y>>, e) <=> e = x \/ e = y)
         /\ x # y => OnceIn(<<x, y>>, e)
<1>1. DOMAIN <<>> = {}
  OBVIOUS
<1>2. DOMAIN <<x>> = {1} /\ <<x>>[1] = x /\ <<x>> \in Seq(S)
  OBVIOUS
<1>3. DOMAIN <<x, y>> = {1, 2} /\ <<x, y>>[1] = x /\ <<x, y>>[2] = y /\ <<x, y>> \in Seq(S)
  OBVIOUS
<1>4. <<>> \in Seq(S) /\ ~In(<<>>, e) /\ OnceIn(<<>>, e)
  BY <1>1 DEF In, OnceIn
<1>5. (In(<<x>>, e) <=> e = x) /\ OnceIn(<<x>>, e)
  BY <1>2 DEF In, OnceIn
<1>6. In(<<x, y>>, e) <=> e = x \/ e = y
  BY <1>3 DEF In
<1>7. x # y => OnceIn(<<x, y>>, e)
  BY <1>3 DEF OnceIn
<1> QED BY <1>2, <1>3, <1>4, <1>5, <1>6, <1>7

\* The same, whatever the set.
LEMMA ShortIn ==
  ASSUME NEW x, NEW y, NEW e
  PROVE  /\ ~In(<<>>, e)
         /\ (In(<<x>>, e) <=> e = x) /\ OnceIn(<<x>>, e)
         /\ In(<<x, y>>, e) <=> e = x \/ e = y
<1>1. PICK S : x \in S /\ y \in S
  <2>1. x \in {x, y} /\ y \in {x, y}
    OBVIOUS
  <2> QED BY <2>1
<1> QED BY <1>1, Short

\* Appending one event.
LEMMA Appended ==
  ASSUME NEW S, NEW s \in Seq(S), NEW x \in S, NEW e
  PROVE  /\ Append(s, x) \in Seq(S)
         /\ In(Append(s, x), e) <=> In(s, e) \/ e = x
         /\ OnceIn(s, e) /\ ~ (In(s, e) /\ e = x) => OnceIn(Append(s, x), e)
<1>1. Append(s, x) = s \o <<x>>
  OBVIOUS
<1>2. <<x>> \in Seq(S) /\ (In(<<x>>, e) <=> e = x) /\ OnceIn(<<x>>, e)
  BY Short
<1>3. /\ s \o <<x>> \in Seq(S)
      /\ In(s \o <<x>>, e) <=> In(s, e) \/ In(<<x>>, e)
      /\ OnceIn(s, e) /\ OnceIn(<<x>>, e) /\ ~ (In(s, e) /\ In(<<x>>, e)) => OnceIn(s \o <<x>>, e)
  BY <1>2, Joined
<1> QED BY <1>1, <1>2, <1>3

\* Taking the first event.
LEMMA HeadTaken ==
  ASSUME NEW S, NEW s \in Seq(S), s # <<>>, NEW e
  PROVE  /\ Head(s) \in S /\ Tail(s) \in Seq(S)
         /\ In(s, e) <=> Head(s) = e \/ In(Tail(s), e)
         /\ OnceIn(s, e) => OnceIn(Tail(s), e) /\ ~ (Head(s) = e /\ In(Tail(s), e))
<1>1. /\ Head(s) = s[1] /\ Head(s) \in S /\ Tail(s) \in Seq(S) /\ Len(s) \in Nat \ {0}
      /\ DOMAIN s = 1..Len(s) /\ DOMAIN Tail(s) = 1..(Len(s) - 1)
      /\ \A i \in 1..(Len(s) - 1) : Tail(s)[i] = s[i + 1]
  OBVIOUS
<1>2. \A i \in DOMAIN Tail(s) :
        i + 1 \in DOMAIN s /\ Tail(s)[i] = s[i + 1] /\ i \in Int /\ i + 1 # 1
  BY <1>1
<1>3. \A i \in DOMAIN s : i = 1 \/ (i - 1 \in DOMAIN Tail(s) /\ Tail(s)[i - 1] = s[i])
  BY <1>1
<1>4. 1 \in DOMAIN s
  BY <1>1
<1>5. In(s, e) <=> Head(s) = e \/ In(Tail(s), e)
  BY <1>1, <1>2, <1>3, <1>4 DEF In
<1>6. ASSUME OnceIn(s, e) PROVE OnceIn(Tail(s), e) /\ ~ (Head(s) = e /\ In(Tail(s), e))
  <2>1. ASSUME NEW i \in DOMAIN Tail(s), NEW j \in DOMAIN Tail(s), Tail(s)[i] = e, Tail(s)[j] = e
        PROVE  i = j
    <3>1. i + 1 = j + 1
      BY <1>2, <1>6, <2>1 DEF OnceIn
    <3> QED BY <1>2, <3>1
  <2> QED BY <1>1, <1>2, <1>4, <1>6, <2>1 DEF OnceIn, In
<1> QED BY <1>1, <1>5, <1>6

\* Taking the last event.
LEMMA LastTaken ==
  ASSUME NEW S, NEW s \in Seq(S), s # <<>>, NEW e
  PROVE  /\ Last(s) \in S /\ Front(s) \in Seq(S)
         /\ In(s, e) <=> Last(s) = e \/ In(Front(s), e)
         /\ OnceIn(s, e) => OnceIn(Front(s), e) /\ ~ (Last(s) = e /\ In(Front(s), e))
<1>1. Len(s) \in Nat \ {0} /\ DOMAIN s = 1..Len(s)
  OBVIOUS
<1>2. /\ Last(s) = s[Len(s)] /\ Last(s) \in S /\ Front(s) \in Seq(S)
      /\ DOMAIN Front(s) = 1..(Len(s) - 1)
      /\ \A i \in 1..(Len(s) - 1) : Front(s)[i] = s[i]
  BY <1>1 DEF Last, Front
<1>3. \A i \in DOMAIN Front(s) : i \in DOMAIN s /\ Front(s)[i] = s[i] /\ i # Len(s)
  BY <1>1, <1>2
<1>4. \A i \in DOMAIN s : i = Len(s) \/ (i \in DOMAIN Front(s) /\ Front(s)[i] = s[i])
  BY <1>1, <1>2
<1>5. Len(s) \in DOMAIN s
  BY <1>1
<1>6. In(s, e) <=> Last(s) = e \/ In(Front(s), e)
  BY <1>2, <1>3, <1>4, <1>5 DEF In
<1>7. OnceIn(s, e) => OnceIn(Front(s), e) /\ ~ (Last(s) = e /\ In(Front(s), e))
  BY <1>2, <1>3, <1>5 DEF OnceIn, In
<1> QED BY <1>2, <1>6, <1>7

-------------------------------------------------------------------------------
(* The loop.                                                                *)

\* Where an event can be on its way.
LEMMA Places ==
  ASSUME NEW e
  PROVE  /\ Pending(e) <=> \/ In(agenda, e) \/ In(batch, e) \/ In(callbacks, e) \/ e \in tasks
                           \/ running = H(e) \/ running = C(e)
         /\ Pending(e)' <=> \/ In(agenda', e) \/ In(batch', e) \/ In(callbacks', e) \/ e \in tasks'
                            \/ running' = H(e) \/ running' = C(e)
<1>1. H(e) = Agenda!Handlers(e) /\ C(e) = Agenda!Callback(e)
  BY DEF H, C
<1>2. Agenda!Handlers(e)' = Agenda!Handlers(e) /\ Agenda!Callback(e)' = Agenda!Callback(e)
  BY DEF Agenda!Handlers, Agenda!Callback
<1> QED BY <1>1, <1>2, Elements DEF Pending

\* The event e, or its callback, is still to be taken up.
Ahead(e) == In(agenda, e) \/ In(batch, e) \/ In(callbacks, e) \/ running = H(e)

\* mode_start() is to be called as long as mode_X_started or its callback is.
LEMMA HookPlaces ==
  ASSUME NEW m
  PROVE  /\ HookPending(m) <=> Ahead(Started(m))
         /\ HookPending(m)' <=> Ahead(Started(m))'
<1>1. H(Started(m)) = Agenda!Handlers(Started(m)) /\ Started(m)' = Started(m)
  BY Rigid DEF H
<1>2. Agenda!Handlers(Started(m))' = Agenda!Handlers(Started(m)) /\ H(Started(m))' = H(Started(m))
  BY <1>1 DEF Agenda!Handlers, H
<1> QED BY <1>1, <1>2, Elements DEF HookPending, Ahead

\* It does not become so again, unless the event does or the callback runs.
LEMMA HookKept ==
  ASSUME Types, NEW n \in Mode,
         Pending(Started(n))' => Pending(Started(n)), running # C(Started(n))
  PROVE  HookPending(n)' => HookPending(n)
<1>1. Started(n) \notin tasks
  BY DEF Types, TypeOK, QueueEvent, Started
<1>2. HookPending(n)' => Pending(Started(n))'
  BY HookPlaces, Places, Rigid DEF Ahead
<1> QED BY <1>1, <1>2, HookPlaces, Places DEF Ahead

\* Code posts events: they are on their way, and no other one is or was.
LEMMA PostStep ==
  ASSUME Types, NEW es \in Seq(ModeEvent), Post(es), NEW e
  PROVE  /\ Pending(e)' <=> Pending(e) \/ In(es, e)
         /\ Ahead(e)' <=> Ahead(e) \/ In(es, e)
         /\ Single(e) /\ OnceIn(es, e) /\ (In(es, e) => ~Pending(e)) => Single(e)'
         /\ running' = running /\ callbacks' = callbacks
         /\ running # Agenda!Nothing => agenda' = agenda
<1>1. agenda \in Seq(ModeEvent) /\ batch \in Seq(ModeEvent)
  BY DEF Types, TypeOK
<1>2. UNCHANGED <<callbacks, running, tasks>>
  BY DEF Post
<1>3. CASE running = Agenda!Nothing
  <2>1. agenda' = agenda \o es /\ batch' = batch
    BY <1>3 DEF Post
  <2>2. In(agenda', e) <=> In(agenda, e) \/ In(es, e)
    BY <1>1, <2>1, Joined
  <2>3. (Pending(e)' <=> Pending(e) \/ In(es, e)) /\ (Ahead(e)' <=> Ahead(e) \/ In(es, e))
    BY <1>2, <2>1, <2>2, Places, Rigid DEF Ahead
  <2>4. ASSUME Single(e), OnceIn(es, e), In(es, e) => ~Pending(e) PROVE Single(e)'
    <3>1. OnceIn(agenda', e)
      BY <1>1, <2>1, <2>4, Joined, Places DEF Single
    <3> QED BY <1>2, <2>1, <2>2, <2>4, <3>1, Places DEF Single
  <2> QED BY <1>2, <1>3, <2>3, <2>4
<1>4. CASE running # Agenda!Nothing
  <2>1. batch' = batch \o es /\ agenda' = agenda
    BY <1>4 DEF Post
  <2>2. In(batch', e) <=> In(batch, e) \/ In(es, e)
    BY <1>1, <2>1, Joined
  <2>3. (Pending(e)' <=> Pending(e) \/ In(es, e)) /\ (Ahead(e)' <=> Ahead(e) \/ In(es, e))
    BY <1>2, <2>1, <2>2, Places, Rigid DEF Ahead
  <2>4. ASSUME Single(e), OnceIn(es, e), In(es, e) => ~Pending(e) PROVE Single(e)'
    <3>1. OnceIn(batch', e)
      BY <1>1, <2>1, <2>4, Joined, Places DEF Single
    <3> QED BY <1>2, <2>1, <2>2, <2>4, <3>1, Places DEF Single
  <2> QED BY <1>2, <2>1, <2>3, <2>4
<1> QED BY <1>3, <1>4

\* The loop takes up an event: it is on its way all the same.
LEMMA TakeEventStep ==
  ASSUME Types, NEW x, TakeEvent(x), NEW e
  PROVE  (Pending(e)' <=> Pending(e)) /\ (Single(e) => Single(e)')
<1>1. agenda \in Seq(ModeEvent) /\ agenda # <<>> /\ running = Agenda!Nothing
  BY DEF Types, TypeOK, TakeEvent, Agenda!StartEvent
<1>2. /\ agenda' = Tail(agenda) /\ running' = H(x) /\ H(x) = H(Head(agenda))
      /\ UNCHANGED <<batch, callbacks, tasks>>
  BY DEF TakeEvent, Agenda!StartEvent, H
<1>3. x = Head(agenda)
  BY <1>2, Running
<1>4. /\ In(agenda, e) <=> x = e \/ In(agenda', e)
      /\ OnceIn(agenda, e) => OnceIn(agenda', e)
  BY <1>1, <1>2, <1>3, HeadTaken
<1>5. (running' = H(e) <=> x = e) /\ running' # C(e) /\ running # H(e) /\ running # C(e)
  BY <1>1, <1>2, Running
<1>6. Pending(e)' <=> Pending(e)
  BY <1>2, <1>4, <1>5, Places
<1>7. Single(e) => Single(e)'
  BY <1>2, <1>4 DEF Single
<1> QED BY <1>6, <1>7

\* A queue event gets a task, or its callback waits.
LEMMA TakeQueueEventStep ==
  ASSUME Types, NEW x \in QueueEvent, TakeQueueEvent(x), NEW e
  PROVE  (Pending(e)' <=> Pending(e)) /\ (Single(e) => Single(e)')
<1>1. /\ agenda \in Seq(ModeEvent) /\ agenda # <<>> /\ running = Agenda!Nothing /\ x = Head(agenda)
      /\ callbacks \in Seq(CallbackEvent) /\ x \in CallbackEvent
  BY DEF Types, TypeOK, TakeQueueEvent, CallbackEvent
<1>2. agenda' = Tail(agenda) /\ UNCHANGED <<batch, running>>
  BY DEF TakeQueueEvent
<1>3. /\ In(agenda, e) <=> x = e \/ In(agenda', e)
      /\ OnceIn(agenda, e) => OnceIn(agenda', e) /\ ~ (x = e /\ In(agenda', e))
  BY <1>1, <1>2, HeadTaken
<1>4. CASE callbacks' = Append(callbacks, x) /\ tasks' = tasks
  <2>1. /\ In(callbacks', e) <=> In(callbacks, e) \/ e = x
        /\ OnceIn(callbacks, e) /\ ~ (In(callbacks, e) /\ e = x) => OnceIn(callbacks', e)
    BY <1>1, <1>4, Appended
  <2>2. Pending(e)' <=> Pending(e)
    BY <1>2, <1>3, <1>4, <2>1, Places
  <2>3. Single(e) => Single(e)'
    BY <1>2, <1>3, <1>4, <2>1 DEF Single
  <2> QED BY <2>2, <2>3
<1>5. CASE tasks' = tasks \cup {x} /\ callbacks' = callbacks
  <2>1. Pending(e)' <=> Pending(e)
    BY <1>2, <1>3, <1>5, Places
  <2>2. Single(e) => Single(e)'
    BY <1>2, <1>3, <1>5 DEF Single
  <2> QED BY <2>1, <2>2
<1> QED BY <1>4, <1>5 DEF TakeQueueEvent

\* An event is over, and its callback, if any, waits.
LEMMA EventDoneStep ==
  ASSUME Types, NEW x, EventDone(x), NEW e,
         \/ callbacks' = callbacks
         \/ x \in CallbackEvent /\ callbacks' = Append(callbacks, x)
  PROVE  /\ e # x \/ callbacks' # callbacks => (Pending(e)' <=> Pending(e))
         /\ Single(e) /\ e # x => Single(e)'
<1>1. /\ agenda \in Seq(ModeEvent) /\ batch \in Seq(ModeEvent) /\ callbacks \in Seq(CallbackEvent)
      /\ running = H(x) /\ running' = Agenda!Nothing
      /\ agenda' = batch \o agenda /\ batch' = <<>> /\ tasks' = tasks
  BY DEF Types, TypeOK, EventDone, H
<1>2. /\ In(agenda', e) <=> In(batch, e) \/ In(agenda, e)
      /\ OnceIn(batch, e) /\ OnceIn(agenda, e) /\ ~ (In(batch, e) /\ In(agenda, e)) =>
           OnceIn(agenda', e)
  BY <1>1, Joined
<1>3. ~In(batch', e) /\ OnceIn(batch', e)
  <2>1. DOMAIN batch' = {}
    BY <1>1
  <2> QED BY <2>1 DEF In, OnceIn
<1>4. (running = H(e) <=> e = x) /\ running # C(e) /\ running' # H(e) /\ running' # C(e)
  BY <1>1, Running
<1>5. CASE callbacks' = callbacks
  <2>1. e # x => (Pending(e)' <=> Pending(e))
    BY <1>1, <1>2, <1>3, <1>4, <1>5, Places
  <2>2. Single(e) => Single(e)'
    BY <1>1, <1>2, <1>3, <1>5 DEF Single
  <2> QED BY <1>5, <2>1, <2>2
<1>6. CASE x \in CallbackEvent /\ callbacks' = Append(callbacks, x)
  <2>1. /\ In(callbacks', e) <=> In(callbacks, e) \/ e = x
        /\ OnceIn(callbacks, e) /\ e # x => OnceIn(callbacks', e)
    BY <1>1, <1>6, Appended
  <2>2. Pending(e)' <=> Pending(e)
    BY <1>1, <1>2, <1>3, <1>4, <2>1, Places
  <2>3. Single(e) /\ e # x => Single(e)'
    BY <1>1, <1>2, <1>3, <2>1 DEF Single
  <2> QED BY <2>2, <2>3
<1> QED BY <1>5, <1>6

\* The loop takes up a callback.
LEMMA TakeCallbackStep ==
  ASSUME Types, NEW x, TakeCallback(x), NEW e
  PROVE  /\ Pending(e)' <=> Pending(e)
         /\ Single(e) => Single(e)'
         /\ Pending(x) /\ In(callbacks, x)
         /\ agenda' = <<>> /\ running' = C(x)
<1>1. callbacks \in Seq(CallbackEvent) /\ callbacks # <<>> /\ running = Agenda!Nothing
  BY DEF Types, TypeOK, TakeCallback, Agenda!StartCallback
<1>2. /\ callbacks' = Front(callbacks) /\ running' = C(x) /\ C(x) = C(Last(callbacks))
      /\ UNCHANGED <<agenda, batch, tasks>> /\ agenda = <<>>
  BY DEF TakeCallback, Agenda!StartCallback, C, Agenda!Front, Front, Agenda!Last, Last
<1>3. x = Last(callbacks)
  BY <1>2, Running
<1>4. /\ In(callbacks, e) <=> x = e \/ In(callbacks', e)
      /\ OnceIn(callbacks, e) => OnceIn(callbacks', e)
  BY <1>1, <1>2, <1>3, LastTaken
<1>5. (running' = C(e) <=> x = e) /\ running' # H(e) /\ running # H(e) /\ running # C(e)
  BY <1>1, <1>2, Running
<1>6. Pending(e)' <=> Pending(e)
  BY <1>2, <1>4, <1>5, Places
<1>7. Single(e) => Single(e)'
  BY <1>2, <1>4 DEF Single
<1>8. Pending(x) /\ In(callbacks, x)
  <2>1. In(callbacks, x)
    BY <1>1, <1>3, LastTaken
  <2> QED BY <2>1, Places
<1> QED BY <1>2, <1>6, <1>7, <1>8

\* A callback returns: its posts are the agenda, which was empty.
LEMMA CallbackDoneStep ==
  ASSUME Types, NEW x, agenda = <<>>, CallbackDone(x), NEW e
  PROVE  /\ e # x => (Pending(e)' <=> Pending(e))
         /\ Pending(e)' => Pending(e)
         /\ Ahead(e)' => Ahead(e)
         /\ Single(e) => Single(e)'
<1>1. /\ running = C(x) /\ running' = Agenda!Nothing
      /\ agenda' = batch /\ batch' = <<>> /\ UNCHANGED <<callbacks, tasks>>
  BY DEF CallbackDone, C
<1>2. ~In(batch', e) /\ OnceIn(batch', e) /\ ~In(agenda, e)
  <2>1. DOMAIN batch' = {} /\ DOMAIN agenda = {}
    BY <1>1
  <2> QED BY <2>1 DEF In, OnceIn
<1>3. (running = C(e) <=> e = x) /\ running # H(e) /\ running' # H(e) /\ running' # C(e)
  BY <1>1, Running
<1>4. Single(e) => Single(e)'
  BY <1>1, <1>2 DEF Single
<1> QED BY <1>1, <1>2, <1>3, <1>4, Places, Rigid DEF Ahead

\* The callback of a queue event: the event is over, and what it posts on its way.
LEMMA QueueCallbackStep ==
  ASSUME Types, NEW x, NEW es \in Seq(ModeEvent), QueueCallback(x, es), NEW e
  PROVE  /\ running = Agenda!Nothing /\ running' = Agenda!Nothing
         /\ Pending(x)
         /\ e # x => (Pending(e)' <=> Pending(e) \/ In(es, e))
         /\ Pending(e)' => Pending(e) \/ In(es, e)
         /\ Single(x) /\ ~In(es, x) => ~Pending(x)'
         /\ Single(e) /\ ~In(es, e) => Single(e)'
<1>1. /\ agenda \in Seq(ModeEvent) /\ callbacks \in Seq(CallbackEvent)
      /\ agenda' = agenda \o es /\ UNCHANGED <<batch, running>> /\ running = Agenda!Nothing
  BY DEF Types, TypeOK, QueueCallback, Idle
<1>2. ASSUME NEW f
      PROVE  /\ In(agenda', f) <=> In(agenda, f) \/ In(es, f)
             /\ OnceIn(agenda, f) /\ ~In(es, f) => OnceIn(agenda', f)
  <2>1. ~In(es, f) => OnceIn(es, f)
    BY DEF In, OnceIn
  <2> QED BY <1>1, <2>1, Joined
<1>3. ASSUME NEW f PROVE running # H(f) /\ running # C(f)
  BY <1>1, Running
<1>4. CASE /\ callbacks # <<>> /\ x = Last(callbacks) /\ callbacks' = Front(callbacks)
           /\ tasks' = tasks
  <2>1. ASSUME NEW f
        PROVE  /\ In(callbacks, f) <=> x = f \/ In(callbacks', f)
               /\ OnceIn(callbacks, f) => OnceIn(callbacks', f) /\ ~ (x = f /\ In(callbacks', f))
    BY <1>1, <1>4, LastTaken
  <2>2. In(callbacks, x)
    BY <2>1
  <2>3. Single(x) /\ ~In(es, x) => ~Pending(x)'
    BY <1>1, <1>2, <1>3, <1>4, <2>1, <2>2, Places DEF Single
  <2>4. Single(e) /\ ~In(es, e) => Single(e)'
    BY <1>1, <1>2, <1>4, <2>1 DEF Single
  <2> QED BY <1>1, <1>2, <1>3, <1>4, <2>1, <2>2, <2>3, <2>4, Places
<1>5. CASE x \in tasks /\ tasks' = tasks \ {x} /\ callbacks' = callbacks
  <2>1. Single(x) /\ ~In(es, x) => ~Pending(x)'
    BY <1>1, <1>2, <1>3, <1>5, Places DEF Single
  <2>2. Single(e) /\ ~In(es, e) => Single(e)'
    BY <1>1, <1>2, <1>5 DEF Single
  <2> QED BY <1>1, <1>2, <1>3, <1>5, <2>1, <2>2, Places
<1> QED BY <1>4, <1>5 DEF QueueCallback

-------------------------------------------------------------------------------
(* Types.                                                                   *)

\* The part of the loop, and that of the modes.
LoopTypes ==
  /\ agenda \in Seq(ModeEvent) /\ batch \in Seq(ModeEvent)
  /\ callbacks \in Seq(CallbackEvent) /\ tasks \subseteq QueueEvent
  /\ looping \in BOOLEAN
  /\ RunningType

ModeTypes ==
  /\ machine \in {"running", "stopping", "stopped"}
  /\ starting \in [Mode -> BOOLEAN] /\ active \in [Mode -> BOOLEAN]
  /\ stopping \in [Mode -> BOOLEAN] /\ equipped \in [Mode -> BOOLEAN]
  /\ delayed \in [Mode -> BOOLEAN] /\ wait_queue \in [Mode -> BOOLEAN]
  /\ hooked \in [Mode -> BOOLEAN] /\ early \in [Mode -> BOOLEAN]
  /\ stop_callbacks \in [Mode -> Seq(Caller \X Nat)]
  /\ main_task \in [AsyncMode -> {"none", "running", "returned"}]
  /\ ended \in [AsyncMode -> SUBSET Nat]
  /\ starts \in [Mode -> 0..MaxStarts]
  /\ stops \in [Mode -> Nat] /\ ended_by \in [Mode -> Nat]

\* The types are those of the loop and those of the modes.
LEMMA TypesSplit == /\ Types <=> LoopTypes /\ ModeTypes
                    /\ Types' <=> LoopTypes' /\ ModeTypes'
<1>1. Types <=> LoopTypes /\ ModeTypes
  BY DEF Types, TypeOK, LoopTypes, ModeTypes
<1>2. Types' <=> LoopTypes' /\ ModeTypes'
  BY DEF Types, TypeOK, LoopTypes, ModeTypes, RunningType, QueueEvent, CallbackEvent, ModeEvent
<1> QED BY <1>1, <1>2

\* The sets of events do not change.
LEMMA RigidEvents == /\ QueueEvent' = QueueEvent /\ CallbackEvent' = CallbackEvent
                     /\ ModeEvent' = ModeEvent
BY DEF QueueEvent, CallbackEvent, ModeEvent

\* Code that posts, or does nothing to the loop.
LEMMA LoopTypesPost ==
  ASSUME Types, NEW es \in Seq(ModeEvent), Post(es) \/ UNCHANGED loopVars
  PROVE  LoopTypes'
<1> USE RigidEvents DEF LoopTypes
<1>1. LoopTypes
  BY TypesSplit
<1>2. agenda \o es \in Seq(ModeEvent) /\ batch \o es \in Seq(ModeEvent)
  BY <1>1
<1>3. agenda' \in Seq(ModeEvent) /\ batch' \in Seq(ModeEvent)
  BY <1>1, <1>2 DEF Post, loopVars
<1>4. UNCHANGED <<callbacks, running, looping, tasks>>
  BY DEF Post, loopVars
<1>5. RunningType'
  BY <1>1, <1>4 DEF RunningType, H, C, News, Started, Stopped, Answers, Agenda!Handlers,
                    Agenda!Callback, Agenda!Nothing
<1> QED BY <1>1, <1>3, <1>4, <1>5

\* The loop takes up an event.
LEMMA LoopTypesTake ==
  ASSUME Types, NEW m \in Mode, TakeModeEvent(m)
  PROVE  LoopTypes'
<1> USE RigidEvents DEF LoopTypes
<1>1. LoopTypes /\ agenda # <<>>
  BY TypesSplit DEF TakeModeEvent, TakeEvent, TakeQueueEvent, Agenda!StartEvent
<1>2. agenda' \in Seq(ModeEvent)
  <2>1. agenda' = Tail(agenda)
    BY DEF TakeModeEvent, TakeEvent, TakeQueueEvent, Agenda!StartEvent
  <2> QED BY <1>1, <2>1
<1>3. CASE TakeQueueEvent(Starting(m)) \/ TakeQueueEvent(Stopping(m))
  <2>1. PICK e \in {Starting(m), Stopping(m)} : TakeQueueEvent(e)
    BY <1>3
  <2>2. e \in QueueEvent /\ e \in CallbackEvent
    BY Events
  <2>3. /\ callbacks' = callbacks \/ callbacks' = Append(callbacks, e)
        /\ tasks' = tasks \/ tasks' = tasks \cup {e}
        /\ batch' = batch /\ running' = running /\ looping' = TRUE
    BY <2>1 DEF TakeQueueEvent
  <2>4. callbacks' \in Seq(CallbackEvent)
    <3>1. Append(callbacks, e) \in Seq(CallbackEvent)
      BY <1>1, <2>2
    <3> QED BY <1>1, <2>3, <3>1
  <2>5. RunningType'
    BY <1>1, <2>3 DEF RunningType, H, C, News, Started, Stopped, Answers, Agenda!Handlers,
                      Agenda!Callback, Agenda!Nothing
  <2> QED BY <1>1, <1>2, <2>2, <2>3, <2>4, <2>5
<1>4. CASE TakeEvent(News(m)) \/ TakeEvent(Started(m)) \/ TakeEvent(Stopped(m))
  <2>1. /\ running' \in {H(News(m)), H(Started(m)), H(Stopped(m))} /\ looping' = TRUE
        /\ UNCHANGED <<batch, callbacks, tasks>>
    BY <1>4 DEF TakeEvent, Agenda!StartEvent, H
  <2>2. RunningType'
    BY <2>1, Rigid DEF RunningType
  <2> QED BY <1>1, <1>2, <2>1, <2>2
<1> QED BY <1>3, <1>4 DEF TakeModeEvent

\* An event or a callback is over, or the loop ends.
LEMMA LoopTypesDone ==
  ASSUME Types, NEW m \in Mode,
         \/ FinishModeEvent(m)
         \/ CallbackDone(Started(m)) \/ CallbackDone(Answers(m))
         \/ EndLoop
  PROVE  LoopTypes'
<1> USE RigidEvents DEF LoopTypes
<1>1. LoopTypes
  BY TypesSplit
<1>2. batch \o agenda \in Seq(ModeEvent) /\ <<>> \in Seq(ModeEvent)
  BY <1>1
<1>3. agenda' \in Seq(ModeEvent) /\ batch' \in Seq(ModeEvent)
  BY <1>1, <1>2 DEF FinishModeEvent, EventDone, CallbackDone, EndLoop
<1>4. tasks' = tasks /\ looping' \in BOOLEAN
  BY <1>1 DEF FinishModeEvent, EventDone, CallbackDone, EndLoop
<1>5. running' = Agenda!Nothing
  BY DEF FinishModeEvent, EventDone, CallbackDone, EndLoop
<1>6. RunningType'
  BY <1>5 DEF RunningType, Agenda!Nothing
<1>7. callbacks' \in Seq(CallbackEvent)
  <2>1. /\ Append(callbacks, Started(m)) \in Seq(CallbackEvent)
        /\ Append(callbacks, Stopped(m)) \in Seq(CallbackEvent)
    BY <1>1, Events
  <2>2. \/ callbacks' = callbacks \/ callbacks' = Append(callbacks, Started(m))
        \/ callbacks' = Append(callbacks, Stopped(m))
    BY DEF FinishModeEvent, CallbackDone, EndLoop
  <2> QED BY <1>1, <2>1, <2>2
<1> QED BY <1>1, <1>3, <1>4, <1>6, <1>7

\* The loop takes up a callback, or one goes on to the stop callbacks.
LEMMA LoopTypesCallback ==
  ASSUME Types, NEW m \in Mode,
         TakeCallback(Started(m)) \/ TakeCallback(Stopped(m)) \/ CleanUp(m)
  PROVE  LoopTypes'
<1> USE RigidEvents DEF LoopTypes
<1>1. LoopTypes
  BY TypesSplit
<1>2. UNCHANGED <<agenda, batch, looping, tasks>>
  BY DEF TakeCallback, Agenda!StartCallback, CleanUp
<1>3. running' \in {C(Started(m)), C(Stopped(m)), C(Answers(m))}
  BY DEF TakeCallback, CleanUp, C
<1>4. RunningType'
  BY <1>3, Rigid DEF RunningType
<1>5. callbacks' \in Seq(CallbackEvent)
  <2>1. callbacks' = callbacks \/ (callbacks # <<>> /\ callbacks' = Front(callbacks))
    BY DEF TakeCallback, Agenda!StartCallback, CleanUp, Agenda!Front, Front
  <2>2. callbacks # <<>> => Front(callbacks) \in Seq(CallbackEvent)
    BY <1>1, LastTaken
  <2> QED BY <1>1, <2>1, <2>2
<1> QED BY <1>1, <1>2, <1>4, <1>5

\* The callback of a queue event posts events.
LEMMA LoopTypesQueue ==
  ASSUME Types, NEW x, NEW es \in Seq(ModeEvent), QueueCallback(x, es)
  PROVE  LoopTypes'
<1> USE RigidEvents DEF LoopTypes
<1>1. LoopTypes
  BY TypesSplit
<1>2. agenda' = agenda \o es /\ UNCHANGED <<batch, looping>> /\ running' = Agenda!Nothing
  BY DEF QueueCallback, Idle
<1>3. agenda' \in Seq(ModeEvent)
  BY <1>1, <1>2
<1>4. callbacks' \in Seq(CallbackEvent) /\ tasks' \subseteq tasks
  <2>1. /\ callbacks' = callbacks \/ (callbacks # <<>> /\ callbacks' = Front(callbacks))
        /\ tasks' \subseteq tasks
    BY DEF QueueCallback
  <2>2. callbacks # <<>> => Front(callbacks) \in Seq(CallbackEvent)
    BY <1>1, LastTaken
  <2> QED BY <1>1, <2>1, <2>2
<1>5. RunningType'
  BY <1>2 DEF RunningType, Agenda!Nothing
<1> QED BY <1>1, <1>2, <1>3, <1>4, <1>5

\* Starts and stops.
LEMMA ModeTypesStartStop ==
  ASSUME ModeAssumption, Types, NEW m \in Mode,
         \/ Start(m) \/ ModeStarted(m)
         \/ \E callers \in Seq(Caller \X Nat) : Stop(m, callers)
         \/ ModeStopped(m)
  PROVE  ModeTypes'
<1> USE DEF ModeTypes, flagVars, resourceVars, taskVars, historyVars
<1>1. ModeTypes
  BY TypesSplit
<1>2. CASE Start(m)
  <2>1. starts[m] + 1 \in 0..MaxStarts
    BY <1>1, <1>2 DEF Start, ModeAssumption
  <2>2. starts' \in [Mode -> 0..MaxStarts]
    BY <1>1, <1>2, <2>1 DEF Start
  <2>3. wait_queue' \in [Mode -> BOOLEAN]
    BY <1>1, <1>2 DEF Start
  <2> QED BY <1>1, <1>2, <2>2, <2>3 DEF Start
<1>3. CASE ModeStarted(m)
  <2>1. main_task' \in [AsyncMode -> {"none", "running", "returned"}]
    BY <1>1, <1>3 DEF ModeStarted, CreateMainTask
  <2>2. active' \in [Mode -> BOOLEAN] /\ starting' \in [Mode -> BOOLEAN]
    BY <1>1, <1>3 DEF ModeStarted
  <2> QED BY <1>1, <1>3, <2>1, <2>2 DEF ModeStarted
<1>4. CASE \E callers \in Seq(Caller \X Nat) : Stop(m, callers)
  <2>1. PICK callers \in Seq(Caller \X Nat) : Stop(m, callers)
    BY <1>4
  <2>2. stop_callbacks[m] \o callers \in Seq(Caller \X Nat)
    BY <1>1
  <2>3. stop_callbacks' \in [Mode -> Seq(Caller \X Nat)]
    BY <1>1, <2>1, <2>2 DEF Stop, StopBody
  <2>4. stopping' \in [Mode -> BOOLEAN] /\ delayed' \in [Mode -> BOOLEAN]
    BY <1>1, <2>1 DEF Stop, StopBody
  <2>5. early' \in [Mode -> BOOLEAN]
    BY <1>1, <2>1 DEF Stop, StopBody, HookPending
  <2> QED BY <1>1, <2>1, <2>3, <2>4, <2>5 DEF Stop
<1>5. CASE ModeStopped(m)
  <2>1. starts[m] \in Nat
    BY <1>1
  <2>2. stops' \in [Mode -> Nat]
    BY <1>1, <1>5, <2>1 DEF ModeStopped
  <2>3. main_task' \in [AsyncMode -> {"none", "running", "returned"}]
    BY <1>1, <1>5 DEF ModeStopped, CancelMainTask
  <2>4. ended' \in [AsyncMode -> SUBSET Nat]
    <3>1. \A n \in AsyncMode : ended[n] \subseteq Nat
      BY <1>1
    <3> QED BY <1>5, <2>1, <3>1 DEF ModeStopped, CancelMainTask
  <2> QED BY <1>1, <1>5, <2>2, <2>3, <2>4 DEF ModeStopped
<1> QED BY <1>2, <1>3, <1>4, <1>5

\* Tasks, delays and the shutdown.
LEMMA ModeTypesTask ==
  ASSUME ModeAssumption, Types, NEW m \in AsyncMode,
         MainTaskReturns(m) \/ (\E r \in ended[m] : ModeEnded(m, r))
  PROVE  ModeTypes'
<1> USE DEF ModeTypes, flagVars, resourceVars, taskVars, historyVars
<1>1. ModeTypes /\ m \in Mode /\ \A n \in Mode : starts[n] \in Nat
  BY TypesSplit DEF ModeAssumption
<1>2. CASE MainTaskReturns(m)
  <2>1. ended' \in [AsyncMode -> SUBSET Nat]
    BY <1>1, <1>2 DEF MainTaskReturns
  <2> QED BY <1>1, <1>2, <2>1 DEF MainTaskReturns
<1>3. CASE \E r \in ended[m] : ModeEnded(m, r)
  <2>1. PICK r \in ended[m] : ModeEnded(m, r)
    BY <1>3
  <2>2. r \in Nat /\ ended' \in [AsyncMode -> SUBSET Nat]
    BY <1>1, <2>1 DEF ModeEnded
  <2>3. stop_callbacks[m] \o <<>> \in Seq(Caller \X Nat)
    BY <1>1
  <2>4. stop_callbacks' \in [Mode -> Seq(Caller \X Nat)]
    BY <1>1, <2>1, <2>3 DEF ModeEnded, StopBody
  <2>5. stopping' \in [Mode -> BOOLEAN] /\ delayed' \in [Mode -> BOOLEAN]
    BY <1>1, <2>1 DEF ModeEnded, StopBody
  <2>7. early' \in [Mode -> BOOLEAN]
    BY <1>1, <2>1 DEF ModeEnded, StopBody, HookPending
  <2>6. ended_by' \in [Mode -> Nat]
    <3>1. \/ ended_by' = ended_by
          \/ ended_by' = [ended_by EXCEPT ![m] = IF stopping[m] THEN @ ELSE r]
      BY <2>1 DEF ModeEnded
    <3> QED BY <1>1, <2>2, <3>1
  <2> QED BY <1>1, <2>1, <2>2, <2>4, <2>5, <2>6, <2>7 DEF ModeEnded
<1> QED BY <1>2, <1>3

\* Hooks, cleanup and delays.
LEMMA ModeTypesOther ==
  ASSUME ModeAssumption, Types, NEW m \in Mode,
         \/ ModeStartHook(m) \/ ModeStopHook(m) \/ CleanUp(m) \/ StopAnswered(m)
         \/ AddDelay(m) \/ DelayFires(m)
         \/ UNCHANGED modeVars
  PROVE  ModeTypes'
<1> USE DEF ModeTypes, flagVars, resourceVars, taskVars, historyVars
<1>1. ModeTypes /\ \A n \in Mode : starts[n] \in Nat
  BY TypesSplit
<1>2. CASE ModeStartHook(m)
  BY <1>1, <1>2 DEF ModeStartHook
<1>3. CASE ModeStopHook(m)
  BY <1>1, <1>3 DEF ModeStopHook
<1>4. CASE CleanUp(m)
  BY <1>1, <1>4 DEF CleanUp
<1>5. CASE StopAnswered(m)
  <2>1. <<>> \in Seq(Caller \X Nat)
    OBVIOUS
  <2>2. stop_callbacks' \in [Mode -> Seq(Caller \X Nat)]
    BY <1>1, <1>5, <2>1 DEF StopAnswered
  <2> QED BY <1>1, <1>5, <2>2 DEF StopAnswered
<1>6. CASE AddDelay(m)
  BY <1>1, <1>6 DEF AddDelay
<1>7. CASE DelayFires(m)
  BY <1>1, <1>7 DEF DelayFires
<1>8. CASE UNCHANGED modeVars
  BY <1>1, <1>8 DEF modeVars
<1> QED BY <1>2, <1>3, <1>4, <1>5, <1>6, <1>7, <1>8

\* The shutdown.
LEMMA ModeTypesMachine ==
  ASSUME ModeAssumption, Types, ShutDown \/ MachineStops \/ UNCHANGED modeVars
  PROVE  ModeTypes'
<1> USE DEF ModeTypes, flagVars, resourceVars, taskVars, historyVars
<1>1. ModeTypes /\ \A n \in Mode : starts[n] \in Nat
  BY TypesSplit
<1>2. CASE ShutDown
  BY <1>1, <1>2 DEF ShutDown
<1>3. CASE MachineStops
  <2>1. \A n \in AsyncMode : ended[n] \subseteq Nat /\ starts[n] \in Nat
    BY <1>1 DEF ModeAssumption
  <2>2. ended' \in [AsyncMode -> SUBSET Nat]
    BY <1>3, <2>1 DEF MachineStops
  <2> QED BY <1>1, <1>3, <2>2 DEF MachineStops
<1>4. CASE UNCHANGED modeVars
  BY <1>1, <1>4 DEF modeVars
<1> QED BY <1>2, <1>3, <1>4

\* Every step of any code.
LEMMA TypesStep ==
  ASSUME ModeAssumption, Types, [Next]_vars
  PROVE  Types'
<1>1. <<>> \in Seq(ModeEvent)
  OBVIOUS
<1>2. ASSUME NEW m \in Mode,
             \/ TakeModeEvent(m) \/ FinishModeEvent(m) \/ ModeStartHookDone(m)
      PROVE  Types'
  <2>1. UNCHANGED modeVars
    BY <1>2 DEF TakeModeEvent, FinishModeEvent, ModeStartHookDone
  <2>2. LoopTypes'
    BY <1>2, LoopTypesTake, LoopTypesDone DEF ModeStartHookDone
  <2> QED BY <2>1, <2>2, ModeTypesOther, TypesSplit
<1>3. ASSUME NEW m \in Mode,
             ModeStartHook(m) \/ ModeStopHook(m) \/ CleanUp(m) \/ StopAnswered(m)
      PROVE  Types'
  <2>1. LoopTypes'
    BY <1>3, LoopTypesCallback, LoopTypesDone DEF ModeStartHook, ModeStopHook, StopAnswered
  <2> QED BY <1>3, <2>1, ModeTypesOther, TypesSplit
<1>4. ASSUME NEW m \in Mode, ModeStarted(m) \/ ModeStopped(m)
      PROVE  Types'
  <2>1. <<News(m), Started(m)>> \in Seq(ModeEvent) /\ <<News(m), Stopped(m)>> \in Seq(ModeEvent)
    BY Events, Short
  <2>2. LoopTypes'
    BY <1>1, <1>4, <2>1, LoopTypesQueue DEF ModeStarted, ModeStopped
  <2> QED BY <1>4, <2>2, ModeTypesStartStop, TypesSplit
<1>5. ASSUME NEW m \in AsyncMode, NEW r \in ended[m], ModeEnded(m, r)
      PROVE  Types'
  <2>1. m \in Mode
    BY DEF ModeAssumption
  <2>2. <<Stopping(m)>> \in Seq(ModeEvent)
    BY <2>1, Events, Short
  <2>3. Post(<<Stopping(m)>>) \/ UNCHANGED loopVars
    BY <1>5 DEF ModeEnded, StopBody
  <2>4. LoopTypes'
    BY <2>2, <2>3, LoopTypesPost
  <2> QED BY <1>5, <2>4, ModeTypesTask, TypesSplit
<1>6. ASSUME NEW m \in AsyncMode, MainTaskReturns(m)
      PROVE  Types'
  <2>1. LoopTypes'
    BY <1>1, <1>6, LoopTypesPost DEF MainTaskReturns
  <2> QED BY <1>6, <2>1, ModeTypesTask, TypesSplit
<1>7. ASSUME NEW m \in Mode, AddDelay(m) \/ DelayFires(m)
      PROVE  Types'
  <2>1. LoopTypes'
    BY <1>1, <1>7, LoopTypesPost DEF AddDelay, DelayFires
  <2> QED BY <1>7, <2>1, ModeTypesOther, TypesSplit
<1>8. ASSUME NEW m \in Mode, Start(m)
      PROVE  Types'
  <2>1. <<Starting(m)>> \in Seq(ModeEvent)
    BY Events, Short
  <2>2. LoopTypes'
    BY <1>8, <2>1, LoopTypesPost DEF Start
  <2> QED BY <1>8, <2>2, ModeTypesStartStop, TypesSplit
<1>9. ASSUME NEW m \in Mode, Stop(m, <<>>) \/ (\E c \in Caller : StopWithCallback(m, c))
      PROVE  Types'
  <2>1. PICK callers \in Seq(Caller \X Nat) : Stop(m, callers)
    <3>1. <<>> \in Seq(Caller \X Nat)
      OBVIOUS
    <3>2. starts[m] \in Nat
      BY TypesSplit DEF ModeTypes
    <3>3. \A c \in Caller : <<<<c, starts[m]>>>> \in Seq(Caller \X Nat)
      BY <3>2
    <3> QED BY <1>9, <3>1, <3>3 DEF StopWithCallback
  <2>2. <<Stopping(m)>> \in Seq(ModeEvent)
    BY Events, Short
  <2>3. Post(<<Stopping(m)>>) \/ UNCHANGED loopVars
    BY <2>1 DEF Stop, StopBody
  <2>4. LoopTypes'
    BY <2>2, <2>3, LoopTypesPost
  <2> QED BY <2>1, <2>4, ModeTypesStartStop, TypesSplit
<1>10. ASSUME EndLoop, UNCHANGED modeVars
       PROVE  Types'
  <2>1. /\ agenda' \in Seq(ModeEvent) /\ batch' \in Seq(ModeEvent)
        /\ callbacks' \in Seq(CallbackEvent) /\ tasks' \subseteq QueueEvent
        /\ looping' \in BOOLEAN /\ running' = Agenda!Nothing
    BY <1>10, TypesSplit DEF EndLoop, LoopTypes
  <2>2. LoopTypes'
    BY <2>1, RigidEvents DEF LoopTypes, RunningType, Agenda!Nothing
  <2> QED BY <1>10, <2>2, ModeTypesMachine, TypesSplit
<1>12. ASSUME NEW m \in Mode, LoseQueueEvent(m)
       PROVE  Types'
  <2>1. /\ UNCHANGED <<agenda, batch, callbacks, running, looping>> /\ tasks' \subseteq tasks
        /\ UNCHANGED modeVars
    BY <1>12 DEF LoseQueueEvent
  <2>2. LoopTypes'
    BY <2>1, TypesSplit, RigidEvents, Rigid, Running DEF LoopTypes, RunningType
  <2> QED BY <2>1, <2>2, ModeTypesMachine, TypesSplit
<1>11. ASSUME ShutDown \/ MachineStops \/ UNCHANGED vars
       PROVE  Types'
  <2>1. UNCHANGED loopVars
    BY <1>11 DEF ShutDown, MachineStops, vars
  <2>2. LoopTypes'
    BY <1>1, <2>1, LoopTypesPost
  <2> QED BY <1>11, <2>2, ModeTypesMachine, TypesSplit DEF vars
<1> QED BY <1>2, <1>3, <1>4, <1>5, <1>6, <1>7, <1>8, <1>9, <1>10, <1>11, <1>12
        DEF Next, Loop, QueueDone, Timers, Environment

-------------------------------------------------------------------------------
(* What a step does to the modes it is not about.                           *)

\* No event of n's chain is new on its way, and its end is where it was.
SameWay(n) ==
  /\ Pending(Starting(n))' => Pending(Starting(n))
  /\ Pending(Started(n))' => Pending(Started(n))
  /\ Pending(Stopping(n))' => Pending(Stopping(n))
  /\ Pending(Stopped(n))' <=> Pending(Stopped(n))
  /\ running' = C(Answers(n)) => running = C(Answers(n))
  /\ running' = C(Stopped(n)) => running = C(Stopped(n))
  /\ HookPending(n)' => HookPending(n)

\* So is what n has.
SameData(n) ==
  /\ starting'[n] = starting[n] /\ active'[n] = active[n] /\ stopping'[n] = stopping[n]
  /\ equipped'[n] = equipped[n] /\ delayed'[n] = delayed[n]
  /\ stop_callbacks'[n] = stop_callbacks[n] /\ wait_queue'[n] = wait_queue[n]
  /\ starts'[n] = starts[n] /\ stops'[n] = stops[n] /\ hooked'[n] = hooked[n]
  /\ early'[n] = early[n]
  /\ n \in AsyncMode => main_task'[n] = main_task[n] /\ ended'[n] = ended[n]

\* A mode that a step is not about is left as it should be.
LEMMA ModeKept ==
  ASSUME NEW n \in Mode, ModeInv(n), SameWay(n), SameData(n)
  PROVE  ModeInv(n)'
<1> USE Rigid DEF SameWay, SameData
<1>1. Stage(n)'
  BY DEF ModeInv, Stage
<1>2. Resources(n)'
  BY DEF ModeInv, Resources
<1>3. TaskOf(n)'
  BY DEF ModeInv, TaskOf
<1>4. Hooks(n)'
  BY DEF ModeInv, Hooks
<1>5. Answering(n)'
  BY DEF ModeInv, Answering
<1> QED BY <1>1, <1>2, <1>3, <1>4, <1>5 DEF ModeInv

\* What the types say of one mode.
LEMMA ModeTypesAt ==
  ASSUME Types, NEW n \in Mode
  PROVE  /\ starting[n] \in BOOLEAN /\ active[n] \in BOOLEAN /\ stopping[n] \in BOOLEAN
         /\ equipped[n] \in BOOLEAN /\ delayed[n] \in BOOLEAN /\ wait_queue[n] \in BOOLEAN
         /\ hooked[n] \in BOOLEAN /\ starts[n] \in Nat /\ stops[n] \in Nat
         /\ stop_callbacks[n] \in Seq(Caller \X Nat)
         /\ \A i \in DOMAIN stop_callbacks[n] : stop_callbacks[n][i][2] \in Nat
BY TypesSplit DEF ModeTypes

\* A callback is taken when the agenda is empty.
LEMMA EmptiedKept ==
  ASSUME Emptied,
         \/ running' = Agenda!Nothing \/ (\E e : running' = H(e)) \/ agenda' = <<>>
         \/ running' = running /\ agenda' = agenda
  PROVE  Emptied'
<1>1. SUFFICES ASSUME NEW n \in Mode,
                      running' \in {C(Started(n)), C(Stopped(n)), C(Answers(n))}
               PROVE  agenda' = <<>>
  BY Rigid DEF Emptied
<1>2. running' # Agenda!Nothing /\ \A e : running' # H(e)
  BY <1>1, Running
<1> QED BY <1>1, <1>2 DEF Emptied

\* What no code is about.
Rest == Emptied /\ Singles /\ \A n \in Mode : ModeInv(n)

\* The events of two modes are not the same.
LEMMA Elsewhere ==
  ASSUME NEW m, NEW n, n # m
  PROVE  /\ {Starting(n), Started(n), Stopping(n), Stopped(n), Answers(n)} \cap
            {Starting(m), Started(m), Stopping(m), Stopped(m), Answers(m), News(m)} = {}
         /\ {C(Answers(n)), C(Stopped(n))} \cap {C(Started(m)), C(Answers(m)), C(Stopped(m))} = {}
<1>1. ASSUME NEW e \in {Starting(n), Started(n), Stopping(n), Stopped(n), Answers(n)},
             NEW f \in {Starting(m), Started(m), Stopping(m), Stopped(m), Answers(m), News(m)}
      PROVE  e # f
  BY DEF Starting, Started, Stopping, Stopped, Answers, News
<1>2. ASSUME NEW e \in {Answers(n), Stopped(n)}, NEW f \in {Started(m), Answers(m), Stopped(m)}
      PROVE  C(e) # C(f)
  BY <1>1, Running
<1> QED BY <1>1, <1>2

-------------------------------------------------------------------------------
(* The steps of the loop.                                                   *)

\* The loop takes up an event.
LEMMA TakeModeEventStep ==
  ASSUME IInv, NEW m \in Mode, TakeModeEvent(m)
  PROVE  Rest'
<1> USE Rigid
<1>1. Types /\ Emptied /\ Singles /\ \A n \in Mode : ModeInv(n)
  BY DEF IInv
<1>2. \A e : (Pending(e)' <=> Pending(e)) /\ (Single(e) => Single(e)')
  BY <1>1, Events, TakeEventStep, TakeQueueEventStep DEF TakeModeEvent
<1>3. running = Agenda!Nothing /\ (running' = Agenda!Nothing \/ \E e : running' = H(e))
  BY DEF TakeModeEvent, TakeEvent, TakeQueueEvent, Agenda!StartEvent, H
<1>4. Emptied'
  BY <1>1, <1>3, EmptiedKept
<1>5. Singles'
  BY <1>1, <1>2 DEF Singles
<1>6. ASSUME NEW n \in Mode PROVE ModeInv(n)'
  <2>1. SameData(n)
    BY DEF TakeModeEvent, modeVars, flagVars, resourceVars, taskVars, historyVars, SameData
  <2>2. running' # C(Answers(n)) /\ running' # C(Stopped(n))
    BY <1>3, Running
  <2>4. HookPending(n)' => HookPending(n)
    BY <1>1, <1>2, <1>3, Running, HookKept
  <2>3. SameWay(n)
    BY <1>2, <2>2, <2>4 DEF SameWay
  <2> QED BY <1>1, <2>1, <2>3, ModeKept
<1> QED BY <1>4, <1>5, <1>6 DEF Rest

\* The handlers of an event have run.
LEMMA FinishModeEventStep ==
  ASSUME IInv, NEW m \in Mode, FinishModeEvent(m)
  PROVE  Rest'
<1> USE Rigid
<1>1. Types /\ Emptied /\ Singles /\ \A n \in Mode : ModeInv(n)
  BY DEF IInv
<1>2. PICK x \in {News(m), Started(m), Stopped(m)} :
        /\ EventDone(x)
        /\ \/ x = News(m) /\ callbacks' = callbacks
           \/ x \in CallbackEvent /\ callbacks' = Append(callbacks, x)
  BY Events DEF FinishModeEvent
<1>3. ASSUME NEW e, e # News(m)
      PROVE  /\ Pending(e)' <=> Pending(e)
             /\ e # x /\ Single(e) => Single(e)'
  <2>1. callbacks \in Seq(CallbackEvent)
    BY <1>1 DEF Types, TypeOK
  <2>2. callbacks' = Append(callbacks, x) => callbacks' # callbacks
    <3>1. callbacks' = Append(callbacks, x) =>
            Len(callbacks') = Len(callbacks) + 1 /\ Len(callbacks) \in Nat
      BY <2>1
    <3> QED BY <3>1
  <2> QED BY <1>1, <1>2, <1>3, <2>2, EventDoneStep
<1>4. running' = Agenda!Nothing
  BY <1>2 DEF EventDone
<1>5. Emptied'
  BY <1>1, <1>4, EmptiedKept
<1>6. Singles'
  <2>1. ASSUME NEW n \in Mode PROVE Single(Starting(n))' /\ Single(Stopping(n))'
    <3>1. Starting(n) \notin {x, News(m)} /\ Stopping(n) \notin {x, News(m)}
      BY <1>2, Names
    <3> QED BY <1>1, <1>3, <3>1 DEF Singles
  <2> QED BY <2>1 DEF Singles
<1>7. ASSUME NEW n \in Mode PROVE ModeInv(n)'
  <2>1. SameData(n)
    BY DEF FinishModeEvent, modeVars, flagVars, resourceVars, taskVars, historyVars, SameData
  <2>2. running' # C(Answers(n)) /\ running' # C(Stopped(n))
    BY <1>4, Running
  <2>3. News(m) \notin {Starting(n), Started(n), Stopping(n), Stopped(n)}
    BY Names
  <2>5. running # C(Started(n))
    BY <1>2, Running DEF EventDone, H
  <2>6. HookPending(n)' => HookPending(n)
    BY <1>1, <1>3, <2>3, <2>5, HookKept
  <2>4. SameWay(n)
    BY <1>3, <2>2, <2>3, <2>6 DEF SameWay
  <2> QED BY <1>1, <2>1, <2>4, ModeKept
<1> QED BY <1>5, <1>6, <1>7 DEF Rest

\* The callbacks of mode_X_started: mode_start() runs in an active mode.
LEMMA ModeStartHookStep ==
  ASSUME IInv, NEW m \in Mode, ModeStartHook(m) \/ ModeStartHookDone(m)
  PROVE  Rest'
<1> USE Rigid
<1>1. Types /\ Emptied /\ Singles /\ \A n \in Mode : ModeInv(n)
  BY DEF IInv
<1>2. CASE ModeStartHook(m)
  <2>1. /\ \A e : (Pending(e)' <=> Pending(e)) /\ (Single(e) => Single(e)')
        /\ Pending(Started(m)) /\ agenda' = <<>> /\ running' = C(Started(m))
    BY <1>1, <1>2, TakeCallbackStep DEF ModeStartHook
  <2>2. Emptied'
    BY <1>1, <2>1, EmptiedKept
  <2>3. Singles'
    BY <1>1, <2>1 DEF Singles
  <2>4. ASSUME NEW n \in Mode PROVE SameWay(n)
    <3>1. running' # C(Answers(n)) /\ running' # C(Stopped(n))
      BY <2>1, Names, Running
    <3>2. running # C(Started(n))
      BY <1>2, Running DEF ModeStartHook, TakeCallback, Agenda!StartCallback
    <3>3. HookPending(n)' => HookPending(n)
      BY <1>1, <2>1, <3>2, HookKept
    <3> QED BY <2>1, <3>1, <3>3 DEF SameWay
  <2>5. /\ UNCHANGED <<flagVars, resourceVars, taskVars, starts, stops, early>>
        /\ hooked' = [hooked EXCEPT ![m] = TRUE]
    BY <1>2 DEF ModeStartHook
  <2>6. ASSUME NEW n \in Mode, n # m PROVE ModeInv(n)'
    <3>1. SameData(n)
      BY <1>1, <2>5, <2>6, TypesSplit DEF flagVars, resourceVars, taskVars, SameData, ModeTypes
    <3> QED BY <1>1, <2>4, <3>1, ModeKept
  <2>7. ModeInv(m)'
    <3>1. ModeInv(m) /\ (active[m] \/ early[m])
      <4>1. In(callbacks, Started(m))
        BY <1>1, <1>2, TakeCallbackStep DEF ModeStartHook
      <4> QED BY <1>1, <4>1, HookPlaces DEF ModeInv, Hooks, Ahead
    <3>2. Stage(m)'
      BY <2>4, <2>5, <3>1 DEF SameWay, ModeInv, Stage, flagVars
    <3>3. Resources(m)'
      BY <2>4, <2>5, <3>1 DEF SameWay, ModeInv, Resources, flagVars, resourceVars
    <3>4. TaskOf(m)'
      BY <2>5, <3>1 DEF ModeInv, TaskOf, flagVars, taskVars
    <3>5. Hooks(m)'
      <4>1. running' # C(Stopped(m))
        BY <2>1, Names, Running
      <4> QED BY <2>4, <2>5, <3>1, <4>1 DEF SameWay, ModeInv, Hooks, flagVars
    <3>6. Answering(m)'
      BY <2>4, <2>5, <3>1 DEF SameWay, ModeInv, Answering, resourceVars
    <3> QED BY <3>2, <3>3, <3>4, <3>5, <3>6 DEF ModeInv
  <2> QED BY <2>2, <2>3, <2>6, <2>7 DEF Rest
<1>3. CASE ModeStartHookDone(m)
  <2>1. CallbackDone(Started(m)) /\ UNCHANGED modeVars /\ agenda = <<>>
    BY <1>1, <1>3 DEF ModeStartHookDone, CallbackDone, Emptied, C
  <2>2. \A e : /\ Pending(e)' => Pending(e)
               /\ e # Started(m) => (Pending(e)' <=> Pending(e))
               /\ Ahead(e)' => Ahead(e)
               /\ Single(e) => Single(e)'
    BY <1>1, <2>1, CallbackDoneStep
  <2>3. running' = Agenda!Nothing
    BY <2>1 DEF CallbackDone
  <2>4. Emptied'
    BY <1>1, <2>3, EmptiedKept
  <2>5. Singles'
    BY <1>1, <2>2 DEF Singles
  <2>6. ASSUME NEW n \in Mode PROVE ModeInv(n)'
    <3>1. running' # C(Answers(n)) /\ running' # C(Stopped(n))
      BY <2>3, Running
    <3>2. SameWay(n)
      BY <2>2, <3>1, Names, HookPlaces DEF SameWay
    <3>3. SameData(n)
      BY <2>1 DEF modeVars, flagVars, resourceVars, taskVars, historyVars, SameData
    <3> QED BY <1>1, <3>2, <3>3, ModeKept
  <2> QED BY <2>4, <2>5, <2>6 DEF Rest
<1> QED BY <1>2, <1>3

\* mode_stop() runs in a mode that is over.
LEMMA ModeStopHookStep ==
  ASSUME IInv, NEW m \in Mode, ModeStopHook(m)
  PROVE  Rest'
<1> USE Rigid
<1>1. Types /\ Emptied /\ Singles /\ \A n \in Mode : ModeInv(n)
  BY DEF IInv
<1>2. /\ \A e : (Pending(e)' <=> Pending(e)) /\ (Single(e) => Single(e)')
      /\ Pending(Stopped(m)) /\ agenda' = <<>> /\ running' = C(Stopped(m))
  BY <1>1, TakeCallbackStep DEF ModeStopHook
<1>3. Emptied'
  BY <1>1, <1>2, EmptiedKept
<1>4. Singles'
  BY <1>1, <1>2 DEF Singles
<1>5. \A n \in Mode : running' # C(Answers(n)) /\ (n # m => running' # C(Stopped(n)))
  BY <1>2, Names, Running
<1>9. ASSUME NEW n \in Mode PROVE HookPending(n)' => HookPending(n)
  <2>1. running # C(Started(n))
    BY Running DEF ModeStopHook, TakeCallback, Agenda!StartCallback
  <2> QED BY <1>1, <1>2, <2>1, HookKept
<1>6. /\ UNCHANGED <<flagVars, resourceVars, taskVars, starts, stops, early>>
      /\ hooked' = [hooked EXCEPT ![m] = FALSE]
  BY DEF ModeStopHook
<1>7. ASSUME NEW n \in Mode, n # m PROVE ModeInv(n)'
  <2>1. SameData(n)
    BY <1>1, <1>6, <1>7, TypesSplit DEF flagVars, resourceVars, taskVars, SameData, ModeTypes
  <2>2. SameWay(n)
    BY <1>2, <1>5, <1>7, <1>9 DEF SameWay
  <2> QED BY <1>1, <2>1, <2>2, ModeKept
<1>8. ModeInv(m)'
  <2>1. ModeInv(m)
    BY <1>1
  <2>2. Stage(m)'
    BY <1>2, <1>5, <1>6, <2>1 DEF ModeInv, Stage, flagVars
  <2>3. Resources(m)'
    BY <1>2, <1>6, <2>1 DEF ModeInv, Resources, flagVars, resourceVars
  <2>4. TaskOf(m)'
    BY <1>6, <2>1 DEF ModeInv, TaskOf, flagVars, taskVars
  <2>5. Hooks(m)'
    <3>1. ~hooked'[m]
      BY <1>1, <1>6, TypesSplit DEF ModeTypes
    <3> QED BY <1>6, <1>9, <2>1, <3>1 DEF ModeInv, Hooks, flagVars
  <2>6. Answering(m)'
    BY <1>2, <1>5, <1>6, <2>1 DEF ModeInv, Answering, resourceVars
  <2> QED BY <2>2, <2>3, <2>4, <2>5, <2>6 DEF ModeInv
<1> QED BY <1>3, <1>4, <1>7, <1>8 DEF Rest

\* The handlers of a mode go, when it needs them no longer.
LEMMA CleanUpStep ==
  ASSUME IInv, NEW m \in Mode, CleanUp(m)
  PROVE  Rest'
<1> USE Rigid
<1>1. Types /\ Emptied /\ Singles /\ \A n \in Mode : ModeInv(n)
  BY DEF IInv
<1>2. /\ running = C(Stopped(m)) /\ running' = C(Answers(m))
      /\ UNCHANGED <<agenda, batch, callbacks, tasks>> /\ agenda = <<>>
  BY <1>1 DEF CleanUp, Emptied, C
<1>3. Pending(Stopped(m))
  BY <1>2, Places
<1>4. ASSUME NEW e, e # Stopped(m), e # Answers(m) PROVE Pending(e)' <=> Pending(e)
  BY <1>2, <1>4, Places, Running
<1>5. Pending(Stopped(m))' => Pending(Stopped(m))
  BY <1>3
<1>6. Emptied'
  BY <1>1, <1>2, EmptiedKept
<1>7. Singles'
  BY <1>1, <1>2 DEF Singles, Single, In, OnceIn
<1>8. /\ UNCHANGED <<flagVars, delayed, stop_callbacks, wait_queue, taskVars, historyVars>>
      /\ equipped' = [equipped EXCEPT ![m] = FALSE]
  BY DEF CleanUp
<1>11. ASSUME NEW n \in Mode PROVE HookPending(n)' => HookPending(n)
  <2>1. running # C(Started(n)) /\ Started(n) \notin {Stopped(m), Answers(m)}
    BY <1>2, Running, Names
  <2> QED BY <1>1, <1>4, <2>1, HookKept
<1>9. ASSUME NEW n \in Mode, n # m PROVE ModeInv(n)'
  <2>1. SameData(n)
    BY <1>1, <1>8, <1>9, TypesSplit DEF flagVars, taskVars, historyVars, SameData, ModeTypes
  <2>2. running' # C(Answers(n)) /\ running' # C(Stopped(n))
    BY <1>2, <1>9, Names, Running
  <2>3. /\ {Starting(n), Started(n), Stopping(n), Stopped(n)} \cap {Stopped(m), Answers(m)} = {}
    BY <1>9, Names
  <2>4. SameWay(n)
    BY <1>4, <1>11, <2>2, <2>3 DEF SameWay
  <2> QED BY <1>1, <2>1, <2>4, ModeKept
<1>10. ModeInv(m)'
  <2>1. ModeInv(m) /\ ~starting[m] /\ ~active[m] /\ ~hooked[m]
    BY <1>1, <1>2, <1>3 DEF ModeInv, Stage, Hooks
  <2>2. ~equipped'[m] /\ ~wait_queue[m] /\ (m \notin LateControl => ~delayed[m])
    BY <1>1, <1>3, <1>8, <2>1, TypesSplit DEF ModeInv, Resources, ModeTypes
  <2>3. /\ Pending(Starting(m))' => Pending(Starting(m))
        /\ Pending(Stopping(m))' => Pending(Stopping(m))
        /\ Pending(Started(m))' => Pending(Started(m))
    BY <1>4, Names
  <2>4. Stage(m)'
    BY <1>8, <2>1, <2>3 DEF ModeInv, Stage, flagVars
  <2>5. Resources(m)'
    BY <1>8, <2>1, <2>2 DEF Resources, flagVars
  <2>6. TaskOf(m)'
    BY <1>8, <2>1 DEF ModeInv, TaskOf, flagVars, taskVars, historyVars
  <2>7. Hooks(m)'
    BY <1>8, <1>11, <2>1 DEF ModeInv, Hooks, flagVars, historyVars
  <2>8. Answering(m)'
    BY <1>3, <1>8, <2>1 DEF ModeInv, Answering, historyVars
  <2> QED BY <2>4, <2>5, <2>6, <2>7, <2>8 DEF ModeInv
<1> QED BY <1>6, <1>7, <1>9, <1>10 DEF Rest

\* Those who wait for the end have been told.
LEMMA StopAnsweredStep ==
  ASSUME IInv, NEW m \in Mode, StopAnswered(m)
  PROVE  Rest'
<1> USE Rigid
<1>1. Types /\ Emptied /\ Singles /\ \A n \in Mode : ModeInv(n)
  BY DEF IInv
<1>2. CallbackDone(Answers(m)) /\ agenda = <<>> /\ running' = Agenda!Nothing
  BY <1>1 DEF StopAnswered, CallbackDone, Emptied, C
<1>3. \A e : /\ e # Answers(m) => (Pending(e)' <=> Pending(e))
             /\ Single(e) => Single(e)'
             /\ Ahead(e)' => Ahead(e)
  BY <1>1, <1>2, CallbackDoneStep
<1>4. Emptied'
  BY <1>1, <1>2, EmptiedKept
<1>5. Singles'
  BY <1>1, <1>3 DEF Singles
<1>6. /\ UNCHANGED <<flagVars, equipped, delayed, wait_queue, taskVars, historyVars>>
      /\ stop_callbacks' = [stop_callbacks EXCEPT ![m] = <<>>]
  BY DEF StopAnswered
<1>7. ASSUME NEW n \in Mode PROVE SameWay(n)
  <2>1. running' # C(Answers(n)) /\ running' # C(Stopped(n))
    BY <1>2, Running
  <2> QED BY <1>3, <2>1, Names, HookPlaces DEF SameWay
<1>8. ASSUME NEW n \in Mode, n # m PROVE ModeInv(n)'
  <2>1. SameData(n)
    BY <1>1, <1>6, <1>8, TypesSplit DEF flagVars, taskVars, historyVars, SameData, ModeTypes
  <2> QED BY <1>1, <1>7, <2>1, ModeKept
<1>9. ModeInv(m)'
  <2>1. ModeInv(m) /\ SameWay(m)
    BY <1>1, <1>7
  <2>2. Stage(m)'
    BY <1>6, <2>1 DEF SameWay, ModeInv, Stage, flagVars
  <2>3. Resources(m)'
    BY <1>6, <2>1 DEF SameWay, ModeInv, Resources, flagVars
  <2>4. TaskOf(m)'
    BY <1>6, <2>1 DEF ModeInv, TaskOf, flagVars, taskVars, historyVars
  <2>5. Hooks(m)'
    BY <1>6, <2>1 DEF SameWay, ModeInv, Hooks, flagVars, historyVars
  <2>6. Answering(m)'
    <3>1. stop_callbacks'[m] = <<>>
      BY <1>1, <1>6, TypesSplit DEF ModeTypes
    <3> QED BY <3>1 DEF Answering
  <2> QED BY <2>2, <2>3, <2>4, <2>5, <2>6 DEF ModeInv
<1> QED BY <1>4, <1>5, <1>8, <1>9 DEF Rest

\* Steps that neither the events nor the modes notice.
LEMMA QuietStep ==
  ASSUME IInv, UNCHANGED <<agenda, batch, callbacks, running, tasks>>,
         UNCHANGED <<flagVars, resourceVars, taskVars, historyVars>>
  PROVE  Rest'
<1> USE Rigid
<1>1. Types /\ Emptied /\ Singles /\ \A n \in Mode : ModeInv(n)
  BY DEF IInv
<1>2. Emptied'
  BY <1>1, EmptiedKept
<1>3. Singles'
  BY <1>1 DEF Singles, Single, In, OnceIn
<1>4. ASSUME NEW n \in Mode PROVE ModeInv(n)'
  <2>1. \A e : Pending(e)' <=> Pending(e)
    BY Places
  <2>3. HookPending(n)' <=> HookPending(n)
    BY HookPlaces, Rigid DEF Ahead
  <2>2. SameWay(n) /\ SameData(n)
    BY <2>1, <2>3 DEF SameWay, SameData, flagVars, resourceVars, taskVars, historyVars
  <2> QED BY <1>1, <2>2, ModeKept
<1> QED BY <1>2, <1>3, <1>4 DEF Rest

-------------------------------------------------------------------------------
(* start().                                                                 *)

\* A mode starts when the end of its last run is over: nothing of its chain is on its
\* way.
LEMMA StartStep ==
  ASSUME EarlyStart = {}, IInv, NEW m \in Mode, Start(m)
  PROVE  Rest'
<1> USE Rigid
<1>1. Types /\ Emptied /\ Singles /\ \A n \in Mode : ModeInv(n)
  BY DEF IInv
<1>2. /\ ~active[m] /\ ~starting[m] /\ ~Pending(Stopped(m))
      /\ m \in AsyncMode => ended[m] = {}
  BY DEF Start, EndPending
<1>3. ModeInv(m) /\ ~stopping[m] /\ ~Pending(Starting(m)) /\ ~Pending(Stopping(m))
  BY <1>1, <1>2 DEF ModeInv, Stage
<1>4. /\ <<Starting(m)>> \in Seq(ModeEvent)
      /\ \A e : (In(<<Starting(m)>>, e) <=> e = Starting(m)) /\ OnceIn(<<Starting(m)>>, e)
  BY Events, Short
<1>5. ASSUME NEW e
      PROVE  /\ Pending(e)' <=> Pending(e) \/ e = Starting(m)
             /\ Single(e) => Single(e)'
             /\ Ahead(e)' <=> Ahead(e) \/ e = Starting(m)
  BY <1>1, <1>3, <1>4, PostStep DEF Start
<1>6. running' = running /\ (running # Agenda!Nothing => agenda' = agenda)
  BY DEF Start, Post
<1>7. Emptied'
  BY <1>1, <1>6, EmptiedKept
<1>8. Singles'
  BY <1>1, <1>5 DEF Singles
<1>9. /\ starting' = [starting EXCEPT ![m] = TRUE] /\ equipped' = [equipped EXCEPT ![m] = TRUE]
      /\ starts' = [starts EXCEPT ![m] = @ + 1]
      /\ UNCHANGED <<active, stopping, delayed, stop_callbacks, taskVars, stops, hooked, early>>
  BY DEF Start
<1>10. \E held \in BOOLEAN : wait_queue' = [wait_queue EXCEPT ![m] = @ \/ held]
  BY DEF Start
<1>11. ASSUME NEW n \in Mode, n # m PROVE ModeInv(n)'
  <2>1. wait_queue'[n] = wait_queue[n]
    BY <1>1, <1>10, <1>11, TypesSplit DEF ModeTypes
  <2>2. SameData(n)
    BY <1>1, <1>9, <1>11, <2>1, TypesSplit DEF taskVars, SameData, ModeTypes
  <2>3. Starting(m) \notin {Starting(n), Started(n), Stopping(n), Stopped(n)}
    BY <1>11, Names
  <2>4. SameWay(n)
    BY <1>5, <1>6, <2>3, HookPlaces DEF SameWay
  <2> QED BY <1>1, <2>2, <2>4, ModeKept
<1>12. ModeInv(m)'
  <2>1. starting'[m] = TRUE /\ equipped'[m] = TRUE /\ starts'[m] = starts[m] + 1
    BY <1>1, <1>9, TypesSplit DEF ModeTypes
  <2>2. /\ Pending(Started(m))' <=> Pending(Started(m))
        /\ ~Pending(Stopping(m))' /\ ~Pending(Stopped(m))'
    BY <1>2, <1>3, <1>5, Names
  <2>3. running # C(Stopped(m))
    BY <1>2, Places
  <2>4. Stage(m)'
    BY <1>2, <1>3, <1>6, <1>9, <2>1, <2>2 DEF ModeInv, Stage
  <2>5. Resources(m)'
    BY <1>2, <1>3, <1>9, <2>1, <2>2 DEF ModeInv, Resources
  <2>6. TaskOf(m)'
    BY <1>2, <1>9, <2>1 DEF TaskOf, taskVars
  <2>7. Hooks(m)'
    <3>1. HookPending(m)' => HookPending(m)
      BY <1>5, Names, HookPlaces
    <3> QED BY <1>2, <1>3, <1>6, <1>9, <2>3, <3>1 DEF ModeInv, Hooks
  <2>8. Answering(m)'
    <3>1. \A i \in DOMAIN stop_callbacks[m] :
            /\ stop_callbacks[m][i][2] <= starts[m] + 1
            /\ running = C(Answers(m)) => stop_callbacks[m][i][2] <= stops[m]
      BY <1>1, <1>3, ModeTypesAt DEF ModeInv, Answering
    <3> QED BY <1>6, <1>9, <2>1, <2>2, <3>1 DEF Answering
  <2> QED BY <2>4, <2>5, <2>6, <2>7, <2>8 DEF ModeInv
<1> QED BY <1>7, <1>8, <1>11, <1>12 DEF Rest

\* The event that starts a mode is over: the mode is active, or the machine stops.
LEMMA ModeStartedStep ==
  ASSUME IInv, NEW m \in Mode, ModeStarted(m)
  PROVE  Rest'
<1> USE Rigid
<1>1. Types /\ Emptied /\ Singles /\ \A n \in Mode : ModeInv(n)
  BY DEF IInv
<1>2. PICK es \in {<<>>, <<News(m), Started(m)>>} :
        /\ QueueCallback(Starting(m), es)
        /\ es = <<>> => UNCHANGED <<active, starting>>
        /\ es # <<>> => /\ active' = [active EXCEPT ![m] = TRUE]
                        /\ starting' = [starting EXCEPT ![m] = FALSE]
  <2>1. <<News(m), Started(m)>> # <<>>
    OBVIOUS
  <2> QED BY <2>1 DEF ModeStarted
<1>3. /\ <<>> \in Seq(ModeEvent) /\ <<News(m), Started(m)>> \in Seq(ModeEvent)
      /\ \A e : /\ ~In(<<>>, e)
                /\ In(<<News(m), Started(m)>>, e) <=> e = News(m) \/ e = Started(m)
  <2>1. News(m) \in ModeEvent /\ Started(m) \in ModeEvent
    BY Events
  <2>2. /\ <<>> \in Seq(ModeEvent) /\ <<News(m), Started(m)>> \in Seq(ModeEvent)
    BY <2>1, Short
  <2>3. ASSUME NEW e
        PROVE  ~In(<<>>, e) /\ (In(<<News(m), Started(m)>>, e) <=> e = News(m) \/ e = Started(m))
    BY ShortIn
  <2> QED BY <2>2, <2>3
<1>4. /\ es \in Seq(ModeEvent)
      /\ \A e : In(es, e) => e \in {News(m), Started(m)}
      /\ es = <<>> => \A e : ~In(es, e)
  BY <1>2, <1>3
<1>5. ASSUME NEW e
      PROVE  /\ Pending(e)' => Pending(e) \/ e \in {News(m), Started(m)}
             /\ e \notin {Starting(m), News(m), Started(m)} => (Pending(e)' <=> Pending(e))
             /\ e \notin {News(m), Started(m)} /\ Single(e) => Single(e)'
  BY <1>1, <1>2, <1>4, QueueCallbackStep
<1>6. /\ running = Agenda!Nothing /\ running' = Agenda!Nothing /\ Pending(Starting(m))
      /\ ~Pending(Starting(m))'
      /\ es = <<>> => (Pending(Started(m))' => Pending(Started(m)))
  <2>1. ~In(es, Starting(m)) /\ Single(Starting(m)) /\ (es = <<>> => ~In(es, Started(m)))
    BY <1>1, <1>4, Names DEF Singles
  <2> QED BY <1>1, <1>2, <1>4, <2>1, QueueCallbackStep
<1>7. Emptied'
  BY <1>1, <1>6, EmptiedKept
<1>8. Singles'
  BY <1>1, <1>5, Names DEF Singles
<1>9. UNCHANGED <<stopping, resourceVars, ended, starts, stops, hooked, early>>
  BY DEF ModeStarted
<1>10. main_task' = [n \in AsyncMode |-> IF n = m THEN "running" ELSE main_task[n]]
  BY DEF ModeStarted, CreateMainTask
<1>11. \A n : running' # C(Answers(n)) /\ running' # C(Stopped(n))
  BY <1>6, Running
<1>12. ASSUME NEW n \in Mode, n # m PROVE ModeInv(n)'
  <2>1. active'[n] = active[n] /\ starting'[n] = starting[n]
    BY <1>1, <1>2, <1>12, TypesSplit DEF ModeTypes
  <2>2. SameData(n)
    BY <1>1, <1>9, <1>10, <1>12, <2>1, TypesSplit DEF resourceVars, SameData, ModeTypes
  <2>3. {Starting(n), Started(n), Stopping(n), Stopped(n)} \cap
        {Starting(m), News(m), Started(m)} = {}
    BY <1>12, Names
  <2>5. HookPending(n)' => HookPending(n)
    BY <1>1, <1>5, <1>6, <2>3, Running, HookKept
  <2>4. SameWay(n)
    BY <1>5, <1>11, <2>3, <2>5 DEF SameWay
  <2> QED BY <1>1, <2>2, <2>4, ModeKept
<1>13. ModeInv(m)'
  <2>1. ModeInv(m) /\ starting[m] /\ ~active[m] /\ ~stopping[m] /\ ~Pending(Stopped(m))
    BY <1>1, <1>6 DEF ModeInv, Stage
  <2>2. /\ Pending(Stopping(m))' => Pending(Stopping(m))
        /\ ~Pending(Stopped(m))'
    BY <1>5, <2>1, Names
  <2>3. /\ es = <<>> => active'[m] = active[m] /\ starting'[m] = starting[m]
        /\ es # <<>> => active'[m] = TRUE /\ starting'[m] = FALSE
    BY <1>1, <1>2, TypesSplit DEF ModeTypes
  <2>4. Stage(m)'
    BY <1>6, <1>9, <1>11, <2>1, <2>2, <2>3 DEF ModeInv, Stage
  <2>5. Resources(m)'
    BY <1>9, <2>1, <2>2, <2>3 DEF ModeInv, Resources, resourceVars
  <2>6. TaskOf(m)'
    BY <1>9, <2>1, <2>3 DEF ModeInv, TaskOf
  <2>7. Hooks(m)'
    <3>1. es = <<>> => (HookPending(m)' => HookPending(m))
      BY <1>1, <1>6, Running, HookKept
    <3> QED BY <1>9, <1>11, <2>1, <2>3, <3>1 DEF ModeInv, Hooks
  <2>8. Answering(m)'
    BY <1>9, <1>11, <2>1, <2>2 DEF ModeInv, Answering, resourceVars
  <2> QED BY <2>4, <2>5, <2>6, <2>7, <2>8 DEF ModeInv
<1> QED BY <1>7, <1>8, <1>12, <1>13 DEF Rest

-------------------------------------------------------------------------------
(* stop().                                                                  *)

\* An active mode is asked to stop, by its task or by other code.
LEMMA StopBodyStep ==
  ASSUME IInv, NEW m \in Mode, active[m],
         NEW callers \in Seq(Caller \X Nat), \A i \in DOMAIN callers : callers[i][2] = starts[m],
         StopBody(m, callers),
         UNCHANGED <<starting, active, equipped, wait_queue, starts, stops, hooked>>,
         main_task' = main_task,
         \A n \in AsyncMode : ended'[n] \subseteq ended[n] /\ (n # m => ended'[n] = ended[n])
  PROVE  Rest'
<1> USE Rigid
<1>1. Types /\ Emptied /\ Singles /\ \A n \in Mode : ModeInv(n)
  BY DEF IInv
<1>2. ModeInv(m) /\ ~starting[m] /\ ~Pending(Stopped(m)) /\ running # C(Answers(m))
  BY <1>1 DEF ModeInv, Stage
<1>3. /\ stop_callbacks' = [stop_callbacks EXCEPT ![m] = @ \o callers]
      /\ stopping[m] => /\ stopping' = stopping /\ delayed' = delayed /\ early' = early
                        /\ UNCHANGED loopVars
      /\ ~stopping[m] => /\ stopping' = [stopping EXCEPT ![m] = TRUE]
                         /\ early' = [early EXCEPT ![m] = HookPending(m)]
                         /\ delayed' = [delayed EXCEPT ![m] = FALSE]
                         /\ Post(<<Stopping(m)>>)
  BY DEF StopBody
<1>4. /\ <<Stopping(m)>> \in Seq(ModeEvent)
      /\ \A e : (In(<<Stopping(m)>>, e) <=> e = Stopping(m)) /\ OnceIn(<<Stopping(m)>>, e)
  <2>1. Stopping(m) \in ModeEvent
    BY Events
  <2>2. <<Stopping(m)>> \in Seq(ModeEvent)
    BY <2>1, Short
  <2>3. ASSUME NEW e
        PROVE  (In(<<Stopping(m)>>, e) <=> e = Stopping(m)) /\ OnceIn(<<Stopping(m)>>, e)
    BY ShortIn
  <2> QED BY <2>2, <2>3
<1>5. ASSUME NEW e
      PROVE  /\ Pending(e)' => Pending(e) \/ e = Stopping(m)
             /\ e # Stopping(m) => (Pending(e)' <=> Pending(e))
             /\ Single(e) => Single(e)'
             /\ running' = running /\ (running # Agenda!Nothing => agenda' = agenda)
             /\ e # Stopping(m) => (Ahead(e)' <=> Ahead(e))
  <2>1. CASE stopping[m]
    <3>1. UNCHANGED <<agenda, batch, callbacks, running, tasks>>
      BY <1>3, <2>1 DEF loopVars
    <3> QED BY <3>1, Places, Rigid DEF Single, Ahead
  <2>2. CASE ~stopping[m]
    <3>1. Post(<<Stopping(m)>>) /\ ~Pending(Stopping(m))
      BY <1>2, <1>3, <2>2 DEF ModeInv, Stage
    <3> QED BY <1>1, <1>4, <3>1, PostStep
  <2> QED BY <2>1, <2>2
<1>6. Emptied'
  <2>1. running' = running /\ (running # Agenda!Nothing => agenda' = agenda)
    BY <1>5
  <2> QED BY <1>1, <2>1, EmptiedKept
<1>7. Singles'
  BY <1>1, <1>5 DEF Singles
<1>8. ASSUME NEW n \in Mode, n # m PROVE ModeInv(n)'
  <2>1. /\ stopping'[n] = stopping[n] /\ delayed'[n] = delayed[n]
        /\ stop_callbacks'[n] = stop_callbacks[n] /\ early'[n] = early[n]
    BY <1>1, <1>3, <1>8, TypesSplit DEF ModeTypes
  <2>2. SameData(n)
    BY <1>8, <2>1 DEF SameData
  <2>3. Stopping(m) \notin {Starting(n), Started(n), Stopping(n), Stopped(n)}
    BY <1>8, Names
  <2>4. SameWay(n)
    BY <1>5, <2>3, HookPlaces DEF SameWay
  <2> QED BY <1>1, <2>2, <2>4, ModeKept
<1>9. ModeInv(m)'
  <2>1. stopping'[m] = TRUE /\ (delayed'[m] => stopping[m] /\ delayed[m])
    BY <1>1, <1>3, TypesSplit DEF ModeTypes
  <2>2. /\ Pending(Starting(m))' <=> Pending(Starting(m))
        /\ Pending(Started(m))' <=> Pending(Started(m))
        /\ ~Pending(Stopped(m))'
        /\ running' = running
    BY <1>2, <1>5, Names
  <2>3. Stage(m)'
    BY <1>2, <2>1, <2>2 DEF ModeInv, Stage
  <2>4. Resources(m)'
    BY <1>2, <2>1, <2>2 DEF ModeInv, Resources
  <2>5. TaskOf(m)'
    BY <1>2 DEF ModeInv, TaskOf
  <2>6. Hooks(m)'
    <3>1. HookPending(m)' <=> HookPending(m)
      BY <1>5, Names, HookPlaces
    <3>2. IF stopping[m] THEN early'[m] = early[m] ELSE early'[m] = HookPending(m)
      BY <1>1, <1>3, TypesSplit DEF ModeTypes
    <3> QED BY <1>2, <2>1, <2>2, <3>1, <3>2 DEF ModeInv, Hooks
  <2>7. Answering(m)'
    <3>1. stop_callbacks[m] \in Seq(Caller \X Nat) /\ starts[m] \in Nat
      BY <1>1, ModeTypesAt
    <3>2. stop_callbacks'[m] = stop_callbacks[m] \o callers
      BY <1>1, <1>3, TypesSplit DEF ModeTypes
    <3>3. \A i \in DOMAIN (stop_callbacks[m] \o callers) :
            \/ \E j \in DOMAIN stop_callbacks[m] :
                 (stop_callbacks[m] \o callers)[i] = stop_callbacks[m][j]
            \/ \E j \in DOMAIN callers : (stop_callbacks[m] \o callers)[i] = callers[j]
      <4> TAKE i \in DOMAIN (stop_callbacks[m] \o callers)
      <4>1. In(stop_callbacks[m] \o callers, (stop_callbacks[m] \o callers)[i])
        BY DEF In
      <4>2. \/ In(stop_callbacks[m], (stop_callbacks[m] \o callers)[i])
            \/ In(callers, (stop_callbacks[m] \o callers)[i])
        BY <3>1, <4>1, Joined
      <4> QED BY <4>2 DEF In
    <3>4. \A j \in DOMAIN stop_callbacks[m] : stop_callbacks[m][j][2] <= starts[m]
      BY <1>2 DEF ModeInv, Answering
    <3>5. \A i \in DOMAIN stop_callbacks'[m] : stop_callbacks'[m][i][2] <= starts[m]
      <4>1. SUFFICES ASSUME NEW i \in DOMAIN (stop_callbacks[m] \o callers)
                     PROVE  (stop_callbacks[m] \o callers)[i][2] <= starts[m]
        BY <3>2, Zenon
      <4>2. CASE \E j \in DOMAIN stop_callbacks[m] :
                   (stop_callbacks[m] \o callers)[i] = stop_callbacks[m][j]
        BY <3>4, <4>2, Zenon
      <4>3. CASE \E j \in DOMAIN callers : (stop_callbacks[m] \o callers)[i] = callers[j]
        <5>1. (stop_callbacks[m] \o callers)[i][2] = starts[m]
          BY <4>3, Zenon
        <5> QED BY <3>1, <5>1
      <4> QED BY <3>3, <4>2, <4>3, Zenon
    <3>6. starts'[m] = starts[m] /\ ~Pending(Stopped(m))' /\ running' # C(Answers(m))
      BY <1>2, <2>2
    <3> QED BY <3>5, <3>6 DEF Answering
  <2> QED BY <2>3, <2>4, <2>5, <2>6, <2>7 DEF ModeInv
<1> QED BY <1>6, <1>7, <1>8, <1>9 DEF Rest

\* stop(), with a callback or without.
LEMMA StopStep ==
  ASSUME IInv, NEW m \in Mode, Stop(m, <<>>) \/ (\E c \in Caller : StopWithCallback(m, c))
  PROVE  Rest'
<1>1. starts[m] \in Nat
  BY ModeTypesAt DEF IInv
<1>2. PICK callers \in Seq(Caller \X Nat) :
        Stop(m, callers) /\ \A i \in DOMAIN callers : callers[i][2] = starts[m]
  <2>1. <<>> \in Seq(Caller \X Nat) /\ DOMAIN <<>> = {}
    OBVIOUS
  <2>2. ASSUME NEW c \in Caller
        PROVE  /\ <<<<c, starts[m]>>>> \in Seq(Caller \X Nat)
               /\ \A i \in DOMAIN <<<<c, starts[m]>>>> : <<<<c, starts[m]>>>>[i][2] = starts[m]
    BY <1>1
  <2> QED BY <2>1, <2>2 DEF StopWithCallback
<1>3. /\ active[m] /\ StopBody(m, callers)
      /\ UNCHANGED <<starting, active, equipped, wait_queue, starts, stops, hooked>>
      /\ UNCHANGED <<main_task, ended>>
  BY <1>2 DEF Stop, taskVars, historyVars
<1> QED BY <1>2, <1>3, StopBodyStep

\* The event that stops a mode is over: the mode is not active, and its cleanup is on
\* its way.
LEMMA ModeStoppedStep ==
  ASSUME ModeAssumption, IInv, NEW m \in Mode, ModeStopped(m)
  PROVE  Rest'
<1> USE Rigid
<1>1. Types /\ Emptied /\ Singles /\ \A n \in Mode : ModeInv(n)
  BY DEF IInv
<1> DEFINE es == <<News(m), Stopped(m)>>
<1>2. QueueCallback(Stopping(m), es)
  BY DEF ModeStopped
<1>3. es \in Seq(ModeEvent) /\ \A e : In(es, e) <=> e = News(m) \/ e = Stopped(m)
  <2>1. es \in Seq(ModeEvent)
    BY Events, Short
  <2> QED BY <2>1, ShortIn
<1>4. ASSUME NEW e
      PROVE  /\ e \notin {Stopping(m), News(m), Stopped(m)} => (Pending(e)' <=> Pending(e))
             /\ e \notin {News(m), Stopped(m)} /\ Single(e) => Single(e)'
  <2> HIDE DEF es
  <2> QED BY <1>1, <1>2, <1>3, QueueCallbackStep
<1>5. /\ running = Agenda!Nothing /\ running' = Agenda!Nothing /\ Pending(Stopping(m))
      /\ ~Pending(Stopping(m))' /\ Pending(Stopped(m))'
  <2>1. ~In(es, Stopping(m)) /\ Single(Stopping(m)) /\ In(es, Stopped(m))
        /\ Stopped(m) # Stopping(m)
    BY <1>1, <1>3, Names DEF Singles
  <2> HIDE DEF es
  <2> QED BY <1>1, <1>2, <1>3, <2>1, QueueCallbackStep
<1>6. Emptied'
  BY <1>1, <1>5, EmptiedKept
<1>7. Singles'
  BY <1>1, <1>4, Names DEF Singles
<1>8. /\ active' = [active EXCEPT ![m] = FALSE] /\ stopping' = [stopping EXCEPT ![m] = FALSE]
      /\ wait_queue' = [wait_queue EXCEPT ![m] = FALSE]
      /\ stops' = [stops EXCEPT ![m] = starts[m]]
      /\ UNCHANGED <<starting, equipped, delayed, stop_callbacks, starts, hooked, early>>
  BY DEF ModeStopped
<1>9. /\ main_task' = [n \in AsyncMode |-> IF n = m THEN "none" ELSE main_task[n]]
      /\ ended' = [n \in AsyncMode |-> IF n = m /\ main_task[m] = "running"
                                       THEN ended[n] \cup {starts[m]} ELSE ended[n]]
  BY DEF ModeStopped, CancelMainTask
<1>10. \A n : running' # C(Answers(n)) /\ running' # C(Stopped(n))
  BY <1>5, Running
<1>13. ASSUME NEW n \in Mode PROVE HookPending(n)' => HookPending(n)
  <2>1. Started(n) \notin {Stopping(m), News(m), Stopped(m)}
    BY Names
  <2> QED BY <1>1, <1>4, <1>5, <2>1, Running, HookKept
<1>11. ASSUME NEW n \in Mode, n # m PROVE ModeInv(n)'
  <2>1. /\ active'[n] = active[n] /\ stopping'[n] = stopping[n] /\ stops'[n] = stops[n]
        /\ wait_queue'[n] = wait_queue[n]
    BY <1>1, <1>8, <1>11, TypesSplit DEF ModeTypes
  <2>2. SameData(n)
    BY <1>8, <1>9, <1>11, <2>1 DEF SameData
  <2>3. {Starting(n), Started(n), Stopping(n), Stopped(n)} \cap
        {Stopping(m), News(m), Stopped(m)} = {}
    BY <1>11, Names
  <2>4. SameWay(n)
    BY <1>4, <1>10, <1>13, <2>3 DEF SameWay
  <2> QED BY <1>1, <2>2, <2>4, ModeKept
<1>12. ModeInv(m)'
  <2>1. ModeInv(m) /\ stopping[m] /\ active[m] /\ ~starting[m]
    BY <1>1, <1>5 DEF ModeInv, Stage
  <2>2. ~Pending(Starting(m)) /\ (m \notin LateControl => ~delayed[m])
    BY <2>1 DEF ModeInv, Stage, Resources
  <2>3. ~Pending(Starting(m))'
    BY <1>4, <2>2, Names
  <2>4. /\ active'[m] = FALSE /\ stopping'[m] = FALSE /\ wait_queue'[m] = FALSE
        /\ stops'[m] = starts[m]
    BY <1>1, <1>8, TypesSplit DEF ModeTypes
  <2>5. Stage(m)'
    BY <1>5, <1>8, <2>1, <2>3, <2>4 DEF Stage
  <2>6. Resources(m)'
    BY <1>5, <1>8, <2>1, <2>2, <2>4 DEF Resources
  <2>7. TaskOf(m)'
    BY <1>8, <1>9, <2>1 DEF ModeInv, TaskOf
  <2>8. Hooks(m)'
    BY <1>5, <1>8, <1>10, <1>13, <2>1 DEF ModeInv, Hooks
  <2>9. Answering(m)'
    BY <1>8, <2>1, <2>4 DEF ModeInv, Answering
  <2> QED BY <2>5, <2>6, <2>7, <2>8, <2>9 DEF ModeInv
<1> QED BY <1>6, <1>7, <1>11, <1>12 DEF Rest

-------------------------------------------------------------------------------
(* Tasks, delays and the shutdown.                                          *)

\* Steps that change only what a mode has.
LEMMA DataStep ==
  ASSUME IInv, UNCHANGED <<agenda, batch, callbacks, running, tasks>>,
         UNCHANGED <<flagVars, equipped, stop_callbacks, wait_queue, historyVars>>,
         \A n \in Mode \ LateControl :
           delayed'[n] => delayed[n] \/ (equipped[n] /\ ~stopping[n] /\ ~Pending(Stopped(n))),
         \A n \in AsyncMode :
           /\ ended'[n] \subseteq ended[n] \cup {starts[n]}
           /\ main_task'[n] = "none" \/ main_task[n] # "none"
  PROVE  Rest'
<1> USE Rigid
<1>1. Types /\ Emptied /\ Singles /\ \A n \in Mode : ModeInv(n)
  BY DEF IInv
<1>2. Emptied'
  BY <1>1, EmptiedKept
<1>3. Singles'
  BY <1>1 DEF Singles, Single, In, OnceIn
<1>4. ASSUME NEW n \in Mode PROVE ModeInv(n)'
  <2>1. ModeInv(n) /\ \A e : Pending(e)' <=> Pending(e)
    BY <1>1, Places
  <2>7. HookPending(n)' <=> HookPending(n)
    BY HookPlaces, Rigid DEF Ahead
  <2>2. Stage(n)'
    BY <2>1 DEF ModeInv, Stage, flagVars
  <2>3. Resources(n)'
    BY <2>1 DEF ModeInv, Resources, flagVars
  <2>4. TaskOf(n)'
    BY <2>1 DEF ModeInv, TaskOf, flagVars, historyVars
  <2>5. Hooks(n)'
    BY <2>1, <2>7 DEF ModeInv, Hooks, flagVars, historyVars
  <2>6. Answering(n)'
    BY <2>1 DEF ModeInv, Answering, historyVars
  <2> QED BY <2>2, <2>3, <2>4, <2>5, <2>6 DEF ModeInv
<1> QED BY <1>2, <1>3, <1>4 DEF Rest

\* Delays, the task that returns, and the end of the machine.
LEMMA TaskAndDelayStep ==
  ASSUME ModeAssumption, IInv,
         \/ \E m \in Mode : AddDelay(m) \/ DelayFires(m)
         \/ \E m \in AsyncMode : MainTaskReturns(m)
         \/ ShutDown \/ MachineStops \/ UNCHANGED vars
         \/ EndLoop /\ UNCHANGED modeVars
  PROVE  Rest'
<1> USE DEF flagVars, resourceVars, taskVars, historyVars, loopVars
<1>1. ModeTypes
  BY TypesSplit DEF IInv
<1>2. CASE \E m \in Mode : AddDelay(m) \/ DelayFires(m)
  <2>1. PICK m \in Mode : AddDelay(m) \/ DelayFires(m)
    BY <1>2
  <2>2. /\ UNCHANGED <<agenda, batch, callbacks, running, tasks>>
        /\ UNCHANGED <<flagVars, equipped, stop_callbacks, wait_queue, historyVars>>
        /\ UNCHANGED <<main_task, ended>>
    BY <2>1 DEF AddDelay, DelayFires
  <2>3. \A n \in Mode \ LateControl :
          delayed'[n] => delayed[n] \/ (equipped[n] /\ ~stopping[n] /\ ~Pending(Stopped(n)))
    BY <1>1, <2>1 DEF AddDelay, DelayFires, ModeTypes
  <2> QED BY <2>2, <2>3, DataStep
<1>3. CASE \E m \in AsyncMode : MainTaskReturns(m)
  <2>1. PICK m \in AsyncMode : MainTaskReturns(m)
    BY <1>3
  <2>2. /\ UNCHANGED <<agenda, batch, callbacks, running, tasks>>
        /\ UNCHANGED <<flagVars, equipped, stop_callbacks, wait_queue, historyVars>>
        /\ delayed' = delayed
    BY <2>1 DEF MainTaskReturns
  <2>3. \A n \in AsyncMode :
           /\ ended'[n] \subseteq ended[n] \cup {starts[n]}
           /\ main_task'[n] = "none" \/ main_task[n] # "none"
    BY <1>1, <2>1 DEF MainTaskReturns, ModeTypes
  <2> QED BY <2>2, <2>3, DataStep
<1>4. CASE MachineStops
  <2>1. /\ UNCHANGED <<agenda, batch, callbacks, running, tasks>>
        /\ UNCHANGED <<flagVars, equipped, stop_callbacks, wait_queue, historyVars>>
        /\ delayed' = delayed
    BY <1>4 DEF MachineStops
  <2>2. \A n \in AsyncMode :
           /\ ended'[n] \subseteq ended[n] \cup {starts[n]}
           /\ main_task'[n] = "none" \/ main_task[n] # "none"
    BY <1>4 DEF MachineStops
  <2> QED BY <2>1, <2>2, DataStep
<1>5. CASE ShutDown \/ UNCHANGED vars \/ (EndLoop /\ UNCHANGED modeVars)
  BY <1>5, QuietStep DEF ShutDown, vars, EndLoop, modeVars
<1> QED BY <1>2, <1>3, <1>4, <1>5

\* The task of a run is over, and stops the mode if it is active.
LEMMA ModeEndedStep ==
  ASSUME ModeAssumption, IInv, NEW m \in AsyncMode, NEW r \in ended[m], ModeEnded(m, r)
  PROVE  Rest'
<1>1. m \in Mode /\ ModeTypes
  BY TypesSplit DEF ModeAssumption, IInv
<1>4. /\ \A n \in AsyncMode : ended'[n] \subseteq ended[n] /\ (n # m => ended'[n] = ended[n])
      /\ main_task' = main_task
      /\ UNCHANGED <<starting, active, equipped, wait_queue, starts, stops, hooked>>
  BY <1>1 DEF ModeEnded, ModeTypes
<1>5. CASE active[m]
  <2>1. StopBody(m, <<>>)
    BY <1>5 DEF ModeEnded
  <2>2. <<>> \in Seq(Caller \X Nat) /\ \A i \in DOMAIN <<>> : <<>>[i][2] = starts[m]
    OBVIOUS
  <2> QED BY <1>1, <1>4, <1>5, <2>1, <2>2, StopBodyStep
<1>6. CASE ~active[m]
  <2>1. UNCHANGED <<loopVars, stopping, delayed, stop_callbacks, ended_by, early>>
    BY <1>6 DEF ModeEnded
  <2>2. \A n \in AsyncMode :
           /\ ended'[n] \subseteq ended[n] \cup {starts[n]}
           /\ main_task'[n] = "none" \/ main_task[n] # "none"
    BY <1>4
  <2> QED BY <1>4, <2>1, <2>2, DataStep DEF flagVars, historyVars, loopVars
<1> QED BY <1>5, <1>6

\* A queue event that is lost is on its way no more.
LEMMA LostStep ==
  ASSUME IInv, NEW m \in Mode, LoseQueueEvent(m)
  PROVE  Rest'
<1> USE Rigid
<1>1. Types /\ Emptied /\ Singles /\ \A n \in Mode : ModeInv(n)
  BY DEF IInv
<1>2. PICK x \in {Starting(m), Stopping(m)} : tasks' = tasks \ {x}
  BY DEF LoseQueueEvent
<1>3. /\ UNCHANGED <<agenda, batch, callbacks, running, modeVars>> /\ running = Agenda!Nothing
  BY DEF LoseQueueEvent, Idle
<1>4. \A e : /\ Pending(e)' => Pending(e)
             /\ e # x => (Pending(e)' <=> Pending(e))
             /\ Single(e) => Single(e)'
  BY <1>2, <1>3, Places DEF Single
<1>5. Emptied'
  BY <1>1, <1>3, EmptiedKept
<1>6. Singles'
  BY <1>1, <1>4 DEF Singles
<1>7. ASSUME NEW n \in Mode PROVE ModeInv(n)'
  <2>1. SameData(n)
    BY <1>3 DEF modeVars, flagVars, resourceVars, taskVars, historyVars, SameData
  <2>2. HookPending(n)' <=> HookPending(n)
    BY <1>3, HookPlaces DEF Ahead
  <2>3. Stopped(n) # x
    BY <1>2, Names
  <2>4. SameWay(n)
    BY <1>3, <1>4, <2>2, <2>3 DEF SameWay
  <2> QED BY <1>1, <2>1, <2>4, ModeKept
<1> QED BY <1>5, <1>6, <1>7 DEF Rest

-------------------------------------------------------------------------------
(* The theorems.                                                            *)

\* Nothing is on its way, and no mode has been started.
LEMMA InitIInv ==
  ASSUME ModeAssumption, Init
  PROVE  IInv
<1> USE DEF Init, LoopInit, Agenda!Init
<1>1. Types
  <2>1. LoopTypes
    <3>1. <<>> \in Seq(ModeEvent) /\ <<>> \in Seq(CallbackEvent)
      OBVIOUS
    <3> QED BY <3>1 DEF LoopTypes, RunningType
  <2>2. ModeTypes
    <3>1. <<>> \in Seq(Caller \X Nat)
      OBVIOUS
    <3> QED BY <3>1 DEF ModeTypes, ModeAssumption
  <2> QED BY <2>1, <2>2, TypesSplit
<1>2. \A e : ~Pending(e) /\ Single(e)
  <2>1. ASSUME NEW e PROVE ~Pending(e) /\ Single(e)
    <3>1. ~In(<<>>, e) /\ OnceIn(<<>>, e) /\ running # H(e) /\ running # C(e)
      BY Running DEF In, OnceIn
    <3> QED BY <3>1, Places DEF Single
  <2> QED BY <2>1
<1>3. \A e : running # C(e)
  BY Running
<1>4. Emptied /\ Singles
  BY <1>2, <1>3 DEF Emptied, Singles
<1>5. ASSUME NEW n \in Mode PROVE ModeInv(n)
  <2>1. Stage(n)
    BY <1>2, <1>3 DEF Stage
  <2>2. ~HookPending(n)
    BY <1>2, HookPlaces, Places DEF Ahead
  <2>4. Resources(n) /\ Hooks(n) /\ TaskOf(n)
    BY <1>2, <1>3, <2>2 DEF Resources, Hooks, TaskOf
  <2>3. Answering(n)
    BY DEF Answering
  <2> QED BY <2>1, <2>3, <2>4 DEF ModeInv
<1> QED BY <1>1, <1>4, <1>5 DEF IInv

\* Every step of any code, when a mode is only started after the end of its last run.
LEMMA NextIInv ==
  ASSUME ModeAssumption, EarlyStart = {}, IInv, [Next]_vars
  PROVE  IInv'
<1>1. Types'
  BY TypesStep DEF IInv
<1>2. Rest'
  <2>1. CASE Loop
    BY <2>1, TakeModeEventStep, FinishModeEventStep, ModeStartHookStep, ModeStopHookStep,
       CleanUpStep, StopAnsweredStep, TaskAndDelayStep
       DEF Loop
  <2>2. CASE \E m \in Mode : QueueDone(m)
    BY <2>2, ModeStartedStep, ModeStoppedStep DEF QueueDone
  <2>3. CASE \E m \in AsyncMode : \E r \in ended[m] : ModeEnded(m, r)
    BY <2>3, ModeEndedStep
  <2>4. CASE Timers \/ UNCHANGED vars
    BY <2>4, TaskAndDelayStep DEF Timers
  <2>5. CASE Environment
    BY <2>5, StartStep, StopStep, LostStep, TaskAndDelayStep DEF Environment
  <2> QED BY <2>1, <2>2, <2>3, <2>4, <2>5 DEF Next
<1> QED BY <1>1, <1>2 DEF IInv, Rest

\* The stage of every mode is the one its flags tell, whatever code starts and stops
\* modes between the links of the chains (Mode.start, stop and their callbacks).
THEOREM ModesInvariant ==
  ASSUME EarlyStart = {}
  PROVE  Spec => []IInv
<1>1. Init => IInv
  BY ModeAssumption, InitIInv
<1>2. IInv /\ [Next]_vars => IInv'
  BY ModeAssumption, NextIInv
<1> QED BY <1>1, <1>2, PTL DEF Spec

\* The variables of the modes keep their types, whatever may be early or late.
THEOREM TypesHold == Spec => []TypeOK
<1>1. Init => Types
  BY ModeAssumption, InitIInv DEF IInv
<1>2. Types /\ [Next]_vars => Types'
  BY ModeAssumption, TypesStep
<1>3. Types => TypeOK
  BY DEF Types
<1> QED BY <1>1, <1>2, <1>3, PTL DEF Spec

\* A mode that starts or is active has its handlers and devices: the cleanup of
\* _mode_stopped_callback never takes those of the next run.
THEOREM HandlersStay ==
  ASSUME EarlyStart = {}
  PROVE  Spec => []ActiveIsEquipped
<1>1. IInv => ActiveIsEquipped
  BY DEF IInv, ModeInv, Resources, ActiveIsEquipped
<1> QED BY <1>1, ModesInvariant, PTL

\* A mode that is over keeps no handlers, queue, delay or task (_mode_stopped and its
\* callback), when no handler of it is called while it stops.
THEOREM ModeTidiesUp ==
  ASSUME EarlyStart = {}, LateControl = {}
  PROVE  Spec => []NothingLeftBehind
<1>1. IInv => NothingLeftBehind
  <2>1. SUFFICES ASSUME IInv, NEW m \in Mode, ~starting[m], ~active[m]
                 PROVE  /\ ~wait_queue[m]
                        /\ equipped[m] => Pending(Stopped(m))
                        /\ delayed[m] => equipped[m]
                        /\ m \in AsyncMode => main_task[m] = "none" \/ machine # "running"
    BY DEF NothingLeftBehind
  <2> QED BY <2>1 DEF IInv, ModeInv, Resources, TaskOf
<1> QED BY <1>1, ModesInvariant, PTL

\* mode_start() and mode_stop() alternate with the mode: its code is on only while it
\* is active or on its way to mode_stop(), or was stopped before mode_start().
THEOREM HooksMatch ==
  ASSUME EarlyStart = {}
  PROVE  Spec => []CodeOnlyInMode
<1>1. IInv => CodeOnlyInMode
  BY DEF IInv, ModeInv, Hooks, CodeOnlyInMode
<1> QED BY <1>1, ModesInvariant, PTL

\* A stop callback is called after the run it was given for has stopped, and not for
\* an earlier one.
THEOREM AnswersAreTrue ==
  ASSUME EarlyStart = {}
  PROVE  Spec => []AnsweredAfterStop
<1>1. IInv => AnsweredAfterStop
  <2>1. SUFFICES ASSUME IInv, NEW m \in Mode, running = C(Answers(m)),
                        NEW i \in DOMAIN stop_callbacks[m]
                 PROVE  stops[m] >= stop_callbacks[m][i][2]
    BY DEF AnsweredAfterStop, C
  <2>2. /\ stops[m] \in Nat /\ stop_callbacks[m][i][2] \in Nat
    BY <2>1, ModeTypesAt DEF IInv
  <2>3. stop_callbacks[m][i][2] <= stops[m]
    BY <2>1 DEF IInv, ModeInv, Answering
  <2> QED BY <2>2, <2>3
<1> QED BY <1>1, ModesInvariant, PTL
==============================================================================
