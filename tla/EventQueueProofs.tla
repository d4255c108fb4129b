--------------------------- MODULE EventQueueProofs ---------------------------
(***************************************************************************)
(* Proofs about EventQueue, for any set of postings.                       *)
(*                                                                         *)
(* The invariants that the runs check are not inductive: that no posting   *)
(* is forgotten when process_event_queue returns rests on Shape, the shape of *)
(* its local queues.                                                       *)
(*                                                                         *)
(* With it, the queues implement EventAgenda: FollowsAgenda, at the end,   *)
(* rests on what FlattenSeq makes of queues that are pushed aside and taken *)
(* up again (FlattenPush, FlattenPop).                                     *)
(***************************************************************************)
EXTENDS EventQueue, SequenceTheorems, WellFoundedInduction, TLAPS

\* A posting that waits for the loop has a call_soon() on its way.
Wakeup == pc = "idle" /\ event_queue # <<>> => scheduled > 0

\* Code that runs belongs to a posting.
Running == pc \in UserCode => current \in Posting

\* Callbacks, running or stacked, are those of events that were handled.
Progress ==
  /\ pc = "handlers" => status[current] = "handled"
  /\ pc = "callback" => status[current] \in {"awaiting_callback", "done"}
  /\ \A i \in 1..Len(callback_queue) :
       status[callback_queue[i]] \in {"awaiting_callback", "done"}

IInv == TypeOK /\ Running /\ Shape /\ Wakeup /\ Progress /\ ExactlyOnce

-------------------------------------------------------------------------------
(* Sequences.                                                               *)

\* Popping the last element of a stack.
LEMMA LastFront ==
  ASSUME NEW S, NEW s \in Seq(S), s # <<>>
  PROVE  Last(s) \in S /\ Front(s) \in Seq(S)
  BY DEF Last, Front

\* Pushing a queue on the left of a queue of queues.
LEMMA PushLeft ==
  ASSUME NEW S, NEW q \in S, NEW s \in Seq(S)
  PROVE  /\ <<q>> \o s \in Seq(S)
         /\ Len(<<q>> \o s) = Len(s) + 1
         /\ (<<q>> \o s)[1] = q
         /\ \A i \in 1..Len(s) : (<<q>> \o s)[i + 1] = s[i]
  OBVIOUS

\* A queue that is not empty has a length above 0.
LEMMA SomeElement ==
  ASSUME NEW S, NEW s \in Seq(S), s # <<>>
  PROVE  Len(s) \in Nat \ {0}
  OBVIOUS

\* Popping the head of a queue.
LEMMA PopLeft ==
  ASSUME NEW S, NEW s \in Seq(S), s # <<>>
  PROVE  /\ Head(s) = s[1] /\ Head(s) \in S
         /\ Tail(s) \in Seq(S)
         /\ Len(s) \in Nat \ {0}
         /\ Len(Tail(s)) = Len(s) - 1
         /\ \A i \in 1..Len(Tail(s)) : Tail(s)[i] = s[i + 1]
  OBVIOUS

-------------------------------------------------------------------------------
(* The type invariant.                                                      *)

LEMMA RefillType ==
  ASSUME QueueTypes, next_queue # <<>>, Refill(Tail(next_queue))
  PROVE  next_queue' \in Seq(Posting) /\ inner_queue' \in Seq(Seq(Posting))
<1>1. CASE Tail(next_queue) = <<>> /\ inner_queue # <<>>
  BY <1>1, PopLeft DEF QueueTypes, Refill
<1>2. CASE ~(Tail(next_queue) = <<>> /\ inner_queue # <<>>)
  BY <1>2, PopLeft DEF QueueTypes, Refill
<1> QED
  BY <1>1, <1>2

LEMMA TypeStep ==
  ASSUME TypeOK, Running, [Next]_vars
  PROVE  TypeOK'
<1> USE PostingAssumption DEF TypeOK, QueueTypes, Places, UserCode
<1>1. ASSUME NEW e \in Posting, NEW handled \in BOOLEAN, Post(e, handled)
      PROVE  TypeOK'
  <2>1. CASE Dropped(e, handled)
    BY <1>1, <2>1 DEF Post
  <2>2. CASE ~Dropped(e, handled)
    <3>1. scheduled' \in Nat
      BY <1>1, <2>2 DEF Post
    <3>2. Append(event_queue, e) \in Seq(Posting)
      OBVIOUS
    <3> QED
      BY <1>1, <2>2, <3>1, <3>2 DEF Post
  <2> QED
    BY <2>1, <2>2
<1>2. CASE Stop
  BY <1>2 DEF Stop, queues
<1>3. CASE RunScheduled
  BY <1>3 DEF RunScheduled, queues
<1>4. CASE RunDirectly
  BY <1>4 DEF RunDirectly, queues
<1>5. CASE TakeQueue
  BY <1>5 DEF TakeQueue
<1>6. CASE TakeCallbacks \/ Return \/ SkipCallbacks
  BY <1>6 DEF TakeCallbacks, Return, SkipCallbacks, queues
<1>7. CASE PopEvent
  BY <1>7, RefillType, PopLeft DEF PopEvent
<1>8. CASE HandlersReturn
  <2>1. current \in Posting
    BY <1>8 DEF HandlersReturn, Running
  <2>2. callback_queue' \in Seq(WithCallback) /\ status' \in [Posting -> {
            "unposted", "dropped", "queued", "handled",
            "awaiting_callback", "in_task", "done"}]
    <3>1. CASE PushCallback
      BY <2>1, <3>1 DEF PushCallback
    <3>2. CASE HandToTask \/ NoCallback
      BY <2>1, <3>2 DEF HandToTask, NoCallback
    <3> QED
      BY <1>8, <3>1, <3>2 DEF HandlersReturn
  <2>3. /\ event_queue' \in Seq(Posting) /\ next_queue' \in Seq(Posting)
        /\ inner_queue' \in Seq(Seq(Posting))
    <3>1. <<next_queue>> \o inner_queue \in Seq(Seq(Posting))
      BY PushLeft
    <3>2. CASE event_queue # <<>>
      <4>1. /\ inner_queue' = <<next_queue>> \o inner_queue
            /\ next_queue' = event_queue
            /\ event_queue' = <<>>
        BY <1>8, <3>2 DEF HandlersReturn, PushAside
      <4> QED
        BY <3>1, <4>1
    <3>3. CASE event_queue = <<>>
      BY <1>8, <3>3 DEF HandlersReturn, PushAside
    <3> QED
      BY <3>2, <3>3
  <2> QED
    BY <1>8, <2>2, <2>3 DEF HandlersReturn
<1>9. CASE PopCallback
  BY <1>9, LastFront DEF PopCallback
<1>10. CASE CallbackReturns
  BY <1>10 DEF CallbackReturns, queues, Running
<1>11. CASE UNCHANGED vars
  BY <1>11 DEF vars, queues
<1> QED
  BY <1>1, <1>2, <1>3, <1>4, <1>5, <1>6, <1>7, <1>8, <1>9, <1>10, <1>11
     DEF Next, Pass

-------------------------------------------------------------------------------
(* The shape of the local queues, and wakeups.                              *)

LEMMA RunningStep ==
  ASSUME TypeOK, Running, Shape, [Next]_vars
  PROVE  Running'
<1> USE PostingAssumption DEF TypeOK, QueueTypes, Running, UserCode
<1>1. ASSUME NEW e \in Posting, NEW handled \in BOOLEAN, Post(e, handled)
      PROVE  Running'
  BY <1>1 DEF Post
<1>2. CASE Stop \/ RunScheduled \/ RunDirectly
  BY <1>2 DEF Stop, RunScheduled, RunDirectly
<1>3. CASE TakeQueue \/ TakeCallbacks \/ Return
  BY <1>3 DEF TakeQueue, TakeCallbacks, Return
<1>4. CASE PopEvent
  BY <1>4, PopLeft DEF PopEvent
<1>5. CASE HandlersReturn
  BY <1>5 DEF HandlersReturn
<1>6. CASE PopCallback
  BY <1>6, LastFront DEF PopCallback
<1>7. CASE SkipCallbacks \/ CallbackReturns
  BY <1>7 DEF SkipCallbacks, CallbackReturns
<1>8. CASE UNCHANGED vars
  BY <1>8 DEF vars
<1> QED
  BY <1>1, <1>2, <1>3, <1>4, <1>5, <1>6, <1>7, <1>8 DEF Next, Pass

LEMMA WakeupStep ==
  ASSUME TypeOK, Wakeup, [Next]_vars
  PROVE  Wakeup'
<1> USE DEF TypeOK, QueueTypes, Wakeup, UserCode
<1>1. ASSUME NEW e \in Posting, NEW handled \in BOOLEAN, Post(e, handled)
      PROVE  Wakeup'
  <2>1. CASE Dropped(e, handled)
    BY <1>1, <2>1 DEF Post
  <2>2. CASE ~Dropped(e, handled)
    BY <1>1, <2>2 DEF Post
  <2> QED
    BY <2>1, <2>2
<1>2. CASE Stop \/ RunScheduled \/ RunDirectly
  BY <1>2 DEF Stop, RunScheduled, RunDirectly, queues
<1>3. CASE TakeQueue \/ TakeCallbacks \/ Return \/ SkipCallbacks
  BY <1>3 DEF TakeQueue, TakeCallbacks, Return, SkipCallbacks, queues
<1>4. CASE PopEvent \/ PopCallback \/ CallbackReturns
  BY <1>4 DEF PopEvent, PopCallback, CallbackReturns
<1>5. CASE HandlersReturn
  BY <1>5 DEF HandlersReturn
<1>6. CASE UNCHANGED vars
  BY <1>6 DEF vars, queues
<1> QED
  BY <1>1, <1>2, <1>3, <1>4, <1>5, <1>6 DEF Next, Pass

LEMMA ShapeStep ==
  ASSUME TypeOK, Shape, [Next]_vars
  PROVE  Shape'
<1> USE DEF Shape, UserCode, TypeOK, QueueTypes
<1>1. ASSUME NEW e \in Posting, NEW handled \in BOOLEAN, Post(e, handled)
      PROVE  Shape'
  BY <1>1 DEF Post
<1>2. CASE Stop \/ RunScheduled \/ RunDirectly
  BY <1>2 DEF Stop, RunScheduled, RunDirectly, queues
<1>3. CASE TakeQueue
  BY <1>3 DEF TakeQueue
<1>4. CASE TakeCallbacks \/ Return \/ SkipCallbacks
  BY <1>4 DEF TakeCallbacks, Return, SkipCallbacks, queues
<1>5. CASE PopEvent
  <2>1. CASE Tail(next_queue) = <<>> /\ inner_queue # <<>>
    <3>1. /\ pc' = "handlers"
          /\ next_queue' = Head(inner_queue) /\ inner_queue' = Tail(inner_queue)
      BY <1>5, <2>1 DEF PopEvent, Refill
    <3>2. /\ Head(inner_queue) = inner_queue[1]
          /\ Len(inner_queue) \in Nat \ {0}
          /\ Tail(inner_queue) \in Seq(Seq(Posting))
          /\ Len(Tail(inner_queue)) = Len(inner_queue) - 1
          /\ \A i \in 1..Len(Tail(inner_queue)) :
               Tail(inner_queue)[i] = inner_queue[i + 1]
      BY <2>1, PopLeft
    <3>3. next_queue' = <<>> => inner_queue' = <<>>
      <4>1. SUFFICES ASSUME Tail(inner_queue) # <<>>
                     PROVE  inner_queue[1] # <<>>
        BY <3>1, <3>2
      <4>2. Len(Tail(inner_queue)) \in Nat \ {0}
        <5>1. Tail(inner_queue) \in Seq(Seq(Posting))
          BY <3>2
        <5> QED
          BY ONLY <4>1, <5>1, SomeElement
      <4>3. 1 \in 1..Len(inner_queue) /\ 1 < Len(inner_queue)
        BY <3>2, <4>2
      <4> QED
        BY <4>3
    <3>4. \A i \in 1..Len(inner_queue') :
            i < Len(inner_queue') => inner_queue'[i] # <<>>
      <4>1. SUFFICES ASSUME NEW i \in 1..Len(Tail(inner_queue)),
                            i < Len(Tail(inner_queue))
                     PROVE  Tail(inner_queue)[i] # <<>>
        BY <3>1
      <4>2. i + 1 \in 1..Len(inner_queue) /\ i + 1 < Len(inner_queue)
        BY <3>2, <4>1
      <4> QED
        BY <3>2, <4>1, <4>2
    <3> QED
      BY <3>1, <3>3, <3>4
  <2>2. CASE ~(Tail(next_queue) = <<>> /\ inner_queue # <<>>)
    <3>1. /\ pc' = "handlers"
          /\ next_queue' = Tail(next_queue) /\ inner_queue' = inner_queue
      BY <1>5, <2>2 DEF PopEvent, Refill
    <3> QED
      BY <2>2, <3>1
  <2> QED
    BY <2>1, <2>2
<1>6. CASE HandlersReturn
  <2>1. CASE event_queue # <<>>
    <3>1. /\ pc' = "events"
          /\ inner_queue' = <<next_queue>> \o inner_queue
          /\ next_queue' = event_queue
          /\ event_queue' = <<>>
      BY <1>6, <2>1 DEF HandlersReturn, PushAside
    <3>2. /\ Len(inner_queue') = Len(inner_queue) + 1
          /\ inner_queue'[1] = next_queue
          /\ \A i \in 1..Len(inner_queue) : inner_queue'[i + 1] = inner_queue[i]
      BY <3>1, PushLeft
    <3>3. \A i \in 1..Len(inner_queue') :
            i < Len(inner_queue') => inner_queue'[i] # <<>>
      <4>1. SUFFICES ASSUME NEW i \in 1..Len(inner_queue'), i < Len(inner_queue')
                     PROVE  inner_queue'[i] # <<>>
        OBVIOUS
      <4>2. CASE i = 1
        BY <3>2, <4>1, <4>2
      <4>3. CASE i # 1
        <5>1. i - 1 \in 1..Len(inner_queue) /\ i - 1 < Len(inner_queue)
          BY <3>2, <4>1, <4>3
        <5>2. inner_queue'[(i - 1) + 1] = inner_queue[i - 1]
          BY <3>2, <5>1
        <5>3. (i - 1) + 1 = i
          OBVIOUS
        <5> QED
          BY <5>1, <5>2, <5>3
      <4> QED
        BY <4>2, <4>3
    <3>4. inner_queue' # <<>> /\ next_queue' # <<>>
      BY <2>1, <3>1, <3>2
    <3> QED
      BY <3>1, <3>3, <3>4
  <2>2. CASE event_queue = <<>>
    <3>1. /\ pc' = IF next_queue # <<>> THEN "events" ELSE "callbacks"
          /\ UNCHANGED <<inner_queue, next_queue, event_queue>>
      BY <1>6, <2>2 DEF HandlersReturn, PushAside
    <3> QED
      BY <2>2, <3>1
  <2> QED
    BY <2>1, <2>2
<1>7. CASE PopCallback \/ CallbackReturns
  BY <1>7 DEF PopCallback, CallbackReturns, queues
<1>8. CASE UNCHANGED vars
  BY <1>8 DEF vars, queues
<1> QED
  BY <1>1, <1>2, <1>3, <1>4, <1>5, <1>6, <1>7, <1>8 DEF Next, Pass

-------------------------------------------------------------------------------
(* No posting is lost.                                                      *)

\* The queues of Waiting by their positions.
LEMMA WaitingParts ==
  ASSUME NEW ev \in Seq(Posting), NEW next \in Seq(Posting),
         NEW inner \in Seq(Seq(Posting)), NEW W, W = <<ev, next>> \o inner
  PROVE  /\ W \in Seq(Seq(Posting))
         /\ Len(inner) \in Nat
         /\ Len(W) = Len(inner) + 2
         /\ DOMAIN W = 1..(Len(inner) + 2)
         /\ W[1] = ev
         /\ W[2] = next
         /\ \A i \in 3..Len(inner) + 2 : W[i] = inner[i - 2]
  OBVIOUS

\* ExactlyOnce for any queues W and any set Q of postings.
Exact(W, Q) ==
  /\ \A e \in Q : \E i \in DOMAIN W : \E j \in DOMAIN W[i] : W[i][j] = e
  /\ \A i, k \in DOMAIN W : \A j \in DOMAIN W[i], l \in DOMAIN W[k] :
       W[i][j] = W[k][l] => i = k /\ j = l
  /\ \A i \in DOMAIN W : \A j \in DOMAIN W[i] : W[i][j] \in Q

LEMMA ExactlyOnceIsExact == ExactlyOnce <=> Exact(Waiting, Queued)
  BY DEF ExactlyOnce, NoneForgotten, NoneTwice, OnlyQueued, Exact

\* A new posting at the end of one queue.
LEMMA ExactAppend ==
  ASSUME NEW V \in Seq(Seq(Posting)), NEW W \in Seq(Seq(Posting)), NEW Q,
         NEW e \in Posting, e \notin Q, NEW k \in DOMAIN V,
         DOMAIN W = DOMAIN V, W[k] = Append(V[k], e),
         \A i \in DOMAIN V : i # k => W[i] = V[i],
         Exact(V, Q)
  PROVE  Exact(W, Q \cup {e})
<1> DEFINE last == Len(V[k]) + 1
<1>1. /\ V[k] \in Seq(Posting) /\ last \in DOMAIN W[k] /\ W[k][last] = e
      /\ \A j \in DOMAIN V[k] : j \in DOMAIN W[k] /\ W[k][j] = V[k][j]
  OBVIOUS
<1>2. \A i \in DOMAIN V : \A j \in DOMAIN V[i] : j \in DOMAIN W[i] /\ W[i][j] = V[i][j]
  <2> SUFFICES ASSUME NEW i \in DOMAIN V, NEW j \in DOMAIN V[i]
               PROVE  j \in DOMAIN W[i] /\ W[i][j] = V[i][j]
    OBVIOUS
  <2>1. CASE i = k
    BY <1>1, <2>1
  <2>2. CASE i # k
    BY <2>2
  <2> QED
    BY <2>1, <2>2
<1>3. \A i \in DOMAIN W : \A j \in DOMAIN W[i] : j \in DOMAIN V[i] \/ (i = k /\ j = last)
  BY <1>1
<1> HIDE DEF last
<1>4. \A x \in Q \cup {e} : \E i \in DOMAIN W : \E j \in DOMAIN W[i] : W[i][j] = x
  <2> SUFFICES ASSUME NEW x \in Q
               PROVE  \E i \in DOMAIN W : \E j \in DOMAIN W[i] : W[i][j] = x
    BY <1>1
  <2>1. PICK i \in DOMAIN V : \E j \in DOMAIN V[i] : V[i][j] = x
    BY DEF Exact
  <2>2. PICK j \in DOMAIN V[i] : V[i][j] = x
    BY <2>1
  <2> QED
    BY <1>2, <2>2
<1>5. \A i \in DOMAIN W : \A j \in DOMAIN W[i] :
        \/ j \in DOMAIN V[i] /\ W[i][j] = V[i][j] /\ W[i][j] \in Q
        \/ i = k /\ j = last /\ W[i][j] = e
  BY <1>1, <1>2, <1>3 DEF Exact
<1>6. \A i, m \in DOMAIN W : \A j \in DOMAIN W[i], l \in DOMAIN W[m] :
        W[i][j] = W[m][l] => i = m /\ j = l
  <2> SUFFICES ASSUME NEW i \in DOMAIN W, NEW m \in DOMAIN W,
                      NEW j \in DOMAIN W[i], NEW l \in DOMAIN W[m],
                      W[i][j] = W[m][l]
               PROVE  i = m /\ j = l
    OBVIOUS
  <2>1. CASE j \in DOMAIN V[i] /\ l \in DOMAIN V[m]
    <3>1. V[i][j] = V[m][l]
      BY <1>2, <2>1
    <3> QED
      BY <2>1, <3>1 DEF Exact
  <2>2. CASE W[i][j] = e
    BY <1>5, <2>2
  <2> QED
    BY <1>5, <2>1, <2>2
<1>7. \A i \in DOMAIN W : \A j \in DOMAIN W[i] : W[i][j] \in Q \cup {e}
  BY <1>5
<1> QED
  BY <1>4, <1>6, <1>7 DEF Exact

\* The head of one queue is popped.
LEMMA ExactPop ==
  ASSUME NEW V \in Seq(Seq(Posting)), NEW W \in Seq(Seq(Posting)), NEW Q,
         NEW k \in DOMAIN V, V[k] # <<>>,
         DOMAIN W = DOMAIN V, W[k] = Tail(V[k]),
         \A i \in DOMAIN V : i # k => W[i] = V[i],
         Exact(V, Q)
  PROVE  Head(V[k]) \in Q /\ Exact(W, Q \ {Head(V[k])})
<1> DEFINE e == Head(V[k])
<1>1. /\ V[k] \in Seq(Posting)
      /\ 1 \in DOMAIN V[k] /\ V[k][1] = e
      /\ \A j \in DOMAIN W[k] : j + 1 \in DOMAIN V[k] /\ W[k][j] = V[k][j + 1]
      /\ \A j \in DOMAIN V[k] :
           j # 1 => j - 1 \in DOMAIN W[k] /\ W[k][j - 1] = V[k][j]
      /\ DOMAIN V[k] \subseteq Nat /\ DOMAIN W[k] \subseteq Nat
  OBVIOUS
<1> HIDE DEF e
<1>2. e \in Q
  BY <1>1 DEF Exact
<1>3. \A i \in DOMAIN W : \A j \in DOMAIN W[i] : W[i][j] \in Q \ {e}
  <2> SUFFICES ASSUME NEW i \in DOMAIN W, NEW j \in DOMAIN W[i]
               PROVE  W[i][j] \in Q \ {e}
    OBVIOUS
  <2>1. CASE i = k
    <3>1. j + 1 \in DOMAIN V[k] /\ W[i][j] = V[k][j + 1] /\ j + 1 # 1
      BY <1>1, <2>1
    <3> QED
      BY <1>1, <3>1 DEF Exact
  <2>2. CASE i # k
    BY <1>1, <2>2 DEF Exact
  <2> QED
    BY <2>1, <2>2
<1>4. \A x \in Q \ {e} : \E i \in DOMAIN W : \E j \in DOMAIN W[i] : W[i][j] = x
  <2> SUFFICES ASSUME NEW x \in Q, x # e
               PROVE  \E i \in DOMAIN W : \E j \in DOMAIN W[i] : W[i][j] = x
    OBVIOUS
  <2>1. PICK i \in DOMAIN V : \E j \in DOMAIN V[i] : V[i][j] = x
    BY DEF Exact
  <2>2. PICK j \in DOMAIN V[i] : V[i][j] = x
    BY <2>1
  <2>3. CASE i = k
    <3>1. j - 1 \in DOMAIN W[k] /\ W[k][j - 1] = x
      BY <1>1, <2>2, <2>3
    <3> QED
      BY <3>1
  <2>4. CASE i # k
    BY <2>2, <2>4
  <2> QED
    BY <2>3, <2>4
<1>5. \A i, m \in DOMAIN W : \A j \in DOMAIN W[i], l \in DOMAIN W[m] :
        W[i][j] = W[m][l] => i = m /\ j = l
  <2> SUFFICES ASSUME NEW i \in DOMAIN W, NEW m \in DOMAIN W,
                      NEW j \in DOMAIN W[i], NEW l \in DOMAIN W[m],
                      W[i][j] = W[m][l]
               PROVE  i = m /\ j = l
    OBVIOUS
  <2>1. CASE i = k /\ m = k
    <3>1. /\ j + 1 \in DOMAIN V[k] /\ W[i][j] = V[k][j + 1]
          /\ l + 1 \in DOMAIN V[k] /\ W[m][l] = V[k][l + 1]
      BY <1>1, <2>1
    <3>2. V[k][j + 1] = V[k][l + 1]
      BY <3>1
    <3>3. j + 1 = l + 1
      BY <3>1, <3>2 DEF Exact
    <3> QED
      BY <1>1, <2>1, <3>3
  <2>2. CASE i = k /\ m # k
    <3>1. j + 1 \in DOMAIN V[k] /\ W[i][j] = V[k][j + 1] /\ W[m] = V[m]
      BY <1>1, <2>2
    <3>2. V[k][j + 1] = V[m][l] /\ l \in DOMAIN V[m]
      BY <3>1
    <3> QED
      BY <2>2, <3>1, <3>2 DEF Exact
  <2>3. CASE i # k /\ m = k
    <3>1. l + 1 \in DOMAIN V[k] /\ W[m][l] = V[k][l + 1] /\ W[i] = V[i]
      BY <1>1, <2>3
    <3>2. V[i][j] = V[k][l + 1] /\ j \in DOMAIN V[i]
      BY <3>1
    <3> QED
      BY <2>3, <3>1, <3>2 DEF Exact
  <2>4. CASE i # k /\ m # k
    BY <2>4 DEF Exact
  <2> QED
    BY <2>1, <2>2, <2>3, <2>4
<1>6. Exact(W, Q \ {e})
  BY <1>3, <1>4, <1>5 DEF Exact
<1> QED
  BY <1>2, <1>6 DEF e

\* W is V without its k-th queue, which is empty.
Skips(V, W, k) ==
  /\ k \in DOMAIN V /\ V[k] = <<>>
  /\ DOMAIN W = 1..Len(V) - 1
  /\ \A i \in DOMAIN W : W[i] = V[IF i < k THEN i ELSE i + 1]

\* Adding or removing an empty queue changes nothing.
LEMMA ExactSkip ==
  ASSUME NEW V \in Seq(Seq(Posting)), NEW W \in Seq(Seq(Posting)), NEW Q,
         NEW k \in Nat, Skips(V, W, k)
  PROVE  Exact(V, Q) <=> Exact(W, Q)
<1> DEFINE up(i) == IF i < k THEN i ELSE i + 1
           down(i) == IF i < k THEN i ELSE i - 1
<1>1. /\ DOMAIN V = 1..Len(V) /\ Len(V) \in Nat /\ k \in 1..Len(V)
      /\ DOMAIN W = 1..Len(V) - 1
  BY DEF Skips
<1>2. \A i \in DOMAIN W : up(i) \in DOMAIN V /\ V[up(i)] = W[i]
  <2> SUFFICES ASSUME NEW i \in DOMAIN W
               PROVE  up(i) \in DOMAIN V /\ V[up(i)] = W[i]
    OBVIOUS
  <2>1. i \in 1..Len(V) - 1
    BY <1>1
  <2>2. up(i) \in DOMAIN V
    BY <1>1, <2>1
  <2>3. V[up(i)] = W[i]
    BY DEF Skips
  <2> QED
    BY <2>2, <2>3
<1>3. \A i \in DOMAIN V : \A j \in DOMAIN V[i] : i # k
  BY DEF Skips
<1>4. \A i \in DOMAIN V : i # k => down(i) \in DOMAIN W /\ up(down(i)) = i
  BY <1>1
<1>5. \A i \in DOMAIN V : i # k => W[down(i)] = V[i]
  BY <1>2, <1>4
<1>6. \A i, m \in DOMAIN W : up(i) = up(m) => i = m
  <2>1. DOMAIN W \subseteq Nat
    BY <1>1
  <2> QED
    BY <2>1
<1>7. \A i, m \in DOMAIN V : i # k /\ m # k /\ down(i) = down(m) => i = m
  BY <1>4
<1> HIDE DEF up, down
<1>8. ASSUME Exact(V, Q)
      PROVE  Exact(W, Q)
  <2>1. \A x \in Q : \E i \in DOMAIN W : \E j \in DOMAIN W[i] : W[i][j] = x
    <3> SUFFICES ASSUME NEW x \in Q
                 PROVE  \E i \in DOMAIN W : \E j \in DOMAIN W[i] : W[i][j] = x
      OBVIOUS
    <3>1. PICK i \in DOMAIN V : \E j \in DOMAIN V[i] : V[i][j] = x
      BY <1>8 DEF Exact
    <3>2. PICK j \in DOMAIN V[i] : V[i][j] = x
      BY <3>1
    <3>3. down(i) \in DOMAIN W /\ j \in DOMAIN W[down(i)] /\ W[down(i)][j] = x
      BY <1>3, <1>4, <1>5, <3>2
    <3> QED
      BY <3>3
  <2>2. \A i, m \in DOMAIN W : \A j \in DOMAIN W[i], l \in DOMAIN W[m] :
          W[i][j] = W[m][l] => i = m /\ j = l
    <3> SUFFICES ASSUME NEW i \in DOMAIN W, NEW m \in DOMAIN W,
                        NEW j \in DOMAIN W[i], NEW l \in DOMAIN W[m],
                        W[i][j] = W[m][l]
                 PROVE  i = m /\ j = l
      OBVIOUS
    <3>1. /\ up(i) \in DOMAIN V /\ up(m) \in DOMAIN V
          /\ j \in DOMAIN V[up(i)] /\ l \in DOMAIN V[up(m)]
          /\ V[up(i)][j] = V[up(m)][l]
      BY <1>2
    <3>2. up(i) = up(m) /\ j = l
      BY <1>8, <3>1 DEF Exact
    <3> QED
      BY <1>6, <3>2
  <2>3. \A i \in DOMAIN W : \A j \in DOMAIN W[i] : W[i][j] \in Q
    BY <1>2, <1>8 DEF Exact
  <2> QED
    BY <2>1, <2>2, <2>3 DEF Exact
<1>9. ASSUME Exact(W, Q)
      PROVE  Exact(V, Q)
  <2>1. \A x \in Q : \E i \in DOMAIN V : \E j \in DOMAIN V[i] : V[i][j] = x
    <3> SUFFICES ASSUME NEW x \in Q
                 PROVE  \E i \in DOMAIN V : \E j \in DOMAIN V[i] : V[i][j] = x
      OBVIOUS
    <3>1. PICK i \in DOMAIN W : \E j \in DOMAIN W[i] : W[i][j] = x
      BY <1>9 DEF Exact
    <3>2. PICK j \in DOMAIN W[i] : W[i][j] = x
      BY <3>1
    <3>3. up(i) \in DOMAIN V /\ j \in DOMAIN V[up(i)] /\ V[up(i)][j] = x
      BY <1>2, <3>2
    <3> QED
      BY <3>3
  <2>2. \A i, m \in DOMAIN V : \A j \in DOMAIN V[i], l \in DOMAIN V[m] :
          V[i][j] = V[m][l] => i = m /\ j = l
    <3> SUFFICES ASSUME NEW i \in DOMAIN V, NEW m \in DOMAIN V,
                        NEW j \in DOMAIN V[i], NEW l \in DOMAIN V[m],
                        V[i][j] = V[m][l]
                 PROVE  i = m /\ j = l
      OBVIOUS
    <3>1. /\ i # k /\ m # k
          /\ down(i) \in DOMAIN W /\ down(m) \in DOMAIN W
          /\ j \in DOMAIN W[down(i)] /\ l \in DOMAIN W[down(m)]
          /\ W[down(i)][j] = W[down(m)][l]
      BY <1>3, <1>4, <1>5
    <3>2. down(i) = down(m) /\ j = l
      BY <1>9, <3>1 DEF Exact
    <3> QED
      BY <1>7, <3>1, <3>2
  <2>3. \A i \in DOMAIN V : \A j \in DOMAIN V[i] : V[i][j] \in Q
    BY <1>3, <1>4, <1>5, <1>9 DEF Exact
  <2> QED
    BY <2>1, <2>2, <2>3 DEF Exact
<1> QED
  BY <1>8, <1>9

-------------------------------------------------------------------------------
(* No step loses or repeats a posting.                                      *)

LEMMA ExactPost ==
  ASSUME TypeOK, ExactlyOnce,
         NEW e \in Posting, NEW handled \in BOOLEAN, Post(e, handled)
  PROVE  ExactlyOnce'
<1> USE DEF TypeOK, QueueTypes
<1>1. CASE Dropped(e, handled)
  <2>1. Queued' = Queued /\ Waiting' = Waiting
    BY <1>1 DEF Post, Queued, Waiting
  <2> QED
    BY <2>1 DEF ExactlyOnce, NoneForgotten, NoneTwice, OnlyQueued
<1>2. CASE ~Dropped(e, handled)
  <2>1. /\ event_queue' = Append(event_queue, e)
        /\ event_queue' \in Seq(Posting)
        /\ next_queue' = next_queue /\ inner_queue' = inner_queue
    <3>1. Append(event_queue, e) \in Seq(Posting)
      OBVIOUS
    <3> QED
      BY <1>2, <3>1 DEF Post
  <2>2. status[e] = "unposted" /\ status' = [status EXCEPT ![e] = "queued"]
    BY <1>2 DEF Post
  <2>3. e \notin Queued /\ Queued' = Queued \cup {e}
    BY <2>2 DEF Queued
  <2> DEFINE V == Waiting
             W == Waiting'
  <2>4. V = <<event_queue, next_queue>> \o inner_queue
    BY DEF Waiting
  <2>5. W = <<event_queue', next_queue>> \o inner_queue
    BY <2>1 DEF Waiting
  <2>6. Exact(V, Queued)
    BY ExactlyOnceIsExact
  <2> HIDE DEF V, W
  <2>7. /\ V \in Seq(Seq(Posting)) /\ DOMAIN V = 1..Len(inner_queue) + 2
        /\ V[1] = event_queue /\ V[2] = next_queue
        /\ \A i \in 3..Len(inner_queue) + 2 : V[i] = inner_queue[i - 2]
        /\ Len(inner_queue) \in Nat
    BY <2>4, WaitingParts
  <2>8. /\ W \in Seq(Seq(Posting)) /\ DOMAIN W = 1..Len(inner_queue) + 2
        /\ W[1] = event_queue' /\ W[2] = next_queue
        /\ \A i \in 3..Len(inner_queue) + 2 : W[i] = inner_queue[i - 2]
    BY <2>1, <2>5, WaitingParts
  <2>9. 1 \in DOMAIN V /\ \A i \in DOMAIN V : i # 1 => W[i] = V[i]
    BY <2>7, <2>8
  <2>10. Exact(W, Queued \cup {e})
    BY <2>1, <2>3, <2>6, <2>7, <2>8, <2>9, ExactAppend
  <2> QED
    BY <2>3, <2>10 DEF W, ExactlyOnce, NoneForgotten, NoneTwice, OnlyQueued, Exact
<1> QED
  BY <1>1, <1>2

LEMMA ExactTakeQueue ==
  ASSUME TypeOK, Shape, ExactlyOnce, TakeQueue
  PROVE  ExactlyOnce'
<1> USE DEF TypeOK, QueueTypes
<1> DEFINE V == Waiting
           W == Waiting'
           mid == <<<<>>, event_queue, <<>>>>
<1>1. V = <<event_queue, <<>>>> /\ W = <<<<>>, event_queue>>
  BY DEF TakeQueue, Shape, Waiting, UserCode
<1>2. Exact(V, Queued)
  BY ExactlyOnceIsExact
<1>3. Queued' = Queued
  BY DEF TakeQueue, Queued
<1>4. /\ V \in Seq(Seq(Posting)) /\ W \in Seq(Seq(Posting)) /\ mid \in Seq(Seq(Posting))
  BY <1>1
<1>5. Skips(mid, V, 1) /\ Skips(mid, W, 3)
  BY <1>1 DEF Skips
<1> HIDE DEF V, W, mid
<1>6. Exact(mid, Queued)
  BY <1>2, <1>4, <1>5, ExactSkip
<1>7. Exact(W, Queued)
  BY <1>4, <1>5, <1>6, ExactSkip
<1> QED
  BY <1>3, <1>7 DEF W, ExactlyOnce, NoneForgotten, NoneTwice, OnlyQueued, Exact

LEMMA ExactPopEvent ==
  ASSUME TypeOK, ExactlyOnce, PopEvent
  PROVE  Head(next_queue) \in Queued /\ ExactlyOnce'
<1> USE DEF TypeOK, QueueTypes
<1> DEFINE V == Waiting
           W == Waiting'
           mid == <<event_queue, Tail(next_queue)>> \o inner_queue
           e == Head(next_queue)
<1>1. V = <<event_queue, next_queue>> \o inner_queue
  BY DEF Waiting
<1>2. W = <<event_queue, next_queue'>> \o inner_queue'
  BY DEF Waiting, PopEvent
<1>3. next_queue' \in Seq(Posting) /\ inner_queue' \in Seq(Seq(Posting))
  BY RefillType DEF PopEvent
<1>4. /\ next_queue # <<>> /\ e \in Posting
      /\ Tail(next_queue) \in Seq(Posting)
  BY DEF PopEvent
<1>5. Queued' = Queued \ {e}
  BY <1>4 DEF PopEvent, Queued
<1>6. Exact(V, Queued)
  BY ExactlyOnceIsExact
<1> HIDE DEF V, W, e
<1>7. /\ V \in Seq(Seq(Posting)) /\ DOMAIN V = 1..Len(inner_queue) + 2
      /\ V[1] = event_queue /\ V[2] = next_queue
      /\ \A i \in 3..Len(inner_queue) + 2 : V[i] = inner_queue[i - 2]
      /\ Len(inner_queue) \in Nat
  BY <1>1, WaitingParts
<1>8. /\ mid \in Seq(Seq(Posting)) /\ DOMAIN mid = 1..Len(inner_queue) + 2
      /\ mid[1] = event_queue /\ mid[2] = Tail(next_queue)
      /\ \A i \in 3..Len(inner_queue) + 2 : mid[i] = inner_queue[i - 2]
      /\ Len(mid) = Len(inner_queue) + 2
  BY <1>4, WaitingParts
<1> HIDE DEF mid
<1>9. 2 \in DOMAIN V /\ \A i \in DOMAIN V : i # 2 => mid[i] = V[i]
  <2>1. \A i \in DOMAIN V : i = 1 \/ i = 2 \/ i \in 3..Len(inner_queue) + 2
    BY <1>7
  <2>2. ASSUME NEW i \in DOMAIN V, i # 2
        PROVE  mid[i] = V[i]
    <3>1. CASE i = 1
      BY <1>7, <1>8, <3>1
    <3>2. CASE i \in 3..Len(inner_queue) + 2
      BY <1>7, <1>8, <3>2
    <3> QED
      BY <2>1, <2>2, <3>1, <3>2
  <2>3. 2 \in DOMAIN V
    BY <1>7
  <2> QED
    BY <2>2, <2>3
<1>10. e \in Queued /\ Exact(mid, Queued \ {e})
  BY <1>4, <1>6, <1>7, <1>8, <1>9, ExactPop DEF e
<1>11. Exact(W, Queued \ {e})
  <2>1. CASE Tail(next_queue) = <<>> /\ inner_queue # <<>>
    <3>1. next_queue' = Head(inner_queue) /\ inner_queue' = Tail(inner_queue)
      BY <2>1 DEF PopEvent, Refill
    <3>2. /\ Head(inner_queue) = inner_queue[1]
          /\ Len(inner_queue) \in Nat \ {0}
          /\ Len(Tail(inner_queue)) = Len(inner_queue) - 1
          /\ \A i \in 1..Len(Tail(inner_queue)) :
               Tail(inner_queue)[i] = inner_queue[i + 1]
      BY <2>1, PopLeft
    <3>3. /\ W \in Seq(Seq(Posting)) /\ DOMAIN W = 1..Len(inner_queue') + 2
          /\ W[1] = event_queue /\ W[2] = next_queue'
          /\ \A i \in 3..Len(inner_queue') + 2 : W[i] = inner_queue'[i - 2]
      BY <1>2, <1>3, WaitingParts
    <3>4. /\ Len(inner_queue') \in Nat
          /\ Len(inner_queue') = Len(inner_queue) - 1
          /\ Len(inner_queue') + 2 = Len(mid) - 1
      BY <1>8, <3>1, <3>2
    <3>5. \A i \in DOMAIN W : W[i] = mid[IF i < 2 THEN i ELSE i + 1]
      <4> SUFFICES ASSUME NEW i \in DOMAIN W
                   PROVE  W[i] = mid[IF i < 2 THEN i ELSE i + 1]
        OBVIOUS
      <4>1. CASE i = 1
        BY <1>8, <3>3, <4>1
      <4>2. CASE i = 2
        BY <1>8, <3>1, <3>2, <3>3, <4>2
      <4>3. CASE i \in 3..Len(inner_queue') + 2
        <5>1. W[i] = Tail(inner_queue)[i - 2] /\ i - 2 \in 1..Len(Tail(inner_queue))
          <6>1. W[i] = inner_queue'[i - 2]
            BY <3>3, <4>3
          <6>2. i - 2 \in 1..Len(inner_queue')
            BY <3>4, <4>3
          <6> QED
            BY <3>1, <6>1, <6>2
        <5>2. W[i] = inner_queue[(i - 2) + 1]
          BY <3>2, <5>1
        <5>3. i + 1 \in 3..Len(inner_queue) + 2 /\ (i - 2) + 1 = (i + 1) - 2
          BY <3>4, <4>3
        <5>4. mid[i + 1] = inner_queue[(i + 1) - 2]
          BY <1>8, <5>3
        <5>5. (IF i < 2 THEN i ELSE i + 1) = i + 1
          BY <3>4, <4>3
        <5> QED
          BY <5>2, <5>3, <5>4, <5>5
      <4> QED
        BY <3>3, <4>1, <4>2, <4>3
    <3>6. Skips(mid, W, 2)
      <4>1. 2 \in DOMAIN mid /\ mid[2] = <<>>
        BY <1>7, <1>8, <2>1
      <4>2. DOMAIN W = 1..Len(mid) - 1
        BY <3>3, <3>4
      <4> QED
        BY <3>5, <4>1, <4>2 DEF Skips
    <3> QED
      BY <1>8, <1>10, <3>3, <3>6, ExactSkip
  <2>2. CASE ~(Tail(next_queue) = <<>> /\ inner_queue # <<>>)
    <3>1. W = mid
      BY <1>2, <2>2 DEF PopEvent, Refill, mid
    <3> QED
      BY <1>10, <3>1
  <2> QED
    BY <2>1, <2>2
<1> QED
  BY <1>5, <1>10, <1>11
     DEF W, e, ExactlyOnce, NoneForgotten, NoneTwice, OnlyQueued, Exact

LEMMA ExactHandlersReturn ==
  ASSUME TypeOK, Running, Progress, ExactlyOnce, HandlersReturn
  PROVE  ExactlyOnce'
<1> USE DEF TypeOK, QueueTypes
<1>1. Queued' = Queued
  <2>1. current \in Posting /\ status[current] = "handled"
    BY DEF HandlersReturn, Running, Progress, UserCode
  <2>2. PICK new \in {"awaiting_callback", "in_task", "done"} :
          status' = [status EXCEPT ![current] = new]
    BY DEF HandlersReturn, PushCallback, HandToTask, NoCallback
  <2> QED
    BY <2>1, <2>2 DEF Queued
<1>2. CASE event_queue = <<>>
  <2>1. Waiting' = Waiting
    BY <1>2 DEF HandlersReturn, PushAside, Waiting
  <2> QED
    BY <1>1, <2>1 DEF ExactlyOnce, NoneForgotten, NoneTwice, OnlyQueued
<1>3. CASE event_queue # <<>>
  <2> DEFINE V == Waiting
             W == Waiting'
             aside == <<next_queue>> \o inner_queue
  <2>1. /\ event_queue' = <<>> /\ next_queue' = event_queue
        /\ inner_queue' = aside
    BY <1>3 DEF HandlersReturn, PushAside
  <2>2. /\ aside \in Seq(Seq(Posting))
        /\ Len(inner_queue) \in Nat
        /\ Len(aside) = Len(inner_queue) + 1
        /\ aside[1] = next_queue
        /\ \A i \in 1..Len(inner_queue) : aside[i + 1] = inner_queue[i]
    BY PushLeft
  <2>3. V = <<event_queue, next_queue>> \o inner_queue
    BY DEF Waiting
  <2>4. W = <<<<>>, event_queue>> \o aside
    BY <2>1 DEF Waiting
  <2>5. Exact(V, Queued)
    BY ExactlyOnceIsExact
  <2> HIDE DEF V, W, aside
  <2>6. /\ V \in Seq(Seq(Posting)) /\ DOMAIN V = 1..Len(inner_queue) + 2
        /\ V[1] = event_queue /\ V[2] = next_queue
        /\ \A i \in 3..Len(inner_queue) + 2 : V[i] = inner_queue[i - 2]
    BY <2>3, WaitingParts
  <2>7. /\ W \in Seq(Seq(Posting)) /\ DOMAIN W = 1..Len(aside) + 2
        /\ Len(W) = Len(aside) + 2
        /\ W[1] = <<>> /\ W[2] = event_queue
        /\ \A i \in 3..Len(aside) + 2 : W[i] = aside[i - 2]
    BY <2>2, <2>4, WaitingParts
  <2>8. \A i \in DOMAIN V : V[i] = W[IF i < 1 THEN i ELSE i + 1]
    <3> SUFFICES ASSUME NEW i \in DOMAIN V
                 PROVE  V[i] = W[i + 1]
      BY <2>2, <2>6
    <3>0. Len(inner_queue) \in Nat /\ Len(aside) = Len(inner_queue) + 1
      BY <2>2
    <3>1. CASE i = 1
      BY <2>6, <2>7, <3>1
    <3>2. CASE i = 2
      BY <2>2, <2>6, <2>7, <3>2
    <3>3. CASE i \in 3..Len(inner_queue) + 2
      <4>0. i - 2 \in 1..Len(inner_queue)
        BY <3>0, <3>3
      <4>1. V[i] = inner_queue[i - 2] /\ i - 2 \in 1..Len(inner_queue)
        BY <2>6, <3>3, <4>0
      <4>2. V[i] = aside[(i - 2) + 1]
        BY <2>2, <4>1
      <4>3. (i - 2) + 1 = (i + 1) - 2 /\ i + 1 \in 3..Len(aside) + 2
        BY <3>0, <3>3
      <4>4. W[i + 1] = aside[(i + 1) - 2]
        BY <2>7, <4>3
      <4> QED
        BY <4>2, <4>3, <4>4
    <3> QED
      <4>1. i \in 1..Len(inner_queue) + 2
        BY <2>6
      <4> QED
        BY <3>0, <3>1, <3>2, <3>3, <4>1
  <2>9. Skips(W, V, 1)
    <3>1. 1 \in DOMAIN W /\ DOMAIN V = 1..Len(W) - 1
      BY <2>2, <2>6, <2>7
    <3> QED
      BY <2>7, <2>8, <3>1 DEF Skips
  <2>10. Exact(W, Queued)
    BY <2>5, <2>6, <2>7, <2>9, ExactSkip
  <2> QED
    BY <1>1, <2>10 DEF W, ExactlyOnce, NoneForgotten, NoneTwice, OnlyQueued, Exact
<1> QED
  BY <1>2, <1>3

LEMMA ExactlyOnceStep ==
  ASSUME IInv, [Next]_vars
  PROVE  ExactlyOnce'
<1> USE DEF IInv
<1>1. ASSUME NEW e \in Posting, NEW handled \in BOOLEAN, Post(e, handled)
      PROVE  ExactlyOnce'
  BY <1>1, ExactPost
<1>2. CASE TakeQueue
  BY <1>2, ExactTakeQueue
<1>3. CASE PopEvent
  BY <1>3, ExactPopEvent
<1>4. CASE HandlersReturn
  BY <1>4, ExactHandlersReturn
<1>5. ASSUME \/ Stop \/ RunScheduled \/ RunDirectly \/ TakeCallbacks \/ Return
             \/ PopCallback \/ SkipCallbacks \/ UNCHANGED vars
      PROVE  ExactlyOnce'
  <2>1. Waiting' = Waiting /\ Queued' = Queued
    BY <1>5 DEF Stop, RunScheduled, RunDirectly, TakeCallbacks, Return, PopCallback,
                SkipCallbacks, vars, queues, Waiting, Queued
  <2> QED
    BY <2>1 DEF ExactlyOnce, NoneForgotten, NoneTwice, OnlyQueued
<1>6. CASE CallbackReturns
  <2>1. Waiting' = Waiting
    BY <1>6 DEF CallbackReturns, queues, Waiting
  <2>2. current \in Posting /\ status[current] # "queued"
    BY <1>6 DEF CallbackReturns, Running, Progress, UserCode
  <2>3. Queued' = Queued
    BY <1>6, <2>2 DEF CallbackReturns, Queued, TypeOK
  <2> QED
    BY <2>1, <2>3 DEF ExactlyOnce, NoneForgotten, NoneTwice, OnlyQueued
<1> QED
  BY <1>1, <1>2, <1>3, <1>4, <1>5, <1>6 DEF Next, Pass

LEMMA ProgressStep ==
  ASSUME IInv, [Next]_vars
  PROVE  Progress'
<1> USE PostingAssumption DEF IInv, TypeOK, QueueTypes, Progress, UserCode
<1>1. ASSUME NEW e \in Posting, NEW handled \in BOOLEAN, Post(e, handled)
      PROVE  Progress'
  <2>1. /\ callback_queue' = callback_queue /\ pc' = pc /\ current' = current
        /\ status[e] = "unposted"
        /\ status' \in {[status EXCEPT ![e] = "dropped"], [status EXCEPT ![e] = "queued"]}
    BY <1>1 DEF Post
  <2>2. \A i \in 1..Len(callback_queue) : callback_queue[i] \in Posting
    OBVIOUS
  <2> QED
    BY <2>1, <2>2 DEF Running
<1>2. ASSUME \/ Stop \/ RunScheduled \/ RunDirectly \/ TakeQueue \/ TakeCallbacks
             \/ Return \/ SkipCallbacks \/ UNCHANGED vars
      PROVE  Progress'
  BY <1>2 DEF Stop, RunScheduled, RunDirectly, TakeQueue, TakeCallbacks, Return,
              SkipCallbacks, vars, queues
<1>3. CASE PopEvent
  <2> DEFINE e == Head(next_queue)
  <2>1. e \in Posting /\ status[e] = "queued"
    BY <1>3, ExactPopEvent DEF Queued
  <2>2. /\ callback_queue' = callback_queue /\ pc' = "handlers" /\ current' = e
        /\ status' = [status EXCEPT ![e] = "handled"]
    BY <1>3 DEF PopEvent
  <2>3. \A i \in 1..Len(callback_queue) : callback_queue[i] \in Posting
    OBVIOUS
  <2> HIDE DEF e
  <2> QED
    BY <2>1, <2>2, <2>3
<1>4. CASE HandlersReturn
  <2>1. current \in Posting /\ status[current] = "handled" /\ pc' \notin UserCode
    BY <1>4 DEF HandlersReturn, Running
  <2>2. \A i \in 1..Len(callback_queue) : callback_queue[i] \in Posting
    OBVIOUS
  <2>3. CASE PushCallback
    <3>1. \A i \in 1..Len(callback_queue') :
            \/ callback_queue'[i] = current
            \/ i \in 1..Len(callback_queue) /\ callback_queue'[i] = callback_queue[i]
      BY <2>3 DEF PushCallback
    <3>2. status' = [status EXCEPT ![current] = "awaiting_callback"]
      BY <2>3 DEF PushCallback
    <3> QED
      BY <2>1, <2>2, <3>1, <3>2
  <2>4. CASE HandToTask \/ NoCallback
    BY <2>1, <2>2, <2>4 DEF HandToTask, NoCallback
  <2> QED
    BY <1>4, <2>3, <2>4 DEF HandlersReturn
<1>5. CASE PopCallback
  <2>1. /\ Len(callback_queue) \in 1..Len(callback_queue)
        /\ current' = callback_queue[Len(callback_queue)]
    BY <1>5 DEF PopCallback, Last
  <2>2. \A i \in 1..Len(callback_queue') :
          i \in 1..Len(callback_queue) /\ callback_queue'[i] = callback_queue[i]
    BY <1>5 DEF PopCallback, Front
  <2> QED
    BY <1>5, <2>1, <2>2 DEF PopCallback
<1>6. CASE CallbackReturns
  <2>1. \A i \in 1..Len(callback_queue) : callback_queue[i] \in Posting
    OBVIOUS
  <2> QED
    BY <1>6, <2>1 DEF CallbackReturns, queues, Running
<1> QED
  BY <1>1, <1>2, <1>3, <1>4, <1>5, <1>6 DEF Next, Pass

-------------------------------------------------------------------------------
(* The theorems.                                                            *)

LEMMA InitInv == Init => IInv
<1> SUFFICES ASSUME Init PROVE IInv
  OBVIOUS
<1> USE DEF Init
<1>1. stopped \in BOOLEAN
  BY Zenon
<1>2. TypeOK
  BY <1>1 DEF TypeOK, QueueTypes, Places, UserCode
<1>3. Running /\ Wakeup /\ Progress
  BY DEF Running, Wakeup, Progress, UserCode
<1>4. Shape
  BY DEF Shape
<1>5. ExactlyOnce
  <2>1. Queued = {}
    BY DEF Queued
  <2>2. Waiting = <<<<>>, <<>>>>
    BY DEF Waiting
  <2> QED
    BY <2>1, <2>2 DEF ExactlyOnce, NoneForgotten, NoneTwice, OnlyQueued
<1> QED
  BY <1>2, <1>3, <1>4, <1>5 DEF IInv

LEMMA NextInv == IInv /\ [Next]_vars => IInv'
<1> SUFFICES ASSUME IInv, [Next]_vars PROVE IInv'
  OBVIOUS
<1>1. TypeOK' /\ Running' /\ Shape' /\ Wakeup'
  BY TypeStep, RunningStep, ShapeStep, WakeupStep DEF IInv
<1>2. Progress' /\ ExactlyOnce'
  BY ProgressStep, ExactlyOnceStep
<1> QED
  BY <1>1, <1>2 DEF IInv

\* The inductive invariant of the event loop.
THEOREM Invariance == Spec => []IInv
  BY InitInv, NextInv, PTL DEF Spec

\* The queues, the stack of callbacks and the loop's position have their types.
THEOREM TypeCorrect == Spec => []TypeOK
<1>1. IInv => TypeOK
  BY DEF IInv
<1> QED
  BY <1>1, Invariance, PTL

\* process_event_queue may leave its inner while loop without a look at
\* inner_queue.
THEOREM ShapeHolds == Spec => []Shape
<1>1. IInv => Shape
  BY DEF IInv
<1> QED
  BY <1>1, Invariance, PTL

\* However events nest, every accepted posting waits in exactly one place until
\* its handlers run.
THEOREM ExactlyOnceHolds == Spec => []ExactlyOnce
<1>1. IInv => ExactlyOnce
  BY DEF IInv
<1> QED
  BY <1>1, Invariance, PTL

\* Unless event_queue is not empty, nothing waits outside the inner while loop.
LEMMA NothingWaits ==
  ASSUME IInv, pc \notin {"events", "handlers"}, event_queue = <<>>
  PROVE  Queued = {}
<1>1. Waiting = <<<<>>, <<>>>>
  BY DEF IInv, Shape, Waiting
<1> QED
  BY <1>1 DEF IInv, ExactlyOnce, NoneForgotten

\* A posting that waits while the loop is idle has a call_soon() on its way.
THEOREM NoLostWakeupHolds == Spec => []NoLostWakeup
<1>1. IInv => NoLostWakeup
  <2>1. SUFFICES ASSUME IInv, pc = "idle", Queued # {}
                 PROVE  scheduled > 0
    BY DEF NoLostWakeup
  <2>2. event_queue # <<>>
    BY <2>1, NothingWaits
  <2> QED
    BY <2>1, <2>2 DEF IInv, Wakeup
<1> QED
  BY <1>1, Invariance, PTL

\* When a callback starts, no event waits anywhere.
THEOREM CallbackAfterEventsHolds == Spec => CallbackAfterEvents
<1> DEFINE Starts == pc # "callback" /\ pc' = "callback"
<1>1. ASSUME IInv, [Next]_vars
      PROVE  [Starts => Queued = {}]_vars
  <2>1. SUFFICES ASSUME Starts
                 PROVE  Queued = {}
    OBVIOUS
  <2>2. PopCallback
    <3>1. ASSUME NEW e \in Posting, NEW handled \in BOOLEAN, Post(e, handled)
          PROVE  FALSE
      BY <2>1, <3>1 DEF Post
    <3>2. HandlersReturn => pc' # "callback"
      BY DEF HandlersReturn
    <3> QED
      BY <1>1, <2>1, <3>1, <3>2
         DEF Next, Pass, Stop, RunScheduled, RunDirectly, TakeQueue, TakeCallbacks,
             Return, PopEvent, SkipCallbacks, CallbackReturns, vars
  <2>3. pc = "callbacks" /\ event_queue = <<>>
    BY <1>1, <2>2 DEF PopCallback, IInv, Shape
  <2> QED
    BY <1>1, <2>3, NothingWaits
<1> QED
  BY <1>1, Invariance, PTL DEF Spec, CallbackAfterEvents

-------------------------------------------------------------------------------
(* Queues of queues. *)

\* A set of natural numbers has a least element.
LEMMA LeastElement ==
  ASSUME NEW T, T \subseteq Nat, T # {}
  PROVE  \E x \in T : \A y \in T : x <= y
<1> DEFINE R == {ss \in Nat \X Nat : ss[1] < ss[2]}
<1>0. IsWellFoundedOn(R, Nat)
  BY NatLessThanWellFounded, SMT DEF OpToRel
<1>1. PICK x \in T : \A y \in T : ~ (<<y, x>> \in R)
  <2> HIDE DEF R
  <2> QED BY <1>0, WFMin, Zenon
<1>2. ASSUME NEW y \in T PROVE x <= y
  <2>1. ~ (<<y, x>> \in R)
    BY <1>1
  <2>2. ~ (y < x)
    BY <2>1, SMT
  <2> QED BY <2>2
<1> QED BY <1>1, <1>2

\* f[i] is what the first i of the queues ss give one after the other.
Accumulates(f, ss) ==
  \A i \in DOMAIN f : f[i] = IF i = 1 THEN ss[i] ELSE f[i - 1] \o ss[i]

\* What the first n queues give exists ...
PrefixFlat(S, ss, n) == \E f \in [1..n -> Seq(S)] : Accumulates(f, ss)

\* From what n - 1 queues give, what n queues give.
LEMMA PrefixExtends ==
  ASSUME NEW S, NEW ss \in Seq(Seq(S)), NEW n \in 1..Len(ss),
         n = 1 \/ PrefixFlat(S, ss, n - 1)
  PROVE  PrefixFlat(S, ss, n)
<1>1. CASE n = 1
  <2> DEFINE f == [i \in 1..1 |-> ss[1]]
  <2>1. f \in [1..n -> Seq(S)] /\ Accumulates(f, ss)
    BY <1>1 DEF Accumulates
  <2> HIDE DEF f
  <2> QED BY <2>1 DEF PrefixFlat
<1>2. CASE n # 1
  <2>1. PICK f \in [1..(n - 1) -> Seq(S)] : Accumulates(f, ss)
    BY <1>2 DEF PrefixFlat
  <2>2. n - 1 \in 1..(n - 1) /\ n \in Nat /\ ss[n] \in Seq(S)
    BY <1>2
  <2> DEFINE q == f[n - 1] \o ss[n]
             g == [i \in 1..n |-> IF i = n THEN q ELSE f[i]]
  <2>3. q \in Seq(S)
    BY <2>2, ConcatProperties
  <2>4. g \in [1..n -> Seq(S)]
    <3> HIDE DEF q
    <3> QED BY <2>2, <2>3
  <2>5. ASSUME NEW i \in 1..n PROVE g[i] = IF i = 1 THEN ss[i] ELSE g[i - 1] \o ss[i]
    <3>1. CASE i = n
      <4>1. g[n] = q /\ g[n - 1] = f[n - 1]
        <5> HIDE DEF q
        <5> QED BY <2>2
      <4> HIDE DEF g
      <4> QED BY <4>1, <3>1, <1>2 DEF q
    <3>2. CASE i # n
      <4>1. i \in 1..(n - 1) /\ g[i] = f[i]
        BY <3>2, <2>2
      <4>2. i # 1 => g[i - 1] = f[i - 1]
        BY <4>1
      <4>3. f[i] = IF i = 1 THEN ss[i] ELSE f[i - 1] \o ss[i]
        BY <4>1, <2>1 DEF Accumulates
      <4> HIDE DEF g
      <4> QED BY <4>1, <4>2, <4>3
    <3> QED BY <3>1, <3>2
  <2> HIDE DEF g
  <2> QED BY <2>4, <2>5 DEF PrefixFlat, Accumulates
<1> QED BY <1>1, <1>2

\* ... for all the queues.
LEMMA FlatteningExists ==
  ASSUME NEW S, NEW ss \in Seq(Seq(S)), ss # <<>>
  PROVE  PrefixFlat(S, ss, Len(ss))
<1> SUFFICES ASSUME ~PrefixFlat(S, ss, Len(ss)) PROVE FALSE
  OBVIOUS
<1> DEFINE T == {n \in 1..Len(ss) : ~PrefixFlat(S, ss, n)}
<1>1. Len(ss) \in Nat \ {0}
  BY EmptySeq
<1>2. Len(ss) \in T /\ T \subseteq Nat
  BY <1>1
<1>3. PICK n \in T : \A m \in T : n <= m
  <2> HIDE DEF T
  <2> QED BY <1>2, LeastElement
<1>4. n = 1 \/ PrefixFlat(S, ss, n - 1)
  <2>1. CASE n # 1
    <3>1. n - 1 \in 1..Len(ss) /\ ~(n <= n - 1)
      BY <2>1, <1>1
    <3> QED BY <3>1, <1>3
  <2> QED BY <2>1
<1> QED BY <1>4, PrefixExtends

\* FlattenSeq of the library finds it.
LEMMA FlattenIs ==
  ASSUME NEW S, NEW ss \in Seq(Seq(S)), ss # <<>>
  PROVE  \E f \in [1..Len(ss) -> Seq(S)] : Accumulates(f, ss) /\ FlattenSeq(ss) = f[Len(ss)]
<1> DEFINE Solves(h) == h = [i \in 1..Len(ss) |-> IF i = 1 THEN ss[i] ELSE h[i - 1] \o ss[i]]
           it == CHOOSE h : Solves(h)
<1>1. Len(ss) \in Nat \ {0}
  BY EmptySeq
<1>2. FlattenSeq(ss) = it[Len(ss)]
  BY <1>1 DEF FlattenSeq
<1>3. PICK f \in [1..Len(ss) -> Seq(S)] : Accumulates(f, ss)
  BY FlatteningExists DEF PrefixFlat
<1>4. Solves(f)
  BY <1>3 DEF Accumulates
<1>5. Solves(it)
  <2> HIDE DEF Solves
  <2> QED BY <1>4
<1>6. \A i \in 1..Len(ss) : it[i] = f[i]
  <2> SUFFICES ASSUME NEW j \in 1..Len(ss), it[j] # f[j] PROVE FALSE
    OBVIOUS
  <2> DEFINE T == {i \in 1..Len(ss) : it[i] # f[i]}
  <2>1. PICK n \in T : \A m \in T : n <= m
    <3>1. j \in T /\ T \subseteq Nat
      <4> HIDE DEF it
      <4> QED BY <1>1
    <3> HIDE DEF T
    <3> QED BY <3>1, LeastElement
  <2>2. n \in 1..Len(ss) /\ it[n] # f[n]
    OBVIOUS
  <2>3. it[n] = IF n = 1 THEN ss[n] ELSE it[n - 1] \o ss[n]
    BY <1>5, <2>2
  <2>4. f[n] = IF n = 1 THEN ss[n] ELSE f[n - 1] \o ss[n]
    BY <1>3, <2>2 DEF Accumulates
  <2>5. CASE n # 1
    <3>1. n - 1 \in 1..Len(ss) /\ ~(n <= n - 1)
      BY <2>5, <2>2, <1>1
    <3>2. it[n - 1] = f[n - 1]
      BY <3>1, <2>1
    <3> HIDE DEF it
    <3> QED BY <3>2, <2>2, <2>3, <2>4, <2>5
  <2> HIDE DEF it
  <2> QED BY <2>2, <2>3, <2>4, <2>5
<1>7. FlattenSeq(ss) = f[Len(ss)]
  <2> HIDE DEF it
  <2> QED BY <1>1, <1>2, <1>6
<1> QED BY <1>3, <1>7

\* Nothing pushed aside.
LEMMA FlattenNothing == FlattenSeq(<<>>) = <<>>
  BY DEF FlattenSeq

\* The queues pushed aside hold postings.
LEMMA FlattenType ==
  ASSUME NEW S, NEW ss \in Seq(Seq(S))
  PROVE  FlattenSeq(ss) \in Seq(S)
<1>1. CASE ss = <<>>
  BY <1>1, FlattenNothing, EmptySeq
<1>2. CASE ss # <<>>
  <2>1. Len(ss) \in Nat \ {0}
    BY <1>2, EmptySeq
  <2>2. PICK f \in [1..Len(ss) -> Seq(S)] : FlattenSeq(ss) = f[Len(ss)]
    BY <1>2, FlattenIs
  <2>3. Len(ss) \in 1..Len(ss)
    BY <2>1
  <2> QED BY <2>2, <2>3
<1> QED BY <1>1, <1>2

\* Pushing a queue in front of the queues.
LEMMA FlattenPush ==
  ASSUME NEW S, NEW q \in Seq(S), NEW ss \in Seq(Seq(S))
  PROVE  FlattenSeq(<<q>> \o ss) = q \o FlattenSeq(ss)
<1> DEFINE tt == <<q>> \o ss
<1>1. /\ tt \in Seq(Seq(S)) /\ Len(tt) = Len(ss) + 1 /\ Len(ss) \in Nat /\ tt # <<>>
      /\ tt[1] = q /\ \A i \in 1..Len(ss) : tt[i + 1] = ss[i]
  BY PushLeft
<1> HIDE DEF tt
<1>2. PICK g \in [1..Len(tt) -> Seq(S)] : Accumulates(g, tt) /\ FlattenSeq(tt) = g[Len(tt)]
  BY <1>1, FlattenIs
<1>3. g[1] = q
  BY <1>1, <1>2 DEF Accumulates
<1>4. CASE ss = <<>>
  <2>1. FlattenSeq(ss) = <<>> /\ q \o <<>> = q
    BY <1>4, FlattenNothing, ConcatEmptySeq
  <2>2. Len(tt) = 1
    BY <1>1, <1>4
  <2> QED BY <1>2, <1>3, <2>1, <2>2 DEF tt
<1>5. CASE ss # <<>>
  <2>1. PICK f \in [1..Len(ss) -> Seq(S)] : Accumulates(f, ss) /\ FlattenSeq(ss) = f[Len(ss)]
    BY <1>5, FlattenIs
  <2> DEFINE T == {i \in 1..Len(ss) : g[i + 1] # q \o f[i]}
  <2>2. T = {}
    <3>1. SUFFICES ASSUME T # {} PROVE FALSE
      OBVIOUS
    <3>2. PICK n \in T : \A m \in T : n <= m
      <4>1. T \subseteq Nat
        BY <1>1
      <4> HIDE DEF T
      <4> QED BY <3>1, <4>1, LeastElement
    <3>3. n \in 1..Len(ss) /\ n \in Nat /\ n + 1 \in 1..Len(tt) /\ n + 1 # 1
      BY <1>1
    <3>4. g[n + 1] = g[n] \o ss[n]
      <4>1. g[n + 1] = g[(n + 1) - 1] \o tt[n + 1]
        BY <1>2, <3>3 DEF Accumulates
      <4>2. (n + 1) - 1 = n /\ tt[n + 1] = ss[n]
        BY <3>3, <1>1
      <4> QED BY <4>1, <4>2
    <3>5. ss[n] \in Seq(S)
      BY <3>3
    <3>6. CASE n = 1
      <4>1. f[n] = ss[n]
        BY <2>1, <3>3, <3>6 DEF Accumulates
      <4> QED BY <3>2, <3>4, <3>6, <4>1, <1>3
    <3>7. CASE n # 1
      <4>1. n - 1 \in 1..Len(ss) /\ ~(n <= n - 1) /\ (n - 1) + 1 = n
        BY <3>3, <3>7
      <4>2. g[n] = q \o f[n - 1]
        BY <4>1, <3>2
      <4>3. f[n] = f[n - 1] \o ss[n] /\ f[n - 1] \in Seq(S)
        BY <2>1, <3>3, <3>7, <4>1 DEF Accumulates
      <4>4. (q \o f[n - 1]) \o ss[n] = q \o (f[n - 1] \o ss[n])
        <5> DEFINE p == f[n - 1]
                   r == ss[n]
        <5>1. p \in Seq(S) /\ r \in Seq(S)
          BY <4>3, <3>5
        <5> HIDE DEF p, r
        <5>2. (q \o p) \o r = q \o (p \o r)
          <6>1. q \in Seq(S)
            OBVIOUS
          <6> HIDE DEF T
          <6> QED BY ONLY <5>1, <6>1, ConcatAssociative, SMT
        <5> QED BY <5>2 DEF p, r
      <4> QED BY <3>2, <3>4, <4>2, <4>3, <4>4
    <3> QED BY <3>6, <3>7
  <2>3. Len(ss) \in 1..Len(ss) /\ Len(ss) + 1 = Len(tt)
    BY <1>1, <1>5, EmptySeq
  <2>4. g[Len(tt)] = q \o f[Len(ss)]
    BY <2>2, <2>3
  <2> QED BY <1>2, <2>1, <2>4 DEF tt
<1> QED BY <1>4, <1>5

\* Taking up the first of the queues.
LEMMA FlattenPop ==
  ASSUME NEW S, NEW ss \in Seq(Seq(S)), ss # <<>>
  PROVE  FlattenSeq(ss) = Head(ss) \o FlattenSeq(Tail(ss))
<1>1. Head(ss) \in Seq(S) /\ Tail(ss) \in Seq(Seq(S))
  BY HeadTailProperties
<1>2. ss = <<Head(ss)>> \o Tail(ss)
  OBVIOUS
<1> QED BY <1>1, <1>2, FlattenPush

-------------------------------------------------------------------------------
(* The agenda. *)

\* The state of the agenda, as EventQueue maps it.
Ahead == next_queue \o FlattenSeq(inner_queue)
              \o (IF pc \in UserCode THEN <<>> ELSE event_queue)
Batch == IF pc \in UserCode THEN event_queue ELSE <<>>
Runs == CASE pc = "handlers" -> <<"handlers", current>>
          [] pc = "callback" -> <<"callback", current>>
          [] OTHER -> <<"nothing">>

\* A step that keeps the agenda.
LEMMA AgendaStutter ==
  ASSUME Ahead' = Ahead, Batch' = Batch, Runs' = Runs, callback_queue' = callback_queue
  PROVE  [Agenda!Next]_(Agenda!avars)
<1>1. UNCHANGED Agenda!avars
  BY DEF Agenda!avars, Ahead, Batch, Runs
<1> QED BY <1>1

\* Code of the asyncio loop posts.
LEMMA AgendaPostIdle ==
  ASSUME NEW e \in Posting, Runs = <<"nothing">>, Ahead' = Append(Ahead, e),
         Batch' = Batch, Runs' = Runs, callback_queue' = callback_queue
  PROVE  [Agenda!Next]_(Agenda!avars)
<1>1. Agenda!PostIdle(e)
  BY DEF Agenda!PostIdle, Agenda!Nothing, Ahead, Batch, Runs
<1> QED BY <1>1 DEF Agenda!Next

\* Handlers or a callback post.
LEMMA AgendaPostNested ==
  ASSUME NEW e \in Posting, Runs # <<"nothing">>, Batch' = Append(Batch, e),
         Ahead' = Ahead, Runs' = Runs, callback_queue' = callback_queue
  PROVE  [Agenda!Next]_(Agenda!avars)
<1>1. Agenda!PostNested(e)
  BY DEF Agenda!PostNested, Agenda!Nothing, Ahead, Batch, Runs
<1> QED BY <1>1 DEF Agenda!Next

\* An event starts.
LEMMA AgendaStartEvent ==
  ASSUME Runs = <<"nothing">>, Ahead # <<>>, Runs' = <<"handlers", Head(Ahead)>>,
         Ahead' = Tail(Ahead), Batch' = Batch, callback_queue' = callback_queue
  PROVE  [Agenda!Next]_(Agenda!avars)
<1>1. Agenda!StartEvent
  BY DEF Agenda!StartEvent, Agenda!Nothing, Agenda!Handlers, Ahead, Batch, Runs
<1> QED BY <1>1 DEF Agenda!Next

\* A callback starts.
LEMMA AgendaStartCallback ==
  ASSUME Runs = <<"nothing">>, Ahead = <<>>, callback_queue # <<>>,
         Runs' = <<"callback", Last(callback_queue)>>,
         callback_queue' = Front(callback_queue), Ahead' = Ahead, Batch' = Batch
  PROVE  [Agenda!Next]_(Agenda!avars)
<1>1. Agenda!StartCallback
  BY DEF Agenda!StartCallback, Agenda!Nothing, Agenda!Callback, Agenda!Last, Agenda!Front,
         Last, Front, Ahead, Batch, Runs
<1> QED BY <1>1 DEF Agenda!Next

\* Handlers or a callback return.
LEMMA AgendaReturn ==
  ASSUME Runs # <<"nothing">>, Ahead' = Batch \o Ahead, Batch' = <<>>, Runs' = <<"nothing">>,
         \/ callback_queue' = callback_queue
         \/ /\ current \in WithCallback
            /\ Runs = <<"handlers", current>>
            /\ callback_queue' = Append(callback_queue, current)
  PROVE  [Agenda!Next]_(Agenda!avars)
<1>1. Agenda!Return
  BY DEF Agenda!Return, Agenda!Nothing, Agenda!Handlers, Ahead, Batch, Runs
<1> QED BY <1>1 DEF Agenda!Next

\* What waits are postings.
LEMMA Parts ==
  ASSUME TypeOK
  PROVE  /\ event_queue \in Seq(Posting) /\ next_queue \in Seq(Posting)
         /\ inner_queue \in Seq(Seq(Posting))
         /\ FlattenSeq(inner_queue) \in Seq(Posting)
  BY FlattenType DEF TypeOK, QueueTypes

\* Where nothing runs, what is posted waits at the end.
LEMMA Idle ==
  ASSUME pc \notin UserCode
  PROVE  /\ Ahead = (next_queue \o FlattenSeq(inner_queue)) \o event_queue
         /\ Batch = <<>> /\ Runs = <<"nothing">>
  BY DEF Ahead, Batch, Runs, UserCode

\* While handlers or a callback run, what they post is the batch.
LEMMA Busy ==
  ASSUME TypeOK, pc \in UserCode
  PROVE  /\ Ahead = next_queue \o FlattenSeq(inner_queue)
         /\ Batch = event_queue /\ Runs = <<pc, current>> /\ Runs # <<"nothing">>
<1>1. next_queue \o FlattenSeq(inner_queue) \in Seq(Posting)
  BY Parts, ConcatProperties
<1>2. (next_queue \o FlattenSeq(inner_queue)) \o <<>> = next_queue \o FlattenSeq(inner_queue)
  BY <1>1, ConcatEmptySeq
<1> QED BY <1>2 DEF Ahead, Batch, Runs, UserCode

\* The loop without local queues: what waits is event_queue.
LEMMA Plain ==
  ASSUME TypeOK, next_queue = <<>>, inner_queue = <<>>, pc \notin UserCode
  PROVE  Ahead = event_queue
<1>1. Ahead = (<<>> \o <<>>) \o event_queue
  BY Idle, FlattenNothing
<1>2. <<>> \o <<>> = <<>> /\ <<>> \o event_queue = event_queue
  BY Parts, ConcatEmptySeq, EmptySeq
<1> QED BY <1>1, <1>2

\* Parts, after a step.
LEMMA PartsNext ==
  ASSUME TypeOK'
  PROVE  /\ event_queue' \in Seq(Posting) /\ next_queue' \in Seq(Posting)
         /\ inner_queue' \in Seq(Seq(Posting))
         /\ FlattenSeq(inner_queue') \in Seq(Posting)
  BY FlattenType DEF TypeOK, QueueTypes

\* Idle, after a step.
LEMMA IdleNext ==
  ASSUME pc' \notin UserCode
  PROVE  /\ Ahead' = (next_queue' \o FlattenSeq(inner_queue')) \o event_queue'
         /\ Batch' = <<>> /\ Runs' = <<"nothing">>
  BY DEF Ahead, Batch, Runs, UserCode

\* Busy, after a step.
LEMMA BusyNext ==
  ASSUME TypeOK', pc' \in UserCode
  PROVE  /\ Ahead' = next_queue' \o FlattenSeq(inner_queue')
         /\ Batch' = event_queue' /\ Runs' = <<pc', current'>>
<1>1. next_queue' \o FlattenSeq(inner_queue') \in Seq(Posting)
  BY PartsNext, ConcatProperties
<1>2. (next_queue' \o FlattenSeq(inner_queue')) \o <<>>
        = next_queue' \o FlattenSeq(inner_queue')
  BY <1>1, ConcatEmptySeq
<1> QED BY <1>2 DEF Ahead, Batch, Runs, UserCode

\* Plain, after a step.
LEMMA PlainNext ==
  ASSUME TypeOK', next_queue' = <<>>, inner_queue' = <<>>, pc' \notin UserCode
  PROVE  Ahead' = event_queue'
<1>1. Ahead' = (<<>> \o <<>>) \o event_queue'
  BY IdleNext, FlattenNothing
<1>2. <<>> \o <<>> = <<>> /\ <<>> \o event_queue' = event_queue'
  BY PartsNext, ConcatEmptySeq, EmptySeq
<1> QED BY <1>1, <1>2

\* Steps of the loop that move no queue.
LEMMA LoopMoves ==
  ASSUME pc \notin UserCode, pc' \notin UserCode, UNCHANGED queues
  PROVE  [Agenda!Next]_(Agenda!avars)
<1>1. UNCHANGED <<event_queue, callback_queue, next_queue, inner_queue>>
  BY DEF queues
<1>2. Ahead' = Ahead /\ Batch' = Batch /\ Runs' = Runs
  BY <1>1, Idle, IdleNext
<1> QED BY <1>1, <1>2, AgendaStutter

\* A posting joins the agenda at its end, or the batch while handlers or a callback run.
LEMMA PostMaps ==
  ASSUME IInv, NEW e \in Posting, NEW handled \in BOOLEAN, Post(e, handled)
  PROVE  [Agenda!Next]_(Agenda!avars)
<1>1. UNCHANGED <<callback_queue, next_queue, inner_queue, pc, current>> /\ Runs' = Runs
  BY DEF Post, Runs
<1>2. CASE Dropped(e, handled)
  <2>1. event_queue' = event_queue
    BY <1>2 DEF Post
  <2>2. Ahead' = Ahead /\ Batch' = Batch
    BY <1>1, <2>1 DEF Ahead, Batch
  <2> QED BY <1>1, <2>2, AgendaStutter
<1>3. CASE ~Dropped(e, handled)
  <2>1. event_queue' = Append(event_queue, e)
    BY <1>3 DEF Post
  <2>2. CASE pc \in UserCode
    <3>1. Ahead' = Ahead /\ Batch' = Append(Batch, e)
      BY <1>1, <2>1, <2>2 DEF Ahead, Batch
    <3> QED BY <1>1, <2>2, <3>1, Busy, AgendaPostNested DEF IInv
  <2>3. CASE pc \notin UserCode
    <3> DEFINE front == next_queue \o FlattenSeq(inner_queue)
    <3>1. front \in Seq(Posting) /\ event_queue \in Seq(Posting)
      BY Parts, ConcatProperties DEF IInv
    <3>2. Ahead' = front \o Append(event_queue, e) /\ Ahead = front \o event_queue
          /\ Batch' = Batch
      BY <1>1, <2>1, <2>3, Idle, IdleNext
    <3> HIDE DEF front
    <3>3. front \o Append(event_queue, e) = Append(front \o event_queue, e)
      BY <3>1
    <3> QED BY <1>1, <2>3, <3>2, <3>3, Idle, AgendaPostIdle
  <2> QED BY <2>2, <2>3
<1> QED BY <1>2, <1>3

\* Making event_queue the local queue changes nothing in the order.
LEMMA TakeQueueMaps ==
  ASSUME IInv, TypeOK', TakeQueue
  PROVE  [Agenda!Next]_(Agenda!avars)
<1>1. /\ pc \notin UserCode /\ pc' \notin UserCode
      /\ next_queue = <<>> /\ inner_queue = <<>>
      /\ next_queue' = event_queue /\ inner_queue' = <<>> /\ event_queue' = <<>>
      /\ callback_queue' = callback_queue
  BY DEF TakeQueue, IInv, Shape, UserCode
<1>2. Ahead = event_queue
  BY <1>1, Plain DEF IInv
<1>3. Ahead' = (event_queue \o <<>>) \o <<>>
  BY <1>1, IdleNext, FlattenNothing
<1>4. event_queue \o <<>> = event_queue
  BY Parts, ConcatEmptySeq DEF IInv
<1>5. Ahead' = Ahead
  BY <1>2, <1>3, <1>4
<1> QED BY <1>1, <1>5, Idle, IdleNext, AgendaStutter

\* The next event is the head of the agenda, whichever queue is taken up after it.
LEMMA PopEventMaps ==
  ASSUME IInv, TypeOK', PopEvent
  PROVE  [Agenda!Next]_(Agenda!avars)
<1>1. /\ pc \notin UserCode /\ pc' = "handlers" /\ next_queue # <<>>
      /\ event_queue = <<>> /\ event_queue' = <<>>
      /\ callback_queue' = callback_queue /\ current' = Head(next_queue)
      /\ Refill(Tail(next_queue))
  BY DEF PopEvent, IInv, Shape, UserCode
<1> DEFINE flat == FlattenSeq(inner_queue)
<1>2. /\ next_queue \in Seq(Posting) /\ inner_queue \in Seq(Seq(Posting))
      /\ flat \in Seq(Posting)
  BY Parts DEF IInv
<1>3. Ahead = next_queue \o flat
  <2>1. (next_queue \o flat) \o <<>> = next_queue \o flat
    BY <1>2, ConcatProperties, ConcatEmptySeq
  <2> QED BY <1>1, <2>1, Idle
<1>4. Ahead' = next_queue' \o FlattenSeq(inner_queue') /\ Batch' = <<>>
      /\ Runs' = <<"handlers", Head(next_queue)>>
  BY <1>1, BusyNext DEF UserCode
<1>5. /\ next_queue \o flat # <<>>
      /\ Head(next_queue \o flat) = Head(next_queue)
      /\ Tail(next_queue \o flat) = Tail(next_queue) \o flat
  <2> HIDE DEF flat
  <2>1. \A i \in 1..Len(Tail(next_queue \o flat)) :
          Tail(next_queue \o flat)[i] = (Tail(next_queue) \o flat)[i]
    BY <1>1, <1>2
  <2> QED BY <1>1, <1>2, <2>1
<1>6. Ahead' = Tail(next_queue) \o flat
  <2>1. CASE Tail(next_queue) = <<>> /\ inner_queue # <<>>
    <3>1. next_queue' = Head(inner_queue) /\ inner_queue' = Tail(inner_queue)
      BY <1>1, <2>1 DEF Refill
    <3>2. Ahead' = flat
      BY <1>2, <1>4, <2>1, <3>1, FlattenPop
    <3>3. <<>> \o flat = flat
      BY <1>2, ConcatEmptySeq
    <3> QED BY <2>1, <3>2, <3>3
  <2>2. CASE ~(Tail(next_queue) = <<>> /\ inner_queue # <<>>)
    <3>1. next_queue' = Tail(next_queue) /\ inner_queue' = inner_queue
      BY <1>1, <2>2 DEF Refill
    <3> QED BY <1>4, <3>1
  <2> QED BY <2>1, <2>2
<1>7. Batch' = Batch /\ Runs = <<"nothing">>
  BY <1>1, <1>4, Idle
<1> HIDE DEF flat
<1> QED BY <1>1, <1>3, <1>4, <1>5, <1>6, <1>7, AgendaStartEvent

\* What the handlers posted goes in front of all that is pushed aside.
LEMMA HandlersReturnMaps ==
  ASSUME IInv, TypeOK', HandlersReturn
  PROVE  [Agenda!Next]_(Agenda!avars)
<1>1. pc \in UserCode /\ pc = "handlers" /\ pc' \notin UserCode /\ PushAside
  BY DEF HandlersReturn, UserCode
<1> DEFINE flat == FlattenSeq(inner_queue)
           all == next_queue \o flat
<1>2. /\ next_queue \in Seq(Posting) /\ inner_queue \in Seq(Seq(Posting))
      /\ flat \in Seq(Posting) /\ event_queue \in Seq(Posting)
  BY Parts DEF IInv
<1>3. all \in Seq(Posting)
  BY <1>2, ConcatProperties
<1>4. Ahead = all /\ Batch = event_queue /\ Runs = <<"handlers", current>>
      /\ Runs # <<"nothing">>
  BY <1>1, Busy DEF IInv
<1>5. Batch' = <<>> /\ Runs' = <<"nothing">>
      /\ Ahead' = (next_queue' \o FlattenSeq(inner_queue')) \o event_queue'
  BY <1>1, IdleNext
<1>6. Ahead' = event_queue \o all
  <2>1. CASE event_queue # <<>>
    <3>1. /\ inner_queue' = <<next_queue>> \o inner_queue
          /\ next_queue' = event_queue /\ event_queue' = <<>>
      BY <1>1, <2>1 DEF PushAside
    <3>2. FlattenSeq(inner_queue') = all
      BY <1>2, <3>1, FlattenPush
    <3>3. Ahead' = (event_queue \o all) \o <<>>
      <4> HIDE DEF all
      <4> QED BY <1>5, <3>1, <3>2
    <3>4. (event_queue \o all) \o <<>> = event_queue \o all
      <4> HIDE DEF all
      <4> QED BY <1>2, <1>3, ConcatProperties, ConcatEmptySeq
    <3> QED BY <3>3, <3>4
  <2>2. CASE event_queue = <<>>
    <3>1. UNCHANGED <<inner_queue, next_queue, event_queue>>
      BY <1>1, <2>2 DEF PushAside
    <3>2. Ahead' = all \o <<>>
      BY <1>5, <2>2, <3>1
    <3>3. all \o <<>> = all /\ <<>> \o all = all
      <4> HIDE DEF all
      <4> QED BY <1>3, ConcatEmptySeq
    <3> QED BY <2>2, <3>2, <3>3
  <2> QED BY <2>1, <2>2
<1>7. \/ callback_queue' = callback_queue
      \/ /\ current \in WithCallback
         /\ callback_queue' = Append(callback_queue, current)
  BY DEF HandlersReturn, PushCallback, HandToTask, NoCallback
<1> HIDE DEF all
<1> QED BY <1>4, <1>5, <1>6, <1>7, AgendaReturn

\* The last callback of the stack starts when the agenda is empty.
LEMMA PopCallbackMaps ==
  ASSUME IInv, TypeOK', PopCallback
  PROVE  [Agenda!Next]_(Agenda!avars)
<1>1. /\ pc \notin UserCode /\ pc' = "callback" /\ callback_queue # <<>>
      /\ next_queue = <<>> /\ inner_queue = <<>> /\ event_queue = <<>>
      /\ next_queue' = <<>> /\ inner_queue' = <<>> /\ event_queue' = <<>>
      /\ current' = Last(callback_queue) /\ callback_queue' = Front(callback_queue)
  BY DEF PopCallback, IInv, Shape, UserCode
<1>2. Ahead = <<>> /\ Batch = <<>> /\ Runs = <<"nothing">>
  BY <1>1, Plain, Idle DEF IInv
<1>3. Ahead' = <<>> \o <<>> /\ Batch' = <<>>
      /\ Runs' = <<"callback", Last(callback_queue)>>
  BY <1>1, BusyNext, FlattenNothing DEF UserCode
<1>4. <<>> \o <<>> = <<>>
  BY EmptySeq, ConcatEmptySeq
<1> QED BY <1>1, <1>2, <1>3, <1>4, AgendaStartCallback

\* What a callback posted is all that waits when it returns.
LEMMA CallbackReturnsMaps ==
  ASSUME IInv, TypeOK', CallbackReturns
  PROVE  [Agenda!Next]_(Agenda!avars)
<1>1. /\ pc \in UserCode /\ pc = "callback" /\ pc' \notin UserCode
      /\ next_queue = <<>> /\ inner_queue = <<>>
      /\ next_queue' = <<>> /\ inner_queue' = <<>> /\ event_queue' = event_queue
      /\ callback_queue' = callback_queue
  BY DEF CallbackReturns, queues, IInv, Shape, UserCode
<1>2. Ahead = <<>> \o <<>> /\ Batch = event_queue /\ Runs # <<"nothing">>
  BY <1>1, Busy, FlattenNothing DEF IInv
<1>3. Ahead' = event_queue /\ Batch' = <<>> /\ Runs' = <<"nothing">>
  BY <1>1, PlainNext, IdleNext
<1>4. <<>> \o <<>> = <<>> /\ event_queue \o <<>> = event_queue
  BY Parts, EmptySeq, ConcatEmptySeq DEF IInv
<1>5. Ahead' = Batch \o Ahead
  BY <1>2, <1>3, <1>4
<1> QED BY <1>1, <1>2, <1>3, <1>5, AgendaReturn

\* However process_event_queue juggles its queues, events and callbacks start in
\* the order of the agenda: what an event's handlers posted is finished before
\* what was already waiting.
THEOREM FollowsAgenda == Spec => ImplementsAgenda
<1>1. Init => Agenda!Init
  <2> SUFFICES ASSUME Init PROVE Agenda!Init
    OBVIOUS
  <2>1. /\ pc \notin UserCode /\ next_queue = <<>> /\ inner_queue = <<>>
        /\ event_queue = <<>> /\ callback_queue = <<>> /\ TypeOK
    BY InitInv DEF Init, UserCode, IInv
  <2>2. Ahead = <<>> /\ Batch = <<>> /\ Runs = <<"nothing">>
    BY <2>1, Plain, Idle
  <2> QED BY <2>1, <2>2 DEF Agenda!Init, Agenda!Nothing, Ahead, Batch, Runs
<1>2. ASSUME IInv, [Next]_vars PROVE [Agenda!Next]_(Agenda!avars)
  <2>1. TypeOK'
    BY <1>2, NextInv DEF IInv
  <2>2. ASSUME NEW e \in Posting, NEW handled \in BOOLEAN, Post(e, handled)
        PROVE  [Agenda!Next]_(Agenda!avars)
    BY <1>2, <2>2, PostMaps
  <2>3. CASE Stop \/ RunScheduled \/ RunDirectly \/ TakeCallbacks \/ Return \/ SkipCallbacks
    <3>1. pc \notin UserCode /\ pc' \notin UserCode /\ UNCHANGED queues
      BY <2>3 DEF Stop, RunScheduled, RunDirectly, TakeCallbacks, Return, SkipCallbacks,
                  UserCode
    <3> QED BY <3>1, LoopMoves
  <2>4. CASE UNCHANGED vars
    <3>1. Ahead' = Ahead /\ Batch' = Batch /\ Runs' = Runs /\ callback_queue' = callback_queue
      BY <2>4 DEF vars, queues, Ahead, Batch, Runs
    <3> QED BY <3>1, AgendaStutter
  <2> QED BY <1>2, <2>1, <2>2, <2>3, <2>4, TakeQueueMaps, PopEventMaps, HandlersReturnMaps,
             PopCallbackMaps, CallbackReturnsMaps DEF Next, Pass
<1> QED BY <1>1, <1>2, Invariance, PTL DEF Spec, ImplementsAgenda, Agenda!Spec
===============================================================================
