-------------------------- MODULE EventHandlersProofs --------------------------
(***************************************************************************)
(* Proofs about EventHandlers, for any postings, events and handlers: that *)
(* a dispatch follows the priorities whatever is added or removed while it *)
(* runs; that a callback comes once, and after all waits; and that events  *)
(* are taken up as EventAgenda has it.                                     *)
(*                                                                         *)
(* IInv has three parts beside the types.  Order: the registries, and with *)
(* them the snapshot of a dispatch and what it has called, are in order.   *)
(* Once: where a posting may be (in the agenda or the batch, dispatched, on*)
(* the stack, or answered), and that it never goes back.  Tasks: a task is *)
(* past its queue's waits whenever it runs and no handler of it does, and  *)
(* runs alone.  The answer after the waits needs all of them: that the     *)
(* stack holds no queue event with a task comes from Once, that a task that*)
(* ends holds no wait from Tasks.                                          *)
(***************************************************************************)
EXTENDS EventHandlers, SequenceTheorems, FiniteSetTheorems, WellFoundedInduction, TLAPS

H(p) == Agenda!Handlers(p)
C(p) == Agenda!Callback(p)

\* Nothing runs, or one event or callback does.
RunningType ==
  \/ running = Agenda!Nothing
  \/ \E p \in Posting : running = H(p)
  \/ \E p \in WithCallback : running = C(p)

Types == TypeOK /\ RunningType

Ordered(s) == \A i, j \in DOMAIN s : i < j => Before(s[i], s[j])

Distinct(s) == \A i, j \in DOMAIN s : i # j => s[i] # s[j]

\* What is registered is known and in order.
Registry ==
  /\ Distinct(known)
  /\ \A ev \in Event : Ordered(registered[ev]) /\ ToSet(registered[ev]) \subseteq ToSet(known)

\* What a dispatch has called, and what it will call.
InOrder(p) ==
  /\ Ordered(called[p])
  /\ Ordered(rest[p])
  /\ \A i \in DOMAIN called[p], j \in DOMAIN rest[p] : Before(called[p][i], rest[p][j])
  /\ p \in refused => rest[p] = <<>>

Order == Registry /\ \A p \in Posting : InOrder(p)

\* The handlers of p were not looked up yet.
Fresh(p) ==
  /\ called[p] = <<>>
  /\ rest[p] = <<>>
  /\ p \notin refused
  /\ answers[p] = 0
  /\ p \notin ToSet(callbacks)
  /\ running # H(p)
  /\ running # C(p)
  /\ p \in QueueEvents => task[p] = "none"

Waits(p) == p \in ToSet(agenda) \cup ToSet(batch)

\* Where a posting is: nowhere yet, in the queue, dispatched, on the stack, or
\* answered.
Whereabouts(p) ==
  /\ p \notin posted => ~Waits(p) /\ Fresh(p)
  /\ Waits(p) => Fresh(p)
  /\ running = H(p) =>
       /\ answers[p] = 0
       /\ p \notin ToSet(callbacks)
       /\ p \in QueueEvents =>
            task[p] \in {"none", "created"} /\ rest[p] = <<>>
  /\ p \in ToSet(callbacks) =>
       /\ answers[p] = 0
       /\ rest[p] = <<>>
       /\ running # C(p)
       /\ p \in QueueEvents => task[p] = "none"
  /\ answers[p] <= 1

Once ==
  /\ Distinct(agenda) /\ Distinct(batch) /\ Distinct(callbacks)
  /\ ToSet(agenda) \cap ToSet(batch) = {}
  /\ \A p \in Posting : Whereabouts(p)

\* No handler of p holds a queue up.
Released(p) == \A o \in Queue : waiter[o] # p

\* The task of a queue event: only the handler that runs, or the one that the task sleeps
\* for, may hold a queue up, and that is the queue of this handler.
TaskStage(p) ==
  /\ task[p] \in {"created", "running", "waiting", "awake"} => answers[p] = 0
  /\ task[p] = "created" => called[p] = <<>> /\ rest[p] = <<>>
  /\ task[p] \in {"none", "created", "awake"} => Released(p)
  /\ task[p] = "running" /\ active = NoHandler => Released(p)
  /\ task[p] \in {"running", "waiting"} => \A o \in Queue : waiter[o] = p => o = using[p]
  /\ \A o \in Queue : sleeper[o] = p => task[p] \in {"waiting", "cancelled"} /\ o = using[p]

\* Code runs alone.
Alone ==
  /\ running # Agenda!Nothing => RunningTask = {}
  /\ \A p, q \in RunningTask : p = q

Tasks == Alone /\ \A p \in QueueEvents : TaskStage(p)

IInv == Types /\ Order /\ Once /\ Tasks

-------------------------------------------------------------------------------
(* Sequences.                                                               *)

\* Appending an element.
LEMMA Appended ==
  ASSUME NEW S, NEW s \in Seq(S), NEW e \in S
  PROVE  /\ Append(s, e) \in Seq(S)
         /\ ToSet(Append(s, e)) = ToSet(s) \cup {e}
         /\ Distinct(s) /\ e \notin ToSet(s) => Distinct(Append(s, e))
<1>1. /\ Append(s, e) \in Seq(S) /\ Len(Append(s, e)) = Len(s) + 1 /\ Len(s) \in Nat
      /\ \A i \in 1..Len(s) : Append(s, e)[i] = s[i]
      /\ Append(s, e)[Len(s) + 1] = e
      /\ DOMAIN s = 1..Len(s) /\ DOMAIN Append(s, e) = 1..(Len(s) + 1)
  OBVIOUS
<1>2. ToSet(Append(s, e)) = ToSet(s) \cup {e}
  <2>1. ASSUME NEW x \in ToSet(Append(s, e)) PROVE x \in ToSet(s) \cup {e}
    BY <1>1 DEF ToSet
  <2>2. ASSUME NEW x \in ToSet(s) \cup {e} PROVE x \in ToSet(Append(s, e))
    <3>1. CASE x = e
      <4>1. Len(s) + 1 \in DOMAIN Append(s, e)
        BY <1>1
      <4> QED BY <1>1, <3>1, <4>1 DEF ToSet
    <3>2. CASE x \in ToSet(s)
      <4>1. PICK i \in 1..Len(s) : x = s[i]
        BY <1>1, <3>2 DEF ToSet
      <4>2. i \in DOMAIN Append(s, e) /\ Append(s, e)[i] = x
        BY <1>1, <4>1
      <4> QED BY <4>2 DEF ToSet
    <3> QED BY <3>1, <3>2
  <2> QED BY <2>1, <2>2
<1>3. ASSUME Distinct(s), e \notin ToSet(s) PROVE Distinct(Append(s, e))
  BY <1>1, <1>3 DEF Distinct, ToSet
<1> QED BY <1>1, <1>2, <1>3

\* Putting one queue before another.
LEMMA Concatenated ==
  ASSUME NEW S, NEW s \in Seq(S), NEW t \in Seq(S)
  PROVE  /\ s \o t \in Seq(S)
         /\ ToSet(s \o t) = ToSet(s) \cup ToSet(t)
         /\ Distinct(s) /\ Distinct(t) /\ ToSet(s) \cap ToSet(t) = {} => Distinct(s \o t)
<1>1. /\ s \o t \in Seq(S) /\ Len(s) \in Nat /\ Len(t) \in Nat
      /\ DOMAIN s = 1..Len(s) /\ DOMAIN t = 1..Len(t) /\ DOMAIN (s \o t) = 1..(Len(s) + Len(t))
      /\ \A i \in 1..Len(s) : (s \o t)[i] = s[i]
      /\ \A i \in 1..(Len(s) + Len(t)) : i > Len(s) => (s \o t)[i] = t[i - Len(s)]
  OBVIOUS
<1>2. ToSet(s \o t) \subseteq ToSet(s) \cup ToSet(t)
  <2>1. ASSUME NEW i \in DOMAIN (s \o t) PROVE (s \o t)[i] \in ToSet(s) \cup ToSet(t)
    <3>1. CASE i <= Len(s)
      BY <1>1, <3>1 DEF ToSet
    <3>2. CASE i > Len(s)
      <4>1. i - Len(s) \in DOMAIN t /\ (s \o t)[i] = t[i - Len(s)]
        BY <1>1, <3>2
      <4> QED BY <4>1 DEF ToSet
    <3> QED BY <1>1, <3>1, <3>2
  <2> QED BY <2>1 DEF ToSet
<1>3. ToSet(s) \subseteq ToSet(s \o t)
  <2>1. ASSUME NEW i \in DOMAIN s PROVE i \in DOMAIN (s \o t) /\ (s \o t)[i] = s[i]
    BY <1>1
  <2> QED BY <2>1 DEF ToSet
<1>4. ToSet(t) \subseteq ToSet(s \o t)
  <2>1. ASSUME NEW i \in DOMAIN t
        PROVE  i + Len(s) \in DOMAIN (s \o t) /\ (s \o t)[i + Len(s)] = t[i]
    BY <1>1
  <2> QED BY <2>1 DEF ToSet
<1>5. ASSUME Distinct(s), Distinct(t), ToSet(s) \cap ToSet(t) = {} PROVE Distinct(s \o t)
  <2>1. \A i \in DOMAIN s, j \in DOMAIN t : s[i] # t[j]
    BY <1>5 DEF ToSet
  <2>2. SUFFICES ASSUME NEW i \in DOMAIN (s \o t), NEW j \in DOMAIN (s \o t), i # j
                 PROVE  (s \o t)[i] # (s \o t)[j]
    BY DEF Distinct
  <2>3. i \in Nat /\ j \in Nat
    BY <1>1
  <2>4. CASE i <= Len(s) /\ j <= Len(s)
    BY <1>1, <1>5, <2>2, <2>4 DEF Distinct
  <2>5. CASE i <= Len(s) /\ j > Len(s)
    BY <1>1, <2>1, <2>5
  <2>6. CASE i > Len(s) /\ j <= Len(s)
    BY <1>1, <2>1, <2>6
  <2>7. CASE i > Len(s) /\ j > Len(s)
    <3>1. i - Len(s) \in DOMAIN t /\ j - Len(s) \in DOMAIN t /\ i - Len(s) # j - Len(s)
      BY <1>1, <2>2, <2>7
    <3>2. t[i - Len(s)] # t[j - Len(s)]
      BY <1>5, <3>1 DEF Distinct
    <3> QED BY <1>1, <2>7, <3>2
  <2> QED BY <1>1, <2>3, <2>4, <2>5, <2>6, <2>7
<1> QED BY <1>1, <1>2, <1>3, <1>4, <1>5

\* Taking the first element away.
LEMMA HeadTaken ==
  ASSUME NEW S, NEW s \in Seq(S), s # <<>>
  PROVE  /\ Head(s) = s[1] /\ 1 \in DOMAIN s /\ Head(s) \in S /\ Tail(s) \in Seq(S)
         /\ \A i \in DOMAIN Tail(s) : i + 1 \in DOMAIN s /\ Tail(s)[i] = s[i + 1] /\ i \in Nat \ {0}
         /\ ToSet(s) = ToSet(Tail(s)) \cup {Head(s)}
         /\ Distinct(s) => Distinct(Tail(s)) /\ Head(s) \notin ToSet(Tail(s))
<1>1. /\ Head(s) = s[1] /\ Head(s) \in S /\ Tail(s) \in Seq(S) /\ Len(s) \in Nat \ {0}
      /\ DOMAIN s = 1..Len(s) /\ DOMAIN Tail(s) = 1..(Len(s) - 1)
      /\ \A i \in 1..(Len(s) - 1) : Tail(s)[i] = s[i + 1]
  OBVIOUS
<1>2. \A i \in DOMAIN Tail(s) : i + 1 \in DOMAIN s /\ Tail(s)[i] = s[i + 1] /\ i \in Nat \ {0}
  BY <1>1
<1>3. \A i \in DOMAIN s : i = 1 \/ (i - 1 \in DOMAIN Tail(s) /\ Tail(s)[i - 1] = s[i])
  BY <1>1
<1>4. ToSet(s) = ToSet(Tail(s)) \cup {Head(s)}
  <2>1. ASSUME NEW i \in DOMAIN s PROVE s[i] \in ToSet(Tail(s)) \cup {Head(s)}
    BY <1>1, <1>3 DEF ToSet
  <2>2. ASSUME NEW i \in DOMAIN Tail(s) PROVE Tail(s)[i] \in ToSet(s)
    BY <1>2 DEF ToSet
  <2>3. 1 \in DOMAIN s
    BY <1>1
  <2> QED BY <1>1, <2>1, <2>2, <2>3 DEF ToSet
<1>5. ASSUME Distinct(s) PROVE Distinct(Tail(s)) /\ Head(s) \notin ToSet(Tail(s))
  <2>1. Distinct(Tail(s))
    <3>1. SUFFICES ASSUME NEW i \in DOMAIN Tail(s), NEW j \in DOMAIN Tail(s), i # j
                   PROVE  Tail(s)[i] # Tail(s)[j]
      BY DEF Distinct
    <3>2. i + 1 # j + 1
      BY <1>1, <3>1
    <3> QED BY <1>2, <1>5, <3>2 DEF Distinct
  <2>2. \A i \in DOMAIN Tail(s) : i + 1 # 1 /\ 1 \in DOMAIN s
    BY <1>1
  <2> QED BY <1>1, <1>2, <1>5, <2>1, <2>2 DEF Distinct, ToSet
<1> QED BY <1>1, <1>2, <1>4, <1>5

\* Taking the last element away.
LEMMA LastTaken ==
  ASSUME NEW S, NEW s \in Seq(S), s # <<>>
  PROVE  /\ Last(s) \in S /\ Last(s) \in ToSet(s) /\ Front(s) \in Seq(S)
         /\ ToSet(Front(s)) \subseteq ToSet(s)
         /\ Distinct(s) => Distinct(Front(s)) /\ Last(s) \notin ToSet(Front(s))
<1>1. Len(s) \in Nat \ {0} /\ DOMAIN s = 1..Len(s)
  OBVIOUS
<1>2. /\ Last(s) = s[Len(s)] /\ Last(s) \in S /\ Front(s) \in Seq(S)
      /\ DOMAIN Front(s) = 1..(Len(s) - 1)
      /\ \A i \in 1..(Len(s) - 1) : Front(s)[i] = s[i]
  BY <1>1 DEF Last, Front
<1>3. \A i \in DOMAIN Front(s) : i \in DOMAIN s /\ Front(s)[i] = s[i] /\ i # Len(s)
  BY <1>1, <1>2
<1>4. Len(s) \in DOMAIN s
  BY <1>1
<1>5. Last(s) \in ToSet(s) /\ ToSet(Front(s)) \subseteq ToSet(s)
  BY <1>2, <1>3, <1>4 DEF ToSet
<1>6. ASSUME Distinct(s) PROVE Distinct(Front(s)) /\ Last(s) \notin ToSet(Front(s))
  BY <1>2, <1>3, <1>4, <1>6 DEF Distinct, ToSet
<1> QED BY <1>2, <1>5, <1>6

\* Putting an element at place i + 1.
LEMMA Inserted ==
  ASSUME NEW S, NEW s \in Seq(S), NEW e \in S, NEW i \in 0..Len(s)
  PROVE  LET t == InsertAt(s, i + 1, e)
         IN  /\ t \in Seq(S) /\ DOMAIN t = 1..(Len(s) + 1)
             /\ t[i + 1] = e
             /\ \A j \in 1..i : t[j] = s[j]
             /\ \A j \in (i + 2)..(Len(s) + 1) : t[j] = s[j - 1]
<1> DEFINE a == SubSeq(s, 1, i)
           b == SubSeq(s, i + 1, Len(s))
<1>1. Len(s) \in Nat /\ i \in Nat /\ i <= Len(s) /\ (i + 1) - 1 = i
  OBVIOUS
<1>2. a \in Seq(S) /\ Len(a) = i /\ \A j \in 1..i : a[j] = s[j]
  BY <1>1
<1>3. b \in Seq(S) /\ Len(b) = Len(s) - i /\ \A j \in 1..(Len(s) - i) : b[j] = s[i + j]
  BY <1>1
<1>4. InsertAt(s, i + 1, e) = a \o <<e>> \o b
  BY <1>1 DEF InsertAt
<1> HIDE DEF a, b
<1>5. /\ a \o <<e>> \in Seq(S) /\ Len(a \o <<e>>) = i + 1 /\ (a \o <<e>>)[i + 1] = e
      /\ \A j \in 1..i : (a \o <<e>>)[j] = s[j]
  BY <1>1, <1>2
<1> DEFINE c == a \o <<e>>
           t == c \o b
<1>6. c \in Seq(S) /\ Len(c) = i + 1 /\ c[i + 1] = e /\ \A j \in 1..i : c[j] = s[j]
  BY <1>5
<1> HIDE DEF c
<1>7. /\ t \in Seq(S) /\ Len(t) = Len(s) + 1 /\ DOMAIN t = 1..Len(t)
      /\ \A j \in 1..(i + 1) : t[j] = c[j]
      /\ \A j \in (i + 2)..(Len(s) + 1) : t[j] = b[j - (i + 1)]
  BY <1>1, <1>3, <1>6
<1>8. InsertAt(s, i + 1, e) = t
  BY <1>4 DEF c
<1> HIDE DEF t
<1>9. \A j \in (i + 2)..(Len(s) + 1) : t[j] = s[j - 1]
  <2>1. ASSUME NEW j \in (i + 2)..(Len(s) + 1) PROVE t[j] = s[j - 1]
    <3>1. j - (i + 1) \in 1..(Len(s) - i) /\ i + (j - (i + 1)) = j - 1
      BY <1>1
    <3> QED BY <1>3, <1>7, <3>1
  <2> QED BY <2>1
<1>10. t[i + 1] = e /\ \A j \in 1..i : t[j] = s[j]
  BY <1>1, <1>6, <1>7
<1> QED BY <1>7, <1>8, <1>9, <1>10

\* Removing the first element that equals e leaves the others in their order.
LEMMA Removed ==
  ASSUME NEW S, NEW s \in Seq(S), NEW e \in ToSet(s)
  PROVE  LET t == RemoveFirst(s, e)
         IN  /\ t \in Seq(S)
             /\ \E k \in DOMAIN s : \A j \in DOMAIN t :
                  /\ j \in Nat
                  /\ j < k => j \in DOMAIN s /\ t[j] = s[j]
                  /\ j >= k => j + 1 \in DOMAIN s /\ t[j] = s[j + 1]
<1> DEFINE I == {i \in 1..Len(s) : s[i] = e}
           k == Min(I)
<1>1. Len(s) \in Nat /\ DOMAIN s = 1..Len(s)
  OBVIOUS
<1>2. PICK i \in 1..Len(s) : s[i] = e
  BY <1>1 DEF ToSet
<1>3. k \in I
  <2>1. IsWellFoundedOn(OpToRel(<, Nat), Nat)
    BY NatLessThanWellFounded
  <2>2. I # {} /\ I \subseteq Nat
    BY <1>1, <1>2
  <2>3. PICK x \in I : \A y \in I : ~ (<<y, x>> \in OpToRel(<, Nat))
    <3> HIDE DEF I
    <3> QED BY <2>1, <2>2, WFMin, Zenon
  <2>4. \A y \in I : x <= y
    <3>1. ASSUME NEW y \in I PROVE x <= y
      <4>1. ~ (<<y, x>> \in OpToRel(<, Nat))
        BY <2>3
      <4>2. ~ (y < x)
        BY <2>2, <4>1, SMT DEF OpToRel
      <4> QED BY <2>2, <4>2
    <3> QED BY <3>1
  <2> QED BY <2>3, <2>4 DEF Min
<1>4. RemoveFirst(s, e) = RemoveAt(s, k)
  BY <1>2, <1>3 DEF RemoveFirst, SelectInSeq
<1>5. k \in 1..Len(s)
  BY <1>3
<1> HIDE DEF k, I
<1> DEFINE a == SubSeq(s, 1, k - 1)
           b == SubSeq(s, k + 1, Len(s))
           t == a \o b
<1>6. a \in Seq(S) /\ Len(a) = k - 1 /\ \A j \in 1..(k - 1) : a[j] = s[j]
  BY <1>1, <1>5
<1>7. b \in Seq(S) /\ Len(b) = Len(s) - k /\ \A j \in 1..(Len(s) - k) : b[j] = s[k + j]
  <2>1. \A j \in (k + 1)..Len(s) : s[j] \in S
    BY <1>1, <1>5
  <2>2. /\ b \in Seq(S) /\ Len(b) = IF k + 1 <= Len(s) THEN Len(s) - (k + 1) + 1 ELSE 0
        /\ \A j \in 1..(Len(s) - (k + 1) + 1) : b[j] = s[(k + 1) + j - 1]
    BY <1>1, <1>5, <2>1, SubSeqProperties
  <2>3. \A j \in 1..(Len(s) - k) : (k + 1) + j - 1 = k + j /\ j \in 1..(Len(s) - (k + 1) + 1)
    BY <1>1, <1>5
  <2> HIDE DEF b
  <2>4. CASE k = Len(s)
    BY <1>1, <1>5, <2>2, <2>3, <2>4
  <2>5. CASE k < Len(s)
    <3>1. k + 1 <= Len(s) /\ Len(s) - (k + 1) + 1 = Len(s) - k
      BY <1>1, <1>5, <2>5
    <3>2. Len(b) = Len(s) - k
      BY <2>2, <3>1
    <3> QED BY <2>2, <2>3, <3>2
  <2>6. k = Len(s) \/ k < Len(s)
    <3> HIDE DEF I, k
    <3>1. k \in Int /\ Len(s) \in Int /\ k <= Len(s)
      BY <1>1, <1>5
    <3> QED BY <3>1
  <2> QED BY <2>4, <2>5, <2>6
<1>8. RemoveFirst(s, e) = t
  BY <1>4 DEF RemoveAt
<1> HIDE DEF a, b
<1>9. /\ t \in Seq(S) /\ DOMAIN t = 1..(Len(s) - 1)
      /\ \A j \in 1..(k - 1) : t[j] = a[j]
      /\ \A j \in k..(Len(s) - 1) : t[j] = b[j - (k - 1)]
  <2>1. Len(a) + Len(b) = Len(s) - 1
    BY <1>1, <1>5, <1>6, <1>7
  <2>2. /\ t \in Seq(S) /\ Len(t) = Len(a) + Len(b)
        /\ \A j \in 1..(Len(a) + Len(b)) : t[j] = IF j <= Len(a) THEN a[j] ELSE b[j - Len(a)]
    BY <1>6, <1>7, ConcatProperties
  <2> HIDE DEF t
  <2>3. DOMAIN t = 1..(Len(s) - 1)
    BY <2>1, <2>2
  <2>4. \A j \in 1..(k - 1) : j \in 1..(Len(a) + Len(b)) /\ j <= Len(a)
    BY <1>1, <1>5, <1>6, <2>1
  <2>5. \A j \in k..(Len(s) - 1) : j \in 1..(Len(a) + Len(b)) /\ ~ (j <= Len(a))
    BY <1>1, <1>5, <1>6, <2>1
  <2> QED BY <1>6, <2>2, <2>3, <2>4, <2>5
<1> HIDE DEF t
<1>10. ASSUME NEW j \in DOMAIN t
       PROVE  /\ j \in Nat
              /\ j < k => j \in DOMAIN s /\ t[j] = s[j]
              /\ j >= k => j + 1 \in DOMAIN s /\ t[j] = s[j + 1]
  <2>1. j \in 1..(Len(s) - 1)
    BY <1>9
  <2>2. CASE j < k
    BY <1>1, <1>5, <1>6, <1>9, <2>1, <2>2
  <2>3. CASE j >= k
    <3>1. j - (k - 1) \in 1..(Len(s) - k) /\ k + (j - (k - 1)) = j + 1
      BY <1>1, <1>5, <2>1, <2>3
    <3>2. j \in k..(Len(s) - 1) /\ j \in Nat /\ j + 1 \in DOMAIN s
      BY <1>1, <1>5, <2>1, <2>3
    <3>3. t[j] = b[j - (k - 1)]
      BY <1>9, <3>2
    <3>4. b[j - (k - 1)] = s[j + 1]
      BY <1>7, <3>1
    <3> QED BY <1>5, <2>3, <3>2, <3>3, <3>4
  <2> QED BY <1>1, <1>5, <2>1, <2>2, <2>3
<1> QED BY <1>1, <1>5, <1>8, <1>9, <1>10

-------------------------------------------------------------------------------
(* The registry.                                                            *)

\* The handlers of at least h's priority come first in an ordered registry, so that
\* their number is the place of h.
LEMMA Placed ==
  ASSUME HandlersAssumption, NEW s \in Seq(Handler), Ordered(s), NEW h \in Handler
  PROVE  LET J == {j \in DOMAIN s : Priority[s[j]] >= Priority[h]}
         IN  Cardinality(J) \in 0..Len(s) /\ J = 1..Cardinality(J)
<1> DEFINE J == {j \in DOMAIN s : Priority[s[j]] >= Priority[h]}
           K == (1..(Len(s) + 1)) \ J
<1>1. Len(s) \in Nat /\ DOMAIN s = 1..Len(s) /\ \A i \in 1..Len(s) : s[i] \in Handler
  OBVIOUS
<1>2. \A g \in Handler : Priority[g] \in Nat
  BY HandlersAssumption DEF HandlersAssumption
<1>3. ASSUME NEW i \in 1..Len(s), NEW j \in J, i < j PROVE i \in J
  <2>1. Before(s[i], s[j])
    BY <1>1, <1>3 DEF Ordered
  <2>2. Priority[s[i]] >= Priority[s[j]]
    BY <1>1, <1>2, <2>1 DEF Before
  <2>3. Priority[s[j]] >= Priority[h] /\ s[j] \in Handler /\ s[i] \in Handler
    BY <1>1, <1>3
  <2> QED BY <1>1, <1>2, <2>2, <2>3
<1>4. J \subseteq 1..Len(s)
  BY <1>1
<1> HIDE DEF J
<1>5. PICK m \in K : \A y \in K : m <= y
  <2>1. IsWellFoundedOn(OpToRel(<, Nat), Nat)
    BY NatLessThanWellFounded
  <2>2. Len(s) + 1 \in K /\ K \subseteq Nat
    BY <1>1, <1>4
  <2> HIDE DEF K
  <2>3. PICK x \in K : \A y \in K : ~ (<<y, x>> \in OpToRel(<, Nat))
    BY <2>1, <2>2, WFMin, Zenon
  <2>4. ASSUME NEW y \in K PROVE x <= y
    <3>1. ~ (<<y, x>> \in OpToRel(<, Nat))
      BY <2>3
    <3>2. ~ (y < x)
      BY <2>2, <3>1, SMT DEF OpToRel
    <3> QED BY <2>2, <3>2
  <2> QED BY <2>3, <2>4
<1>6. J = 1..(m - 1)
  <2>1. m \in 1..(Len(s) + 1) /\ m \notin J
    BY <1>5
  <2>2. ASSUME NEW j \in 1..(m - 1) PROVE j \in J
    <3>1. j \in 1..(Len(s) + 1) /\ ~ (m <= j)
      BY <1>1, <2>1
    <3> QED BY <1>5, <3>1
  <2>3. ASSUME NEW j \in J PROVE j \in 1..(m - 1)
    <3>1. j \in 1..Len(s) /\ j # m
      BY <1>4, <2>1
    <3>2. ~ (m < j)
      BY <1>1, <1>3, <2>1, <3>1
    <3> QED BY <1>1, <2>1, <3>1, <3>2
  <2> QED BY <2>2, <2>3
<1>7. Cardinality(J) = m - 1 /\ m - 1 \in 0..Len(s)
  <2>1. m - 1 \in Int /\ m - 1 >= 0 /\ m - 1 <= Len(s)
    BY <1>1, <1>5
  <2>2. Cardinality(1..(m - 1)) = IF 1 > m - 1 THEN 0 ELSE (m - 1) - 1 + 1
    BY <2>1, FS_Interval
  <2>3. Cardinality(1..(m - 1)) = m - 1
    BY <2>1, <2>2
  <2> QED BY <1>1, <1>6, <2>1, <2>3
<1> QED BY <1>6, <1>7 DEF J

\* Adding a handler to the known ones leaves the order of the others.
LEMMA Grown ==
  ASSUME HandlersAssumption, known \in Seq(Handler), NEW h \in Handler,
         known' = Append(known, h)
  PROVE  /\ \A f, g : Before(f, g) => Before(f, g)'
         /\ \A g \in ToSet(known) : Priority[g] = Priority[h] => Before(g, h)'
<1>1. /\ Len(known) \in Nat /\ DOMAIN known = 1..Len(known)
      /\ DOMAIN known' = 1..(Len(known) + 1)
      /\ \A i \in 1..Len(known) : known'[i] = known[i]
      /\ known'[Len(known) + 1] = h
  OBVIOUS
<1>2. ASSUME NEW f, NEW g, Before(f, g) PROVE Before(f, g)'
  <2>1. CASE Priority[f] > Priority[g]
    BY <2>1 DEF Before
  <2>2. CASE /\ Priority[f] = Priority[g]
             /\ \E i, j \in DOMAIN known : i < j /\ known[i] = f /\ known[j] = g
    <3>1. PICK i \in DOMAIN known, j \in DOMAIN known : i < j /\ known[i] = f /\ known[j] = g
      BY <2>2
    <3>2. i \in DOMAIN known' /\ j \in DOMAIN known' /\ known'[i] = f /\ known'[j] = g
      BY <1>1, <3>1
    <3> QED BY <2>2, <3>1, <3>2 DEF Before
  <2> QED BY <1>2, <2>1, <2>2 DEF Before
<1>3. ASSUME NEW g \in ToSet(known), Priority[g] = Priority[h] PROVE Before(g, h)'
  <2>1. PICK i \in 1..Len(known) : known[i] = g
    BY <1>1 DEF ToSet
  <2>2. /\ i \in DOMAIN known' /\ Len(known) + 1 \in DOMAIN known' /\ i < Len(known) + 1
        /\ known'[i] = g
    BY <1>1, <2>1
  <2> QED BY <1>1, <1>3, <2>2 DEF Before
<1> QED BY <1>2, <1>3

\* add_handler keeps the handlers of an event in order.
LEMMA SortedOrdered ==
  ASSUME HandlersAssumption, known \in Seq(Handler), NEW h \in Handler,
         known' = Append(known, h), NEW s \in Seq(Handler), Ordered(s),
         ToSet(s) \subseteq ToSet(known)
  PROVE  /\ Sorted(s, h) \in Seq(Handler)
         /\ ToSet(Sorted(s, h)) \subseteq ToSet(s) \cup {h}
         /\ Ordered(Sorted(s, h))'
<1> DEFINE J == {j \in DOMAIN s : Priority[s[j]] >= Priority[h]}
           n == Cardinality(J)
           t == InsertAt(s, n + 1, h)
<1>1. Len(s) \in Nat /\ DOMAIN s = 1..Len(s) /\ \A i \in 1..Len(s) : s[i] \in Handler
  OBVIOUS
<1>2. \A g \in Handler : Priority[g] \in Nat
  BY HandlersAssumption DEF HandlersAssumption
<1>3. n \in 0..Len(s) /\ J = 1..n
  BY Placed
<1>4. /\ t \in Seq(Handler) /\ DOMAIN t = 1..(Len(s) + 1)
      /\ t[n + 1] = h
      /\ \A j \in 1..n : t[j] = s[j]
      /\ \A j \in (n + 2)..(Len(s) + 1) : t[j] = s[j - 1]
  <2> HIDE DEF n
  <2> QED BY <1>3, Inserted
<1>5. Sorted(s, h) = t
  BY DEF Sorted
<1>6. \A i \in 1..n : i \in 1..Len(s) /\ Priority[s[i]] >= Priority[h]
  BY <1>1, <1>3
<1>7. \A i \in 1..Len(s) : i > n => ~ (Priority[s[i]] >= Priority[h])
  <2>1. \A i \in 1..Len(s) : i \notin J => ~ (Priority[s[i]] >= Priority[h])
    BY <1>1
  <2> HIDE DEF J
  <2> QED BY <1>1, <1>3, <2>1
<1> HIDE DEF J, n, t
<1>8. \A j \in (n + 2)..(Len(s) + 1) : j - 1 \in 1..Len(s) /\ j - 1 > n
  BY <1>1, <1>3
<1>9. \A j \in DOMAIN t : j \in 1..n \/ j = n + 1 \/ j \in (n + 2)..(Len(s) + 1)
  <2>1. n \in Int /\ Len(s) \in Int /\ DOMAIN t = 1..(Len(s) + 1)
    BY <1>1, <1>3, <1>4
  <2>2. \A j \in 1..(Len(s) + 1) : j \in 1..n \/ j = n + 1 \/ j \in (n + 2)..(Len(s) + 1)
    BY <2>1
  <2> QED BY <2>1, <2>2
<1>10. ToSet(t) \subseteq ToSet(s) \cup {h}
  <2>1. ASSUME NEW j \in DOMAIN t PROVE t[j] \in ToSet(s) \cup {h}
    BY <1>1, <1>4, <1>6, <1>8, <1>9 DEF ToSet
  <2> QED BY <2>1 DEF ToSet
<1>11. \A i, j \in 1..Len(s) : i < j => Before(s[i], s[j])'
  BY <1>1, Grown DEF Ordered
<1>12. \A i \in 1..n : Before(s[i], h)'
  <2>1. ASSUME NEW i \in 1..n PROVE Before(s[i], h)'
    <3>1. i \in 1..Len(s) /\ Priority[s[i]] >= Priority[h] /\ s[i] \in Handler
      BY <1>1, <1>6
    <3>2. CASE Priority[s[i]] = Priority[h]
      <4>1. s[i] \in ToSet(known)
        BY <1>1, <3>1 DEF ToSet
      <4> QED BY <3>2, <4>1, Grown
    <3>3. CASE Priority[s[i]] > Priority[h]
      BY <3>3 DEF Before
    <3> QED BY <1>2, <3>1, <3>2, <3>3
  <2> QED BY <2>1
<1>13. \A i \in 1..Len(s) : i > n => Before(h, s[i])'
  BY <1>1, <1>2, <1>7 DEF Before
<1>14. \A i, j \in DOMAIN t : i < j => Before(t[i], t[j])'
  <2>1. SUFFICES ASSUME NEW i \in DOMAIN t, NEW j \in DOMAIN t, i < j
                 PROVE  Before(t[i], t[j])'
    OBVIOUS
  <2>2. CASE j \in 1..n
    <3>1. i \in 1..n /\ i \in 1..Len(s) /\ j \in 1..Len(s)
      BY <1>1, <1>3, <1>4, <2>1, <2>2
    <3>2. t[i] = s[i] /\ t[j] = s[j]
      BY <1>4, <2>2, <3>1
    <3> QED BY <1>11, <2>1, <3>1, <3>2
  <2>3. CASE j = n + 1
    <3>1. i \in 1..n
      BY <1>1, <1>3, <1>4, <2>1, <2>3
    <3>2. t[i] = s[i] /\ t[j] = h
      BY <1>4, <2>3, <3>1
    <3> QED BY <1>12, <3>1, <3>2
  <2>4. CASE j \in (n + 2)..(Len(s) + 1)
    <3>1. j - 1 \in 1..Len(s) /\ j - 1 > n /\ t[j] = s[j - 1]
      BY <1>4, <1>8, <2>4
    <3>2. CASE i \in 1..n
      <4>1. i \in 1..Len(s) /\ i < j - 1 /\ t[i] = s[i]
        BY <1>1, <1>3, <1>4, <3>1, <3>2
      <4> QED BY <1>11, <3>1, <4>1
    <3>3. CASE i = n + 1
      <4>1. t[i] = h
        BY <1>4, <3>3
      <4> QED BY <1>13, <3>1, <4>1
    <3>4. CASE i \in (n + 2)..(Len(s) + 1)
      <4>1. i - 1 \in 1..Len(s) /\ t[i] = s[i - 1]
        BY <1>4, <1>8, <3>4
      <4>2. i - 1 < j - 1
        BY <1>1, <1>3, <1>4, <2>1
      <4> QED BY <1>11, <3>1, <4>1, <4>2
    <3> QED BY <1>9, <3>2, <3>3, <3>4
  <2> QED BY <1>9, <2>2, <2>3, <2>4
<1>15. Ordered(t)'
  <2>1. t' = t
    BY DEF t, n, J
  <2> QED BY <1>14, <2>1 DEF Ordered
<1> QED BY <1>4, <1>5, <1>10, <1>15

\* remove_handler keeps them in order, too.
LEMMA RemovedOrdered ==
  ASSUME NEW s \in Seq(Handler), NEW h \in ToSet(s), Ordered(s)
  PROVE  /\ RemoveFirst(s, h) \in Seq(Handler)
         /\ ToSet(RemoveFirst(s, h)) \subseteq ToSet(s)
         /\ Ordered(RemoveFirst(s, h))
<1> DEFINE t == RemoveFirst(s, h)
<1>1. t \in Seq(Handler)
  BY Removed
<1>2. PICK k \in DOMAIN s :
        \A j \in DOMAIN t :
          /\ j \in Nat
          /\ j < k => j \in DOMAIN s /\ t[j] = s[j]
          /\ j >= k => j + 1 \in DOMAIN s /\ t[j] = s[j + 1]
  BY Removed
<1>3. k \in Nat
  OBVIOUS
<1> HIDE DEF t
<1>4. ToSet(t) \subseteq ToSet(s)
  <2>1. ASSUME NEW j \in DOMAIN t PROVE t[j] \in ToSet(s)
    BY <1>2, <1>3 DEF ToSet
  <2> QED BY <2>1 DEF ToSet
<1>5. Ordered(t)
  <2>1. SUFFICES ASSUME NEW i \in DOMAIN t, NEW j \in DOMAIN t, i < j
                 PROVE  Before(t[i], t[j])
    BY DEF Ordered
  <2>2. i \in Nat /\ j \in Nat
    BY <1>2
  <2>3. CASE j < k
    BY <1>2, <1>3, <2>1, <2>2, <2>3 DEF Ordered
  <2>4. CASE i < k /\ j >= k
    <3>1. i < j + 1
      BY <2>1, <2>2
    <3> QED BY <1>2, <2>4, <3>1 DEF Ordered
  <2>5. CASE i >= k
    <3>1. j >= k /\ i + 1 < j + 1
      BY <1>3, <2>1, <2>2, <2>5
    <3> QED BY <1>2, <2>5, <3>1 DEF Ordered
  <2> QED BY <1>3, <2>1, <2>2, <2>3, <2>4, <2>5
<1> QED BY <1>1, <1>4, <1>5 DEF t

-------------------------------------------------------------------------------
(* Types.                                                                   *)

\* What runs says what it is and of which posting.
LEMMA Running ==
  /\ \A p, q : H(p) = H(q) => p = q
  /\ \A p, q : C(p) = C(q) => p = q
  /\ \A p, q : H(p) # C(q)
  /\ \A p : H(p) # Agenda!Nothing /\ C(p) # Agenda!Nothing
<1>1. \A p, q : H(p)[1] = "handlers" /\ H(p)[2] = p /\ C(q)[1] = "callback" /\ C(q)[2] = q
  BY DEF H, C, Agenda!Handlers, Agenda!Callback
<1>2. Agenda!Nothing[1] = "nothing"
  BY DEF Agenda!Nothing
<1>3. ASSUME NEW p, NEW q, H(p) = H(q) PROVE p = q
  BY <1>1, <1>3
<1>4. ASSUME NEW p, NEW q, C(p) = C(q) PROVE p = q
  BY <1>1, <1>4
<1>5. "handlers" # "callback" /\ "handlers" # "nothing" /\ "callback" # "nothing"
  OBVIOUS
<1>6. \A p, q : H(p) # C(q)
  BY <1>1, <1>5, Zenon
<1>7. \A p : H(p) # Agenda!Nothing /\ C(p) # Agenda!Nothing
  BY <1>1, <1>2, <1>5, Zenon
<1> QED BY <1>3, <1>4, <1>6, <1>7

\* A step that changes nothing.
LEMMA TypesKept ==
  ASSUME Types, UNCHANGED vars
  PROVE  Types'
BY DEF Types, TypeOK, RunningType, vars, agendaVars, dispatchVars, taskVars, queueVars, registryVars,
       H, C, Agenda!Handlers, Agenda!Callback, Agenda!Nothing

\* A posting goes to one of the queues, or to none.
LEMMA TypesPost ==
  ASSUME HandlersAssumption, Types, NEW p \in Posting, NEW v \in Value \cup {NoValue},
         NEW o \in Queue \cup {NoQueue}, Post(p, v, o)
  PROVE  Types'
<1> USE DEF Types, TypeOK, RunningType, agendaVars, dispatchVars, taskVars, queueVars,
            registryVars, H, C
<1>1. TypeOK'
  <2>1. /\ agenda' = agenda \/ agenda' = Append(agenda, p)
        /\ batch' = batch \/ batch' = Append(batch, p)
        /\ callbacks' = callbacks
    BY DEF Post, Agenda!PostIdle, Agenda!PostNested
  <2>2. agenda' \in Seq(Posting) /\ batch' \in Seq(Posting) /\ callbacks' \in Seq(WithCallback)
    <3>1. Append(agenda, p) \in Seq(Posting) /\ Append(batch, p) \in Seq(Posting)
      OBVIOUS
    <3> QED BY <2>1, <3>1
  <2>3. kwargs' \in [Posting -> Value \cup {NoValue}] /\ posted' \subseteq Posting
    BY DEF Post
  <2>4. given' \in [QueueEvents -> Queue \cup {NoQueue}]
    <3>1. given' = given \/ given' = [given EXCEPT ![p] = o]
      BY DEF Post
    <3> QED BY <3>1
  <2> QED BY <2>2, <2>3, <2>4 DEF Post
<1>2. running' = running
  BY DEF Post, Agenda!PostIdle, Agenda!PostNested
<1> QED BY <1>1, <1>2

\* The registry stays one of sequences of handlers when one is added ...
LEMMA TypesAddHandler ==
  ASSUME HandlersAssumption, Types, Registry, NEW h \in Handler, AddHandler(h)
  PROVE  Types'
<1> USE DEF Types, TypeOK, agendaVars, dispatchVars, taskVars, queueVars, registryVars
<1>1. EventOf[h] \in Event
  BY DEF HandlersAssumption
<1>2. Sorted(registered[EventOf[h]], h) \in Seq(Handler)
  BY <1>1, SortedOrdered DEF AddHandler, Registry
<1> HIDE DEF Types
<1>3. registered' \in [Event -> Seq(Handler)]
  BY <1>1, <1>2 DEF AddHandler, Types
<1>4. known' \in Seq(Handler)
  BY DEF AddHandler, Types
<1>5. TypeOK'
  BY <1>3, <1>4 DEF AddHandler, Types
<1>6. RunningType'
  BY DEF AddHandler, Types, RunningType, H, C
<1> QED BY <1>5, <1>6 DEF Types

\* ... and when one is removed.
LEMMA TypesRemoveHandler ==
  ASSUME HandlersAssumption, Types, Registry, NEW h \in Handler, RemoveHandler(h)
  PROVE  Types'
<1> USE DEF Types, TypeOK, agendaVars, dispatchVars, taskVars, queueVars, registryVars
<1>1. EventOf[h] \in Event
  BY DEF HandlersAssumption
<1>2. RemoveFirst(registered[EventOf[h]], h) \in Seq(Handler)
  BY <1>1, RemovedOrdered DEF RemoveHandler, Registry
<1>3. registered' \in [Event -> Seq(Handler)]
  BY <1>1, <1>2 DEF RemoveHandler
<1>5. TypeOK'
  BY <1>3 DEF RemoveHandler
<1>6. RunningType'
  BY DEF RemoveHandler, RunningType, H, C
<1> QED BY <1>5, <1>6

\* Waits and the tasks that end or go on ...
LEMMA TypesQueue ==
  ASSUME HandlersAssumption, Types, NEW p \in QueueEvents,
         Wait(p) \/ ResumeTask(p) \/ EndTask(p)
  PROVE  Types'
<1> USE DEF Types, TypeOK, agendaVars, dispatchVars, taskVars, queueVars, registryVars
<1>1. p \in Posting
  BY DEF HandlersAssumption
<1>2. RunningType'
  BY DEF RunningType, H, C, Wait, ResumeTask, EndTask
<1>3. CASE Wait(p)
  <2>1. waiter' \in [Queue -> QueueEvents \cup {Nobody}]
    BY <1>3 DEF Wait
  <2>2. /\ UNCHANGED <<agendaVars, dispatchVars, task, given, using, sleeper>>
        /\ UNCHANGED <<registryVars, stopped, posted, answers>>
    BY <1>3 DEF Wait
  <2> QED BY <1>2, <2>1, <2>2
<1>5. CASE ResumeTask(p)
  <2>1. task' \in [QueueEvents ->
                  {"none", "created", "running", "waiting", "awake", "done", "cancelled"}]
    BY <1>5 DEF ResumeTask
  <2>2. /\ UNCHANGED <<agendaVars, dispatchVars, queueVars>>
        /\ UNCHANGED <<registryVars, stopped, posted, answers>>
    BY <1>5 DEF ResumeTask
  <2> QED BY <1>2, <2>1, <2>2
<1>6. CASE EndTask(p)
  <2>1. answers' \in [Posting -> Nat]
    BY <1>1, <1>6 DEF EndTask
  <2>2. task' \in [QueueEvents ->
                  {"none", "created", "running", "waiting", "awake", "done", "cancelled"}]
    BY <1>6 DEF EndTask
  <2>3. UNCHANGED <<agendaVars, dispatchVars, queueVars, registryVars, stopped, posted>>
    BY <1>6 DEF EndTask
  <2> QED BY <1>2, <2>1, <2>2, <2>3
<1> QED BY <1>3, <1>5, <1>6

\* ... and waits that are released.
LEMMA TypesClear ==
  ASSUME HandlersAssumption, Types, NEW o \in Queue, Clear(o)
  PROVE  Types'
<1> USE DEF Types, TypeOK, agendaVars, dispatchVars, taskVars, queueVars, registryVars
<1>1. RunningType'
  BY DEF RunningType, H, C, Clear
<1>2. /\ waiter' \in [Queue -> QueueEvents \cup {Nobody}]
      /\ sleeper' \in [Queue -> QueueEvents \cup {Nobody}]
  BY DEF Clear
<1>3. task' \in [QueueEvents ->
                 {"none", "created", "running", "waiting", "awake", "done", "cancelled"}]
  BY DEF Clear
<1> QED BY <1>1, <1>2, <1>3 DEF Clear

\* stop() changes the tasks only.
LEMMA TypesStop ==
  ASSUME HandlersAssumption, Types, Stop
  PROVE  Types'
<1> USE DEF Types, TypeOK, agendaVars, dispatchVars, taskVars, queueVars, registryVars
<1>1. RunningType'
  BY DEF RunningType, H, C, Stop
<1>2. task' \in [QueueEvents -> {"none", "created", "running", "waiting", "awake", "done", "cancelled"}]
  BY DEF Stop
<1> QED BY <1>1, <1>2 DEF Stop

\* An event that starts is a posting, and its snapshot a sequence of handlers.
LEMMA TypesStartEvent ==
  ASSUME HandlersAssumption, Types, StartEvent
  PROVE  Types'
<1> USE DEF Types, TypeOK, agendaVars, dispatchVars, taskVars, queueVars, registryVars
<1>1. \A q \in Posting : Handlers(q) \in Seq(Handler)
  BY DEF Handlers, HandlersAssumption
<1>2. Head(agenda) \in Posting /\ Tail(agenda) \in Seq(Posting)
  <2>1. agenda \in Seq(Posting) /\ agenda # <<>>
    BY DEF StartEvent, Agenda!StartEvent
  <2> HIDE DEF Types, TypeOK
  <2> QED BY <2>1, HeadTaken
<1>3. agenda' \in Seq(Posting) /\ batch' \in Seq(Posting) /\ callbacks' \in Seq(WithCallback)
  BY <1>2 DEF StartEvent, Agenda!StartEvent
<1>4. RunningType'
  <2>1. running' = H(Head(agenda))
    BY DEF StartEvent, Agenda!StartEvent, H
  <2> QED BY <1>2, <2>1 DEF RunningType, H, Agenda!Handlers
<1>5. rest' \in [Posting -> Seq(Handler)]
  <2>1. rest' = rest \/ rest' = [rest EXCEPT ![Head(agenda)] = Handlers(Head(agenda))]
    BY DEF StartEvent, ProcessEvent, ProcessQueueEvent
  <2>2. rest \in [Posting -> Seq(Handler)]
    OBVIOUS
  <2> HIDE DEF Types, TypeOK
  <2> QED BY <1>1, <1>2, <2>1, <2>2
<1>6. task' \in [QueueEvents -> {"none", "created", "running", "waiting", "awake", "done", "cancelled"}]
  BY <1>2 DEF StartEvent, ProcessEvent, ProcessQueueEvent
<1>7. UNCHANGED queueVars
  BY DEF StartEvent, ProcessEvent, ProcessQueueEvent
<1> QED BY <1>3, <1>4, <1>5, <1>6, <1>7 DEF StartEvent

\* So is the snapshot of a task that starts.
LEMMA TypesStartTask ==
  ASSUME HandlersAssumption, Types, NEW p \in QueueEvents, StartTask(p)
  PROVE  Types'
<1> USE DEF Types, TypeOK, agendaVars, dispatchVars, taskVars, queueVars, registryVars
<1>1. Handlers(p) \in Seq(Handler)
  BY DEF Handlers, HandlersAssumption
<1>2. rest' = rest \/ rest' = [rest EXCEPT ![p] = Handlers(p)]
  BY DEF StartTask
<1>3. rest' \in [Posting -> Seq(Handler)]
  <2>1. rest \in [Posting -> Seq(Handler)]
    OBVIOUS
  <2> HIDE DEF Types, TypeOK
  <2> QED BY <1>1, <1>2, <2>1
<1>4. task' \in [QueueEvents -> {"none", "created", "running", "waiting", "awake", "done", "cancelled"}]
  BY DEF StartTask
<1>5. RunningType'
  BY DEF StartTask, RunningType, H, C
<1> QED BY <1>3, <1>4, <1>5 DEF StartTask

\* Handlers that are skipped or called come from the snapshot.
LEMMA TypesDispatch ==
  ASSUME HandlersAssumption, Types, NEW p \in Posting, SkipHandler(p) \/ CallHandler(p)
  PROVE  Types'
<1> USE DEF Types, TypeOK, agendaVars, dispatchVars, taskVars, queueVars, registryVars
<1>1. rest[p] \in Seq(Handler) /\ rest[p] # <<>>
  BY DEF SkipHandler, CallHandler
<1>2. Head(rest[p]) \in Handler /\ Tail(rest[p]) \in Seq(Handler)
  BY <1>1, HeadTaken
<1>3. rest' \in [Posting -> Seq(Handler)]
  <2>1. rest' = [rest EXCEPT ![p] = Tail(@)]
    BY DEF SkipHandler, CallHandler
  <2> QED BY <1>2, <2>1
<1>4. RunningType'
  BY DEF SkipHandler, CallHandler, RunningType, H, C
<1>5. CASE SkipHandler(p)
  BY <1>3, <1>4, <1>5 DEF SkipHandler
<1>6. CASE CallHandler(p)
  <2>1. called' \in [Posting -> Seq(Handler)]
    BY <1>2, <1>6 DEF CallHandler
  <2>2. using' \in [QueueEvents -> Queue \cup {NoQueue}]
    <3>1. p \in QueueEvents => QueueFor(p, Head(rest[p])) \in Queue \cup {NoQueue}
      BY <1>2 DEF QueueFor, Queue
    <3>2. \/ using' = using
          \/ p \in QueueEvents /\ using' = [using EXCEPT ![p] = QueueFor(p, Head(rest[p]))]
      BY <1>6 DEF CallHandler
    <3> QED BY <3>1, <3>2
  <2>3. received' \in Value \cup {NoValue}
    BY <1>2, <1>6 DEF CallHandler, Merged, HandlersAssumption, NoValue
  <2> QED BY <1>2, <1>3, <1>4, <1>6, <2>1, <2>2, <2>3 DEF CallHandler
<1> QED BY <1>5, <1>6

\* What a handler returns.
LEMMA TypesReturns ==
  ASSUME HandlersAssumption, Types, NEW p \in Posting, HandlerReturns(p)
  PROVE  Types'
<1> USE DEF Types, TypeOK, agendaVars, dispatchVars, taskVars, queueVars, registryVars
<1>1. RunningType'
  BY DEF HandlerReturns, RunningType, H, C
<1>2. active \in Handler /\ Priority[active] \in Nat
  BY DEF HandlerReturns, HandlersAssumption
<1>3. /\ active' \in Handler \cup {NoHandler} /\ received' \in Value \cup {NoValue}
      /\ UNCHANGED <<agendaVars, called, given, using, waiter, registryVars, stopped, posted,
                     answers>>
  BY DEF HandlerReturns
<1>4. CASE Refuse(p)
  <2>1. rest' \in [Posting -> Seq(Handler)] /\ refused' \subseteq BooleanEvents
    <3>1. <<>> \in Seq(Handler)
      OBVIOUS
    <3> QED BY <1>4, <3>1 DEF Refuse
  <2>2. UNCHANGED <<min_priority, kwargs, task, sleeper>>
    BY <1>4 DEF Refuse
  <2> QED BY <1>1, <1>3, <2>1, <2>2
<1>5. CASE \E f \in Facility \cup {All}, n \in 0..Priority[active] : Block(p, f, n)
  <2>1. PICK f \in Facility \cup {All}, n \in 0..Priority[active] : Block(p, f, n)
    BY <1>5
  <2>2. min_priority[p] \in [Facility \cup {All} -> Nat] /\ n \in Nat
    <3>1. min_priority[p] \in [Facility \cup {All} -> Nat]
      OBVIOUS
    <3> HIDE DEF Types, TypeOK
    <3> QED BY <1>2, <3>1
  <2>3. min_priority' \in [Posting -> [Facility \cup {All} -> Nat]]
    BY <2>1, <2>2 DEF Block
  <2> QED BY <1>1, <1>3, <2>1, <2>3 DEF Block
<1>6. CASE Sleep(p)
  <2>1. sleeper' \in [Queue -> QueueEvents \cup {Nobody}]
    <3>1. p \in QueueEvents /\ sleeper' = [sleeper EXCEPT ![using[p]] = p]
      BY <1>6 DEF Sleep, RunningTask
    <3>2. sleeper \in [Queue -> QueueEvents \cup {Nobody}]
      OBVIOUS
    <3> HIDE DEF Types, TypeOK
    <3> QED BY <3>1, <3>2
  <2>2. task' \in [QueueEvents ->
                  {"none", "created", "running", "waiting", "awake", "done", "cancelled"}]
    BY <1>6 DEF Sleep
  <2>3. UNCHANGED <<rest, refused, min_priority, kwargs>>
    BY <1>6 DEF Sleep
  <2> QED BY <1>1, <1>3, <2>1, <2>2, <2>3
<1>7. CASE Proceed(p)
  <2>1. UNCHANGED <<rest, refused, min_priority, kwargs, task, sleeper>>
    BY <1>7 DEF Proceed
  <2> QED BY <1>1, <1>3, <2>1
<1>8. CASE \E v \in Value : Relay(p, v)
  <2>1. kwargs' \in [Posting -> Value \cup {NoValue}]
    BY <1>8 DEF Relay
  <2>2. UNCHANGED <<rest, refused, min_priority, task, sleeper>>
    BY <1>8 DEF Relay
  <2> QED BY <1>1, <1>3, <2>1, <2>2
<1> QED BY <1>4, <1>5, <1>6, <1>7, <1>8 DEF HandlerReturns

\* A callback that starts is one of the stack.
LEMMA TypesStartCallback ==
  ASSUME HandlersAssumption, Types, StartCallback
  PROVE  Types'
<1> USE DEF Types, TypeOK, agendaVars, dispatchVars, taskVars, queueVars, registryVars
<1>1. Last(callbacks) \in WithCallback /\ Front(callbacks) \in Seq(WithCallback)
  BY LastTaken DEF StartCallback, Agenda!StartCallback
<1>2. Last(callbacks) \in Posting
  BY <1>1 DEF HandlersAssumption
<1>3. answers' \in [Posting -> Nat]
  BY <1>2 DEF StartCallback
<1>4. callbacks' \in Seq(WithCallback) /\ UNCHANGED <<agenda, batch>>
  BY <1>1 DEF StartCallback, Agenda!StartCallback, Agenda!Front, Front
<1>5. running' = C(Last(callbacks))
  BY <1>1 DEF StartCallback, Agenda!StartCallback, C, Agenda!Last, Last
<1>6. RunningType'
  BY <1>1, <1>5 DEF RunningType, C
<1> QED BY <1>3, <1>4, <1>6 DEF StartCallback

\* The batch goes before the agenda, and a callback on the stack.
LEMMA TypesEnd ==
  ASSUME HandlersAssumption, Types, NEW p \in Posting,
         EndEvent(p) \/ EndCallback
  PROVE  Types'
<1> USE DEF Types, TypeOK, agendaVars, dispatchVars, taskVars, queueVars, registryVars
<1>1. batch \o agenda \in Seq(Posting)
  OBVIOUS
<1>2. CASE EndEvent(p)
  <2>1. running' = Agenda!Nothing /\ agenda' \in Seq(Posting) /\ batch' \in Seq(Posting)
    BY <1>1, <1>2 DEF EndEvent, Agenda!Return
  <2>2. callbacks' \in Seq(WithCallback)
    BY <1>2 DEF EndEvent
  <2> QED BY <1>2, <2>1, <2>2 DEF EndEvent, RunningType
<1>3. CASE EndCallback
  <2>1. running' = Agenda!Nothing /\ agenda' \in Seq(Posting) /\ batch' \in Seq(Posting)
    BY <1>1, <1>3 DEF EndCallback, Agenda!Return
  <2> QED BY <1>3, <2>1 DEF EndCallback, RunningType
<1> QED BY <1>2, <1>3

-------------------------------------------------------------------------------
(* The order of a dispatch.                                                 *)

\* What keeps the registry and the dispatches keeps their order.
LEMMA OrderKept ==
  ASSUME Order, UNCHANGED <<registered, known, called, rest, refused>>
  PROVE  Order'
BY DEF Order, Registry, InOrder, Ordered, Distinct, Before

\* While no handler is added, what is registered stays in order.
LEMMA RegistryKept ==
  ASSUME Registry, UNCHANGED <<registered, known>>
  PROVE  Registry'
BY DEF Registry, Ordered, Distinct, Before

\* The order of two handlers depends only on the handlers that are known.
LEMMA BeforeKept ==
  ASSUME UNCHANGED known
  PROVE  \A f, g : Before(f, g)' = Before(f, g)
BY DEF Before

\* A handler that is added is known last, and takes its place in its event's registry.
LEMMA OrderAddHandler ==
  ASSUME HandlersAssumption, Types, Order, NEW h \in Handler, AddHandler(h)
  PROVE  Order'
<1>1. /\ known \in Seq(Handler) /\ h \notin ToSet(known) /\ known' = Append(known, h)
      /\ registered \in [Event -> Seq(Handler)] /\ EventOf[h] \in Event
      /\ registered' = [registered EXCEPT ![EventOf[h]] = Sorted(@, h)]
      /\ UNCHANGED <<called, rest, refused>>
  BY DEF Types, TypeOK, AddHandler, HandlersAssumption, dispatchVars
<1>2. Distinct(known') /\ ToSet(known') = ToSet(known) \cup {h}
  BY <1>1, Appended DEF Order, Registry
<1>3. \A f, g : Before(f, g) => Before(f, g)'
  BY <1>1, Grown
<1>4. ASSUME NEW ev \in Event
      PROVE  Ordered(registered[ev])' /\ ToSet(registered[ev])' \subseteq ToSet(known)'
  <2>1. Ordered(registered[ev]) /\ ToSet(registered[ev]) \subseteq ToSet(known)
    BY DEF Order, Registry
  <2>2. CASE ev = EventOf[h]
    <3> DEFINE s == registered[ev]
    <3>1. s \in Seq(Handler) /\ Ordered(s) /\ ToSet(s) \subseteq ToSet(known)
      BY <1>1, <2>1
    <3>2. registered'[ev] = Sorted(s, h)
      BY <1>1, <2>2
    <3>3. ToSet(Sorted(s, h)) \subseteq ToSet(s) \cup {h}
      BY <1>1, <3>1, SortedOrdered
    <3>4. PICK t : t = Sorted(s, h) /\ Ordered(t)'
      <4>1. ASSUME NEW x \in Seq(Handler), x = s
            PROVE  \E t : t = Sorted(x, h) /\ Ordered(t)'
        <5>1. Ordered(x) /\ ToSet(x) \subseteq ToSet(known)
          BY <3>1, <4>1
        <5>2. Ordered(Sorted(x, h))'
          BY <1>1, <5>1, SortedOrdered
        <5>3. Sorted(x, h)' = Sorted(x, h)
          BY DEF Sorted
        <5> QED BY <5>2, <5>3
      <4> QED BY <3>1, <4>1
    <3>5. registered'[ev] = t
      BY <3>2, <3>4
    <3>6. Ordered(registered[ev])'
      BY <3>4, <3>5 DEF Ordered
    <3> QED BY <1>2, <3>1, <3>3, <3>4, <3>5, <3>6
  <2>3. CASE ev # EventOf[h]
    <3>1. registered'[ev] = registered[ev]
      BY <1>1, <2>3
    <3> QED BY <1>2, <1>3, <2>1, <3>1 DEF Ordered
  <2> QED BY <2>2, <2>3
<1>5. ASSUME NEW p \in Posting PROVE InOrder(p)'
  <2>1. InOrder(p)
    BY DEF Order
  <2> QED BY <1>1, <1>3, <2>1 DEF InOrder, Ordered
<1> QED BY <1>2, <1>4, <1>5 DEF Order, Registry

\* A handler that is removed leaves the others in order; a dispatch that has it still calls
\* it.
LEMMA OrderRemoveHandler ==
  ASSUME HandlersAssumption, Types, Order, NEW h \in Handler, RemoveHandler(h)
  PROVE  Order'
<1>1. /\ h \in ToSet(registered[EventOf[h]])
      /\ registered \in [Event -> Seq(Handler)] /\ EventOf[h] \in Event
      /\ registered' = [registered EXCEPT ![EventOf[h]] = RemoveFirst(@, h)]
      /\ UNCHANGED <<known, called, rest, refused>>
  BY DEF Types, TypeOK, RemoveHandler, HandlersAssumption, dispatchVars
<1>2. \A f, g : Before(f, g)' = Before(f, g)
  BY <1>1, BeforeKept
<1>3. Distinct(known)'
  BY <1>1 DEF Order, Registry, Distinct
<1>4. ASSUME NEW ev \in Event
      PROVE  Ordered(registered'[ev]) /\ ToSet(registered'[ev]) \subseteq ToSet(known)
  <2>1. Ordered(registered[ev]) /\ ToSet(registered[ev]) \subseteq ToSet(known)
    BY DEF Order, Registry
  <2>2. CASE ev = EventOf[h]
    <3>1. registered'[ev] = RemoveFirst(registered[ev], h) /\ registered[ev] \in Seq(Handler)
      BY <1>1, <2>2
    <3> QED BY <1>1, <2>1, <2>2, <3>1, RemovedOrdered
  <2>3. CASE ev # EventOf[h]
    <3>1. registered'[ev] = registered[ev]
      BY <1>1, <2>3
    <3> QED BY <2>1, <3>1
  <2> QED BY <2>2, <2>3
<1>5. ASSUME NEW ev \in Event
      PROVE  Ordered(registered[ev])' /\ ToSet(registered[ev])' \subseteq ToSet(known)'
  BY <1>1, <1>2, <1>4 DEF Ordered
<1>6. ASSUME NEW p \in Posting PROVE InOrder(p)'
  <2>1. InOrder(p)
    BY DEF Order
  <2> QED BY <1>1, <1>2, <2>1 DEF InOrder, Ordered
<1> QED BY <1>3, <1>5, <1>6 DEF Order, Registry

\* A dispatch that starts takes the handlers in their order.
LEMMA OrderSnapshot ==
  ASSUME HandlersAssumption, Types, Order, NEW p \in Posting, called[p] = <<>>, p \notin refused,
         rest' = [rest EXCEPT ![p] = Handlers(p)],
         UNCHANGED <<registered, known, called, refused>>
  PROVE  Order'
<1>1. \A f, g : Before(f, g)' = Before(f, g)
  BY BeforeKept
<1>2. Ordered(Handlers(p))
  BY DEF Order, Registry, Handlers, HandlersAssumption
<1>3. ASSUME NEW q \in Posting PROVE InOrder(q)'
  <2>1. InOrder(q) /\ rest \in [Posting -> Seq(Handler)]
    BY DEF Order, Types, TypeOK
  <2>2. CASE q = p
    <3>1. rest'[q] = Handlers(p) /\ called'[q] = <<>> /\ q \notin refused'
      BY <2>1, <2>2
    <3>2. DOMAIN called'[q] = {}
      BY <3>1
    <3>3. Ordered(rest[q])'
      BY <1>1, <1>2, <3>1 DEF Ordered
    <3> QED BY <3>1, <3>2, <3>3 DEF InOrder, Ordered
  <2>3. CASE q # p
    <3>1. rest'[q] = rest[q]
      BY <2>1, <2>3
    <3> QED BY <1>1, <2>1, <3>1 DEF InOrder, Ordered
  <2> QED BY <2>2, <2>3
<1> QED BY <1>3, RegistryKept DEF Order

\* A handler that is skipped is not called any more; one that is called comes after
\* those that were, and before those that are left.
LEMMA OrderDispatch ==
  ASSUME HandlersAssumption, Types, Order, NEW p \in Posting, SkipHandler(p) \/ CallHandler(p)
  PROVE  Order'
<1>1. /\ UNCHANGED <<registered, known, refused>>
      /\ rest \in [Posting -> Seq(Handler)] /\ called \in [Posting -> Seq(Handler)]
      /\ rest' = [rest EXCEPT ![p] = Tail(@)]
      /\ rest[p] \in Seq(Handler) /\ rest[p] # <<>> /\ called[p] \in Seq(Handler)
  BY DEF SkipHandler, CallHandler, registryVars, Types, TypeOK
<1>2. called' = called \/ called' = [called EXCEPT ![p] = Append(@, Head(rest[p]))]
  BY DEF SkipHandler, CallHandler
<1>3. \A f, g : Before(f, g)' = Before(f, g)
  BY <1>1, BeforeKept
<1>4. /\ Head(rest[p]) = rest[p][1] /\ 1 \in DOMAIN rest[p] /\ Head(rest[p]) \in Handler
      /\ \A i \in DOMAIN Tail(rest[p]) :
           i + 1 \in DOMAIN rest[p] /\ Tail(rest[p])[i] = rest[p][i + 1] /\ i \in Nat \ {0}
  BY <1>1, HeadTaken
<1>5. ASSUME NEW q \in Posting PROVE InOrder(q)'
  <2>1. InOrder(q)
    BY DEF Order
  <2>2. CASE q # p
    <3>1. rest'[q] = rest[q] /\ called'[q] = called[q]
      BY <1>1, <1>2, <2>2
    <3> QED BY <1>1, <1>3, <2>1, <3>1 DEF InOrder, Ordered
  <2>3. CASE q = p
    <3> DEFINE r == Tail(rest[p])
               c == called[p]
               h == Head(rest[p])
    <3>1. rest'[q] = r /\ (called'[q] = c \/ called'[q] = Append(c, h))
      BY <1>1, <1>2, <2>3
    <3>2. \A i, j \in DOMAIN r : i < j => Before(r[i], r[j])
      BY <1>4, <2>1, <2>3 DEF InOrder, Ordered
    <3>3. \A i \in DOMAIN r : Before(h, r[i])
      <4>1. \A i \in DOMAIN r : 1 < i + 1
        BY <1>4
      <4> QED BY <1>4, <2>1, <2>3, <4>1 DEF InOrder, Ordered
    <3>4. /\ \A i \in DOMAIN c : Before(c[i], h)
          /\ \A i \in DOMAIN c, j \in DOMAIN r : Before(c[i], r[j])
          /\ \A i, j \in DOMAIN c : i < j => Before(c[i], c[j])
      BY <1>4, <2>1, <2>3 DEF InOrder, Ordered
    <3>5. p \notin refused
      BY <1>1, <2>1, <2>3 DEF InOrder
    <3>6. /\ Len(c) \in Nat /\ DOMAIN c = 1..Len(c) /\ DOMAIN Append(c, h) = 1..(Len(c) + 1)
          /\ \A i \in 1..Len(c) : Append(c, h)[i] = c[i]
          /\ Append(c, h)[Len(c) + 1] = h
      BY <1>1
    <3>7. \A i \in DOMAIN Append(c, h) :
            Append(c, h)[i] = h \/ (i \in DOMAIN c /\ Append(c, h)[i] = c[i])
      BY <3>6
    <3>8. \A i, j \in DOMAIN Append(c, h) : i < j => i \in DOMAIN c /\ Append(c, h)[i] = c[i]
      BY <3>6
    <3> HIDE DEF r, c, h
    <3>9. CASE called'[q] = c
      BY <1>1, <1>3, <2>3, <3>1, <3>2, <3>4, <3>5, <3>9 DEF InOrder, Ordered
    <3>10. CASE called'[q] = Append(c, h)
      <4>1. \A i \in DOMAIN Append(c, h), j \in DOMAIN r : Before(Append(c, h)[i], r[j])
        BY <3>3, <3>4, <3>7
      <4>2. \A i, j \in DOMAIN Append(c, h) : i < j => Before(Append(c, h)[i], Append(c, h)[j])
        BY <3>4, <3>7, <3>8
      <4>3. q \notin refused'
        BY <1>1, <2>3, <3>5
      <4>4. Ordered(called[q])' /\ Ordered(rest[q])'
        BY <1>3, <3>1, <3>2, <3>10, <4>2 DEF Ordered
      <4> QED BY <1>3, <3>1, <3>10, <4>1, <4>3, <4>4 DEF InOrder
    <3> QED BY <3>1, <3>9, <3>10
  <2> QED BY <2>2, <2>3
<1> QED BY <1>1, <1>5, RegistryKept DEF Order

\* Nothing is left to call once a handler has returned False.
LEMMA OrderRefuse ==
  ASSUME HandlersAssumption, Types, Order, NEW p \in Posting, Refuse(p),
         UNCHANGED <<registered, known, called>>
  PROVE  Order'
<1>1. /\ rest \in [Posting -> Seq(Handler)]
      /\ rest' = [rest EXCEPT ![p] = <<>>] /\ refused' = refused \cup {p}
  BY DEF Refuse, Types, TypeOK
<1>2. \A f, g : Before(f, g)' = Before(f, g)
  BY BeforeKept
<1>3. ASSUME NEW q \in Posting PROVE InOrder(q)'
  <2>1. InOrder(q)
    BY DEF Order
  <2>2. CASE q # p
    BY <1>1, <1>2, <2>1, <2>2 DEF InOrder, Ordered
  <2>3. CASE q = p
    <3>1. rest'[q] = <<>> /\ DOMAIN rest'[q] = {}
      BY <1>1, <2>3
    <3> QED BY <1>2, <2>1, <3>1 DEF InOrder, Ordered
  <2> QED BY <2>2, <2>3
<1> QED BY <1>3, RegistryKept DEF Order

-------------------------------------------------------------------------------
(* The way of a posting.                                                    *)

\* A posting that is where it was, or lost its task, is still where it may be.
LEMMA WhereaboutsKept ==
  ASSUME NEW q \in Posting, Whereabouts(q),
         q \in posted => q \in posted',
         Waits(q)' => Waits(q),
         q \in ToSet(callbacks)' => q \in ToSet(callbacks),
         q \in refused' => q \in refused,
         running' = H(q) => running = H(q),
         running' = C(q) => running = C(q),
         called'[q] = called[q], rest'[q] = rest[q], answers'[q] = answers[q],
         q \in QueueEvents =>
           task'[q] = task[q] \/ (running' # H(q) /\ task[q] # "none")
  PROVE  Whereabouts(q)'
<1>1. H(q)' = H(q) /\ C(q)' = C(q)
  BY DEF H, C, Agenda!Handlers, Agenda!Callback
<1>2. Fresh(q) => Fresh(q)'
  BY <1>1 DEF Fresh
<1> QED BY <1>1, <1>2 DEF Whereabouts

\* What touches neither postings nor tasks.
LEMMA OnceKept ==
  ASSUME Once,
         UNCHANGED <<agenda, batch, callbacks, running, posted, called, rest, refused,
                     answers, task>>
  PROVE  Once'
<1>1. ASSUME NEW q \in Posting PROVE Whereabouts(q)'
  <2>1. Whereabouts(q) /\ (Waits(q)' => Waits(q))
    BY DEF Once, Waits
  <2> QED BY <2>1, WhereaboutsKept
<1> QED BY <1>1 DEF Once, Distinct

\* A call of post() is made once, so its posting is in no queue yet.
LEMMA OncePost ==
  ASSUME Types, Once, NEW p \in Posting, NEW v, NEW o, Post(p, v, o)
  PROVE  Once'
<1>1. /\ p \notin posted /\ posted' = posted \cup {p}
      /\ UNCHANGED <<running, callbacks, called, rest, refused, answers, task>>
      /\ \/ UNCHANGED <<agenda, batch>>
         \/ agenda' = Append(agenda, p) /\ batch' = batch
         \/ batch' = Append(batch, p) /\ agenda' = agenda
  BY DEF Post, Agenda!PostIdle, Agenda!PostNested, agendaVars, taskVars
<1>2. agenda \in Seq(Posting) /\ batch \in Seq(Posting)
  BY DEF Types, TypeOK
<1>3. Whereabouts(p) /\ ~Waits(p) /\ Fresh(p)
  BY <1>1 DEF Once, Whereabouts
<1>4. p \notin ToSet(agenda) /\ p \notin ToSet(batch)
  BY <1>3 DEF Waits
<1>5. /\ Distinct(agenda') /\ Distinct(batch') /\ Distinct(callbacks')
      /\ ToSet(agenda') \cap ToSet(batch') = {}
      /\ ToSet(agenda') \cup ToSet(batch') \subseteq ToSet(agenda) \cup ToSet(batch) \cup {p}
  <2>1. /\ Distinct(agenda) /\ Distinct(batch) /\ Distinct(callbacks)
        /\ ToSet(agenda) \cap ToSet(batch) = {}
    BY DEF Once
  <2>2. CASE UNCHANGED <<agenda, batch>>
    BY <1>1, <2>1, <2>2
  <2>3. CASE agenda' = Append(agenda, p) /\ batch' = batch
    BY <1>1, <1>2, <1>4, <2>1, <2>3, Appended
  <2>4. CASE batch' = Append(batch, p) /\ agenda' = agenda
    BY <1>1, <1>2, <1>4, <2>1, <2>4, Appended
  <2> QED BY <1>1, <2>2, <2>3, <2>4
<1>6. ASSUME NEW q \in Posting PROVE Whereabouts(q)'
  <2>1. CASE q = p
    <3>1. H(p)' = H(p) /\ C(p)' = C(p)
      BY DEF H, C, Agenda!Handlers, Agenda!Callback
    <3>2. Fresh(p)'
      BY <1>1, <1>3, <3>1 DEF Fresh
    <3> QED BY <1>1, <2>1, <3>2 DEF Whereabouts, Fresh
  <2>2. CASE q # p
    <3>1. Waits(q)' => Waits(q)
      BY <1>5, <2>2 DEF Waits
    <3> QED BY <1>1, <3>1, WhereaboutsKept DEF Once
  <2> QED BY <2>1, <2>2
<1> QED BY <1>5, <1>6 DEF Once, Distinct

\* An event that starts leaves the agenda for good.
LEMMA OnceStartEvent ==
  ASSUME HandlersAssumption, Types, Once, Tasks, StartEvent
  PROVE  Once'
<1> DEFINE p == Head(agenda)
<1>1. /\ agenda # <<>> /\ agenda' = Tail(agenda) /\ batch' = batch /\ callbacks' = callbacks
      /\ running = Agenda!Nothing /\ running' = H(p)
      /\ UNCHANGED <<posted, called, refused, answers>>
  BY DEF StartEvent, Agenda!StartEvent, H
<1>2. /\ agenda \in Seq(Posting) /\ rest \in [Posting -> Seq(Handler)]
      /\ task \in [QueueEvents ->
                     {"none", "created", "running", "waiting", "awake", "done", "cancelled"}]
  BY DEF Types, TypeOK
<1>3. \/ p \notin QueueEvents /\ rest' = [rest EXCEPT ![p] = Handlers(p)] /\ task' = task
      \/ /\ p \in QueueEvents /\ rest' = rest
         /\ task' = task \/ task' = [task EXCEPT ![p] = "created"]
  BY DEF StartEvent, ProcessEvent, ProcessQueueEvent, taskVars
<1>4. /\ p \in Posting /\ Tail(agenda) \in Seq(Posting)
      /\ ToSet(agenda) = ToSet(Tail(agenda)) \cup {p}
      /\ Distinct(agenda) => Distinct(Tail(agenda)) /\ p \notin ToSet(Tail(agenda))
  BY <1>1, <1>2, HeadTaken
<1> HIDE DEF p
<1>5. /\ Distinct(agenda) /\ Distinct(batch) /\ Distinct(callbacks)
      /\ ToSet(agenda) \cap ToSet(batch) = {}
  BY DEF Once
<1>6. /\ Distinct(agenda') /\ Distinct(batch') /\ Distinct(callbacks')
      /\ ToSet(agenda') \cap ToSet(batch') = {}
      /\ p \notin ToSet(agenda') /\ p \notin ToSet(batch')
      /\ ToSet(agenda') \subseteq ToSet(agenda) /\ ToSet(batch') = ToSet(batch)
  BY <1>1, <1>4, <1>5
<1>7. Waits(p) /\ Fresh(p) /\ p \in posted
  BY <1>4 DEF Once, Whereabouts, Waits
<1>8. ASSUME NEW q \in Posting PROVE Whereabouts(q)'
  <2>1. H(q)' = H(q) /\ C(q)' = C(q)
    BY DEF H, C, Agenda!Handlers, Agenda!Callback
  <2>2. CASE q = p
    <3>1. ~ Waits(q)'
      BY <1>6, <2>2 DEF Waits
    <3>2. answers'[q] = 0 /\ q \notin ToSet(callbacks')
      BY <1>1, <1>7, <2>2 DEF Fresh
    <3>3. q \in QueueEvents => task'[q] \in {"none", "created"} /\ rest'[q] = <<>>
      BY <1>2, <1>3, <1>7, <2>2 DEF Fresh
    <3>4. q \in posted'
      BY <1>1, <1>7, <2>2
    <3> QED BY <2>1, <3>1, <3>2, <3>3, <3>4 DEF Whereabouts
  <2>3. CASE q # p
    <3>1. Waits(q)' => Waits(q)
      BY <1>6 DEF Waits
    <3>2. running' # H(q) /\ running' # C(q)
      BY <1>1, <2>3, Running
    <3>3. rest'[q] = rest[q] /\ (q \in QueueEvents => task'[q] = task[q])
      BY <1>2, <1>3, <2>3
    <3> QED BY <1>1, <3>1, <3>2, <3>3, WhereaboutsKept DEF Once
  <2> QED BY <2>2, <2>3
<1> QED BY <1>6, <1>8 DEF Once, Distinct

\* A callback that starts leaves the stack for good.
LEMMA OnceStartCallback ==
  ASSUME HandlersAssumption, Types, Once, Tasks, StartCallback
  PROVE  Once'
<1> DEFINE p == Last(callbacks)
<1>1. /\ callbacks # <<>> /\ callbacks' = Front(callbacks) /\ agenda' = agenda /\ batch' = batch
      /\ running = Agenda!Nothing /\ running' = C(p)
      /\ answers' = [answers EXCEPT ![p] = @ + 1]
      /\ UNCHANGED <<posted, called, rest, refused, task>>
  BY DEF StartCallback, Agenda!StartCallback, Agenda!Front, Front, Agenda!Last, Last, C,
         dispatchVars, taskVars
<1>2. callbacks \in Seq(WithCallback) /\ answers \in [Posting -> Nat]
  BY DEF Types, TypeOK
<1>3. /\ p \in WithCallback /\ p \in ToSet(callbacks)
      /\ ToSet(callbacks') \subseteq ToSet(callbacks)
      /\ Distinct(callbacks) => Distinct(callbacks') /\ p \notin ToSet(callbacks')
  BY <1>1, <1>2, LastTaken
<1> HIDE DEF p
<1>4. p \in Posting
  BY <1>3 DEF HandlersAssumption
<1>5. /\ Distinct(agenda') /\ Distinct(batch') /\ Distinct(callbacks')
      /\ ToSet(agenda') \cap ToSet(batch') = {} /\ p \notin ToSet(callbacks')
  BY <1>1, <1>3 DEF Once
<1>6. ASSUME NEW q \in Posting PROVE Whereabouts(q)'
  <2>1. H(q)' = H(q) /\ C(q)' = C(q)
    BY DEF H, C, Agenda!Handlers, Agenda!Callback
  <2>2. Waits(q)' => Waits(q)
    BY <1>1 DEF Waits
  <2>3. CASE q = p
    <3>1. p \in posted /\ ~Waits(p) /\ answers[p] = 0
      BY <1>3, <1>4 DEF Once, Whereabouts, Fresh
    <3>2. answers'[q] = 1 /\ q \in posted' /\ ~Waits(q)'
      BY <1>1, <1>2, <1>4, <2>2, <2>3, <3>1
    <3>3. running' # H(q) /\ q \notin ToSet(callbacks')
      BY <1>1, <1>5, <2>3, Running
    <3> QED BY <2>1, <3>2, <3>3 DEF Whereabouts
  <2>4. CASE q # p
    <3>1. running' # H(q) /\ running' # C(q)
      BY <1>1, <2>4, Running
    <3>2. answers'[q] = answers[q] /\ (q \in ToSet(callbacks)' => q \in ToSet(callbacks))
      BY <1>1, <1>2, <1>3, <2>4
    <3> QED BY <1>1, <2>2, <3>1, <3>2, WhereaboutsKept DEF Once
  <2> QED BY <2>3, <2>4
<1> QED BY <1>5, <1>6 DEF Once, Distinct

\* The batch comes before the agenda, and they share no posting.
LEMMA BatchReturned ==
  ASSUME Types, Once, Agenda!Return
  PROVE  /\ Distinct(agenda') /\ Distinct(batch') /\ ToSet(agenda') \cap ToSet(batch') = {}
         /\ \A q : Waits(q)' => Waits(q)
         /\ running' = Agenda!Nothing
<1>1. agenda' = batch \o agenda /\ batch' = <<>> /\ running' = Agenda!Nothing
  BY DEF Agenda!Return
<1>2. agenda \in Seq(Posting) /\ batch \in Seq(Posting)
  BY DEF Types, TypeOK
<1>3. Distinct(agenda) /\ Distinct(batch) /\ ToSet(batch) \cap ToSet(agenda) = {}
  BY DEF Once
<1>4. ToSet(agenda') = ToSet(batch) \cup ToSet(agenda) /\ Distinct(agenda')
  BY <1>1, <1>2, <1>3, Concatenated
<1>5. DOMAIN batch' = {}
  BY <1>1
<1>6. ToSet(batch') = {} /\ Distinct(batch')
  BY <1>5 DEF ToSet, Distinct
<1> QED BY <1>1, <1>4, <1>6 DEF Waits

\* The callback of an event goes on the stack when its dispatch is over, and then its
\* posting is nowhere else.
LEMMA OnceEnd ==
  ASSUME HandlersAssumption, Types, Once, Tasks, NEW p \in Posting, EndEvent(p) \/ EndCallback
  PROVE  Once'
<1>1. /\ Distinct(agenda') /\ Distinct(batch') /\ ToSet(agenda') \cap ToSet(batch') = {}
      /\ \A q : Waits(q)' => Waits(q)
      /\ running' = Agenda!Nothing
  BY BatchReturned DEF EndEvent, EndCallback
<1>2. UNCHANGED <<posted, called, rest, refused, answers, task>>
  BY DEF EndEvent, EndCallback, dispatchVars, taskVars
<1>3. \A q : running' # H(q) /\ running' # C(q)
  BY <1>1, Running
<1>4. Distinct(callbacks)
  BY DEF Once
<1>5. CASE callbacks' = callbacks
  <2>1. ASSUME NEW q \in Posting PROVE Whereabouts(q)'
    BY <1>1, <1>2, <1>3, <1>5, WhereaboutsKept DEF Once
  <2> QED BY <1>1, <1>4, <1>5, <2>1 DEF Once, Distinct
<1>6. CASE callbacks' # callbacks
  <2>1. /\ running = H(p) /\ rest[p] = <<>> /\ callbacks' = Append(callbacks, p)
        /\ p \in WithCallback /\ (p \in QueueEvents => task[p] = "none")
    BY <1>6 DEF EndEvent, EndCallback, H
  <2>2. callbacks \in Seq(WithCallback)
    BY DEF Types, TypeOK
  <2>3. /\ Whereabouts(p) /\ p \notin ToSet(callbacks) /\ answers[p] = 0 /\ ~Fresh(p)
    BY <2>1 DEF Once, Whereabouts, Fresh
  <2>4. p \in posted /\ ~Waits(p)
    BY <2>3 DEF Whereabouts
  <2>5. ToSet(callbacks') = ToSet(callbacks) \cup {p} /\ Distinct(callbacks')
    BY <1>4, <2>1, <2>2, <2>3, Appended
  <2>6. ASSUME NEW q \in Posting PROVE Whereabouts(q)'
    <3>1. H(q)' = H(q) /\ C(q)' = C(q)
      BY DEF H, C, Agenda!Handlers, Agenda!Callback
    <3>2. CASE q = p
      BY <1>1, <1>2, <1>3, <2>1, <2>3, <2>4, <3>1, <3>2 DEF Whereabouts
    <3>3. CASE q # p
      BY <1>1, <1>2, <1>3, <2>5, <3>3, WhereaboutsKept DEF Once
    <3> QED BY <3>2, <3>3
  <2> QED BY <1>1, <2>5, <2>6 DEF Once, Distinct
<1> QED BY <1>5, <1>6

\* A dispatch of an event, or of a task: its posting neither waits nor has its callback
\* on the stack while there is a handler left.
LEMMA OnceDispatch ==
  ASSUME HandlersAssumption, Types, Once, Tasks, NEW p \in Posting,
         SkipHandler(p) \/ CallHandler(p)
  PROVE  Once'
<1>1. /\ Dispatching(p) /\ rest[p] # <<>>
      /\ UNCHANGED <<agenda, batch, callbacks, running, posted, refused, answers, task>>
  BY DEF SkipHandler, CallHandler, agendaVars, taskVars
<1>2. /\ rest \in [Posting -> Seq(Handler)] /\ called \in [Posting -> Seq(Handler)]
      /\ rest' = [rest EXCEPT ![p] = Tail(@)]
      /\ called' = called \/ called' = [called EXCEPT ![p] = Append(@, Head(rest[p]))]
  BY DEF SkipHandler, CallHandler, Types, TypeOK
<1>3. Whereabouts(p) /\ ~Fresh(p)
  BY <1>1 DEF Once, Fresh
<1>4. p \in posted /\ ~Waits(p) /\ p \notin ToSet(callbacks) /\ answers[p] <= 1
      /\ (running = H(p) => answers[p] = 0 /\ p \notin QueueEvents)
  BY <1>1, <1>3 DEF Whereabouts
<1>5. ASSUME NEW q \in Posting PROVE Whereabouts(q)'
  <2>1. H(q)' = H(q) /\ C(q)' = C(q)
    BY DEF H, C, Agenda!Handlers, Agenda!Callback
  <2>2. Waits(q)' = Waits(q)
    BY <1>1 DEF Waits
  <2>3. CASE q = p
    BY <1>1, <1>4, <2>1, <2>2, <2>3 DEF Whereabouts
  <2>4. CASE q # p
    <3>1. called'[q] = called[q] /\ rest'[q] = rest[q]
      BY <1>2, <2>4
    <3> QED BY <1>1, <2>2, <3>1, WhereaboutsKept DEF Once
  <2> QED BY <2>3, <2>4
<1> QED BY <1>1, <1>5 DEF Once, Distinct

\* A handler returns: only a running task goes to sleep, never an event that runs.
LEMMA OnceReturns ==
  ASSUME HandlersAssumption, Types, Once, Tasks, NEW p \in Posting, HandlerReturns(p)
  PROVE  Once'
<1>1. /\ Dispatching(p)
      /\ UNCHANGED <<agenda, batch, callbacks, running, posted, called, answers>>
  BY DEF HandlerReturns, agendaVars
<1>2. /\ rest \in [Posting -> Seq(Handler)]
      /\ task \in [QueueEvents ->
                     {"none", "created", "running", "waiting", "awake", "done", "cancelled"}]
  BY DEF Types, TypeOK
<1>3. Whereabouts(p) /\ ~Fresh(p)
  BY <1>1 DEF Once, Fresh, Dispatching, RunningTask, H
<1>4. CASE Refuse(p)
  <2>1. /\ rest' = [rest EXCEPT ![p] = <<>>] /\ refused' = refused \cup {p} /\ task' = task
        /\ p \notin QueueEvents
    BY <1>4 DEF Refuse, HandlersAssumption
  <2>2. ASSUME NEW q \in Posting PROVE Whereabouts(q)'
    <3>1. H(q)' = H(q) /\ C(q)' = C(q)
      BY DEF H, C, Agenda!Handlers, Agenda!Callback
    <3>2. Waits(q)' = Waits(q)
      BY <1>1 DEF Waits
    <3>3. CASE q = p
      <4>1. /\ p \in posted /\ ~Waits(p) /\ p \notin ToSet(callbacks)
            /\ answers[p] <= 1 /\ running = H(p)
        BY <1>1, <1>3, <2>1 DEF Whereabouts, Dispatching, RunningTask, H
      <4>2. answers[p] = 0
        BY <1>3, <4>1 DEF Whereabouts
      <4> QED BY <1>1, <2>1, <3>1, <3>2, <3>3, <4>1, <4>2 DEF Whereabouts
    <3>4. CASE q # p
      <4>1. rest'[q] = rest[q] /\ (q \in refused' => q \in refused)
        BY <1>2, <2>1, <3>4
      <4> QED BY <1>1, <2>1, <3>2, <4>1, WhereaboutsKept DEF Once
    <3> QED BY <3>3, <3>4
  <2> QED BY <1>1, <2>2 DEF Once, Distinct
<1>5. CASE Sleep(p)
  <2>1. /\ p \in QueueEvents /\ task' = [task EXCEPT ![p] = "waiting"]
        /\ UNCHANGED <<rest, refused>>
    BY <1>5 DEF Sleep, RunningTask
  <2>2. task[p] = "running"
    BY <1>5 DEF Sleep, RunningTask
  <2>3. running # H(p)
    BY <1>3, <2>1, <2>2 DEF Whereabouts
  <2>4. ASSUME NEW q \in Posting PROVE Whereabouts(q)'
    <3>1. Waits(q)' = Waits(q)
      BY <1>1 DEF Waits
    <3>2. q \in QueueEvents => task'[q] = task[q] \/ (running' # H(q) /\ task[q] # "none")
      BY <1>1, <1>2, <2>1, <2>2, <2>3
    <3> QED BY <1>1, <2>1, <3>1, <3>2, WhereaboutsKept DEF Once
  <2> QED BY <1>1, <2>4 DEF Once, Distinct
<1>6. CASE \/ Proceed(p) \/ \E v \in Value : Relay(p, v)
           \/ \E f \in Facility \cup {All}, n \in 0..Priority[active] : Block(p, f, n)
  <2>1. UNCHANGED <<rest, refused, task>>
    BY <1>6 DEF Block, Proceed, Relay
  <2> QED BY <1>1, <2>1, OnceKept
<1> QED BY <1>4, <1>5, <1>6 DEF HandlerReturns

\* A task starts, goes on or ends: its posting has left the queue, and no callback of it
\* is on the stack.
LEMMA OnceTask ==
  ASSUME HandlersAssumption, Types, Once, Tasks, NEW p \in QueueEvents,
         StartTask(p) \/ ResumeTask(p) \/ EndTask(p)
  PROVE  Once'
<1>1. /\ task[p] \in {"created", "awake", "running"} /\ running = Agenda!Nothing
      /\ UNCHANGED <<agenda, batch, callbacks, running, posted, called, refused>>
  BY DEF StartTask, ResumeTask, EndTask, agendaVars, dispatchVars, Idle, Tasks, Alone, RunningTask
<1>2. /\ rest \in [Posting -> Seq(Handler)] /\ answers \in [Posting -> Nat]
      /\ task \in [QueueEvents ->
                     {"none", "created", "running", "waiting", "awake", "done", "cancelled"}]
      /\ p \in Posting
  BY DEF Types, TypeOK, HandlersAssumption
<1>3. /\ rest' = rest \/ rest' = [rest EXCEPT ![p] = Handlers(p)]
      /\ answers' = answers \/ answers' = [answers EXCEPT ![p] = @ + 1]
      /\ task' = [task EXCEPT ![p] = "running"] \/ task' = [task EXCEPT ![p] = "done"]
  <2>1. CASE StartTask(p)
    BY <2>1 DEF StartTask
  <2>2. CASE ResumeTask(p)
    BY <2>2 DEF ResumeTask, dispatchVars
  <2>3. CASE EndTask(p)
    BY <2>3 DEF EndTask, dispatchVars
  <2> QED BY <2>1, <2>2, <2>3
<1>4. Whereabouts(p) /\ ~Fresh(p) /\ answers[p] = 0
  BY <1>1, <1>2 DEF Once, Fresh, Tasks, TaskStage
<1>5. p \in posted /\ ~Waits(p) /\ p \notin ToSet(callbacks)
  BY <1>1, <1>4 DEF Whereabouts
<1>6. \A q : running # H(q)
  BY <1>1, Running
<1>7. ASSUME NEW q \in Posting PROVE Whereabouts(q)'
  <2>1. H(q)' = H(q) /\ C(q)' = C(q)
    BY DEF H, C, Agenda!Handlers, Agenda!Callback
  <2>2. Waits(q)' = Waits(q)
    BY <1>1 DEF Waits
  <2>3. CASE q = p
    <3>1. answers'[p] <= 1
      BY <1>2, <1>3, <1>4
    <3> QED BY <1>1, <1>5, <1>6, <2>1, <2>2, <2>3, <3>1 DEF Whereabouts
  <2>4. CASE q # p
    <3>1. /\ rest'[q] = rest[q] /\ answers'[q] = answers[q]
          /\ (q \in QueueEvents => task'[q] = task[q])
      BY <1>2, <1>3, <2>4
    <3> QED BY <1>1, <2>2, <3>1, WhereaboutsKept DEF Once
  <2> QED BY <2>3, <2>4
<1> QED BY <1>1, <1>7 DEF Once, Distinct

\* stop() cancels tasks; their postings are not answered any more.
LEMMA OnceStop ==
  ASSUME HandlersAssumption, Types, Once, Tasks, Stop
  PROVE  Once'
<1>1. /\ running = Agenda!Nothing
      /\ UNCHANGED <<agenda, batch, callbacks, running, posted, called, rest, refused, answers>>
      /\ \A q \in QueueEvents : task'[q] = task[q] \/ task[q] # "none"
  BY DEF Stop, Idle, agendaVars, dispatchVars
<1>2. \A q : running' # H(q)
  BY <1>1, Running
<1>3. ASSUME NEW q \in Posting PROVE Whereabouts(q)'
  <2>1. Waits(q)' => Waits(q)
    BY <1>1 DEF Waits
  <2> QED BY <1>1, <1>2, <2>1, WhereaboutsKept DEF Once
<1> QED BY <1>1, <1>3 DEF Once, Distinct

\* A wait that is released may wake the task that sleeps for it.
LEMMA OnceClear ==
  ASSUME Types, Once, NEW o \in Queue, Clear(o)
  PROVE  Once'
<1>1. /\ UNCHANGED <<agenda, batch, callbacks, running, posted, called, rest, refused, answers>>
      /\ \A q \in QueueEvents :
           task'[q] = task[q] \/ (task[q] = "waiting" /\ task'[q] = "awake")
  BY DEF Clear, agendaVars, dispatchVars
<1>2. ASSUME NEW q \in Posting PROVE Whereabouts(q)'
  <2>1. Waits(q)' = Waits(q)
    BY <1>1 DEF Waits
  <2>2. Whereabouts(q)
    BY DEF Once
  <2>3. q \in QueueEvents => task'[q] = task[q] \/ (running' # H(q) /\ task[q] # "none")
    BY <1>1, <2>2 DEF Whereabouts
  <2> QED BY <1>1, <2>1, <2>2, <2>3, WhereaboutsKept
<1> QED BY <1>1, <1>2 DEF Once, Distinct

-------------------------------------------------------------------------------
(* The tasks.                                                               *)

\* What does not start a task, or anything else, leaves code alone.
LEMMA AloneKept ==
  ASSUME Alone, RunningTask' \subseteq RunningTask,
         running' = running \/ running' = Agenda!Nothing
  PROVE  Alone'
<1>1. Agenda!Nothing' = Agenda!Nothing
  BY DEF Agenda!Nothing
<1> QED BY <1>1 DEF Alone

\* A task whose event, handlers and queue are left alone; waits may be released.
LEMMA TaskStageKept ==
  ASSUME NEW q \in QueueEvents, TaskStage(q), task'[q] = task[q], answers'[q] = answers[q],
         called'[q] = called[q], rest'[q] = rest[q], using'[q] = using[q],
         \A o \in Queue : waiter'[o] = q => waiter[o] = q,
         \A o \in Queue : sleeper'[o] = q => sleeper[o] = q,
         task[q] = "running" /\ active' = NoHandler => active = NoHandler
  PROVE  TaskStage(q)'
BY DEF TaskStage, Released

\* What touches no task.
LEMMA TasksKept ==
  ASSUME Tasks, UNCHANGED <<task, using, waiter, sleeper, answers, called, rest, active>>,
         running' = running \/ running' = Agenda!Nothing
  PROVE  Tasks'
<1>1. RunningTask' = RunningTask
  BY DEF RunningTask
<1>2. ASSUME NEW q \in QueueEvents PROVE TaskStage(q)'
  BY TaskStageKept DEF Tasks
<1> QED BY <1>1, <1>2, AloneKept DEF Tasks

\* The handler that runs waits on its queue.
LEMMA TasksWait ==
  ASSUME HandlersAssumption, Types, Tasks, NEW p \in QueueEvents, Wait(p)
  PROVE  Tasks'
<1>1. /\ UNCHANGED <<task, using, sleeper, answers, called, rest, active, running>>
      /\ task[p] = "running" /\ active # NoHandler
      /\ waiter \in [Queue -> QueueEvents \cup {Nobody}]
      /\ waiter' = [waiter EXCEPT ![using[p]] = p]
  BY DEF Types, TypeOK, Wait, agendaVars, dispatchVars
<1>2. RunningTask' = RunningTask
  BY <1>1 DEF RunningTask
<1>3. ASSUME NEW q \in QueueEvents PROVE TaskStage(q)'
  <2>1. TaskStage(q)
    BY DEF Tasks
  <2>2. CASE q # p
    <3>1. \A o \in Queue : waiter'[o] = q => waiter[o] = q
      BY <1>1, <2>2
    <3> QED BY <1>1, <2>1, <2>2, <3>1, TaskStageKept
  <2>3. CASE q = p
    <3>1. \A o \in Queue : waiter'[o] = p => o = using[p]
      BY <1>1, <2>1, <2>3 DEF TaskStage
    <3> QED BY <1>1, <2>1, <2>3, <3>1 DEF TaskStage
  <2> QED BY <2>2, <2>3
<1> QED BY <1>1, <1>2, <1>3, AloneKept DEF Tasks

\* A wait that is released leaves nothing for the task that it wakes to wait for.
LEMMA TasksClear ==
  ASSUME HandlersAssumption, Types, Tasks, NEW o \in Queue, Clear(o)
  PROVE  Tasks'
<1>1. /\ UNCHANGED <<using, answers, called, rest, active, running>>
      /\ waiter \in [Queue -> QueueEvents \cup {Nobody}]
      /\ sleeper \in [Queue -> QueueEvents \cup {Nobody}]
      /\ waiter' = [waiter EXCEPT ![o] = Nobody] /\ sleeper' = [sleeper EXCEPT ![o] = Nobody]
      /\ task' = [p \in QueueEvents |->
                    IF p = sleeper[o] /\ task[p] = "waiting" THEN "awake" ELSE task[p]]
  BY DEF Types, TypeOK, Clear, agendaVars, dispatchVars
<1>2. RunningTask' = RunningTask
  BY <1>1 DEF RunningTask
<1>3. ASSUME NEW q \in QueueEvents PROVE TaskStage(q)'
  <2>1. TaskStage(q) /\ q # Nobody
    BY DEF Tasks, HandlersAssumption
  <2>2. /\ \A u \in Queue : waiter'[u] = q => waiter[u] = q /\ u # o
        /\ \A u \in Queue : sleeper'[u] = q => sleeper[u] = q /\ u # o
    BY <1>1, <2>1
  <2>3. CASE task'[q] = task[q]
    BY <1>1, <2>1, <2>2, <2>3, TaskStageKept
  <2>4. CASE task'[q] # task[q]
    <3>1. q = sleeper[o] /\ task[q] = "waiting" /\ task'[q] = "awake"
      BY <1>1, <2>4
    <3>2. o = using[q]
      BY <2>1, <3>1 DEF TaskStage
    <3>3. Released(q)' /\ \A u \in Queue : sleeper'[u] # q
      BY <2>1, <2>2, <3>1, <3>2 DEF TaskStage, Released
    <3> QED BY <1>1, <2>1, <3>1, <3>3 DEF TaskStage
  <2> QED BY <2>3, <2>4
<1> QED BY <1>1, <1>2, <1>3, AloneKept DEF Tasks

\* A task that is cancelled is as good as done.
LEMMA TasksStop ==
  ASSUME Types, Tasks, Stop
  PROVE  Tasks'
<1>1. /\ UNCHANGED <<using, waiter, sleeper, answers, called, rest, active, running>>
      /\ task' = [p \in QueueEvents |->
                    IF task[p] \in {"created", "waiting", "awake"} THEN "cancelled" ELSE task[p]]
  BY DEF Stop, agendaVars, dispatchVars, queueVars
<1>2. RunningTask' \subseteq RunningTask
  BY <1>1 DEF RunningTask
<1>3. ASSUME NEW q \in QueueEvents PROVE TaskStage(q)'
  <2>1. TaskStage(q)
    BY DEF Tasks
  <2>2. CASE task'[q] = task[q]
    BY <1>1, <2>1, <2>2, TaskStageKept
  <2>3. CASE task'[q] # task[q]
    <3>1. task[q] \in {"created", "waiting", "awake"} /\ task'[q] = "cancelled"
      BY <1>1, <2>3
    <3>2. \A o \in Queue : sleeper'[o] = q => o = using'[q]
      BY <1>1, <2>1 DEF TaskStage
    <3> QED BY <3>1, <3>2 DEF TaskStage
  <2> QED BY <2>2, <2>3
<1> QED BY <1>1, <1>2, <1>3, AloneKept DEF Tasks

\* The task of an event is created before any of its handlers is called.
LEMMA TasksStartEvent ==
  ASSUME HandlersAssumption, Types, Once, Tasks, StartEvent
  PROVE  Tasks'
<1> DEFINE p == Head(agenda)
<1>1. /\ agenda # <<>> /\ RunningTask = {}
      /\ UNCHANGED <<called, answers, active>>
  BY DEF StartEvent, Agenda!StartEvent, Idle
<1>2. /\ agenda \in Seq(Posting) /\ rest \in [Posting -> Seq(Handler)]
      /\ task \in [QueueEvents ->
                     {"none", "created", "running", "waiting", "awake", "done", "cancelled"}]
  BY DEF Types, TypeOK
<1>3. /\ UNCHANGED <<using, waiter, sleeper>>
      /\ \/ p \notin QueueEvents /\ rest' = [rest EXCEPT ![p] = Handlers(p)] /\ task' = task
         \/ /\ p \in QueueEvents /\ rest' = rest
            /\ task' = task \/ task' = [task EXCEPT ![p] = "created"]
  BY DEF StartEvent, ProcessEvent, ProcessQueueEvent, taskVars, queueVars
<1>4. p \in Posting /\ p \in ToSet(agenda)
  BY <1>1, <1>2, HeadTaken
<1> HIDE DEF p
<1>5. Fresh(p)
  BY <1>4 DEF Once, Whereabouts, Waits
<1>6. RunningTask' = {}
  BY <1>1, <1>2, <1>3 DEF RunningTask
<1>7. ASSUME NEW q \in QueueEvents PROVE TaskStage(q)'
  <2>1. TaskStage(q) /\ q \in Posting
    BY DEF Tasks, HandlersAssumption
  <2>2. CASE task'[q] = task[q]
    <3>1. rest'[q] = rest[q]
      BY <1>2, <1>3, <2>1
    <3> QED BY <1>1, <1>3, <2>1, <2>2, <3>1, TaskStageKept
  <2>3. CASE task'[q] # task[q]
    <3>1. q = p /\ task'[q] = "created" /\ rest' = rest
      BY <1>2, <1>3, <2>3
    <3>2. task[q] = "none" /\ answers[q] = 0 /\ called[q] = <<>> /\ rest[q] = <<>>
      BY <1>5, <3>1 DEF Fresh
    <3> QED BY <1>1, <1>3, <2>1, <3>1, <3>2 DEF TaskStage, Released
  <2> QED BY <2>2, <2>3
<1> QED BY <1>6, <1>7 DEF Tasks, Alone

\* A callback on the stack belongs to no task.
LEMMA TasksStartCallback ==
  ASSUME HandlersAssumption, Types, Once, Tasks, StartCallback
  PROVE  Tasks'
<1> DEFINE p == Last(callbacks)
<1>1. /\ callbacks # <<>> /\ RunningTask = {}
      /\ answers' = [answers EXCEPT ![p] = @ + 1]
      /\ UNCHANGED <<called, rest, active, task, using, waiter, sleeper>>
  BY DEF StartCallback, Agenda!StartCallback, Idle, dispatchVars, taskVars, queueVars
<1>2. callbacks \in Seq(WithCallback) /\ answers \in [Posting -> Nat]
  BY DEF Types, TypeOK
<1>3. p \in Posting /\ p \in ToSet(callbacks)
  BY <1>1, <1>2, LastTaken DEF HandlersAssumption
<1> HIDE DEF p
<1>4. p \in QueueEvents => task[p] = "none"
  BY <1>3 DEF Once, Whereabouts
<1>5. RunningTask' = {}
  BY <1>1 DEF RunningTask
<1>6. ASSUME NEW q \in QueueEvents PROVE TaskStage(q)'
  <2>1. TaskStage(q) /\ q \in Posting
    BY DEF Tasks, HandlersAssumption
  <2>2. CASE q = p
    BY <1>1, <1>4, <2>1, <2>2 DEF TaskStage, Released
  <2>3. CASE q # p
    <3>1. answers'[q] = answers[q]
      BY <1>1, <1>2, <2>1, <2>3
    <3> QED BY <1>1, <2>1, <3>1, TaskStageKept
  <2> QED BY <2>2, <2>3
<1> QED BY <1>5, <1>6 DEF Tasks, Alone

\* A task that calls a handler has no wait left.
LEMMA TasksDispatch ==
  ASSUME HandlersAssumption, Types, Once, Tasks, NEW p \in Posting,
         SkipHandler(p) \/ CallHandler(p)
  PROVE  Tasks'
<1>1. /\ Dispatching(p) /\ rest[p] # <<>> /\ active = NoHandler
      /\ UNCHANGED <<running, answers, task>>
  BY DEF SkipHandler, CallHandler, agendaVars, taskVars
<1>2. /\ rest \in [Posting -> Seq(Handler)] /\ called \in [Posting -> Seq(Handler)]
      /\ using \in [QueueEvents -> Queue \cup {NoQueue}] /\ UNCHANGED <<waiter, sleeper>>
      /\ rest' = [rest EXCEPT ![p] = Tail(@)]
      /\ called' = called \/ called' = [called EXCEPT ![p] = Append(@, Head(rest[p]))]
      /\ \/ using' = using
         \/ p \in QueueEvents /\ using' = [using EXCEPT ![p] = QueueFor(p, Head(rest[p]))]
  BY DEF SkipHandler, CallHandler, Types, TypeOK, taskVars, queueVars
<1>3. RunningTask' = RunningTask
  BY <1>1 DEF RunningTask
<1>4. ASSUME NEW q \in QueueEvents PROVE TaskStage(q)'
  <2>1. TaskStage(q) /\ q \in Posting
    BY DEF Tasks, HandlersAssumption
  <2>2. CASE q # p
    <3>1. called'[q] = called[q] /\ rest'[q] = rest[q] /\ using'[q] = using[q]
      BY <1>2, <2>1, <2>2
    <3> QED BY <1>1, <1>2, <2>1, <3>1, TaskStageKept
  <2>3. CASE q = p
    <3>1. task[q] = "running"
      <4>1. Whereabouts(q) /\ rest[q] # <<>>
        BY <1>1, <2>1, <2>3 DEF Once
      <4> QED BY <1>1, <2>3, <4>1 DEF Whereabouts, Dispatching, RunningTask, H
    <3>2. Released(q) /\ answers[q] = 0 /\ \A o \in Queue : sleeper[o] # q
      BY <1>1, <2>1, <3>1 DEF TaskStage
    <3>3. task'[q] = "running" /\ Released(q)' /\ answers'[q] = 0
          /\ \A o \in Queue : sleeper'[o] # q
      BY <1>1, <1>2, <3>1, <3>2 DEF Released
    <3> QED BY <3>3 DEF TaskStage, Released
  <2> QED BY <2>2, <2>3
<1> QED BY <1>1, <1>3, <1>4, AloneKept DEF Tasks

\* A task goes on after a handler only with a queue that is free, and sleeps otherwise.
LEMMA TasksReturns ==
  ASSUME HandlersAssumption, Types, Once, Tasks, NEW p \in Posting, HandlerReturns(p)
  PROVE  Tasks'
<1>1. Dispatching(p) /\ active # NoHandler /\ UNCHANGED <<running, called, answers>>
  BY DEF HandlerReturns, agendaVars
<1>2. /\ rest \in [Posting -> Seq(Handler)]
      /\ task \in [QueueEvents ->
                     {"none", "created", "running", "waiting", "awake", "done", "cancelled"}]
      /\ sleeper \in [Queue -> QueueEvents \cup {Nobody}]
      /\ UNCHANGED <<using, waiter>>
  BY DEF Types, TypeOK, HandlerReturns
<1>3. ASSUME NEW q \in QueueEvents, task[q] = "running" PROVE q = p /\ running # H(p)
  <2>1. q \in RunningTask
    BY <1>3 DEF RunningTask
  <2>2. running = Agenda!Nothing
    BY <2>1 DEF Tasks, Alone
  <2>3. running # H(p)
    BY <2>2, Running
  <2> QED BY <1>1, <2>1, <2>3 DEF Tasks, Alone, Dispatching, H
<1>4. CASE Sleep(p)
  <2>1. /\ p \in QueueEvents /\ rest' = rest
        /\ task' = [task EXCEPT ![p] = "waiting"]
        /\ sleeper' = [sleeper EXCEPT ![using[p]] = p]
    BY <1>4 DEF Sleep, RunningTask
  <2>2. task[p] = "running"
    BY <1>4 DEF Sleep, RunningTask
  <2>3. RunningTask' \subseteq RunningTask
    BY <1>2, <2>1 DEF RunningTask
  <2>4. ASSUME NEW q \in QueueEvents PROVE TaskStage(q)'
    <3>1. TaskStage(q)
      BY DEF Tasks
    <3>2. CASE q = p
      <4>1. task'[q] = "waiting"
        BY <1>2, <2>1, <3>2
      <4>2. answers'[q] = 0 /\ \A o \in Queue : waiter'[o] = q => o = using'[q]
        BY <1>1, <1>2, <2>2, <3>1, <3>2 DEF TaskStage
      <4>3. \A o \in Queue : sleeper'[o] = q => o = using'[q]
        BY <1>2, <2>1, <3>1, <3>2 DEF TaskStage
      <4> QED BY <4>1, <4>2, <4>3 DEF TaskStage
    <3>3. CASE q # p
      <4>1. task'[q] = task[q] /\ \A o \in Queue : sleeper'[o] = q => sleeper[o] = q
        BY <1>2, <2>1, <3>3
      <4> QED BY <1>1, <1>2, <1>3, <2>1, <3>1, <3>3, <4>1, TaskStageKept
    <3> QED BY <3>2, <3>3
  <2> QED BY <1>1, <2>3, <2>4, AloneKept DEF Tasks
<1>5. CASE Proceed(p)
  <2>1. UNCHANGED <<rest, task, sleeper>> /\ (p \in QueueEvents => waiter[using[p]] = Nobody)
    BY <1>5 DEF Proceed
  <2>2. RunningTask' = RunningTask
    BY <2>1 DEF RunningTask
  <2>3. ASSUME NEW q \in QueueEvents PROVE TaskStage(q)'
    <3>1. TaskStage(q) /\ q # Nobody
      BY DEF Tasks, HandlersAssumption
    <3>2. CASE task[q] = "running"
      <4>1. Released(q)
        BY <1>3, <2>1, <3>1, <3>2 DEF TaskStage, Released
      <4>2. task'[q] = "running" /\ answers'[q] = 0 /\ Released(q)'
            /\ \A o \in Queue : sleeper'[o] # q
        BY <1>1, <1>2, <2>1, <3>1, <3>2, <4>1 DEF TaskStage, Released
      <4> QED BY <4>2 DEF TaskStage, Released
    <3>3. CASE task[q] # "running"
      BY <1>1, <1>2, <2>1, <3>1, <3>3, TaskStageKept
    <3> QED BY <3>2, <3>3
  <2> QED BY <1>1, <2>2, <2>3, AloneKept DEF Tasks
<1>6. CASE \/ Refuse(p) \/ \E v \in Value : Relay(p, v)
           \/ \E f \in Facility \cup {All}, n \in 0..Priority[active] : Block(p, f, n)
  <2>1. /\ p \notin QueueEvents /\ UNCHANGED <<task, sleeper>>
        /\ rest' = rest \/ rest' = [rest EXCEPT ![p] = <<>>]
    BY <1>6 DEF Refuse, Block, Relay, HandlersAssumption
  <2>2. RunningTask' = RunningTask
    BY <2>1 DEF RunningTask
  <2>3. ASSUME NEW q \in QueueEvents PROVE TaskStage(q)'
    <3>1. TaskStage(q) /\ q # p /\ q \in Posting /\ task[q] # "running"
      BY <1>3, <2>1 DEF Tasks, HandlersAssumption
    <3>2. rest'[q] = rest[q]
      BY <1>2, <2>1, <3>1
    <3> QED BY <1>1, <1>2, <2>1, <3>1, <3>2, TaskStageKept
  <2> QED BY <1>1, <2>2, <2>3, AloneKept DEF Tasks
<1> QED BY <1>4, <1>5, <1>6 DEF HandlerReturns

\* A task starts or goes on while no other code runs, and with its last wait released.
LEMMA TasksTask ==
  ASSUME HandlersAssumption, Types, Once, Tasks, NEW p \in QueueEvents,
         StartTask(p) \/ ResumeTask(p) \/ EndTask(p)
  PROVE  Tasks'
<1>1. /\ rest \in [Posting -> Seq(Handler)] /\ answers \in [Posting -> Nat]
      /\ task \in [QueueEvents ->
                     {"none", "created", "running", "waiting", "awake", "done", "cancelled"}]
      /\ p \in Posting
  BY DEF Types, TypeOK, HandlersAssumption
<1>2. UNCHANGED <<running, called, active, using, waiter, sleeper>>
  BY DEF StartTask, ResumeTask, EndTask, agendaVars, dispatchVars, queueVars
<1>3. CASE StartTask(p) \/ ResumeTask(p)
  <2>1. /\ RunningTask = {} /\ running = Agenda!Nothing /\ answers' = answers
        /\ task[p] \in {"created", "awake"}
        /\ rest' = rest \/ rest' = [rest EXCEPT ![p] = Handlers(p)]
        /\ task' = [task EXCEPT ![p] = "running"] \/ task' = [task EXCEPT ![p] = "done"]
    <3>1. CASE StartTask(p)
      BY <3>1 DEF StartTask, Idle, Tasks, TaskStage
    <3>2. CASE ResumeTask(p)
      BY <3>2 DEF ResumeTask, Idle, dispatchVars
    <3> QED BY <1>3, <3>1, <3>2
  <2>2. RunningTask' \subseteq {p}
    BY <1>1, <2>1 DEF RunningTask
  <2>3. ASSUME NEW q \in QueueEvents PROVE TaskStage(q)'
    <3>1. TaskStage(q) /\ q \in Posting
      BY DEF Tasks, HandlersAssumption
    <3>2. CASE q = p
      <4>1. /\ task'[q] \in {"running", "done"} /\ answers'[q] = 0
            /\ Released(q)' /\ \A o \in Queue : sleeper'[o] # q
        BY <1>1, <1>2, <2>1, <3>1, <3>2 DEF TaskStage, Released
      <4> QED BY <4>1 DEF TaskStage, Released
    <3>3. CASE q # p
      <4>1. task'[q] = task[q] /\ rest'[q] = rest[q]
        BY <1>1, <2>1, <3>1, <3>3
      <4> QED BY <1>2, <2>1, <3>1, <4>1, TaskStageKept
    <3> QED BY <3>2, <3>3
  <2>4. running' = Agenda!Nothing' /\ \A q, r \in RunningTask' : q = r
    BY <1>2, <2>1, <2>2 DEF Agenda!Nothing
  <2>5. Alone'
    BY <2>4 DEF Alone
  <2> QED BY <2>3, <2>5 DEF Tasks
<1>4. CASE EndTask(p)
  <2>1. /\ answers' = [answers EXCEPT ![p] = @ + 1] /\ task' = [task EXCEPT ![p] = "done"]
        /\ rest' = rest
    BY <1>4 DEF EndTask, dispatchVars
  <2>2. RunningTask' \subseteq RunningTask
    BY <1>1, <2>1 DEF RunningTask
  <2>3. ASSUME NEW q \in QueueEvents PROVE TaskStage(q)'
    <3>1. TaskStage(q) /\ q \in Posting
      BY DEF Tasks, HandlersAssumption
    <3>2. CASE q = p
      <4>1. task'[q] = "done" /\ task[q] = "running"
        BY <1>1, <1>4, <2>1, <3>2 DEF EndTask
      <4>2. \A o \in Queue : sleeper'[o] # q
        BY <1>2, <3>1, <4>1 DEF TaskStage
      <4> QED BY <4>1, <4>2 DEF TaskStage
    <3>3. CASE q # p
      <4>1. task'[q] = task[q] /\ answers'[q] = answers[q]
        BY <1>1, <2>1, <3>1, <3>3
      <4> QED BY <1>2, <2>1, <3>1, <4>1, TaskStageKept
    <3> QED BY <3>2, <3>3
  <2> QED BY <1>2, <2>2, <2>3, AloneKept DEF Tasks
<1> QED BY <1>3, <1>4

-------------------------------------------------------------------------------
(* The invariant.                                                           *)

\* Nothing is posted, registered or running at first.
LEMMA InitIInv ==
  ASSUME HandlersAssumption, Init
  PROVE  IInv
<1> USE DEF Init, Agenda!Init
<1>1. Types
  <2>1. <<>> \in Seq(Posting) /\ <<>> \in Seq(WithCallback) /\ <<>> \in Seq(Handler)
    OBVIOUS
  <2>2. registered \in [Event -> Seq(Handler)] /\ rest \in [Posting -> Seq(Handler)]
    BY <2>1
  <2>3. called \in [Posting -> Seq(Handler)]
    BY <2>1
  <2>4. TypeOK
    BY <2>1, <2>2, <2>3 DEF TypeOK
  <2> QED BY <2>4 DEF Types, RunningType
<1>2. DOMAIN <<>> = {} /\ ToSet(<<>>) = {}
  BY DEF ToSet
<1>3. Ordered(<<>>) /\ Distinct(<<>>)
  BY <1>2 DEF Ordered, Distinct
<1>4. Order
  BY <1>2, <1>3 DEF Order, Registry, InOrder
<1>5. Once
  <2>1. ASSUME NEW p \in Posting PROVE Whereabouts(p)
    <3>1. running # H(p) /\ running # C(p)
      BY Running
    <3>2. answers[p] = 0 /\ called[p] = <<>> /\ rest[p] = <<>> /\ p \notin refused
      OBVIOUS
    <3>3. p \in QueueEvents => task[p] = "none"
      OBVIOUS
    <3>4. p \notin ToSet(callbacks) /\ ~Waits(p)
      BY <1>2 DEF Waits
    <3> QED BY <3>1, <3>2, <3>3, <3>4 DEF Whereabouts, Fresh
  <2> QED BY <1>2, <1>3, <2>1 DEF Once
<1>6. Tasks
  <2>1. RunningTask = {}
    BY DEF RunningTask
  <2>2. \A p \in QueueEvents : p # Nobody
    BY DEF HandlersAssumption
  <2>3. \A p \in QueueEvents :
          task[p] = "none" /\ \A o \in Queue : waiter[o] # p /\ sleeper[o] # p
    BY <2>2
  <2> QED BY <2>1, <2>3 DEF Tasks, Alone, TaskStage, Released
<1> QED BY <1>1, <1>4, <1>5, <1>6 DEF IInv

\* Everything any code does keeps the invariant.
LEMMA NextIInv ==
  ASSUME HandlersAssumption, IInv, [Next]_vars
  PROVE  IInv'
<1>1. Types /\ Order /\ Registry /\ Once /\ Tasks
  BY DEF IInv, Order
<1>2. CASE UNCHANGED vars
  <2>1. UNCHANGED <<agenda, batch, callbacks, running, posted, called, rest, refused, answers,
                    task, using, waiter, sleeper, active, registered, known>>
    BY <1>2 DEF vars, agendaVars, dispatchVars, taskVars, queueVars, registryVars
  <2> QED BY <1>1, <1>2, <2>1, TypesKept, OrderKept, OnceKept, TasksKept DEF IInv
<1>3. CASE \E p \in Posting, v \in Value \cup {NoValue}, o \in Queue \cup {NoQueue} :
             Post(p, v, o)
  <2>1. PICK p \in Posting, v \in Value \cup {NoValue}, o \in Queue \cup {NoQueue} :
          Post(p, v, o)
    BY <1>3
  <2>2. UNCHANGED <<registered, known, called, rest, refused, task, using, waiter, sleeper, answers, active,
                    running>>
    BY <2>1 DEF Post, taskVars, registryVars, agendaVars, Agenda!PostIdle, Agenda!PostNested
  <2> QED BY <1>1, <2>1, <2>2, TypesPost, OrderKept, OncePost, TasksKept DEF IInv
<1>4. CASE \E h \in Handler : AddHandler(h) \/ RemoveHandler(h)
  <2>1. PICK h \in Handler : AddHandler(h) \/ RemoveHandler(h)
    BY <1>4
  <2>2. UNCHANGED <<agenda, batch, callbacks, running, posted, called, rest, refused, answers,
                    task, using, waiter, sleeper, active>>
    BY <2>1 DEF AddHandler, RemoveHandler, agendaVars, dispatchVars, taskVars, queueVars
  <2> QED BY <1>1, <2>1, <2>2, TypesAddHandler, TypesRemoveHandler, OrderAddHandler,
             OrderRemoveHandler, OnceKept, TasksKept DEF IInv
<1>5. ASSUME NEW p \in QueueEvents, Wait(p) PROVE IInv'
  <2>1. UNCHANGED <<agenda, batch, callbacks, running, posted, called, rest, refused, answers,
                    task, registered, known>>
    BY <1>5 DEF Wait, agendaVars, dispatchVars, registryVars
  <2> QED BY <1>1, <1>5, <2>1, TypesQueue, OrderKept, OnceKept, TasksWait DEF IInv
<1>14. ASSUME NEW o \in Queue, Clear(o) PROVE IInv'
  <2>1. UNCHANGED <<registered, known, called, rest, refused>>
    BY <1>14 DEF Clear, dispatchVars, registryVars
  <2> QED BY <1>1, <1>14, <2>1, TypesClear, OrderKept, OnceClear, TasksClear DEF IInv
<1>6. CASE Stop
  <2>1. UNCHANGED <<registered, known, called, rest, refused>>
    BY <1>6 DEF Stop, dispatchVars, registryVars
  <2> QED BY <1>1, <1>6, <2>1, TypesStop, OrderKept, OnceStop, TasksStop DEF IInv
<1>7. CASE StartEvent
  <2> DEFINE p == Head(agenda)
  <2>1. p \in Posting /\ p \in ToSet(agenda)
    BY <1>1, <1>7, HeadTaken DEF StartEvent, Agenda!StartEvent, Types, TypeOK
  <2>2. called[p] = <<>> /\ p \notin refused
    BY <1>1, <2>1 DEF Once, Whereabouts, Waits, Fresh
  <2>3. /\ UNCHANGED <<registered, known, called, refused>>
        /\ rest' = rest \/ rest' = [rest EXCEPT ![p] = Handlers(p)]
    BY <1>7 DEF StartEvent, ProcessEvent, ProcessQueueEvent, registryVars
  <2>4. Order'
    BY <1>1, <2>1, <2>2, <2>3, OrderKept, OrderSnapshot
  <2> QED BY <1>1, <1>7, <2>4, TypesStartEvent, OnceStartEvent, TasksStartEvent DEF IInv
<1>8. CASE StartCallback
  <2>1. UNCHANGED <<registered, known, called, rest, refused>>
    BY <1>8 DEF StartCallback, dispatchVars, registryVars
  <2> QED BY <1>1, <1>8, <2>1, TypesStartCallback, OrderKept, OnceStartCallback,
             TasksStartCallback DEF IInv
<1>9. ASSUME NEW p \in Posting, SkipHandler(p) \/ CallHandler(p) PROVE IInv'
  BY <1>1, <1>9, TypesDispatch, OrderDispatch, OnceDispatch, TasksDispatch DEF IInv
<1>10. ASSUME NEW p \in Posting, HandlerReturns(p) PROVE IInv'
  <2>1. UNCHANGED <<registered, known, called>>
    BY <1>10 DEF HandlerReturns, registryVars
  <2>2. Order'
    <3>1. CASE Refuse(p)
      BY <1>1, <2>1, <3>1, OrderRefuse
    <3>2. CASE \/ Sleep(p) \/ Proceed(p) \/ \E v \in Value : Relay(p, v)
               \/ \E f \in Facility \cup {All}, n \in 0..Priority[active] : Block(p, f, n)
      <4>1. UNCHANGED <<rest, refused>>
        BY <3>2 DEF Block, Sleep, Proceed, Relay
      <4> QED BY <1>1, <2>1, <4>1, OrderKept
    <3> QED BY <1>10, <3>1, <3>2 DEF HandlerReturns
  <2> QED BY <1>1, <1>10, <2>2, TypesReturns, OnceReturns, TasksReturns DEF IInv
<1>11. ASSUME NEW p \in Posting, EndEvent(p) \/ EndCallback PROVE IInv'
  <2>1. /\ UNCHANGED <<registered, known, called, rest, refused, task, using, waiter, sleeper, answers, active>>
        /\ running' = Agenda!Nothing
    BY <1>11 DEF EndEvent, EndCallback, Agenda!Return, dispatchVars, taskVars, queueVars,
                 registryVars
  <2> QED BY <1>1, <1>11, <2>1, TypesEnd, OrderKept, OnceEnd, TasksKept DEF IInv
<1>12. CASE EndCallback
  <2>1. PICK p \in Posting : TRUE
    BY <1>12 DEF EndCallback, HandlersAssumption
  <2> QED BY <1>11, <1>12, <2>1
<1>13. ASSUME NEW p \in QueueEvents, RunTask(p) PROVE IInv'
  <2>1. Order'
    <3>1. CASE StartTask(p)
      <4>1. /\ p \in Posting /\ p \notin refused /\ called[p] = <<>>
        BY <1>1, <3>1 DEF HandlersAssumption, StartTask, Types, TypeOK, Tasks, TaskStage
      <4>2. /\ UNCHANGED <<registered, known, called, refused>>
            /\ rest' = rest \/ rest' = [rest EXCEPT ![p] = Handlers(p)]
        BY <3>1 DEF StartTask, registryVars
      <4> QED BY <1>1, <4>1, <4>2, OrderKept, OrderSnapshot
    <3>2. CASE ResumeTask(p) \/ EndTask(p)
      <4>1. UNCHANGED <<registered, known, called, rest, refused>>
        BY <3>2 DEF ResumeTask, EndTask, registryVars, dispatchVars
      <4> QED BY <1>1, <4>1, OrderKept
    <3> QED BY <1>13, <3>1, <3>2 DEF RunTask
  <2> QED BY <1>1, <1>13, <2>1, TypesQueue, TypesStartTask, OnceTask, TasksTask DEF RunTask, IInv
<1> QED BY <1>2, <1>3, <1>4, <1>5, <1>6, <1>7, <1>8, <1>9, <1>10, <1>11, <1>12, <1>13,
           <1>14
        DEF Next, Environment, Loop, Dispatch

\* What the proofs rest on: dispatches are in order, and a posting is where it should be.
THEOREM HandlersInvariant ==
  ASSUME HandlersAssumption
  PROVE  Spec => []IInv
<1>1. Init => IInv
  BY InitIInv
<1>2. IInv /\ [Next]_vars => IInv'
  BY NextIInv
<1> QED BY <1>1, <1>2, PTL DEF Spec

\* Registries hold handlers, dispatches run handlers, and queues hold postings.
THEOREM TypesHold ==
  ASSUME HandlersAssumption
  PROVE  Spec => []TypeOK
<1>1. IInv => TypeOK
  BY DEF IInv, Types
<1> QED BY <1>1, HandlersInvariant, PTL

\* An event calls its handlers by priority, those of one priority in the order they were
\* added, and none after one that returned False to a boolean event: whatever handlers are
\* added and removed while it does.
THEOREM DispatchInOrder ==
  ASSUME HandlersAssumption
  PROVE  Spec => []CalledInOrder
<1>1. IInv => CalledInOrder
  BY DEF IInv, Order, InOrder, Ordered, CalledInOrder
<1> QED BY <1>1, HandlersInvariant, PTL

\* One dispatch calls no handler twice.
CalledOnce == \A p \in Posting : Distinct(called[p])

\* The handlers of one dispatch come one after the other in the order they were added or
\* by priority, and nothing comes before itself in it.
THEOREM NoHandlerTwice ==
  ASSUME HandlersAssumption
  PROVE  Spec => []CalledOnce
<1>1. ASSUME IInv PROVE CalledOnce
  <2>1. SUFFICES ASSUME NEW p \in Posting, NEW i \in DOMAIN called[p], NEW j \in DOMAIN called[p],
                        i < j, called[p][i] = called[p][j]
                 PROVE  FALSE
    <3>1. ASSUME NEW p \in Posting, NEW i \in DOMAIN called[p], NEW j \in DOMAIN called[p], i # j
          PROVE  i < j \/ j < i
      <4>1. called[p] \in Seq(Handler)
        BY <1>1 DEF IInv, Types, TypeOK
      <4>2. i \in Nat /\ j \in Nat
        BY <4>1
      <4> QED BY <3>1, <4>2
    <3> QED BY <3>1 DEF CalledOnce, Distinct
  <2>2. Before(called[p][i], called[p][i]) /\ called[p][i] \in Handler
    BY <1>1, <2>1 DEF IInv, Order, InOrder, Ordered, Types, TypeOK
  <2>3. Priority[called[p][i]] \in Nat /\ known \in Seq(Handler) /\ Distinct(known)
    BY <1>1, <2>2 DEF HandlersAssumption, IInv, Types, TypeOK, Order, Registry
  <2>4. PICK k \in DOMAIN known, l \in DOMAIN known : k < l /\ known[k] = known[l]
    BY <2>2, <2>3 DEF Before
  <2> QED BY <2>3, <2>4 DEF Distinct
<1> QED BY <1>1, HandlersInvariant, PTL

\* The callback of an event is called once, and only from the stack or only by the task.
THEOREM OneAnswer ==
  ASSUME HandlersAssumption
  PROVE  Spec => []AnsweredOnce
<1>1. IInv => AnsweredOnce
  BY DEF IInv, Once, Whereabouts, AnsweredOnce
<1> QED BY <1>1, HandlersInvariant, PTL

\* The step that calls the callback of a queue event finds its last wait released and all
\* its handlers called.
LEMMA AnswerStep ==
  ASSUME HandlersAssumption, IInv, [Next]_vars, NEW p \in QueueEvents, answers'[p] # answers[p]
  PROVE  (\A o \in Queue : waiter'[o] # p) /\ rest'[p] = <<>>
<1>1. p \in Posting /\ answers \in [Posting -> Nat]
  BY DEF HandlersAssumption, IInv, Types, TypeOK
<1>2. CASE StartCallback
  <2> DEFINE q == Last(callbacks)
  <2>1. answers' = [answers EXCEPT ![q] = @ + 1] /\ UNCHANGED <<rest, waiter>> /\ callbacks # <<>>
    BY <1>2 DEF StartCallback, Agenda!StartCallback, dispatchVars, taskVars, queueVars
  <2>2. q \in ToSet(callbacks)
    BY <2>1, LastTaken DEF IInv, Types, TypeOK
  <2> HIDE DEF q
  <2>3. p = q
    BY <1>1, <2>1
  <2>4. rest[p] = <<>> /\ task[p] = "none"
    BY <1>1, <2>2, <2>3 DEF IInv, Once, Whereabouts
  <2>5. Released(p)
    BY <2>4 DEF IInv, Tasks, TaskStage
  <2> QED BY <2>1, <2>4, <2>5 DEF Released
<1>3. CASE \E q \in QueueEvents : EndTask(q)
  <2>1. PICK q \in QueueEvents : EndTask(q)
    BY <1>3
  <2>2. answers' = [answers EXCEPT ![q] = @ + 1] /\ UNCHANGED <<rest, waiter>>
    BY <2>1 DEF EndTask, dispatchVars, queueVars
  <2>3. p = q
    BY <1>1, <2>2
  <2>4. rest[p] = <<>> /\ task[p] = "running" /\ active = NoHandler
    BY <2>1, <2>3 DEF EndTask
  <2>5. Released(p)
    BY <2>4 DEF IInv, Tasks, TaskStage
  <2> QED BY <2>2, <2>4, <2>5 DEF Released
<1>4. CASE UNCHANGED answers
  BY <1>4
<1>5. StartCallback \/ (\E q \in QueueEvents : EndTask(q)) \/ UNCHANGED answers
  BY DEF Next, Environment, Loop, Dispatch, RunTask, vars, Post, AddHandler, RemoveHandler, Wait,
         Clear, Stop, StartEvent, EndCallback, SkipHandler, CallHandler, HandlerReturns, EndEvent,
         StartTask, ResumeTask
<1> QED BY <1>2, <1>3, <1>4, <1>5

\* The callback of a queue event comes after all waits are released and all its handlers
\* are called.
THEOREM AnswersWait ==
  ASSUME HandlersAssumption
  PROVE  Spec => AnswerAfterWaits
<1>1. IInv /\ [Next]_vars =>
        [\A p \in QueueEvents :
           answers'[p] # answers[p] =>
             /\ \A o \in Queue : waiter'[o] # p
             /\ rest'[p] = <<>>]_vars
  BY AnswerStep
<1> QED BY <1>1, HandlersInvariant, PTL DEF Spec, AnswerAfterWaits

-------------------------------------------------------------------------------
(* The order of the events.                                                 *)

\* With handlers, tasks and a registry, events are still taken up as EventAgenda has it.
THEOREM FollowsAgenda ==
  ASSUME HandlersAssumption
  PROVE  Spec => Agenda!Spec
<1>1. Init => Agenda!Init
  BY DEF Init
<1>2. ASSUME [Next]_vars PROVE [Agenda!Next]_(Agenda!avars)
  <2>1. CASE UNCHANGED agendaVars
    BY <2>1 DEF agendaVars, Agenda!avars
  <2>2. CASE \E p \in Posting, v \in Value \cup {NoValue}, o \in Queue \cup {NoQueue} :
               Post(p, v, o)
    <3>1. PICK p \in Posting : Agenda!PostIdle(p) \/ Agenda!PostNested(p) \/ UNCHANGED agendaVars
      BY <2>2 DEF Post
    <3> QED BY <2>1, <3>1 DEF Agenda!Next
  <2>3. CASE StartEvent
    BY <2>3 DEF StartEvent, Agenda!Next
  <2>4. CASE StartCallback
    BY <2>4 DEF StartCallback, Agenda!Next
  <2>5. CASE EndCallback \/ \E p \in Posting : EndEvent(p)
    BY <2>5 DEF EndCallback, EndEvent, Agenda!Next
  <2>6. ASSUME NEW p \in Posting, SkipHandler(p) \/ CallHandler(p) \/ HandlerReturns(p)
        PROVE  UNCHANGED agendaVars
    BY <2>6 DEF SkipHandler, CallHandler, HandlerReturns
  <2>7. ASSUME NEW h \in Handler, AddHandler(h) \/ RemoveHandler(h)
        PROVE  UNCHANGED agendaVars
    BY <2>7 DEF AddHandler, RemoveHandler
  <2>8. ASSUME NEW p \in QueueEvents, Wait(p) \/ RunTask(p)
        PROVE  UNCHANGED agendaVars
    BY <2>8 DEF Wait, RunTask, StartTask, ResumeTask, EndTask
  <2>11. ASSUME NEW o \in Queue, Clear(o)
         PROVE  UNCHANGED agendaVars
    BY <2>11 DEF Clear
  <2>9. CASE Stop
    BY <2>1, <2>9 DEF Stop
  <2>10. CASE UNCHANGED vars
    BY <2>1, <2>10 DEF vars
  <2> QED BY <1>2, <2>1, <2>2, <2>3, <2>4, <2>5, <2>6, <2>7, <2>8, <2>9, <2>10, <2>11
          DEF Next, Environment, Loop, Dispatch
<1> QED BY <1>1, <1>2, PTL DEF Spec, Agenda!Spec

===============================================================================
