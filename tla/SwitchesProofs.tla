----------------------------- MODULE SwitchesProofs ----------------------------
(***************************************************************************)
(* Proofs about Switches, for any handlers, times and bounds.               *)
(*                                                                         *)
(* The events of a switch tell its state, also after a window in which it   *)
(* has changed any number of times: Told, in which handlers play no part.   *)
(*                                                                         *)
(* For the handlers there are three layers, each inductive together with    *)
(* those before it.  Shape says how the table of timed calls and the call   *)
(* in progress lie in time, whatever clients do.  Right says what the lists *)
(* contain: registered, the copies that are being gone through, the table.  *)
(* It needs lists without repetitions, as removing a handler shortens the   *)
(* list it enumerates (Deleted).  Promise says where a handler that is due  *)
(* is to be found, and who looks there: CalledRightly and NoneForgotten     *)
(* are the conclusions.                                                     *)
(*                                                                         *)
(* The lemmas XShape, XRight and XPromise are the steps for action X.       *)
(***************************************************************************)
EXTENDS Switches, WellFoundedInduction, TLAPS

(* The events. *)

\* While a window lasts, the last event is the one that has opened it, so that what
\* RecyclePassed compares the state with is what was posted last.
WindowTellsLast == recycle # None /\ ~unheard => posted = recycled

\* A switch without recycle_secs has no windows.
NoWindow == Window = 0 => recycle = None

\* What the events tell.
Told == WindowTellsLast /\ NoWindow /\ EventsMatchState

\* A change posts its event, is muted, or falls into a window.
LEMMA ChangeTells ==
  ASSUME Told, NEW ts, Change(ts)
  PROVE  Told'
<1>1. state' = 1 - state /\ PostEvents(1 - state, ts, muted)
  BY DEF Change
<1>2. CASE muted \/ (Window # 0 /\ recycle # None)
  <2>1. recycle' = recycle /\ recycled' = recycled /\ posted' = posted /\ unheard' = (unheard \/ muted)
    BY <1>1, <1>2 DEF PostEvents
  <2> QED
    BY <1>2, <2>1 DEF Told, WindowTellsLast, NoWindow, EventsMatchState
<1>3. CASE ~(muted \/ (Window # 0 /\ recycle # None))
  <2>1. /\ posted' = state' /\ unheard' = FALSE
        /\ IF Window = 0 THEN recycle' = recycle /\ recycled' = recycled
           ELSE recycled' = state'
    BY <1>1, <1>3 DEF PostEvents
  <2>2. CASE Window # 0
    BY <2>1, <2>2 DEF Told, WindowTellsLast, NoWindow, EventsMatchState
  <2>3. CASE Window = 0
    BY <2>1, <2>3 DEF Told, WindowTellsLast, NoWindow, EventsMatchState
  <2> QED
    BY <2>2, <2>3
<1> QED
  BY <1>2, <1>3

\* Every step keeps it; those that do not touch the device and the window cannot break it.
LEMMA StepTells ==
  ASSUME Told, [Next]_vars
  PROVE  Told'
<1> USE DEF Told, WindowTellsLast, NoWindow, EventsMatchState
<1>1. CASE UNCHANGED <<device, window>> \/ UNCHANGED vars
  BY <1>1 DEF device, window, vars
<1>2. ASSUME NEW h \in Handlers, AddHandler(h) \/ RemoveHandler(h)
      PROVE  UNCHANGED <<device, window>>
  BY <1>2 DEF AddHandler, AddEntry, RemoveHandler, RemoveEntries
<1>3. ASSUME NEW h \in Waiters, Wait(h) \/ CancelWait(h) \/ FutureDone(h)
      PROVE  UNCHANGED <<device, window>>
  BY <1>3 DEF Wait, AddEntry, CancelWait, FutureDone, RemoveEntries
<1>4. ASSUME NEW lag \in 0..MaxLag, Change(now - lag)
      PROVE  Told'
  BY <1>4, ChangeTells
<1>5. CASE CallHandler \/ HandlersCalled \/ CallTimed \/ KeyDone \/ RunEvents \/ TimedDone \/ Tick
  <2>1. UNCHANGED <<device, window>>
    BY <1>5 DEF CallHandler, HandlersCalled, CallTimed, KeyDone, RunEvents, TimedDone, Tick
  <2> QED
    BY <1>1, <2>1
<1>6. ASSUME NEW t, BeginTimed(t) \/ TakeKey(t)
      PROVE  UNCHANGED <<device, window>>
  BY <1>6 DEF BeginTimed, TakeKey
<1>7. CASE RecyclePassed
  BY <1>7 DEF RecyclePassed, device
<1>8. CASE Mute
  BY <1>8 DEF Mute, window
<1> QED
  BY <1>1, <1>2, <1>3, <1>4, <1>5, <1>6, <1>7, <1>8 DEF Next

\* Outside a window, and unless a change was muted, the last event tells the state.
THEOREM EventsMatchStateAlways == Spec => []EventsMatchState
<1>1. Init => Told
  BY DEF Init, Told, WindowTellsLast, NoWindow, EventsMatchState
<1>2. Told /\ [Next]_vars => Told'
  BY StepTells
<1>3. Told => EventsMatchState
  BY DEF Told
<1> QED
  BY <1>1, <1>2, <1>3, PTL DEF Spec

-------------------------------------------------------------------------------
(* Numbers.  There is no smallest counterexample. *)

\* A set of natural numbers has a least element ...
LEMMA LeastElement ==
  ASSUME NEW T, T \subseteq Nat, T # {}
  PROVE  \E x \in T : \A y \in T : x <= y
<1> DEFINE R == {ss \in Nat \X Nat : ss[1] < ss[2]}
<1>0. IsWellFoundedOn(R, Nat)
  BY NatLessThanWellFounded, SMT DEF OpToRel
<1>1. PICK x \in T : \A y \in T : ~ (<<y, x>> \in R)
  <2> HIDE DEF R
  <2> QED BY <1>0, WFMin, Zenon
<1>2. ASSUME NEW y \in T PROVE x <= y
  <2>1. ~ (<<y, x>> \in R)
    BY <1>1
  <2>2. ~ (y < x)
    BY <2>1, SMT
  <2> QED BY <2>2
<1> QED BY <1>1, <1>2

\* ... hence so does a set of integers that is bounded below, and Min finds it.
LEMMA MinOfBounded ==
  ASSUME NEW T, T \subseteq Int, T # {}, NEW low \in Int, \A x \in T : low <= x
  PROVE  Min(T) \in T /\ \A y \in T : Min(T) <= y
<1> DEFINE D == {x - low : x \in T}
<1>1. D \subseteq Nat /\ D # {}
  <2>1. \A x \in T : x - low \in Nat
    OBVIOUS
  <2>2. PICK x \in T : TRUE
    OBVIOUS
  <2> QED BY <2>1, <2>2
<1>2. PICK d \in D : \A e \in D : d <= e
  <2> HIDE DEF D
  <2> QED BY <1>1, LeastElement
<1>3. PICK x \in T : d = x - low
  OBVIOUS
<1>4. ASSUME NEW y \in T PROVE x <= y
  <2>1. d <= y - low
    BY <1>2
  <2> QED BY <2>1, <1>3
<1>5. \E z \in T : \A y \in T : z =< y
  BY <1>4
<1> QED BY <1>5 DEF Min

\* Max finds the greatest of the first n numbers that are in a set.
LEMMA MaxOfUpto ==
  ASSUME NEW n \in Nat, NEW T, T \subseteq 1..n, T # {}
  PROVE  Max(T) \in T /\ \A y \in T : y <= Max(T)
<1> DEFINE D == {n - x : x \in T}
<1>1. D \subseteq Nat /\ D # {}
  <2>1. \A x \in T : n - x \in Nat
    OBVIOUS
  <2>2. PICK x \in T : TRUE
    OBVIOUS
  <2> QED BY <2>1, <2>2
<1>2. PICK d \in D : \A e \in D : d <= e
  <2> HIDE DEF D
  <2> QED BY <1>1, LeastElement
<1>3. PICK x \in T : d = n - x
  OBVIOUS
<1>4. ASSUME NEW y \in T PROVE x >= y
  <2>1. d <= n - y
    BY <1>2
  <2> QED BY <2>1, <1>3
<1>5. \E z \in T : \A y \in T : z >= y
  BY <1>4
<1>6. Max(T) \in T /\ \A y \in T : Max(T) >= y
  BY <1>5 DEF Max
<1> QED BY <1>6

\* Without its greatest member, it is a set of the first n - 1.
LEMMA WithoutMax ==
  ASSUME NEW N \in Nat, NEW n \in Nat, n < N, NEW T, T \subseteq 1..(n + 1), T # {}
  PROVE  T \ {Max(T)} \in SUBSET (1..n) /\ Max(T) \in 1..N
<1> DEFINE m == Max(T)
<1>1. n + 1 \in Nat
  OBVIOUS
<1>2. m \in T /\ \A y \in T : y <= m
  BY <1>1, MaxOfUpto
<1> HIDE DEF m
<1>3. m \in 1..N
  BY <1>2
<1>4. ASSUME NEW y \in T \ {m} PROVE y \in 1..n
  BY <1>2
<1> QED BY <1>3, <1>4 DEF m

\* What holds of 0, and of every successor of what it holds of, holds up to N.
LEMMA Upto ==
  ASSUME NEW N \in Nat, NEW T, 0 \in T, \A n \in Nat : n < N /\ n \in T => n + 1 \in T
  PROVE  \A n \in 0..N : n \in T
<1> DEFINE Bad == {n \in 0..N : n \notin T}
<1>1. SUFFICES ASSUME Bad # {} PROVE FALSE
  OBVIOUS
<1>2. PICK m \in Bad : \A y \in Bad : m <= y
  <2>1. Bad \subseteq Nat
    OBVIOUS
  <2> HIDE DEF Bad
  <2> QED BY <1>1, <2>1, LeastElement
<1>3. m # 0 /\ m \in Nat
  BY <1>2
<1>4. m - 1 \in Nat /\ m - 1 < N /\ m - 1 \notin Bad
  BY <1>2, <1>3
<1>5. (m - 1) + 1 \in T
  BY <1>4
<1> QED BY <1>2, <1>3, <1>5

-------------------------------------------------------------------------------
(* Folding a sequence.  FoldLeft folds the set of the indices and takes the   *)
(* greatest of a set first, so the partial result for the first n indices is  *)
(* that of the step from the first n - 1.                                     *)

\* The result for the indices T, from that without the greatest.
FoldStep(base, G, s, h, T) ==
  IF T = {} THEN base ELSE G[<<h[T \ {Max(T)}], s[Max(T)]>>]

\* The table of the partial results of folding s with the steps G.
Folds(base, G, s, h) == h = [T \in SUBSET (1..Len(s)) |-> FoldStep(base, G, s, h, T)]

\* The table exists: it is built for ever more indices.
LEMMA FoldTableExists ==
  ASSUME NEW A, NEW S, NEW base \in A, NEW G \in [A \X S -> A], NEW s \in Seq(S)
  PROVE  \E h \in [SUBSET (1..Len(s)) -> A] : Folds(base, G, s, h)
<1> DEFINE N == Len(s)
           Ok(n, h) == /\ h \in [SUBSET (1..n) -> A]
                       /\ \A T \in SUBSET (1..n) : h[T] = FoldStep(base, G, s, h, T)
           Good == {n \in Nat : \E h : Ok(n, h)}
<1>0. N \in Nat /\ \A i \in 1..N : s[i] \in S
  OBVIOUS
<1>1. 0 \in Good
  <2> DEFINE h == [T \in SUBSET (1..0) |-> base]
  <2>1. Ok(0, h)
    BY DEF FoldStep
  <2> HIDE DEF h
  <2> QED BY <2>1
<1>2. ASSUME NEW n \in Nat, n < N, n \in Good PROVE n + 1 \in Good
  <2>1. PICK h : Ok(n, h)
    BY <1>2
  <2> DEFINE g == [T \in SUBSET (1..(n + 1)) |-> FoldStep(base, G, s, h, T)]
  <2>2. ASSUME NEW T \in SUBSET (1..(n + 1)), T # {}
        PROVE  T \ {Max(T)} \in SUBSET (1..n) /\ Max(T) \in 1..N
    BY <1>0, <1>2, <2>2, WithoutMax
  <2>3. ASSUME NEW T \in SUBSET (1..(n + 1)) PROVE g[T] \in A
    <3>1. CASE T = {}
      BY <3>1 DEF FoldStep
    <3>2. CASE T # {}
      <4>1. h[T \ {Max(T)}] \in A /\ s[Max(T)] \in S
        BY <3>2, <2>2, <2>1, <1>0
      <4> QED BY <4>1, <3>2 DEF FoldStep
    <3> QED BY <3>1, <3>2
  <2>4. ASSUME NEW T \in SUBSET (1..n) PROVE g[T] = h[T]
    <3>1. T \in SUBSET (1..(n + 1))
      OBVIOUS
    <3> QED BY <3>1, <2>1
  <2>5. ASSUME NEW T \in SUBSET (1..(n + 1)) PROVE g[T] = FoldStep(base, G, s, g, T)
    <3>1. CASE T = {}
      BY <3>1 DEF FoldStep
    <3>2. CASE T # {}
      <4>1. g[T \ {Max(T)}] = h[T \ {Max(T)}]
        BY <3>2, <2>2, <2>4
      <4> HIDE DEF Ok
      <4> QED BY <4>1, <3>2 DEF FoldStep
    <3> QED BY <3>1, <3>2
  <2>6. g \in [SUBSET (1..(n + 1)) -> A]
    <3>1. g = [T \in SUBSET (1..(n + 1)) |-> g[T]]
      OBVIOUS
    <3> HIDE DEF g
    <3> QED BY <3>1, <2>3
  <2>7. \E k : Ok(n + 1, k)
    <3> HIDE DEF g
    <3> QED BY <2>5, <2>6
  <2> HIDE DEF g, Ok
  <2> QED BY <2>7
<1>3. N \in Good
  <2>1. \A n \in Nat : n < N /\ n \in Good => n + 1 \in Good
    BY <1>2
  <2>2. N \in 0..N
    BY <1>0
  <2> HIDE DEF Good, N
  <2> QED BY <1>0, <1>1, <2>1, <2>2, Upto
<1>4. PICK h : Ok(N, h)
  BY <1>3
<1>5. h = [T \in SUBSET (1..N) |-> h[T]]
  BY <1>4
<1>6. h = [T \in SUBSET (1..N) |-> FoldStep(base, G, s, h, T)]
  BY <1>4, <1>5
<1> QED BY <1>4, <1>6 DEF Folds

\* Tables that treat each set alike, given its rest, are the same.
Alike(N, g, h) ==
  /\ g[{}] = h[{}]
  /\ \A T \in SUBSET (1..N) :
       T # {} /\ g[T \ {Max(T)}] = h[T \ {Max(T)}] => g[T] = h[T]

\* By induction over the greatest index.
LEMMA SameTables ==
  ASSUME NEW N \in Nat, NEW g, NEW h, Alike(N, g, h)
  PROVE  \A T \in SUBSET (1..N) : g[T] = h[T]
<1> DEFINE Same == {n \in Nat : n <= N => \A T \in SUBSET (1..n) : g[T] = h[T]}
<1>1. 0 \in Same
  <2>1. \A T \in SUBSET (1..0) : T = {}
    OBVIOUS
  <2> QED BY <2>1 DEF Alike
<1>2. ASSUME NEW n \in Nat, n < N, n \in Same PROVE n + 1 \in Same
  <2> SUFFICES ASSUME NEW T \in SUBSET (1..(n + 1)) PROVE g[T] = h[T]
    BY <1>2
  <2>1. T \in SUBSET (1..N)
    BY <1>2
  <2>2. CASE T = {}
    BY <2>2 DEF Alike
  <2>3. CASE T # {}
    <3>1. T \ {Max(T)} \in SUBSET (1..n)
      BY <1>2, <2>3, WithoutMax
    <3>2. g[T \ {Max(T)}] = h[T \ {Max(T)}]
      BY <3>1, <1>2
    <3> QED BY <3>2, <2>1, <2>3 DEF Alike
  <2> QED BY <2>2, <2>3
<1>3. N \in Same
  <2>1. N \in 0..N
    OBVIOUS
  <2> HIDE DEF Same
  <2> QED BY <1>1, <1>2, <2>1, Upto
<1> QED BY <1>3

\* The partial results p for the first n elements.
Stepwise(A, base, G, s, result, p) ==
  /\ p \in [0..Len(s) -> A]
  /\ p[0] = base /\ p[Len(s)] = result
  /\ \A n \in Nat : n < Len(s) => p[n + 1] = G[<<p[n], s[n + 1]>>]

\* They follow each other as the steps say.
LEMMA FoldsStepwise ==
  ASSUME NEW A, NEW S, NEW base \in A, NEW G \in [A \X S -> A], NEW s \in Seq(S),
         NEW h, Folds(base, G, s, h)
  PROVE  \E p : Stepwise(A, base, G, s, h[DOMAIN s], p)
<1> DEFINE N == Len(s)
           p == [n \in 0..N |-> h[1..n]]
<1>0. N \in Nat /\ DOMAIN s = 1..N /\ \A i \in 1..N : s[i] \in S
  OBVIOUS
<1>a. \A T \in SUBSET (1..N) : h[T] = FoldStep(base, G, s, h, T)
  BY DEF Folds
<1>1. p[0] = base
  <2>1. 1..0 = {} /\ {} \in SUBSET (1..N)
    OBVIOUS
  <2>2. h[{}] = base
    BY <2>1, <1>a DEF FoldStep
  <2> QED BY <1>0, <2>1, <2>2
<1>2. ASSUME NEW n \in Nat, n < N PROVE p[n + 1] = G[<<p[n], s[n + 1]>>]
  <2> DEFINE T == 1..(n + 1)
  <2>1. T \in SUBSET (1..N) /\ T # {} /\ T \subseteq 1..(n + 1) /\ n + 1 \in Nat
    <3>1. n + 1 \in Nat /\ n + 1 \in T
      BY <1>2
    <3> HIDE DEF N
    <3>2. \A i \in T : i \in 1..N
      BY <1>2, <1>0
    <3> HIDE DEF T
    <3>3. T \in SUBSET (1..N) /\ T # {}
      BY <3>1, <3>2
    <3> QED BY <3>1, <3>3 DEF T
  <2>2. Max(T) \in T /\ \A y \in T : y <= Max(T)
    <3> HIDE DEF T
    <3> QED BY <2>1, MaxOfUpto
  <2>3. Max(T) = n + 1
    BY <2>2
  <2>4. T \ {n + 1} = 1..n
    OBVIOUS
  <2>5. h[T] = G[<<h[1..n], s[n + 1]>>]
    <3> HIDE DEF T
    <3> QED BY <2>1, <2>3, <2>4, <1>a DEF FoldStep
  <2>6. p[n + 1] = h[T] /\ p[n] = h[1..n]
    BY <1>2, <1>0
  <2> HIDE DEF p, T
  <2> QED BY <2>5, <2>6
<1>3. p[N] = h[DOMAIN s]
  BY <1>0
<1>4. ASSUME NEW n \in 0..N PROVE p[n] \in A
  <2> DEFINE Typed == {m \in Nat : m <= N => p[m] \in A}
  <2>1. 0 \in Typed
    BY <1>1
  <2>2. ASSUME NEW m \in Nat, m < N, m \in Typed PROVE m + 1 \in Typed
    <3>1. p[m] \in A /\ s[m + 1] \in S
      BY <2>2, <1>0
    <3>2. p[m + 1] = G[<<p[m], s[m + 1]>>]
      BY <1>2, <2>2
    <3> HIDE DEF p
    <3> QED BY <3>1, <3>2
  <2>3. n \in Typed
    <3> HIDE DEF Typed
    <3> QED BY <2>1, <2>2, <1>0, Upto
  <2> QED BY <2>3
<1>5. p \in [0..N -> A]
  <2>1. p = [n \in 0..N |-> p[n]]
    OBVIOUS
  <2> HIDE DEF p
  <2> QED BY <2>1, <1>4
<1> HIDE DEF p
<1>6. Stepwise(A, base, G, s, h[DOMAIN s], p)
  BY <1>1, <1>2, <1>3, <1>5 DEF Stepwise
<1> QED BY <1>6

-------------------------------------------------------------------------------
(* What the lists of handlers contain. *)

\* No member occurs twice.
Distinct(s) == \A i, j \in DOMAIN s : s[i] = s[j] => i = j

\* Appending adds its argument, and stays distinct if that is new.
LEMMA Appended ==
  ASSUME NEW S, NEW s \in Seq(S), NEW x \in S
  PROVE  /\ Append(s, x) \in Seq(S)
         /\ \A e : Contains(Append(s, x), e) <=> Contains(s, e) \/ e = x
         /\ Distinct(s) /\ ~ Contains(s, x) => Distinct(Append(s, x))
<1> DEFINE N == Len(s)
           a == Append(s, x)
<1>1. a \in Seq(S)
  OBVIOUS
<1>2. N \in Nat /\ Len(a) = N + 1 /\ a[N + 1] = x /\ \A i \in 1..N : a[i] = s[i]
  OBVIOUS
<1>3. DOMAIN s = 1..N /\ DOMAIN a = 1..(N + 1)
  OBVIOUS
<1>4. \A i : i \in 1..(N + 1) <=> i \in 1..N \/ i = N + 1
  BY <1>2
<1> HIDE DEF N, a
<1>5. ASSUME NEW e PROVE Contains(a, e) <=> Contains(s, e) \/ e = x
  BY <1>2, <1>4 DEF Contains, N
<1>6. ASSUME Distinct(s), ~ Contains(s, x) PROVE Distinct(a)
  <2>1. \A i \in 1..N : s[i] # x
    BY <1>6 DEF Contains, N
  <2>2. \A i, j \in 1..N : s[i] = s[j] => i = j
    BY <1>6, <1>3 DEF Distinct
  <2>3. \A i, j \in 1..(N + 1) : a[i] = a[j] => i = j
    BY <2>1, <2>2, <1>2, <1>4
  <2> QED BY <2>3, <1>3 DEF Distinct
<1> QED BY <1>1, <1>5, <1>6 DEF a

\* The head and the tail of a list.
LEMMA Split ==
  ASSUME NEW S, NEW s \in Seq(S), s # <<>>
  PROVE  /\ Head(s) \in S /\ Tail(s) \in Seq(S)
         /\ \A e : Contains(s, e) <=> e = Head(s) \/ Contains(Tail(s), e)
         /\ Distinct(s) => Distinct(Tail(s)) /\ ~ Contains(Tail(s), Head(s))
<1> DEFINE N == Len(s)
           t == Tail(s)
<1>1. Head(s) \in S /\ t \in Seq(S) /\ N \in Nat \ {0} /\ Head(s) = s[1]
  OBVIOUS
<1>2. Len(t) = N - 1 /\ \A i \in 1..(N - 1) : t[i] = s[i + 1]
  OBVIOUS
<1>3. DOMAIN s = 1..N /\ DOMAIN t = 1..(N - 1)
  BY <1>1, <1>2
<1>a. DOMAIN t = 1..Len(t)
  BY <1>1
<1> HIDE DEF N, t
<1>4. /\ \A i \in 1..(N - 1) : i + 1 \in 1..N /\ i + 1 # 1
      /\ \A i \in 1..N : i = 1 \/ (i - 1 \in 1..(N - 1) /\ (i - 1) + 1 = i)
      /\ 1 \in 1..N
      /\ \A i, j \in 1..(N - 1) : i + 1 = j + 1 => i = j
  BY <1>1
<1>5. ASSUME NEW e PROVE Contains(s, e) <=> e = Head(s) \/ Contains(t, e)
  <2>1. Contains(s, e) <=> \E i \in 1..N : s[i] = e
    BY DEF Contains, N
  <2>2. Contains(t, e) <=> \E i \in 1..(N - 1) : t[i] = e
    BY <1>3, <1>a DEF Contains
  <2>3. ASSUME Contains(s, e) PROVE e = Head(s) \/ Contains(t, e)
    <3>1. PICK i \in 1..N : s[i] = e
      BY <2>1, <2>3
    <3>2. CASE i = 1
      BY <3>1, <3>2, <1>1
    <3>3. CASE i # 1
      <4>1. i - 1 \in 1..(N - 1) /\ t[i - 1] = s[(i - 1) + 1] /\ (i - 1) + 1 = i
        BY <3>3, <1>4, <1>2
      <4> QED BY <4>1, <3>1, <2>2
    <3> QED BY <3>2, <3>3
  <2>4. ASSUME Contains(t, e) PROVE Contains(s, e)
    BY <2>4, <2>1, <2>2, <1>2, <1>4
  <2>5. ASSUME e = Head(s) PROVE Contains(s, e)
    BY <2>5, <2>1, <1>1, <1>4
  <2> QED BY <2>3, <2>4, <2>5
<1>6. ASSUME Distinct(s) PROVE Distinct(t) /\ ~ Contains(t, Head(s))
  <2>1. \A i, j \in 1..N : s[i] = s[j] => i = j
    BY <1>6, <1>3 DEF Distinct
  <2>2. \A i, j \in 1..(N - 1) : t[i] = t[j] => i = j
    BY <2>1, <1>2, <1>4
  <2>3. \A i \in 1..(N - 1) : t[i] # s[1]
    BY <2>1, <1>2, <1>4
  <2> QED BY <2>2, <2>3, <1>1, <1>3, <1>a DEF Distinct, Contains
<1> QED BY <1>1, <1>5, <1>6 DEF t

\* The empty list.
LEMMA EmptyList == ASSUME NEW S
                   PROVE <<>> \in Seq(S) /\ Distinct(<<>>) /\ \A e : ~ Contains(<<>>, e)
BY DEF Distinct, Contains

\* Every member of a list has the type of its members.
LEMMA MemberTyped == ASSUME NEW S, NEW s \in Seq(S), NEW e, Contains(s, e) PROVE e \in S
BY DEF Contains

\* One step of Kept.
KeepStep(S, T) == [x \in Seq(S) \X S |-> IF x[2] \in T THEN Append(x[1], x[2]) ELSE x[1]]

\* q is what has been kept of the first n elements.
KeptUpto(s, T, n, q) ==
  /\ \A e : Contains(q, e) <=> e \in T /\ \E j \in 1..n : s[j] = e
  /\ Distinct(s) => Distinct(q)

\* A step makes a list from a list.
LEMMA KeepStepType ==
  ASSUME NEW S, NEW T PROVE KeepStep(S, T) \in [Seq(S) \X S -> Seq(S)]
<1>1. \A q \in Seq(S), x \in S : Append(q, x) \in Seq(S)
  OBVIOUS
<1> QED BY <1>1 DEF KeepStep

\* A step keeps the next element, if it is in T.
LEMMA KeepStepKeeps ==
  ASSUME NEW S, NEW T, NEW s \in Seq(S), NEW n \in Nat, n < Len(s),
         NEW q \in Seq(S), KeptUpto(s, T, n, q)
  PROVE  KeptUpto(s, T, n + 1, KeepStep(S, T)[<<q, s[n + 1]>>])
<1> DEFINE x == s[n + 1]
           r == KeepStep(S, T)[<<q, x>>]
<1>0. n + 1 \in 1..Len(s) /\ x \in S /\ DOMAIN s = 1..Len(s)
  OBVIOUS
<1>1. <<q, x>> \in Seq(S) \X S /\ r = IF x \in T THEN Append(q, x) ELSE q
  BY <1>0 DEF KeepStep
<1>2. ASSUME NEW e PROVE (\E j \in 1..(n + 1) : s[j] = e) <=> (\E j \in 1..n : s[j] = e) \/ e = x
  OBVIOUS
<1>3. \A e : Contains(q, e) <=> e \in T /\ \E j \in 1..n : s[j] = e
  BY DEF KeptUpto
<1>4. ASSUME Distinct(s) PROVE ~ Contains(q, x)
  BY <1>4, <1>3, <1>0 DEF Distinct
<1> HIDE DEF x, r
<1>5. CASE x \in T
  <2>1. \A e : Contains(r, e) <=> Contains(q, e) \/ e = x
    BY <1>5, <1>1, <1>0, Appended
  <2>2. Distinct(s) => Distinct(r)
    BY <1>5, <1>1, <1>0, <1>4, Appended DEF KeptUpto
  <2>3. \A e : Contains(r, e) <=> e \in T /\ \E j \in 1..(n + 1) : s[j] = e
    BY <2>1, <1>2, <1>3, <1>5
  <2> QED BY <2>2, <2>3 DEF KeptUpto, r, x
<1>6. CASE x \notin T
  <2>1. r = q
    BY <1>1, <1>6
  <2>2. \A e : Contains(r, e) <=> e \in T /\ \E j \in 1..(n + 1) : s[j] = e
    BY <2>1, <1>2, <1>3, <1>6
  <2> QED BY <2>1, <2>2 DEF KeptUpto, r, x
<1> QED BY <1>5, <1>6

\* Kept is a fold of these steps.
LEMMA KeptIsFold ==
  ASSUME NEW S, NEW T, NEW s \in Seq(S)
  PROVE  \E h : Folds(<<>>, KeepStep(S, T), s, h) /\ Kept(s, T) = h[DOMAIN s]
<1> DEFINE G == KeepStep(S, T)
           F == SUBSET DOMAIN s
           Step(h, ss) == IF ss = {} THEN <<>>
                          ELSE IF s[Max(ss)] \in T THEN Append(h[ss \ {Max(ss)}], s[Max(ss)])
                               ELSE h[ss \ {Max(ss)}]
           Solves(h) == h = [ss \in F |-> Step(h, ss)]
           it == CHOOSE h : Solves(h)
<1>1. Kept(s, T) = it[DOMAIN s]
  BY DEF Kept, FoldLeft, MapThenFoldSet
<1>2. DOMAIN s = 1..Len(s) /\ Len(s) \in Nat /\ <<>> \in Seq(S)
  OBVIOUS
<1>3. G \in [Seq(S) \X S -> Seq(S)]
  BY KeepStepType
<1>4. ASSUME NEW h \in [F -> Seq(S)], NEW ss \in F
      PROVE  Step(h, ss) = FoldStep(<<>>, G, s, h, ss)
  <2>1. CASE ss = {}
    BY <2>1 DEF FoldStep
  <2>2. CASE ss # {}
    <3>1. Max(ss) \in ss
      BY <2>2, <1>2, MaxOfUpto
    <3> DEFINE x == s[Max(ss)]
               q == h[ss \ {Max(ss)}]
    <3>2. x \in S /\ q \in Seq(S)
      BY <3>1, <1>2
    <3> HIDE DEF x, q
    <3>3. G[<<q, x>>] = IF x \in T THEN Append(q, x) ELSE q
      BY <3>2 DEF KeepStep
    <3> QED BY <3>3, <2>2 DEF FoldStep, x, q
  <2> QED BY <2>1, <2>2
<1>5. PICK h \in [F -> Seq(S)] : Folds(<<>>, G, s, h)
  <2> HIDE DEF G
  <2> QED BY <1>2, <1>3, FoldTableExists
<1>6. Solves(h)
  <2> HIDE DEF Step, G
  <2> QED BY <1>4, <1>5, <1>2 DEF Folds
<1>7. Solves(it)
  <2> HIDE DEF Solves
  <2> QED BY <1>6
<1>8. it = h
  <2>1. \A ss \in F : it[ss] = Step(it, ss) /\ h[ss] = Step(h, ss)
    <3> HIDE DEF Step, it
    <3> QED BY <1>6, <1>7
  <2>2. {} \in SUBSET (1..Len(s)) /\ it[{}] = h[{}]
    BY <2>1, <1>2
  <2>3. ASSUME NEW ss \in SUBSET (1..Len(s)), ss # {}, it[ss \ {Max(ss)}] = h[ss \ {Max(ss)}]
        PROVE  it[ss] = h[ss]
    BY <2>1, <2>3, <1>2
  <2> HIDE DEF it, Step
  <2>4. Alike(Len(s), it, h)
    BY <2>2, <2>3, Zenon DEF Alike
  <2>5. \A ss \in SUBSET (1..Len(s)) : it[ss] = h[ss]
    <3> DEFINE N == Len(s)
    <3>1. N \in Nat
      BY <1>2
    <3> HIDE DEF N
    <3>2. \A ss \in SUBSET (1..N) : it[ss] = h[ss]
      BY <2>4, <3>1, SameTables DEF N
    <3> QED BY <3>2 DEF N
  <2>6. it = [ss \in F |-> it[ss]] /\ h = [ss \in F |-> h[ss]]
    <3> HIDE DEF Step
    <3> QED BY <1>6, <1>7
  <2> QED BY <2>5, <2>6, <1>2
<1> HIDE DEF it, G
<1> QED BY <1>1, <1>5, <1>8 DEF G

\* What Kept does.
LEMMA KeptHas ==
  ASSUME NEW S, NEW T, NEW s \in Seq(S)
  PROVE  /\ Kept(s, T) \in Seq(S)
         /\ \A e : Contains(Kept(s, T), e) <=> Contains(s, e) /\ e \in T
         /\ Distinct(s) => Distinct(Kept(s, T))
<1> DEFINE G == KeepStep(S, T)
<1>1. PICK h : Folds(<<>>, G, s, h) /\ Kept(s, T) = h[DOMAIN s]
  BY KeptIsFold
<1>2. G \in [Seq(S) \X S -> Seq(S)] /\ <<>> \in Seq(S)
  BY KeepStepType, EmptyList
<1> HIDE DEF G
<1>3. PICK p : Stepwise(Seq(S), <<>>, G, s, Kept(s, T), p)
  <2>1. G \in [Seq(S) \X S -> Seq(S)]
    BY <1>2
  <2>2. <<>> \in Seq(S)
    BY <1>2
  <2>3. Folds(<<>>, G, s, h)
    BY <1>1
  <2>4. \E p : Stepwise(Seq(S), <<>>, G, s, h[DOMAIN s], p)
    BY <2>1, <2>2, <2>3, FoldsStepwise, Zenon
  <2> QED BY <2>4, <1>1, Zenon
<1>a. /\ p \in [0..Len(s) -> Seq(S)] /\ p[0] = <<>> /\ p[Len(s)] = Kept(s, T)
      /\ \A n \in Nat : n < Len(s) => p[n + 1] = G[<<p[n], s[n + 1]>>]
  BY <1>3 DEF Stepwise
<1> DEFINE Good == {n \in Nat : n <= Len(s) => KeptUpto(s, T, n, p[n])}
<1>4. 0 \in Good
  BY <1>a, EmptyList DEF KeptUpto
<1>5. ASSUME NEW n \in Nat, n < Len(s), n \in Good PROVE n + 1 \in Good
  <2>1. p[n] \in Seq(S) /\ KeptUpto(s, T, n, p[n])
    BY <1>a, <1>5
  <2>2. KeptUpto(s, T, n + 1, G[<<p[n], s[n + 1]>>])
    BY <2>1, <1>5, KeepStepKeeps DEF G
  <2> QED BY <2>2, <1>a, <1>5
<1>6. Len(s) \in Nat /\ Len(s) \in 0..Len(s)
  OBVIOUS
<1>7. Len(s) \in Good
  <2> HIDE DEF Good
  <2> QED BY <1>4, <1>5, <1>6, Upto
<1>8. KeptUpto(s, T, Len(s), Kept(s, T)) /\ Kept(s, T) \in Seq(S)
  BY <1>7, <1>6, <1>a, <1>a
<1> QED BY <1>8 DEF KeptUpto, Contains

-------------------------------------------------------------------------------
\* One step of Deleted.  The element behind a
\* deleted one is kept unseen; a list without repetitions has no second h there.
DeleteStep(S, h) ==
  [x \in [kept : Seq(S), skip : BOOLEAN] \X S |->
     IF x[2] = h /\ ~x[1].skip THEN [kept |-> x[1].kept, skip |-> TRUE]
     ELSE [kept |-> Append(x[1].kept, x[2]), skip |-> FALSE]]

\* q is what has been kept of the first n elements.
DeletedUpto(s, h, n, q) ==
  Distinct(s) =>
    /\ q.skip => n # 0 /\ s[n] = h
    /\ \A e : Contains(q.kept, e) <=> e # h /\ \E j \in 1..n : s[j] = e
    /\ Distinct(q.kept)

\* A step makes such a record from one.
LEMMA DeleteStepType ==
  ASSUME NEW S, NEW h
  PROVE  DeleteStep(S, h) \in [[kept : Seq(S), skip : BOOLEAN] \X S -> [kept : Seq(S), skip : BOOLEAN]]
<1>1. \A q \in Seq(S), x \in S : Append(q, x) \in Seq(S)
  OBVIOUS
<1> QED BY <1>1 DEF DeleteStep

\* A step keeps the next element, if it is not h.
LEMMA DeleteStepDeletes ==
  ASSUME NEW S, NEW h, NEW s \in Seq(S), NEW n \in Nat, n < Len(s),
         NEW q \in [kept : Seq(S), skip : BOOLEAN], DeletedUpto(s, h, n, q)
  PROVE  DeletedUpto(s, h, n + 1, DeleteStep(S, h)[<<q, s[n + 1]>>])
<1> DEFINE x == s[n + 1]
           r == DeleteStep(S, h)[<<q, x>>]
<1>0. /\ n + 1 \in 1..Len(s) /\ x \in S /\ DOMAIN s = 1..Len(s) /\ q.kept \in Seq(S)
      /\ n + 1 # 0 /\ (n # 0 => n \in 1..Len(s) /\ n # n + 1)
  OBVIOUS
<1>1. r = IF x = h /\ ~q.skip THEN [kept |-> q.kept, skip |-> TRUE]
          ELSE [kept |-> Append(q.kept, x), skip |-> FALSE]
  BY <1>0 DEF DeleteStep
<1>2. ASSUME NEW e PROVE (\E j \in 1..(n + 1) : s[j] = e) <=> (\E j \in 1..n : s[j] = e) \/ e = x
  OBVIOUS
<1> SUFFICES ASSUME Distinct(s)
             PROVE  /\ r.skip => n + 1 # 0 /\ s[n + 1] = h
                    /\ \A e : Contains(r.kept, e) <=> e # h /\ \E j \in 1..(n + 1) : s[j] = e
                    /\ Distinct(r.kept)
  BY DEF DeletedUpto
<1>3. /\ q.skip => n # 0 /\ s[n] = h
      /\ \A e : Contains(q.kept, e) <=> e # h /\ \E j \in 1..n : s[j] = e
      /\ Distinct(q.kept)
  BY DEF DeletedUpto
<1>4. ~ Contains(q.kept, x)
  BY <1>3, <1>0 DEF Distinct
<1>5. x = h => ~q.skip
  BY <1>3, <1>0 DEF Distinct
<1>x. x = s[n + 1]
  OBVIOUS
<1> HIDE DEF x, r
<1>6. CASE x = h
  <2>1. r.kept = q.kept /\ r.skip = TRUE
    BY <1>1, <1>5, <1>6
  <2> QED BY <2>1, <1>0, <1>2, <1>3, <1>6, <1>x
<1>7. CASE x # h
  <2>1. r.kept = Append(q.kept, x) /\ r.skip = FALSE
    BY <1>1, <1>7
  <2>2. \A e : Contains(r.kept, e) <=> Contains(q.kept, e) \/ e = x
    BY <2>1, <1>0, Appended
  <2>3. Distinct(r.kept)
    BY <2>1, <1>0, <1>3, <1>4, Appended
  <2> QED BY <2>1, <2>2, <2>3, <1>2, <1>3, <1>7
<1> QED BY <1>6, <1>7
\* Deleted is a fold of these steps.
LEMMA DeletedIsFold ==
  ASSUME NEW S, NEW g, NEW s \in Seq(S)
  PROVE  \E h : /\ Folds([kept |-> <<>>, skip |-> FALSE], DeleteStep(S, g), s, h)
               /\ Deleted(s, g) = h[DOMAIN s].kept
<1> DEFINE A == [kept : Seq(S), skip : BOOLEAN]
           base == [kept |-> <<>>, skip |-> FALSE]
           G == DeleteStep(S, g)
           F == SUBSET DOMAIN s
           Step(h, ss) == IF ss = {} THEN base
                          ELSE IF s[Max(ss)] = g /\ ~h[ss \ {Max(ss)}].skip
                               THEN [kept |-> h[ss \ {Max(ss)}].kept, skip |-> TRUE]
                               ELSE [kept |-> Append(h[ss \ {Max(ss)}].kept, s[Max(ss)]),
                                     skip |-> FALSE]
           Solves(h) == h = [ss \in F |-> Step(h, ss)]
           it == CHOOSE h : Solves(h)
<1>1. Deleted(s, g) = it[DOMAIN s].kept
  BY DEF Deleted, FoldLeft, MapThenFoldSet
<1>2. DOMAIN s = 1..Len(s) /\ Len(s) \in Nat /\ base \in A
  BY EmptyList
<1>3. G \in [A \X S -> A]
  BY DeleteStepType
<1>4. ASSUME NEW h \in [F -> A], NEW ss \in F
      PROVE  Step(h, ss) = FoldStep(base, G, s, h, ss)
  <2>1. CASE ss = {}
    BY <2>1 DEF FoldStep
  <2>2. CASE ss # {}
    <3>1. Max(ss) \in ss
      BY <2>2, <1>2, MaxOfUpto
    <3> DEFINE x == s[Max(ss)]
               q == h[ss \ {Max(ss)}]
    <3>2. x \in S /\ q \in A
      BY <3>1, <1>2
    <3> HIDE DEF x, q
    <3>3. G[<<q, x>>] = IF x = g /\ ~q.skip THEN [kept |-> q.kept, skip |-> TRUE]
                        ELSE [kept |-> Append(q.kept, x), skip |-> FALSE]
      BY <3>2 DEF DeleteStep
    <3> QED BY <3>3, <2>2 DEF FoldStep, x, q
  <2> QED BY <2>1, <2>2
<1>5. PICK h \in [F -> A] : Folds(base, G, s, h)
  <2> HIDE DEF G, A, base
  <2> QED BY <1>2, <1>3, FoldTableExists
<1>6. Solves(h)
  <2> HIDE DEF Step, G
  <2> QED BY <1>4, <1>5, <1>2 DEF Folds
<1>7. Solves(it)
  <2> HIDE DEF Solves
  <2> QED BY <1>6
<1>8. it = h
  <2>1. \A ss \in F : it[ss] = Step(it, ss) /\ h[ss] = Step(h, ss)
    <3> HIDE DEF Step, it
    <3> QED BY <1>6, <1>7
  <2>2. {} \in SUBSET (1..Len(s)) /\ it[{}] = h[{}]
    BY <2>1, <1>2
  <2>3. ASSUME NEW ss \in SUBSET (1..Len(s)), ss # {}, it[ss \ {Max(ss)}] = h[ss \ {Max(ss)}]
        PROVE  it[ss] = h[ss]
    <3>1. ss \in F
      BY <1>2
    <3>2. Step(h, ss) = Step(it, ss)
      BY <2>3, Zenon
    <3> HIDE DEF Step
    <3> QED BY <3>1, <3>2, <2>1
  <2> HIDE DEF it, Step
  <2>4. Alike(Len(s), it, h)
    BY <2>2, <2>3, Zenon DEF Alike
  <2>5. \A ss \in SUBSET (1..Len(s)) : it[ss] = h[ss]
    <3> DEFINE N == Len(s)
    <3>1. N \in Nat
      BY <1>2
    <3> HIDE DEF N
    <3>2. \A ss \in SUBSET (1..N) : it[ss] = h[ss]
      BY <2>4, <3>1, SameTables DEF N
    <3> QED BY <3>2 DEF N
  <2>6. it = [ss \in F |-> it[ss]] /\ h = [ss \in F |-> h[ss]]
    <3> HIDE DEF Step
    <3> QED BY <1>6, <1>7
  <2> QED BY <2>5, <2>6, <1>2
<1> HIDE DEF it, G
<1> QED BY <1>1, <1>5, <1>8 DEF G

\* What Deleted does: whatever the list, the result is one; without repetitions in it,
\* exactly h is gone.
LEMMA DeletedHas ==
  ASSUME NEW S, NEW g, NEW s \in Seq(S)
  PROVE  /\ Deleted(s, g) \in Seq(S)
         /\ Distinct(s) => /\ \A e : Contains(Deleted(s, g), e) <=> Contains(s, e) /\ e # g
                           /\ Distinct(Deleted(s, g))
<1> DEFINE A == [kept : Seq(S), skip : BOOLEAN]
           base == [kept |-> <<>>, skip |-> FALSE]
           G == DeleteStep(S, g)
<1>1. PICK h : Folds(base, G, s, h) /\ Deleted(s, g) = h[DOMAIN s].kept
  BY DeletedIsFold
<1>2. G \in [A \X S -> A] /\ base \in A /\ base.kept = <<>> /\ base.skip = FALSE
  BY DeleteStepType, EmptyList
<1>b. \A q \in A : q.kept \in Seq(S)
  OBVIOUS
<1> HIDE DEF G, base
<1>3. PICK p : Stepwise(A, base, G, s, h[DOMAIN s], p)
  <2> HIDE DEF A
  <2>1. G \in [A \X S -> A]
    BY <1>2
  <2>2. base \in A
    BY <1>2
  <2>3. Folds(base, G, s, h)
    BY <1>1
  <2> QED BY <2>1, <2>2, <2>3, FoldsStepwise, Zenon
<1> HIDE DEF A
<1>4. /\ p \in [0..Len(s) -> A] /\ p[0] = base /\ p[Len(s)].kept = Deleted(s, g)
      /\ \A n \in Nat : n < Len(s) => p[n + 1] = G[<<p[n], s[n + 1]>>]
  BY <1>1, <1>3 DEF Stepwise
<1> DEFINE Good == {n \in Nat : n <= Len(s) => DeletedUpto(s, g, n, p[n])}
<1>5. 0 \in Good
  <2>1. DeletedUpto(s, g, 0, base)
    BY <1>2, EmptyList DEF DeletedUpto
  <2> QED BY <1>4, <2>1
<1>6. ASSUME NEW n \in Nat, n < Len(s), n \in Good PROVE n + 1 \in Good
  <2>1. p[n] \in A /\ DeletedUpto(s, g, n, p[n])
    BY <1>4, <1>6
  <2>2. DeletedUpto(s, g, n + 1, G[<<p[n], s[n + 1]>>])
    BY <2>1, <1>6, DeleteStepDeletes DEF G, A
  <2> QED BY <2>2, <1>4, <1>6
<1>7. Len(s) \in Nat /\ Len(s) \in 0..Len(s)
  OBVIOUS
<1>8. Len(s) \in Good
  <2> HIDE DEF Good
  <2> QED BY <1>5, <1>6, <1>7, Upto
<1>9. DeletedUpto(s, g, Len(s), p[Len(s)]) /\ p[Len(s)] \in A
  BY <1>8, <1>7, <1>4
<1> QED BY <1>9, <1>4, <1>b DEF DeletedUpto, Contains

-------------------------------------------------------------------------------
(* The inductive invariants. *)

\* When a handler is called if the switch stays as it is.
Moment(h) == last_change + Ms[h]

\* The clock and the device.
Types ==
  /\ now \in 0..MaxTime
  /\ state \in 0..1 /\ muted \in BOOLEAN /\ recycled \in 0..1
  /\ last_change \in {Never} \cup -MaxLag..MaxTime /\ Never <= last_change /\ last_change <= now
  /\ recycle \in {None} \cup (Window - MaxLag)..(Window + MaxTime)
  /\ future \in [Waiters -> {"none", "pending", "done"}]
  /\ registered \in Seq(Handlers) /\ calling \in Seq(Handlers)

\* The table of timed calls: every time in it is that of some handler since the last
\* change, and a switch that is not active has nothing in it.
Timetable ==
  /\ active \in BOOLEAN
  /\ ~active => DOMAIN timed = {} /\ delay = None
  /\ \A k \in DOMAIN timed : timed[k] \in Seq(Handlers) /\ \E h \in Handlers : k = Moment(h)
  /\ delay # None => \E h \in Handlers : delay = Moment(h)

\* The call in progress: the times it still has to look at, the one it is at, and the
\* next one it has found are different entries of the table.
Progress ==
  /\ pc \in {"idle", "handlers", "timed", "events"}
  /\ keys \subseteq DOMAIN timed
  /\ key # None => key \in DOMAIN timed /\ key \notin keys /\ key <= now
  /\ next_event_time # None => next_event_time \in DOMAIN timed /\ next_event_time > now
  /\ pc # "timed" => keys = {} /\ key = None
  /\ pc \in {"idle", "handlers"} => next_event_time = None
  /\ pc \in {"handlers", "timed"} \/ calling = <<>>
  /\ pc = "timed" /\ key = None => calling = <<>>

\* In what order the times lie.
Shape == Types /\ Timetable /\ Progress

\* The handlers that are registered are those that are wanted, each once.
Registration ==
  /\ wanted \subseteq Handlers
  /\ Distinct(registered)
  /\ \A h \in Handlers : Contains(registered, h) <=> h \in wanted

\* Handlers in the table are wanted, ask for the state the switch is in, and stand at
\* their time.
Entries ==
  \A k \in DOMAIN timed :
    /\ Distinct(timed[k])
    /\ \A h \in Handlers : Contains(timed[k], h) =>
         h \in wanted /\ HState[h] = state /\ Ms[h] # 0 /\ k = Moment(h)

\* Handlers still to be looked at after a change are wanted, ask for the state the
\* switch is in, and are not in the table.
Calls ==
  /\ Distinct(calling)
  /\ pc = "handlers" => \A h \in Handlers : Contains(calling, h) =>
       /\ h \in wanted /\ HState[h] = state
       /\ \A k \in DOMAIN timed : ~ Contains(timed[k], h)

\* What the lists contain.
Right == Registration /\ Entries /\ Calls /\ rightly = TRUE

\* Handlers that are still to be called have not been called: those of the copied list,
\* and those of the table but for the ones that TakeKey's copy is past.
Uncalled ==
  /\ called \in [Handlers -> 0..1]
  /\ pc = "handlers" => \A h \in Handlers : Contains(calling, h) => called[h] = 0
  /\ \A k \in DOMAIN timed, h \in Handlers :
       Contains(timed[k], h) /\ (k = key => Contains(calling, h)) => called[h] = 0

\* A handler that is due has been called, is in the table at its time, or is still to be
\* looked at.
Owed ==
  /\ due \in [Handlers -> Int]
  /\ \A h \in Handlers : due[h] # None =>
       /\ h \in wanted /\ HState[h] = state /\ due[h] = Moment(h)
       /\ \/ called[h] = 1
          \/ pc = "handlers" /\ Contains(calling, h)
          \/ /\ due[h] \in DOMAIN timed /\ Contains(timed[due[h]], h)
             /\ due[h] = key => Contains(calling, h)

\* Somebody looks at every time of the table: the scheduled call, or the one in progress,
\* now or by scheduling the next.
Awaited(k) ==
  \/ delay # None /\ delay <= k
  \/ k = key \/ k \in keys
  \/ next_event_time # None /\ next_event_time <= k

\* Handlers that are added while a scheduled call is in progress only schedule another
\* one when that call will schedule none.
Scheduling ==
  /\ ~failed /\ stray = {}
  /\ \A k \in DOMAIN timed : Awaited(k)
  /\ pc \in {"timed", "events"} /\ delay # None =>
       next_event_time = None /\ \A k \in keys : k <= now

\* Where what is due is, and who looks there.
Promise == Uncalled /\ Owed /\ Scheduling
-------------------------------------------------------------------------------
(* The table of timed calls. *)

\* What entering h at its time does to the table.
Entered(h) ==
  /\ active' = TRUE
  /\ DOMAIN timed' = DOMAIN timed \cup {Moment(h)}
  /\ \A k \in DOMAIN timed' :
       /\ timed'[k] \in Seq(Handlers)
       /\ \A e \in Handlers : Contains(timed'[k], e) <=>
            (k \in DOMAIN timed /\ Contains(timed[k], e)) \/ (k = Moment(h) /\ e = h)
       /\ (k \in DOMAIN timed => Distinct(timed[k]) /\ (k = Moment(h) => ~ Contains(timed[k], h)))
            => Distinct(timed'[k])
  /\ delay' \in {delay} \cup DOMAIN timed'
  /\ delay' # None /\ \A k \in DOMAIN timed' : delay' <= k

\* These are numbers, and no moment is earlier than any time of the clock.
LEMMA MomentType ==
  ASSUME Types, NEW h \in Handlers
  PROVE  /\ last_change \in Int /\ now \in Int /\ Ms[h] \in Nat
         /\ Moment(h) \in Int /\ Moment(h) >= last_change /\ Moment(h) >= Never
<1>1. Ms[h] \in Nat /\ MaxLag \in Nat /\ MaxTime \in Nat
  BY SwitchAssumption
<1> QED BY <1>1 DEF Types, Moment, Never

\* Concatenation with one element or none.
LEMMA Joined ==
  ASSUME NEW S, NEW s \in Seq(S), NEW x \in S
  PROVE  s \o <<>> = s /\ s \o <<x>> = Append(s, x) /\ <<>> \o <<x>> = Append(<<>>, x)
OBVIOUS

\* AddTimed enters a handler, and schedules a call that is not later than any time.
LEMMA AddTimedEnters ==
  ASSUME Types, Timetable, NEW h \in Handlers,
         SetTable(AddTimed(Table, Moment(h), h))
  PROVE  Entered(h)
<1> DEFINE time == Moment(h)
           old(k) == IF k \in DOMAIN timed THEN timed[k] ELSE <<>>
           entry == IF ~active THEN [k \in {time} |-> <<h>>]
                    ELSE [k \in DOMAIN timed \cup {time} |->
                            old(k) \o (IF k = time THEN <<h>> ELSE <<>>)]
           first == Min(DOMAIN entry)
<1>1. /\ active' = TRUE /\ timed' = entry
      /\ delay' = IF delay = None \/ first < delay THEN first ELSE delay
  BY DEF SetTable, AddTimed, Table
<1>2. DOMAIN timed' = DOMAIN timed \cup {time}
  BY <1>1 DEF Timetable
<1>3. ASSUME NEW k \in DOMAIN timed'
      PROVE  timed'[k] = IF k = time THEN Append(old(k), h) ELSE old(k)
  <2>1. old(k) \in Seq(Handlers) /\ (k # time => k \in DOMAIN timed)
    BY <1>2, <1>3, EmptyList DEF Timetable
  <2> HIDE DEF time
  <2>2. CASE ~active
    <3>1. k = time /\ timed'[k] = <<h>> /\ k \notin DOMAIN timed
      BY <1>1, <1>3, <2>2 DEF Timetable
    <3> QED BY <3>1
  <2>3. CASE active
    <3>1. k \in DOMAIN timed \cup {time}
      BY <1>2, <1>3 DEF time
    <3>2. timed'[k] = old(k) \o (IF k = time THEN <<h>> ELSE <<>>)
      <4> HIDE DEF old
      <4> QED BY <1>1, <2>3, <3>1
    <3> HIDE DEF old
    <3> QED BY <3>2, <2>1, Joined
  <2> QED BY <2>2, <2>3 DEF Timetable
<1>4. ASSUME NEW k \in DOMAIN timed'
      PROVE  /\ old(k) \in Seq(Handlers)
             /\ \A e : Contains(old(k), e) <=> k \in DOMAIN timed /\ Contains(timed[k], e)
             /\ Distinct(old(k)) <=> (k \in DOMAIN timed => Distinct(timed[k]))
             /\ k # time => k \in DOMAIN timed
  <2>1. CASE k \in DOMAIN timed
    BY <2>1 DEF Timetable
  <2>2. CASE k \notin DOMAIN timed
    <3>1. old(k) = <<>> /\ k = time
      BY <2>2, <1>2, <1>4
    <3> HIDE DEF old
    <3> QED BY <3>1, <2>2, EmptyList
  <2> QED BY <2>1, <2>2
<1>5. ASSUME NEW k \in DOMAIN timed'
      PROVE  /\ timed'[k] \in Seq(Handlers)
             /\ \A e \in Handlers : Contains(timed'[k], e) <=>
                  (k \in DOMAIN timed /\ Contains(timed[k], e)) \/ (k = time /\ e = h)
             /\ (k \in DOMAIN timed => Distinct(timed[k]) /\ (k = time => ~ Contains(timed[k], h)))
                  => Distinct(timed'[k])
  <2> DEFINE o == old(k)
  <2>1. timed'[k] = IF k = time THEN Append(o, h) ELSE o
    BY <1>3, <1>5
  <2>2. /\ o \in Seq(Handlers)
        /\ \A e : Contains(o, e) <=> k \in DOMAIN timed /\ Contains(timed[k], e)
        /\ Distinct(o) <=> (k \in DOMAIN timed => Distinct(timed[k]))
        /\ k # time => k \in DOMAIN timed
    BY <1>4, <1>5
  <2> HIDE DEF o, old, time
  <2>3. CASE k = time
    <3>1. /\ Append(o, h) \in Seq(Handlers)
          /\ \A e : Contains(Append(o, h), e) <=> Contains(o, e) \/ e = h
          /\ Distinct(o) /\ ~ Contains(o, h) => Distinct(Append(o, h))
      BY <2>2, Appended
    <3>2. timed'[k] = Append(o, h)
      BY <2>1, <2>3
    <3> QED BY <3>1, <3>2, <2>2, <2>3
  <2>4. CASE k # time
    BY <2>1, <2>2, <2>4
  <2> QED BY <2>3, <2>4
<1>6. first \in DOMAIN timed' /\ \A k \in DOMAIN timed' : first <= k
  <2>1. \A k \in DOMAIN timed' : k \in Int /\ Never <= k
    BY <1>2, MomentType DEF Timetable
  <2>2. DOMAIN timed' # {} /\ DOMAIN timed' \subseteq Int /\ Never \in Int
    BY <1>2, <2>1 DEF Never
  <2>3. Min(DOMAIN timed') \in DOMAIN timed' /\ \A k \in DOMAIN timed' : Min(DOMAIN timed') <= k
    BY <2>1, <2>2, MinOfBounded
  <2> QED BY <2>3, <1>1
<1>7. /\ delay' \in {delay} \cup DOMAIN timed'
      /\ delay' # None /\ \A k \in DOMAIN timed' : delay' <= k
  <2>1. \A k \in DOMAIN timed' : k \in Int /\ Never <= k
    BY <1>2, MomentType DEF Timetable
  <2>2. delay # None => delay \in Int
    BY MomentType DEF Timetable
  <2> HIDE DEF first, entry
  <2> QED BY <2>1, <2>2, <1>1, <1>6 DEF Never, None
<1> HIDE DEF time, old, entry, first
<1> QED BY <1>1, <1>2, <1>5, <1>7 DEF Entered, time

\* What removing h does to the lists of handlers.
Cleared(h) ==
  /\ registered' \in Seq(Handlers) /\ calling' \in Seq(Handlers)
  /\ calling = <<>> => calling' = <<>>
  /\ DOMAIN timed' = DOMAIN timed
  /\ \A k \in DOMAIN timed : timed'[k] \in Seq(Handlers)

\* RemoveEntries leaves lists, and the times of the table.
LEMMA RemoveEntriesClears ==
  ASSUME Types, Timetable, Progress, NEW h \in Handlers, RemoveEntries(h)
  PROVE  Cleared(h)
<1>0. registered \in Seq(Handlers) /\ calling \in Seq(Handlers)
  BY DEF Types
<1>1. CASE h \in Wrapped
  BY <1>0, <1>1 DEF RemoveEntries, Cleared, Timetable
<1>2. CASE h \notin Wrapped
  <2>1. /\ registered' = Without(registered, h)
        /\ calling' = IF pc = "handlers" THEN Without(calling, h) ELSE calling
        /\ timed' = [k \in DOMAIN timed |-> Deleted(timed[k], h)]
    BY <1>2 DEF RemoveEntries
  <2>2. registered' \in Seq(Handlers)
    BY <1>0, <2>1, KeptHas DEF Without
  <2>3. calling' \in Seq(Handlers)
    BY <1>0, <2>1, KeptHas DEF Without
  <2>4. \A k \in DOMAIN timed : timed'[k] \in Seq(Handlers)
    <3>1. \A k \in DOMAIN timed : timed[k] \in Seq(Handlers)
      BY DEF Timetable
    <3> QED BY <3>1, <2>1, DeletedHas
  <2>5. calling = <<>> => calling' = <<>>
    <3>1. ASSUME calling = <<>> PROVE Without(calling, h) = <<>>
      <4> DEFINE w == Without(calling, h)
      <4>0. /\ w \in Seq(Handlers)
            /\ \A e : Contains(w, e) <=> Contains(calling, e) /\ e \in Handlers \ {h}
        BY <1>0, KeptHas DEF Without
      <4>1. w \in Seq(Handlers) /\ \A e : ~ Contains(w, e)
        BY <4>0, <3>1, EmptyList
      <4> HIDE DEF w
      <4>2. w = <<>>
        <5>1. SUFFICES ASSUME w # <<>> PROVE FALSE
          OBVIOUS
        <5>2. Contains(w, Head(w))
          BY <4>1, <5>1, Split
        <5> QED BY <4>1, <5>2
      <4> QED BY <4>2 DEF w
    <3> QED BY <2>1, <3>1
  <2>6. DOMAIN timed' = DOMAIN timed
    BY <2>1
  <2> QED BY <2>2, <2>3, <2>4, <2>5, <2>6 DEF Cleared
<1> QED BY <1>1, <1>2

-------------------------------------------------------------------------------
(* Shape is inductive. *)

\* What Timetable says is kept when h is entered at its time.
LEMMA EnteredTimetable ==
  ASSUME Types, Timetable, NEW h \in Handlers, Entered(h), UNCHANGED last_change
  PROVE  Timetable' /\ DOMAIN timed \subseteq DOMAIN timed'
<1>1. \A e : Moment(e)' = Moment(e)
  BY DEF Moment
<1>2. \A k \in DOMAIN timed' : \E e \in Handlers : k = Moment(e)
  BY DEF Entered, Timetable
<1>3. delay' # None => \E e \in Handlers : delay' = Moment(e)
  BY <1>2 DEF Entered, Timetable
<1> QED BY <1>1, <1>2, <1>3 DEF Entered, Timetable

\* AddHandler and Wait.
LEMMA AddEntryShape ==
  ASSUME Shape, NEW h \in Handlers, AddEntry(h), future' \in [Waiters -> {"none", "pending", "done"}]
  PROVE  Shape'
<1>1. Types /\ Timetable /\ Progress
  BY DEF Shape
<1>2. registered' \in Seq(Handlers)
  <2>1. registered \in Seq(Handlers) /\ registered' = Append(registered, h)
    BY <1>1 DEF Types, AddEntry
  <2> QED BY <2>1, Appended
<1>3. Types'
  BY <1>1, <1>2 DEF Types, AddEntry, device, window, call
<1>4. Timetable' /\ DOMAIN timed \subseteq DOMAIN timed'
  <2>1. CASE StillCounts(h)
    <3>1. Entered(h) /\ UNCHANGED last_change
      BY <1>1, <2>1, AddTimedEnters DEF AddEntry, device, Moment
    <3> QED BY <3>1, <1>1, EnteredTimetable
  <2>2. CASE ~StillCounts(h)
    BY <1>1, <2>2 DEF AddEntry, Timetable, device, Moment
  <2> QED BY <2>1, <2>2
<1>5. Progress'
  BY <1>1, <1>4 DEF Progress, AddEntry, call
<1> QED BY <1>3, <1>4, <1>5 DEF Shape

\* RemoveHandler and FutureDone.
LEMMA RemoveEntriesShape ==
  ASSUME Shape, NEW h \in Handlers, RemoveEntries(h), future' \in [Waiters -> {"none", "pending", "done"}]
  PROVE  Shape'
<1>1. Types /\ Timetable /\ Progress
  BY DEF Shape
<1>2. Cleared(h)
  BY <1>1, RemoveEntriesClears
<1>3. Types'
  BY <1>1, <1>2 DEF Types, RemoveEntries, device, window, Cleared
<1>4. Timetable'
  BY <1>1, <1>2 DEF RemoveEntries, Timetable, device, Moment, Cleared
<1>5. Progress'
  BY <1>1, <1>2 DEF Progress, RemoveEntries, Cleared
<1> QED BY <1>3, <1>4, <1>5 DEF Shape

\* PostEvents starts a window that ends within its bounds.
LEMMA PostEventsWindow ==
  ASSUME Types, NEW s \in 0..1, NEW ts \in -MaxLag..MaxTime, NEW quiet, PostEvents(s, ts, quiet)
  PROVE  recycle' \in {None} \cup (Window - MaxLag)..(Window + MaxTime) /\ recycled' \in 0..1
<1>1. Window \in Nat /\ MaxLag \in Nat /\ MaxTime \in Nat
  BY SwitchAssumption
<1>2. ts + Window \in (Window - MaxLag)..(Window + MaxTime)
  BY <1>1
<1> QED BY <1>2 DEF PostEvents, Types

\* A change empties the table.
LEMMA ChangeShape ==
  ASSUME Shape, NEW lag \in 0..MaxLag, Change(now - lag)
  PROVE  Shape'
<1> DEFINE ts == now - lag
<1>1. Types /\ Timetable /\ Progress /\ MaxLag \in Nat /\ MaxTime \in Nat
  BY SwitchAssumption DEF Shape
<1>2. ts \in -MaxLag..MaxTime /\ ts <= now /\ ts >= last_change
  BY <1>1 DEF Types, Change
<1>3. state' = 1 - state /\ state' \in 0..1 /\ last_change' = ts /\ now' = now
  BY DEF Shape, Types, Change
<1>4. PostEvents(state', ts, muted)
  BY <1>3 DEF Change
<1>5. recycle' \in {None} \cup (Window - MaxLag)..(Window + MaxTime) /\ recycled' \in 0..1
  <2> HIDE DEF ts
  <2> QED BY <1>1, <1>2, <1>3, <1>4, PostEventsWindow
<1>6. calling' \in Seq(Handlers)
  BY <1>1, KeptHas, EmptyList DEF Change, Types
<1>7. Types'
  <2>1. now' \in 0..MaxTime /\ muted' \in BOOLEAN /\ registered' \in Seq(Handlers)
        /\ future' \in [Waiters -> {"none", "pending", "done"}]
    BY <1>1 DEF Change, Types
  <2>2. last_change' \in -MaxLag..MaxTime /\ Never <= last_change' /\ last_change' <= now'
    <3> HIDE DEF ts
    <3> QED BY <1>1, <1>2, <1>3 DEF Types, Never
  <2> QED BY <2>1, <2>2, <1>3, <1>5, <1>6 DEF Types
<1>8. Timetable'
  <2>1. active' = FALSE /\ DOMAIN timed' = {} /\ delay' = None
    BY <1>1 DEF Change, Timetable
  <2> QED BY <2>1 DEF Timetable
<1>9. Progress'
  <2>1. pc = "idle" /\ keys = {} /\ key = None /\ next_event_time = None /\ DOMAIN timed' = {}
    BY <1>1 DEF Change, Progress
  <2>2. keys' = {} /\ key' = None /\ next_event_time' = None /\ pc' \in {"idle", "handlers"}
        /\ (pc' = "idle" => calling' = <<>>)
    BY <2>1 DEF Change
  <2> QED BY <2>1, <2>2 DEF Progress
<1> QED BY <1>7, <1>8, <1>9 DEF Shape

\* A call of a waiter sets its future, no other does.
LEMMA InvokeFuture ==
  ASSUME Types, NEW h, Invoke(h) \/ Skip
  PROVE  future' \in [Waiters -> {"none", "pending", "done"}]
BY DEF Invoke, Skip, Types

\* A timed handler is entered, another called.
LEMMA CallHandlerShape ==
  ASSUME Shape, CallHandler
  PROVE  Shape'
<1> DEFINE h == Head(calling)
<1>1. Types /\ Timetable /\ Progress
  BY DEF Shape
<1>2. h \in Handlers /\ calling' \in Seq(Handlers)
  BY <1>1, Split DEF CallHandler, Types
<1>3. future' \in [Waiters -> {"none", "pending", "done"}]
  BY <1>1, InvokeFuture DEF CallHandler
<1>4. Types'
  BY <1>1, <1>2, <1>3 DEF Types, CallHandler, device, window
<1>5. Timetable' /\ DOMAIN timed \subseteq DOMAIN timed'
  <2> HIDE DEF h
  <2>1. CASE Ms[h] # 0
    <3>1. Entered(h) /\ UNCHANGED last_change
      BY <1>1, <1>2, <2>1, AddTimedEnters DEF CallHandler, device, Moment, h
    <3> QED BY <3>1, <1>1, <1>2, EnteredTimetable
  <2>2. CASE Ms[h] = 0
    BY <1>1, <2>2 DEF CallHandler, Timetable, device, Moment, h
  <2> QED BY <2>1, <2>2
<1>6. Progress'
  BY <1>1, <1>5 DEF Progress, CallHandler
<1> QED BY <1>4, <1>5, <1>6 DEF Shape

\* The steps of a scheduled call.
LEMMA ScheduledShape ==
  ASSUME Shape, NEW t, BeginTimed(t) \/ TakeKey(t) \/ CallTimed \/ KeyDone \/ RunEvents \/ TimedDone
  PROVE  Shape'
<1>1. Types /\ Timetable /\ Progress /\ registered \in Seq(Handlers) /\ calling \in Seq(Handlers)
  BY DEF Shape, Types
<1>a. \A k \in DOMAIN timed : k \in Int
  BY <1>1, MomentType DEF Timetable
<1>b. now \in Int
  BY <1>1 DEF Types
<1>2. CASE BeginTimed(t)
  <2>1. Types'
    BY <1>1, <1>2 DEF Types, BeginTimed, device, window
  <2>2. Timetable'
    BY <1>1, <1>2 DEF Timetable, BeginTimed, device, Moment
  <2>3. Progress'
    BY <1>1, <1>2 DEF Progress, BeginTimed
  <2> QED BY <2>1, <2>2, <2>3 DEF Shape
<1>3. CASE TakeKey(t)
  <2>0. t \in DOMAIN timed /\ key = None /\ calling' \in Seq(Handlers)
    BY <1>1, <1>3 DEF TakeKey, Timetable, Progress
  <2>1. Types'
    BY <1>1, <1>3, <2>0 DEF Types, TakeKey, device, window, table
  <2>2. Timetable'
    BY <1>1, <1>3 DEF Timetable, TakeKey, table, device, Moment
  <2>3. Progress'
    <3>1. t \in Int /\ now' = now /\ DOMAIN timed' = DOMAIN timed /\ pc = "timed" /\ pc' = pc
      BY <2>0, <1>a, <1>3 DEF TakeKey, table
    <3>2. keys' = keys \ {t}
      BY <1>3 DEF TakeKey
    <3>3. CASE t <= now
      <4>1. key' = t /\ next_event_time' = next_event_time
        BY <1>3, <3>3 DEF TakeKey
      <4>2. t # None
        BY <1>1, <2>0, MomentType DEF Timetable, None, Never
      <4> QED BY <1>1, <2>0, <3>1, <3>2, <3>3, <4>1, <4>2 DEF Progress
    <3>4. CASE ~(t <= now)
      BY <1>1, <1>b, <1>3, <2>0, <3>1, <3>2, <3>4 DEF Progress, TakeKey
    <3> QED BY <3>3, <3>4
  <2> QED BY <2>1, <2>2, <2>3 DEF Shape
<1>4. CASE CallTimed
  <2>1. calling' \in Seq(Handlers) /\ future' \in [Waiters -> {"none", "pending", "done"}]
    BY <1>1, <1>4, Split, InvokeFuture DEF CallTimed
  <2>2. Types'
    BY <1>1, <2>1, <1>4 DEF Types, CallTimed, device, window, table
  <2>3. Timetable'
    BY <1>1, <1>4 DEF Timetable, CallTimed, table, device, Moment
  <2>4. Progress'
    BY <1>1, <1>4 DEF Progress, CallTimed, table
  <2> QED BY <2>2, <2>3, <2>4 DEF Shape
<1>5. CASE KeyDone
  <2>1. Types'
    BY <1>1, <1>5 DEF Types, KeyDone, device, window
  <2>2. Timetable'
    BY <1>1, <1>5 DEF Timetable, KeyDone, device, Moment
  <2>3. Progress'
    BY <1>1, <1>a, <1>b, <1>5 DEF Progress, KeyDone
  <2> QED BY <2>1, <2>2, <2>3 DEF Shape
<1>6. CASE RunEvents
  <2>1. Types'
    BY <1>1, <1>6 DEF Types, RunEvents, device, window, table
  <2>2. Timetable'
    BY <1>1, <1>6 DEF Timetable, RunEvents, table, device, Moment
  <2>3. Progress'
    BY <1>1, <1>6 DEF Progress, RunEvents, table
  <2> QED BY <2>1, <2>2, <2>3 DEF Shape
<1>7. CASE TimedDone
  <2>1. Types'
    BY <1>1, <1>7 DEF Types, TimedDone, device, window
  <2>2. Timetable'
    BY <1>1, <1>7 DEF Timetable, Progress, TimedDone, device, Moment
  <2>3. Progress'
    BY <1>1, <1>7 DEF Progress, TimedDone
  <2> QED BY <2>1, <2>2, <2>3 DEF Shape
<1> QED BY <1>2, <1>3, <1>4, <1>5, <1>6, <1>7

\* The steps that leave the table alone.
LEMMA OtherShape ==
  ASSUME Shape, HandlersCalled \/ RecyclePassed \/ Mute \/ Tick \/ (\E h \in Waiters : CancelWait(h)) \/ UNCHANGED vars
  PROVE  Shape'
<1>1. Types /\ Timetable /\ Progress
  BY DEF Shape
<1>2. UNCHANGED <<last_change, active, timed, delay>>
  BY DEF HandlersCalled, RecyclePassed, Mute, Tick, CancelWait, vars, device, table
<1>3. Timetable'
  BY <1>1, <1>2 DEF Timetable, Moment
<1>4. CASE Tick
  <2>1. Types'
    <3>1. MaxTime \in Nat
      BY SwitchAssumption
    <3>2. now' \in 0..MaxTime /\ last_change' <= now'
      BY <1>1, <1>2, <1>4, <3>1, MomentType DEF Types, Tick, Never
    <3> QED BY <1>1, <1>4, <3>2 DEF Types, Tick, device, window, table, call
  <2>2. Progress'
    BY <1>1, <1>4 DEF Progress, Tick, table, call
  <2> QED BY <2>1, <2>2, <1>3 DEF Shape
<1>5. CASE HandlersCalled
  <2>1. Types'
    BY <1>1, <1>5 DEF Types, HandlersCalled, device, window, table
  <2>2. Progress'
    BY <1>1, <1>5 DEF Progress, HandlersCalled, table
  <2> QED BY <2>1, <2>2, <1>3 DEF Shape
<1>6. CASE RecyclePassed
  <2>1. Types'
    BY <1>1, <1>6 DEF Types, RecyclePassed, device, table, call
  <2>2. Progress'
    BY <1>1, <1>6 DEF Progress, RecyclePassed, table, call
  <2> QED BY <2>1, <2>2, <1>3 DEF Shape
<1>7. CASE Mute
  <2>1. Types'
    BY <1>1, <1>7 DEF Types, Mute, window, table, call
  <2>2. Progress'
    BY <1>1, <1>7 DEF Progress, Mute, table, call
  <2> QED BY <2>1, <2>2, <1>3 DEF Shape
<1>8. CASE \E h \in Waiters : CancelWait(h)
  <2>1. Types'
    BY <1>1, <1>8 DEF Types, CancelWait, device, window, table, call
  <2>2. Progress'
    BY <1>1, <1>8 DEF Progress, CancelWait, table, call
  <2> QED BY <2>1, <2>2, <1>3 DEF Shape
<1>9. CASE UNCHANGED vars
  <2>1. Types'
    BY <1>1, <1>9 DEF Types, vars, device, window, table, call
  <2>2. Progress'
    BY <1>1, <1>9 DEF Progress, vars, table, call
  <2> QED BY <2>1, <2>2, <1>3 DEF Shape
<1> QED BY <1>4, <1>5, <1>6, <1>7, <1>8, <1>9

\* Every step keeps Shape.
LEMMA NextShape ==
  ASSUME Shape, [Next]_vars
  PROVE  Shape'
<1>0. Types
  BY DEF Shape
<1>1. ASSUME NEW h \in Handlers, AddHandler(h) \/ RemoveHandler(h) PROVE Shape'
  <2>1. future' \in [Waiters -> {"none", "pending", "done"}]
    BY <1>0, <1>1 DEF AddHandler, RemoveHandler, Types
  <2> QED BY <1>1, <2>1, AddEntryShape, RemoveEntriesShape DEF AddHandler, RemoveHandler
<1>2. ASSUME NEW h \in Waiters, Wait(h) \/ FutureDone(h) PROVE Shape'
  <2>1. future' \in [Waiters -> {"none", "pending", "done"}] /\ h \in Handlers
    BY <1>0, <1>2, SwitchAssumption DEF Wait, FutureDone, Types
  <2> QED BY <1>2, <2>1, AddEntryShape, RemoveEntriesShape DEF Wait, FutureDone
<1>3. ASSUME NEW lag \in 0..MaxLag, Change(now - lag) PROVE Shape'
  BY <1>3, ChangeShape
<1>4. ASSUME NEW t, BeginTimed(t) \/ TakeKey(t) PROVE Shape'
  BY <1>4, ScheduledShape
<1>5. CASE CallTimed \/ KeyDone \/ RunEvents \/ TimedDone
  BY <1>5, ScheduledShape
<1>6. CASE HandlersCalled \/ RecyclePassed \/ Mute \/ Tick \/ (\E h \in Waiters : CancelWait(h)) \/ UNCHANGED vars
  BY <1>6, OtherShape
<1>7. CASE CallHandler
  BY <1>7, CallHandlerShape
<1> QED BY <1>1, <1>2, <1>3, <1>4, <1>5, <1>6, <1>7 DEF Next

\* Shape holds initially.
LEMMA InitShape == Init => Shape
<1> SUFFICES ASSUME Init PROVE Shape
  OBVIOUS
<1>1. MaxTime \in Nat
  BY SwitchAssumption
<1>2. Types
  <2>1. registered = <<>> /\ calling = <<>> /\ <<>> \in Seq(Handlers)
    BY EmptyList DEF Init
  <2>2. future \in [Waiters -> {"none", "pending", "done"}]
    BY DEF Init
  <2>3. now \in 0..MaxTime /\ last_change = Never /\ Never <= last_change /\ last_change <= now
    BY <1>1 DEF Init, Never
  <2>4. state = 0 /\ recycled = 0 /\ recycle = None
    BY DEF Init
  <2>5. muted \in BOOLEAN
    BY DEF Init
  <2> HIDE DEF Init
  <2> QED BY <2>1, <2>2, <2>3, <2>4, <2>5 DEF Types
<1>3. Timetable
  BY DEF Init, Timetable
<1>4. Progress
  BY DEF Init, Progress
<1> QED BY <1>2, <1>3, <1>4 DEF Shape

\* All that is said of the types.
THEOREM TypesHold == Spec => []TypeOK
<1>1. Init => Shape
  BY InitShape
<1>2. Shape /\ [Next]_vars => Shape'
  BY NextShape
<1>3. Shape => TypeOK
  <2> SUFFICES ASSUME Shape PROVE TypeOK
    OBVIOUS
  <2>1. Types /\ Timetable /\ Progress
    BY DEF Shape
  <2>2. delay \in {None} \cup {last_change + Ms[h] : h \in Handlers}
    BY <2>1 DEF Timetable, Moment
  <2> QED BY <2>1, <2>2 DEF Types, Timetable, Progress, TypeOK
<1> QED BY <1>1, <1>2, <1>3, PTL DEF Spec

-------------------------------------------------------------------------------
(* Right is inductive: nobody is called who should not be. *)

\* No handler is added twice, and all are removed the way they were added.
Plain == Wrapped = {} /\ "twice" \notin Unusual

\* A new handler is in none of the lists, so it may be put into any.
LEMMA AddEntryRight ==
  ASSUME Shape, Right, NEW h \in Handlers, h \notin wanted, AddEntry(h)
  PROVE  Right'
<1>1. Types /\ Timetable /\ Progress
  BY DEF Shape
<1>2. UNCHANGED <<last_change, state, calling, pc, rightly>> /\ wanted' = wanted \cup {h}
  BY DEF AddEntry, device, call
<1>3. \A e : Moment(e)' = Moment(e)
  BY <1>2 DEF Moment
<1>4. Registration'
  <2>1. registered' = Append(registered, h) /\ registered \in Seq(Handlers)
    BY <1>1 DEF AddEntry, Types
  <2>2. Distinct(registered) /\ \A e \in Handlers : Contains(registered, e) <=> e \in wanted
    BY DEF Right, Registration
  <2>3. \A e : Contains(registered', e) <=> Contains(registered, e) \/ e = h
    BY <2>1, Appended
  <2>4. Distinct(registered')
    BY <2>1, <2>2, Appended
  <2> QED BY <2>2, <2>3, <2>4, <1>2 DEF Right, Registration
<1>5. CASE StillCounts(h)
  <2>1. Entered(h)
    BY <1>1, <1>5, AddTimedEnters DEF AddEntry, Moment
  <2>2. HState[h] = state /\ Ms[h] # 0
    BY <1>5 DEF StillCounts
  <2>3. Entries'
    <3> SUFFICES ASSUME NEW k \in DOMAIN timed'
                 PROVE  /\ Distinct(timed'[k])
                        /\ \A e \in Handlers : Contains(timed'[k], e) =>
                             e \in wanted' /\ HState[e] = state' /\ Ms[e] # 0 /\ k = Moment(e)'
      BY DEF Entries
    <3>1. k \in DOMAIN timed =>
            /\ Distinct(timed[k])
            /\ \A e \in Handlers : Contains(timed[k], e) =>
                 e \in wanted /\ HState[e] = state /\ Ms[e] # 0 /\ k = Moment(e)
      BY DEF Right, Entries
    <3>2. /\ \A e \in Handlers : Contains(timed'[k], e) <=>
               (k \in DOMAIN timed /\ Contains(timed[k], e)) \/ (k = Moment(h) /\ e = h)
          /\ (k \in DOMAIN timed => Distinct(timed[k]) /\ (k = Moment(h) => ~ Contains(timed[k], h)))
               => Distinct(timed'[k])
      BY <2>1 DEF Entered
    <3> QED BY <3>1, <3>2, <2>2, <1>2, <1>3
  <2>4. Calls'
    <3>1. ASSUME pc = "handlers", NEW e \in Handlers, Contains(calling, e)
          PROVE  e \in wanted /\ HState[e] = state /\ \A k \in DOMAIN timed' : ~ Contains(timed'[k], e)
      <4>1. e \in wanted /\ HState[e] = state /\ e # h /\ \A k \in DOMAIN timed : ~ Contains(timed[k], e)
        BY <3>1 DEF Right, Calls
      <4> QED BY <4>1, <2>1 DEF Entered
    <3> QED BY <3>1, <1>2 DEF Right, Calls
  <2> QED BY <1>2, <1>4, <2>3, <2>4 DEF Right
<1>6. CASE ~StillCounts(h)
  <2>1. timed' = timed
    BY <1>6 DEF AddEntry
  <2>2. Entries'
    BY <2>1, <1>2, <1>3 DEF Right, Entries
  <2>3. Calls'
    BY <2>1, <1>2 DEF Right, Calls
  <2> QED BY <1>2, <1>4, <2>2, <2>3 DEF Right
<1> QED BY <1>5, <1>6

\* What removing h takes from the lists.
Gone(h) ==
  /\ \A e \in Handlers : Contains(registered', e) <=> Contains(registered, e) /\ e # h
  /\ Distinct(registered')
  /\ DOMAIN timed' = DOMAIN timed
  /\ \A k \in DOMAIN timed :
       /\ \A e \in Handlers : Contains(timed'[k], e) <=> Contains(timed[k], e) /\ e # h
       /\ Distinct(timed'[k])
  /\ \A e \in Handlers : Contains(calling', e) <=> Contains(calling, e) /\ (pc = "handlers" => e # h)
  /\ Distinct(calling')

\* Without repetitions in the lists, RemoveEntries takes h from all that matter.
LEMMA RemoveEntriesGone ==
  ASSUME Wrapped = {}, Shape, Right, NEW h \in Handlers, RemoveEntries(h)
  PROVE  Gone(h)
<1>0. registered \in Seq(Handlers) /\ calling \in Seq(Handlers) /\ Distinct(registered) /\ Distinct(calling)
  BY DEF Shape, Types, Right, Registration, Calls
<1>1. /\ registered' = Without(registered, h)
      /\ calling' = IF pc = "handlers" THEN Without(calling, h) ELSE calling
      /\ timed' = [k \in DOMAIN timed |-> Deleted(timed[k], h)]
  BY DEF RemoveEntries
<1>2. /\ \A e \in Handlers : Contains(registered', e) <=> Contains(registered, e) /\ e # h
      /\ Distinct(registered')
  BY <1>0, <1>1, KeptHas DEF Without
<1>3. /\ \A e \in Handlers : Contains(calling', e) <=> Contains(calling, e) /\ (pc = "handlers" => e # h)
      /\ Distinct(calling')
  BY <1>0, <1>1, KeptHas DEF Without
<1>4. ASSUME NEW k \in DOMAIN timed
      PROVE  /\ \A e \in Handlers : Contains(timed'[k], e) <=> Contains(timed[k], e) /\ e # h
             /\ Distinct(timed'[k])
  <2>1. timed[k] \in Seq(Handlers) /\ Distinct(timed[k])
    BY DEF Shape, Timetable, Right, Entries
  <2> QED BY <2>1, <1>1, DeletedHas
<1>5. DOMAIN timed' = DOMAIN timed
  BY <1>1
<1> QED BY <1>2, <1>3, <1>4, <1>5 DEF Gone

\* What is left was right before.
LEMMA RemoveEntriesRight ==
  ASSUME Wrapped = {}, Shape, Right, NEW h \in Handlers, RemoveEntries(h)
  PROVE  Right'
<1>1. Gone(h)
  BY RemoveEntriesGone
<1>2. UNCHANGED <<last_change, state, pc, rightly>> /\ wanted' = wanted \ {h}
  BY DEF RemoveEntries, device
<1>3. \A e : Moment(e)' = Moment(e)
  BY <1>2 DEF Moment
<1>4. Registration'
  BY <1>1, <1>2 DEF Right, Registration, Gone
<1>5. Entries'
  BY <1>1, <1>2, <1>3 DEF Right, Entries, Gone
<1>6. Calls'
  BY <1>1, <1>2 DEF Right, Calls, Gone
<1> QED BY <1>2, <1>4, <1>5, <1>6 DEF Right

\* After a change, the copied list has the handlers of the new state.
LEMMA ChangeRight ==
  ASSUME Shape, Right, NEW ts, Change(ts)
  PROVE  Right'
<1>1. registered \in Seq(Handlers) /\ Distinct(registered)
  BY DEF Shape, Types, Right, Registration
<1>2. Registration' /\ rightly' = TRUE
  BY DEF Change, Right, Registration
<1>3. Entries'
  BY DEF Change, Entries
<1>4. /\ Distinct(calling')
      /\ \A e \in Handlers : Contains(calling', e) =>
           Contains(registered, e) /\ e \in {h \in Handlers : HState[h] = 1 - state}
  <2>1. CASE muted
    BY <2>1, EmptyList DEF Change
  <2>2. CASE ~muted
    <3>1. calling' = Kept(registered, {h \in Handlers : HState[h] = 1 - state})
      BY <2>2 DEF Change
    <3> QED BY <3>1, <1>1, KeptHas
  <2> QED BY <2>1, <2>2
<1>5. Calls'
  <2>1. state' = 1 - state /\ DOMAIN timed' = {} /\ wanted' = wanted
    BY DEF Change
  <2> QED BY <2>1, <1>4 DEF Calls, Right, Registration
<1> QED BY <1>2, <1>3, <1>5 DEF Right

\* The handler at the head is called or entered; it is in no other list.
LEMMA CallHandlerRight ==
  ASSUME Shape, Right, CallHandler
  PROVE  Right'
<1> DEFINE h == Head(calling)
<1>1. Types /\ Timetable /\ Progress /\ calling \in Seq(Handlers) /\ calling # <<>>
  BY DEF Shape, Types, CallHandler
<1>2. /\ h \in Handlers /\ calling' = Tail(calling)
      /\ \A e : Contains(calling, e) <=> e = h \/ Contains(calling', e)
      /\ Distinct(calling') /\ ~ Contains(calling', h)
  BY <1>1, Split DEF CallHandler, Right, Calls
<1>3. pc = "handlers" /\ UNCHANGED <<last_change, state, pc, wanted, registered, now>>
  BY DEF CallHandler, device
<1>a. \A e : Moment(e)' = Moment(e)
  BY <1>3 DEF Moment
<1>4. h \in wanted /\ HState[h] = state /\ \A k \in DOMAIN timed : ~ Contains(timed[k], h)
  BY <1>2, <1>3 DEF Right, Calls
<1>5. Registration'
  BY <1>3 DEF Right, Registration
<1> HIDE DEF h
<1>6. CASE Ms[h] # 0
  <2>1. Entered(h) /\ rightly' = rightly
    BY <1>1, <1>2, <1>6, AddTimedEnters DEF CallHandler, Moment, Skip, h
  <2>2. Entries'
    <3> SUFFICES ASSUME NEW k \in DOMAIN timed'
                 PROVE  /\ Distinct(timed'[k])
                        /\ \A e \in Handlers : Contains(timed'[k], e) =>
                             e \in wanted' /\ HState[e] = state' /\ Ms[e] # 0 /\ k = Moment(e)'
      BY DEF Entries
    <3>1. k \in DOMAIN timed =>
            /\ Distinct(timed[k])
            /\ \A e \in Handlers : Contains(timed[k], e) =>
                 e \in wanted /\ HState[e] = state /\ Ms[e] # 0 /\ k = Moment(e)
      BY DEF Right, Entries
    <3>2. /\ \A e \in Handlers : Contains(timed'[k], e) <=>
               (k \in DOMAIN timed /\ Contains(timed[k], e)) \/ (k = Moment(h) /\ e = h)
          /\ (k \in DOMAIN timed => Distinct(timed[k]) /\ (k = Moment(h) => ~ Contains(timed[k], h)))
               => Distinct(timed'[k])
      BY <2>1 DEF Entered
    <3> QED BY <3>1, <3>2, <1>3, <1>4, <1>6, <1>a
  <2>3. Calls'
    <3>1. ASSUME NEW e \in Handlers, Contains(calling', e)
          PROVE  e \in wanted /\ HState[e] = state /\ \A k \in DOMAIN timed' : ~ Contains(timed'[k], e)
      <4>1. e # h /\ e \in wanted /\ HState[e] = state /\ \A k \in DOMAIN timed : ~ Contains(timed[k], e)
        BY <3>1, <1>2, <1>3 DEF Right, Calls
      <4> QED BY <4>1, <2>1 DEF Entered
    <3> QED BY <3>1, <1>2, <1>3 DEF Calls
  <2> QED BY <1>5, <2>1, <2>2, <2>3 DEF Right
<1>7. CASE Ms[h] = 0
  <2>1. timed' = timed /\ rightly' = (rightly /\ h \in wanted /\ InState(h))
    BY <1>7 DEF CallHandler, Invoke, h
  <2>2. rightly' = TRUE
    BY <2>1, <1>4, <1>7 DEF InState, Right
  <2>3. Entries'
    BY <2>1, <1>3, <1>a DEF Right, Entries
  <2>4. Calls'
    BY <2>1, <1>2, <1>3 DEF Right, Calls
  <2> QED BY <1>5, <2>2, <2>3, <2>4 DEF Right
<1> QED BY <1>6, <1>7

\* The handler at the head is called if it is still in the table: then it is wanted, and
\* its time has passed.
LEMMA CallTimedRight ==
  ASSUME Shape, Right, CallTimed
  PROVE  Right'
<1> DEFINE h == Head(calling)
<1>1. calling \in Seq(Handlers) /\ calling # <<>> /\ key # None
  BY DEF Shape, Types, CallTimed
<1>2. h \in Handlers /\ calling' = Tail(calling) /\ Distinct(calling')
  BY <1>1, Split DEF CallTimed, Right, Calls
<1>3. pc = "timed" /\ UNCHANGED <<last_change, state, pc, wanted, registered, now, timed>>
  BY DEF CallTimed, device, table
<1>a. \A e : Moment(e)' = Moment(e)
  BY <1>3 DEF Moment
<1>4. Registration' /\ Entries' /\ Calls'
  BY <1>2, <1>3, <1>a DEF Right, Registration, Entries, Calls
<1> HIDE DEF h
<1>5. rightly' = TRUE
  <2>1. CASE Contains(timed[key], h)
    <3>1. key \in DOMAIN timed /\ key <= now
      BY <1>1 DEF Shape, Progress
    <3>2. h \in wanted /\ HState[h] = state /\ key = last_change + Ms[h]
      BY <2>1, <3>1, <1>2 DEF Right, Entries, Moment
    <3>3. InState(h)
      BY <3>1, <3>2, <1>2, MomentType DEF InState, Shape
    <3> QED BY <2>1, <3>2, <3>3 DEF CallTimed, Invoke, h, Right
  <2>2. CASE ~ Contains(timed[key], h)
    BY <2>2 DEF CallTimed, Skip, h, Right
  <2> QED BY <2>1, <2>2
<1> QED BY <1>4, <1>5 DEF Right

\* The rest of the scheduled call, and all else.
LEMMA OtherRight ==
  ASSUME Shape, Right, NEW t,
         \/ BeginTimed(t) \/ TakeKey(t) \/ KeyDone \/ RunEvents \/ TimedDone
         \/ HandlersCalled \/ RecyclePassed \/ Mute \/ Tick \/ (\E h \in Waiters : CancelWait(h))
         \/ UNCHANGED vars
  PROVE  Right'
<1>1. UNCHANGED <<last_change, state, wanted, registered, rightly>>
  BY DEF BeginTimed, TakeKey, KeyDone, RunEvents, TimedDone, HandlersCalled, RecyclePassed, Mute,
         Tick, CancelWait, vars, device, table, ghosts
<1>2. DOMAIN timed' \subseteq DOMAIN timed /\ \A k \in DOMAIN timed' : timed'[k] = timed[k]
  BY DEF BeginTimed, TakeKey, KeyDone, RunEvents, TimedDone, HandlersCalled, RecyclePassed, Mute,
         Tick, CancelWait, vars, table
<1>3. \A e : Moment(e)' = Moment(e)
  BY <1>1 DEF Moment
<1>4. Registration' /\ Entries' /\ rightly' = TRUE
  BY <1>1, <1>2, <1>3 DEF Right, Registration, Entries
<1>5. Calls'
  <2>1. CASE TakeKey(t)
    <3>1. t \in DOMAIN timed
      BY <2>1 DEF TakeKey, Shape, Progress
    <3> QED BY <2>1, <3>1 DEF TakeKey, Right, Calls, Entries
  <2>2. CASE ~ TakeKey(t)
    <3>1. calling' = calling
      BY <2>2 DEF BeginTimed, KeyDone, RunEvents, TimedDone, HandlersCalled, RecyclePassed, Mute,
             Tick, CancelWait, vars, call
    <3>2. pc' = "handlers" => pc = "handlers"
      BY <2>2 DEF BeginTimed, KeyDone, RunEvents, TimedDone, HandlersCalled, RecyclePassed, Mute,
             Tick, CancelWait, vars, call
    <3> QED BY <3>1, <3>2, <1>1, <1>2 DEF Right, Calls
  <2> QED BY <2>1, <2>2
<1> QED BY <1>4, <1>5 DEF Right

\* Every step keeps Right.
LEMMA NextRight ==
  ASSUME Plain, Shape, Right, [Next]_vars
  PROVE  Right'
<1>0. \A h : CanAdd(h) => h \notin wanted
  BY DEF Plain, CanAdd
<1>1. ASSUME NEW h \in Handlers, AddHandler(h) \/ RemoveHandler(h) PROVE Right'
  BY <1>0, <1>1, AddEntryRight, RemoveEntriesRight DEF AddHandler, RemoveHandler, Plain
<1>2. ASSUME NEW h \in Waiters, Wait(h) \/ FutureDone(h) PROVE Right'
  <2>1. h \in Handlers
    BY SwitchAssumption
  <2> QED BY <1>0, <1>2, <2>1, AddEntryRight, RemoveEntriesRight DEF Wait, FutureDone, Plain
<1>3. ASSUME NEW lag \in 0..MaxLag, Change(now - lag) PROVE Right'
  BY <1>3, ChangeRight
<1>4. ASSUME NEW t, BeginTimed(t) \/ TakeKey(t) PROVE Right'
  BY <1>4, OtherRight
<1>5. CASE KeyDone \/ RunEvents \/ TimedDone \/ HandlersCalled \/ RecyclePassed \/ Mute \/ Tick
           \/ (\E h \in Waiters : CancelWait(h)) \/ UNCHANGED vars
  BY <1>5, OtherRight
<1>6. CASE CallHandler
  BY <1>6, CallHandlerRight
<1>7. CASE CallTimed
  BY <1>7, CallTimedRight
<1> QED BY <1>1, <1>2, <1>3, <1>4, <1>5, <1>6, <1>7 DEF Next

\* A handler is only called while it is registered and the switch has been in its state
\* for its whole time, if no handler is added twice and those with kwargs are not removed.
THEOREM CalledRightlyAlways ==
  ASSUME Plain
  PROVE  Spec => []CalledRightly
<1>1. Init => Shape /\ Right
  <2>1. Init => Right
    BY EmptyList DEF Init, Right, Registration, Entries, Calls
  <2> QED BY <2>1, InitShape
<1>2. Shape /\ Right /\ [Next]_vars => (Shape /\ Right)'
  BY NextShape, NextRight
<1>3. Right => CalledRightly
  BY DEF Right, CalledRightly
<1> QED BY <1>1, <1>2, <1>3, PTL DEF Spec

-------------------------------------------------------------------------------
(* Promise is inductive: nobody is forgotten, and nobody called twice. *)

\* None is not a time of the table.
LEMMA TableTimes ==
  ASSUME Shape
  PROVE  \A k \in DOMAIN timed : k \in Int /\ k # None
BY MomentType DEF Shape, Timetable, None, Never

\* A handler that becomes due is entered at a time to come, so no call in progress is past
\* it; and where one is in progress that would schedule another, CanAdd refuses it.
LEMMA AddEntryPromise ==
  ASSUME Unusual = {}, Shape, Right, Promise, NEW h \in Handlers, CanAdd(h), AddEntry(h)
  PROVE  Promise'
<1>0. Types /\ Timetable /\ Progress /\ Uncalled /\ Owed /\ Scheduling
  BY DEF Shape, Promise
<1>1. /\ UNCHANGED <<last_change, state, pc, calling, keys, key, next_event_time, stray, failed, now>>
      /\ wanted' = wanted \cup {h}
  BY DEF AddEntry, device, call
<1>2. \A e : Moment(e)' = Moment(e)
  BY <1>1 DEF Moment
<1>3. /\ called' \in [Handlers -> 0..1] /\ called'[h] = 0
      /\ \A e \in Handlers : e # h => called'[e] = called[e]
  BY <1>0 DEF AddEntry, Uncalled
<1>4. /\ due' \in [Handlers -> Int]
      /\ \A e \in Handlers : e # h => due'[e] = due[e]
      /\ due'[h] # None => state = HState[h] /\ now - last_change < Ms[h] /\ due'[h] = Moment(h)
  <2>1. last_change + Ms[h] \in Int /\ None \in Int
    BY <1>0, MomentType DEF Moment, None
  <2>2. due \in [Handlers -> Int]
    BY <1>0 DEF Owed
  <2>3. due' = [due EXCEPT ![h] = IF state = HState[h] /\ now - last_change < Ms[h] /\ last_change # Never
                                  THEN last_change + Ms[h] ELSE None]
    BY DEF AddEntry
  <2> QED BY <2>1, <2>2, <2>3 DEF Moment
<1>5. due'[h] # None => StillCounts(h) /\ Moment(h) > now
  <2> SUFFICES ASSUME due'[h] # None PROVE StillCounts(h) /\ Moment(h) > now
    OBVIOUS
  <2> DEFINE m == Ms[h]
  <2>1. state = HState[h] /\ now - last_change < m
    BY <1>4
  <2>2. last_change \in Int /\ now \in Int /\ m \in Nat /\ last_change <= now
    BY <1>0, MomentType DEF Types
  <2>3. Moment(h) = last_change + m
    BY DEF Moment
  <2> HIDE DEF m
  <2>4. m # 0 /\ last_change > now - 1000 * m /\ last_change + m > now
    BY <2>1, <2>2
  <2> QED BY <2>1, <2>3, <2>4 DEF StillCounts, m
<1>6. \A k \in DOMAIN timed : k \in Int /\ k # None
  BY TableTimes
<1>7. \A e \in Handlers : Contains(calling, e) /\ pc = "handlers" => called'[e] = 0
  BY <1>0, <1>3 DEF Uncalled
<1>8. CASE StillCounts(h)
  <2>1. Entered(h)
    BY <1>0, <1>8, AddTimedEnters DEF AddEntry, Moment
  <2>2. /\ DOMAIN timed' = DOMAIN timed \cup {Moment(h)}
        /\ \A k \in DOMAIN timed' : \A e \in Handlers : Contains(timed'[k], e) <=>
             (k \in DOMAIN timed /\ Contains(timed[k], e)) \/ (k = Moment(h) /\ e = h)
        /\ delay' # None /\ \A k \in DOMAIN timed' : delay' <= k
    BY <2>1 DEF Entered
  <2>3. Uncalled'
    <3>1. ASSUME NEW k \in DOMAIN timed', NEW e \in Handlers, Contains(timed'[k], e),
                 k = key => Contains(calling, e)
          PROVE  called'[e] = 0
      <4>1. CASE e = h
        BY <4>1, <1>3
      <4>2. CASE e # h
        <5>1. k \in DOMAIN timed /\ Contains(timed[k], e)
          BY <4>2, <3>1, <2>2
        <5>2. called[e] = 0
          BY <5>1, <3>1, <1>0 DEF Uncalled
        <5> QED BY <5>2, <4>2, <1>3
      <4> QED BY <4>1, <4>2
    <3> QED BY <3>1, <1>1, <1>3, <1>7 DEF Uncalled
  <2>4. Owed'
    <3> SUFFICES ASSUME NEW e \in Handlers, due'[e] # None
                 PROVE  /\ e \in wanted' /\ HState[e] = state /\ due'[e] = Moment(e)
                        /\ \/ called'[e] = 1
                           \/ pc = "handlers" /\ Contains(calling, e)
                           \/ /\ due'[e] \in DOMAIN timed' /\ Contains(timed'[due'[e]], e)
                              /\ due'[e] = key => Contains(calling, e)
      BY <1>1, <1>2, <1>4 DEF Owed
    <3>1. CASE e = h
      <4>1. due'[h] = Moment(h) /\ Moment(h) > now /\ HState[h] = state
        BY <3>1, <1>4, <1>5
      <4>2. Moment(h) \in DOMAIN timed' /\ Contains(timed'[Moment(h)], h)
        BY <2>2
      <4>3. Moment(h) # key
        BY <4>1, <1>0, MomentType, <1>4, <3>1 DEF Progress
      <4> QED BY <4>1, <4>2, <4>3, <3>1, <1>1
    <3>2. CASE e # h
      <4>1. due'[e] = due[e] /\ called'[e] = called[e]
        BY <3>2, <1>3, <1>4
      <4>2. /\ e \in wanted /\ HState[e] = state /\ due[e] = Moment(e)
            /\ \/ called[e] = 1
               \/ pc = "handlers" /\ Contains(calling, e)
               \/ /\ due[e] \in DOMAIN timed /\ Contains(timed[due[e]], e)
                  /\ due[e] = key => Contains(calling, e)
        BY <4>1, <1>0 DEF Owed
      <4>3. due[e] \in DOMAIN timed /\ Contains(timed[due[e]], e)
              => due[e] \in DOMAIN timed' /\ Contains(timed'[due[e]], e)
        BY <2>2
      <4> QED BY <4>1, <4>2, <4>3, <1>1
    <3> QED BY <3>1, <3>2
  <2>5. Scheduling'
    <3>1. \A k \in DOMAIN timed' : Awaited(k)'
      BY <2>2 DEF Awaited
    <3>2. pc \in {"timed", "events"} => next_event_time = None /\ \A k \in keys : k <= now
      BY <1>8 DEF CanAdd
    <3> QED BY <3>1, <3>2, <1>0, <1>1 DEF Scheduling
  <2> QED BY <2>3, <2>4, <2>5 DEF Promise
<1>9. CASE ~StillCounts(h)
  <2>1. timed' = timed /\ delay' = delay
    BY <1>9 DEF AddEntry
  <2>2. due'[h] = None
    BY <1>5, <1>9
  <2>3. Uncalled'
    <3>1. ASSUME NEW k \in DOMAIN timed, NEW e \in Handlers, Contains(timed[k], e),
                 k = key => Contains(calling, e)
          PROVE  called'[e] = 0
      BY <3>1, <1>3, <1>0 DEF Uncalled
    <3> QED BY <2>1, <3>1, <1>1, <1>3, <1>7 DEF Uncalled
  <2>4. Owed'
    <3>1. ASSUME NEW e \in Handlers, due'[e] # None
          PROVE  e # h /\ due'[e] = due[e] /\ called'[e] = called[e] /\ (e \in wanted => e \in wanted')
      BY <3>1, <2>2, <1>1, <1>3, <1>4
    <3>2. \A e \in Handlers : due[e] # None =>
            /\ e \in wanted /\ HState[e] = state /\ due[e] = Moment(e)
            /\ \/ called[e] = 1
               \/ pc = "handlers" /\ Contains(calling, e)
               \/ /\ due[e] \in DOMAIN timed /\ Contains(timed[due[e]], e)
                  /\ due[e] = key => Contains(calling, e)
      BY <1>0 DEF Owed
    <3> QED BY <3>1, <3>2, <1>1, <1>2, <1>4, <2>1 DEF Owed
  <2>5. Scheduling'
    <3>1. \A k : Awaited(k)' <=> Awaited(k)
      BY <2>1, <1>1 DEF Awaited
    <3> QED BY <3>1, <2>1, <1>0, <1>1 DEF Scheduling
  <2> QED BY <2>3, <2>4, <2>5 DEF Promise
<1> QED BY <1>8, <1>9

\* The handlers that are left are where they were.
LEMMA RemoveEntriesPromise ==
  ASSUME Wrapped = {}, Shape, Right, Promise, NEW h \in Handlers, RemoveEntries(h)
  PROVE  Promise'
<1>0. Uncalled /\ Owed /\ Scheduling
  BY DEF Promise
<1>1. Gone(h)
  BY RemoveEntriesGone
<1>2. /\ UNCHANGED <<last_change, state, pc, keys, key, next_event_time, stray, failed, now, delay, called>>
      /\ wanted' = wanted \ {h} /\ due' = [due EXCEPT ![h] = None]
  BY DEF RemoveEntries, device
<1>3. \A e : Moment(e)' = Moment(e)
  BY <1>2 DEF Moment
<1>4. Uncalled'
  BY <1>0, <1>1, <1>2 DEF Uncalled, Gone
<1>5. Owed'
  <2>1. due' \in [Handlers -> Int] /\ due'[h] = None /\ \A e \in Handlers : e # h => due'[e] = due[e]
    BY <1>0, <1>2 DEF Owed, None
  <2> SUFFICES ASSUME NEW e \in Handlers, e # h, due[e] # None
               PROVE  /\ e \in wanted' /\ HState[e] = state /\ due[e] = Moment(e)
                      /\ \/ called[e] = 1
                         \/ pc = "handlers" /\ Contains(calling', e)
                         \/ /\ due[e] \in DOMAIN timed' /\ Contains(timed'[due[e]], e)
                            /\ due[e] = key => Contains(calling', e)
    BY <2>1, <1>2, <1>3 DEF Owed
  <2>2. /\ e \in wanted /\ HState[e] = state /\ due[e] = Moment(e)
        /\ \/ called[e] = 1
           \/ pc = "handlers" /\ Contains(calling, e)
           \/ /\ due[e] \in DOMAIN timed /\ Contains(timed[due[e]], e)
              /\ due[e] = key => Contains(calling, e)
    BY <1>0 DEF Owed
  <2>3. Contains(calling', e) <=> Contains(calling, e)
    BY <1>1 DEF Gone
  <2> QED BY <2>2, <2>3, <1>1, <1>2 DEF Gone
<1>6. Scheduling'
  <2>1. \A k : Awaited(k)' <=> Awaited(k)
    BY <1>2 DEF Awaited
  <2> QED BY <2>1, <1>0, <1>1, <1>2 DEF Scheduling, Gone
<1> QED BY <1>4, <1>5, <1>6 DEF Promise

\* After a change, all that is due is in the copied list.
LEMMA ChangePromise ==
  ASSUME Shape, Right, Promise, NEW ts \in Int, Change(ts)
  PROVE  Promise'
<1>0. Uncalled /\ Owed /\ Scheduling /\ registered \in Seq(Handlers)
  BY DEF Promise, Shape, Types
<1>1. /\ DOMAIN timed' = {} /\ state' = 1 - state /\ last_change' = ts
      /\ UNCHANGED <<failed, stray, wanted>> /\ pc' \in {"idle", "handlers"}
      /\ called' = [e \in Handlers |-> 0]
  BY DEF Change
<1>2. Uncalled'
  BY <1>1 DEF Uncalled
<1>3. Owed'
  <2>1. due' = [e \in Handlers |-> IF HState[e] = 1 - state /\ e \in wanted /\ ~muted
                                   THEN ts + Ms[e] ELSE None]
    BY DEF Change
  <2>2. due' \in [Handlers -> Int]
    <3>1. \A e \in Handlers : ts + Ms[e] \in Int
      BY SwitchAssumption
    <3> QED BY <2>1, <3>1 DEF None
  <2>3. ASSUME NEW e \in Handlers, due'[e] # None
        PROVE  /\ e \in wanted' /\ HState[e] = state' /\ due'[e] = Moment(e)'
               /\ pc' = "handlers" /\ Contains(calling', e)
    <3>1. HState[e] = 1 - state /\ e \in wanted /\ ~muted /\ due'[e] = ts + Ms[e]
      BY <2>1, <2>3
    <3>2. pc' = "handlers" /\ calling' = Kept(registered, {g \in Handlers : HState[g] = 1 - state})
      BY <3>1 DEF Change
    <3>3. Contains(registered, e)
      BY <3>1 DEF Right, Registration
    <3>4. Contains(calling', e)
      BY <3>1, <3>2, <3>3, <1>0, KeptHas
    <3> QED BY <3>1, <3>2, <3>4, <1>1 DEF Moment
  <2> QED BY <2>2, <2>3 DEF Owed
<1>4. Scheduling'
  BY <1>0, <1>1 DEF Scheduling
<1> QED BY <1>2, <1>3, <1>4 DEF Promise

\* The head of the copied list is called, or in the table from then on.
LEMMA CallHandlerPromise ==
  ASSUME Shape, Right, Promise, CallHandler
  PROVE  Promise'
<1> DEFINE h == Head(calling)
<1>0. /\ Types /\ Timetable /\ Progress /\ Uncalled /\ Owed /\ Scheduling
      /\ calling \in Seq(Handlers) /\ calling # <<>>
  BY DEF Shape, Promise, Types, CallHandler
<1>1. /\ h \in Handlers /\ calling' = Tail(calling)
      /\ \A e : Contains(calling, e) <=> e = h \/ Contains(calling', e)
      /\ ~ Contains(calling', h)
  BY <1>0, Split DEF CallHandler, Right, Calls
<1>2. /\ pc = "handlers" /\ key = None /\ keys = {} /\ next_event_time = None
      /\ UNCHANGED <<last_change, state, pc, wanted, due, now, key, keys, next_event_time, stray, failed>>
  BY <1>0 DEF CallHandler, device, Progress
<1>3. \A e : Moment(e)' = Moment(e)
  BY <1>2 DEF Moment
<1>4. \A k \in DOMAIN timed : k # None
  BY TableTimes
<1>5. called[h] = 0 /\ \A e \in Handlers : Contains(calling', e) => called[e] = 0
  BY <1>0, <1>1, <1>2 DEF Uncalled
<1>6. \A k \in DOMAIN timed, e \in Handlers : Contains(timed[k], e) => called[e] = 0 /\ Ms[e] # 0
  BY <1>0, <1>2, <1>4 DEF Uncalled, Right, Entries
<1>7. \A e \in Handlers : due[e] # None =>
        /\ e \in wanted /\ HState[e] = state /\ due[e] = Moment(e)
        /\ \/ called[e] = 1
           \/ e = h \/ Contains(calling', e)
           \/ due[e] \in DOMAIN timed /\ Contains(timed[due[e]], e)
  BY <1>0, <1>1 DEF Owed
<1> HIDE DEF h
<1>8. CASE Ms[h] # 0
  <2>1. Entered(h) /\ called' = called
    BY <1>0, <1>1, <1>8, AddTimedEnters DEF CallHandler, Moment, Skip, h
  <2>2. /\ DOMAIN timed' = DOMAIN timed \cup {Moment(h)}
        /\ \A k \in DOMAIN timed' : \A e \in Handlers : Contains(timed'[k], e) <=>
             (k \in DOMAIN timed /\ Contains(timed[k], e)) \/ (k = Moment(h) /\ e = h)
        /\ delay' # None /\ \A k \in DOMAIN timed' : delay' <= k
    BY <2>1 DEF Entered
  <2>3. Uncalled'
    BY <2>1, <2>2, <1>0, <1>2, <1>5, <1>6 DEF Uncalled
  <2>4. Owed'
    <3>1. ASSUME NEW e \in Handlers, due[e] # None
          PROVE  \/ called[e] = 1 \/ Contains(calling', e)
                 \/ due[e] \in DOMAIN timed' /\ Contains(timed'[due[e]], e)
      BY <1>7, <2>2, <3>1
    <3> QED BY <3>1, <2>1, <1>0, <1>2, <1>3, <1>7 DEF Owed
  <2>5. Scheduling'
    <3>1. \A k \in DOMAIN timed' : Awaited(k)'
      BY <2>2 DEF Awaited
    <3> QED BY <3>1, <1>0, <1>2 DEF Scheduling
  <2> QED BY <2>3, <2>4, <2>5 DEF Promise
<1>9. CASE Ms[h] = 0
  <2>1. timed' = timed /\ delay' = delay /\ called' = [called EXCEPT ![h] = @ + 1]
    BY <1>9 DEF CallHandler, Invoke, h
  <2>2. /\ called' \in [Handlers -> 0..1] /\ called'[h] = 1
        /\ \A e \in Handlers : e # h => called'[e] = called[e]
    BY <2>1, <1>0, <1>1, <1>5 DEF Uncalled
  <2>3. Uncalled'
    <3>1. \A e \in Handlers : Contains(calling', e) => called'[e] = 0
      BY <2>2, <1>1, <1>5
    <3>2. \A k \in DOMAIN timed, e \in Handlers : Contains(timed[k], e) => called'[e] = 0
      BY <2>2, <1>6, <1>9
    <3> QED BY <3>1, <3>2, <2>1, <2>2 DEF Uncalled
  <2>4. Owed'
    <3>1. ASSUME NEW e \in Handlers, due[e] # None
          PROVE  \/ called'[e] = 1 \/ Contains(calling', e)
                 \/ due[e] \in DOMAIN timed /\ Contains(timed[due[e]], e)
      BY <1>7, <2>2, <3>1
    <3> QED BY <3>1, <2>1, <1>0, <1>2, <1>3, <1>7 DEF Owed
  <2>5. Scheduling'
    <3>1. \A k : Awaited(k)' <=> Awaited(k)
      BY <2>1, <1>2 DEF Awaited
    <3> QED BY <3>1, <2>1, <1>0, <1>2 DEF Scheduling
  <2> QED BY <2>3, <2>4, <2>5 DEF Promise
<1> QED BY <1>8, <1>9

\* The head of the copied list is called, or was removed in between.
LEMMA CallTimedPromise ==
  ASSUME Shape, Right, Promise, CallTimed
  PROVE  Promise'
<1> DEFINE h == Head(calling)
<1>0. /\ Types /\ Timetable /\ Progress /\ Uncalled /\ Owed /\ Scheduling
      /\ calling \in Seq(Handlers) /\ calling # <<>>
  BY DEF Shape, Promise, Types, CallTimed
<1>1. /\ h \in Handlers /\ calling' = Tail(calling)
      /\ \A e : Contains(calling, e) <=> e = h \/ Contains(calling', e)
      /\ ~ Contains(calling', h)
  BY <1>0, Split DEF CallTimed, Right, Calls
<1>2. /\ pc = "timed" /\ key \in DOMAIN timed
      /\ UNCHANGED <<last_change, state, pc, wanted, due, now, key, keys, next_event_time, stray,
                     failed, timed, delay>>
  BY <1>0 DEF CallTimed, device, table, Progress
<1>3. \A e : Moment(e)' = Moment(e)
  BY <1>2 DEF Moment
<1>4. /\ called' \in [Handlers -> 0..1]
      /\ called'[h] = IF Contains(timed[key], h) THEN 1 ELSE called[h]
      /\ \A e \in Handlers : e # h => called'[e] = called[e]
  <2>1. CASE Contains(timed[key], h)
    <3>1. called[h] = 0
      BY <2>1, <1>0, <1>1, <1>2 DEF Uncalled
    <3>2. called' = [called EXCEPT ![h] = @ + 1]
      BY <2>1 DEF CallTimed, Invoke
    <3> HIDE DEF h
    <3> QED BY <3>1, <3>2, <2>1, <1>0, <1>1 DEF Uncalled
  <2>2. CASE ~ Contains(timed[key], h)
    BY <2>2, <1>0 DEF CallTimed, Skip, Uncalled
  <2> QED BY <2>1, <2>2
<1> HIDE DEF h
<1>5. Uncalled'
  <2>1. ASSUME NEW k \in DOMAIN timed, NEW e \in Handlers, Contains(timed[k], e),
               k = key => Contains(calling', e)
        PROVE  called'[e] = 0
    <3>1. called[e] = 0
      BY <2>1, <1>0, <1>1 DEF Uncalled
    <3>2. CASE e # h
      BY <3>1, <3>2, <1>4
    <3>3. CASE e = h
      <4>1. k # key
        BY <3>3, <2>1, <1>1
      <4>2. ~ Contains(timed[key], h)
        BY <4>1, <3>3, <2>1, <1>2 DEF Right, Entries
      <4> QED BY <4>2, <3>1, <3>3, <1>4
    <3> QED BY <3>2, <3>3
  <2> QED BY <2>1, <1>2, <1>4 DEF Uncalled
<1>6. Owed'
  <2>1. ASSUME NEW e \in Handlers, due[e] # None
        PROVE  /\ e \in wanted /\ HState[e] = state /\ due[e] = Moment(e)
               /\ \/ called'[e] = 1
                  \/ /\ due[e] \in DOMAIN timed /\ Contains(timed[due[e]], e)
                     /\ due[e] = key => Contains(calling', e)
    <3>1. /\ e \in wanted /\ HState[e] = state /\ due[e] = Moment(e)
          /\ \/ called[e] = 1
             \/ /\ due[e] \in DOMAIN timed /\ Contains(timed[due[e]], e)
                /\ due[e] = key => Contains(calling, e)
      BY <2>1, <1>0, <1>2 DEF Owed
    <3>2. CASE e # h
      BY <3>1, <3>2, <1>1, <1>4
    <3>3. CASE e = h
      BY <3>1, <3>3, <1>4
    <3> QED BY <3>2, <3>3
  <2> QED BY <2>1, <1>0, <1>2, <1>3 DEF Owed
<1>7. Scheduling'
  <2>1. \A k : Awaited(k)' <=> Awaited(k)
    BY <1>2 DEF Awaited
  <2> QED BY <2>1, <1>0, <1>2 DEF Scheduling
<1> QED BY <1>5, <1>6, <1>7 DEF Promise

\* The only scheduled call is that of the table, whose times are all looked at.
LEMMA BeginTimedPromise ==
  ASSUME Shape, Promise, NEW t \in Scheduled, BeginTimed(t)
  PROVE  Promise'
<1>0. Timetable /\ Progress /\ Uncalled /\ Owed /\ Scheduling /\ pc = "idle"
  BY DEF Shape, Promise, BeginTimed
<1>1. delay # None /\ t = delay /\ active
  BY <1>0 DEF Scheduled, Scheduling, Timetable
<1>2. /\ delay' = None /\ stray' = stray /\ pc' = "timed" /\ keys' = DOMAIN timed
      /\ UNCHANGED <<failed, now, last_change, state, timed, calling, key, due, called, wanted>>
  BY <1>1 DEF BeginTimed, device, ghosts
<1>3. Uncalled'
  BY <1>0, <1>2 DEF Uncalled
<1>4. Owed'
  BY <1>0, <1>2 DEF Owed, Moment
<1>5. Scheduling'
  BY <1>0, <1>2 DEF Scheduling, Awaited
<1> QED BY <1>3, <1>4, <1>5 DEF Promise

\* A time that has passed is the key, another is not before the next call.
LEMMA TakeKeyPromise ==
  ASSUME Shape, Promise, NEW t, TakeKey(t)
  PROVE  Promise'
<1>0. /\ Types /\ Timetable /\ Progress /\ Uncalled /\ Owed /\ Scheduling
      /\ pc = "timed" /\ key = None /\ t \in keys /\ t \in DOMAIN timed
  BY DEF Shape, Promise, TakeKey, Progress
<1>1. \A k \in DOMAIN timed : k \in Int /\ k # None
  BY TableTimes
<1>2. /\ keys' = keys \ {t}
      /\ UNCHANGED <<failed, stray, delay, now, last_change, state, timed, due, called, wanted, pc>>
  BY DEF TakeKey, device, table, ghosts
<1>3. \A e \in Handlers : due[e] # None =>
        /\ e \in wanted /\ HState[e] = state /\ due[e] = Moment(e)
        /\ \/ called[e] = 1
           \/ due[e] \in DOMAIN timed /\ Contains(timed[due[e]], e)
  BY <1>0 DEF Owed
<1>4. \A k \in DOMAIN timed, e \in Handlers : Contains(timed[k], e) => called[e] = 0
  BY <1>0, <1>1 DEF Uncalled
<1>5. CASE t <= now
  <2>1. key' = t /\ calling' = timed[t] /\ next_event_time' = next_event_time
    BY <1>5 DEF TakeKey
  <2>2. Uncalled'
    BY <2>1, <1>0, <1>2, <1>4 DEF Uncalled
  <2>3. Owed'
    BY <2>1, <1>0, <1>2, <1>3 DEF Owed, Moment
  <2>4. \A k \in DOMAIN timed' : Awaited(k)'
    BY <2>1, <1>0, <1>1, <1>2 DEF Scheduling, Awaited
  <2>5. Scheduling'
    BY <2>1, <2>4, <1>0, <1>2 DEF Scheduling
  <2> QED BY <2>2, <2>3, <2>5 DEF Promise
<1>6. CASE ~(t <= now)
  <2>1. /\ key' = key /\ calling' = calling
        /\ next_event_time' = IF next_event_time = None \/ next_event_time > t THEN t ELSE next_event_time
    BY <1>6 DEF TakeKey
  <2>2. Uncalled'
    BY <2>1, <1>0, <1>2, <1>4 DEF Uncalled
  <2>3. Owed'
    BY <2>1, <1>0, <1>2, <1>3 DEF Owed, Moment
  <2>4. delay = None
    BY <1>0, <1>6 DEF Scheduling
  <2>5. next_event_time # None => next_event_time \in Int
    BY <1>0, <1>1 DEF Progress
  <2>6. next_event_time' # None /\ next_event_time' <= t
        /\ (next_event_time # None => next_event_time' <= next_event_time /\ next_event_time' \in Int)
    BY <2>1, <2>5, <1>0, <1>1
  <2>7. ASSUME NEW k \in DOMAIN timed PROVE Awaited(k)'
    <3>1. k \in keys \/ (next_event_time # None /\ next_event_time <= k)
      BY <2>4, <1>0, <1>1 DEF Scheduling, Awaited
    <3>2. k \in keys' \/ (next_event_time' # None /\ next_event_time' <= k)
      BY <3>1, <2>5, <2>6, <1>1, <1>2
    <3> QED BY <3>2 DEF Awaited
  <2>8. Scheduling'
    BY <2>4, <2>7, <1>0, <1>2 DEF Scheduling
  <2> QED BY <2>2, <2>3, <2>8 DEF Promise
<1> QED BY <1>5, <1>6

\* All handlers at the key have been called.
LEMMA KeyDonePromise ==
  ASSUME Shape, Promise, KeyDone
  PROVE  Promise'
<1>0. Timetable /\ Progress /\ Uncalled /\ Owed /\ Scheduling /\ pc = "timed" /\ calling = <<>>
  BY DEF Shape, Promise, KeyDone
<1>1. /\ DOMAIN timed' = DOMAIN timed \ {key} /\ \A k \in DOMAIN timed' : timed'[k] = timed[k]
      /\ key' = None
      /\ UNCHANGED <<failed, stray, delay, now, last_change, state, calling, due, called, wanted, pc,
                     keys, next_event_time>>
  BY DEF KeyDone, device, ghosts
<1>2. \A e : ~ Contains(calling, e)
  BY <1>0, EmptyList
<1>3. Uncalled'
  BY <1>0, <1>1 DEF Uncalled
<1>4. Owed'
  <2>1. ASSUME NEW e \in Handlers, due[e] # None
        PROVE  /\ e \in wanted /\ HState[e] = state /\ due[e] = Moment(e)
               /\ called[e] = 1 \/ (due[e] \in DOMAIN timed' /\ Contains(timed'[due[e]], e))
    BY <2>1, <1>0, <1>1, <1>2 DEF Owed
  <2> QED BY <2>1, <1>0, <1>1 DEF Owed, Moment
<1>5. Scheduling'
  <2>1. \A k \in DOMAIN timed' : Awaited(k)'
    BY <1>0, <1>1 DEF Scheduling, Awaited
  <2> QED BY <2>1, <1>0, <1>1 DEF Scheduling
<1> QED BY <1>3, <1>4, <1>5 DEF Promise

\* The next call is scheduled, unless one has been since.
LEMMA TimedDonePromise ==
  ASSUME Shape, Promise, TimedDone
  PROVE  Promise'
<1>0. /\ Timetable /\ Progress /\ Uncalled /\ Owed /\ Scheduling /\ pc = "events"
      /\ keys = {} /\ key = None
  BY DEF Shape, Promise, TimedDone, Progress
<1>1. /\ pc' = "idle" /\ next_event_time' = None
      /\ UNCHANGED <<failed, now, last_change, state, timed, calling, due, called, wanted, key, keys>>
  BY DEF TimedDone, device, ghosts
<1>2. Uncalled'
  BY <1>0, <1>1 DEF Uncalled
<1>3. Owed'
  BY <1>0, <1>1 DEF Owed, Moment
<1>4. \A k \in DOMAIN timed : k # None
  BY TableTimes
<1>5. Scheduling'
  <2>1. CASE next_event_time = None
    <3>1. delay' = delay /\ stray' = stray
      BY <2>1 DEF TimedDone
    <3> QED BY <3>1, <2>1, <1>0, <1>1, <1>4 DEF Scheduling, Awaited
  <2>2. CASE next_event_time # None
    <3>1. delay = None
      BY <2>2, <1>0 DEF Scheduling
    <3>2. delay' = next_event_time /\ stray' = stray
      BY <3>1, <2>2 DEF TimedDone
    <3> QED BY <3>1, <3>2, <2>2, <1>0, <1>1, <1>4 DEF Scheduling, Awaited
  <2> QED BY <2>1, <2>2
<1> QED BY <1>2, <1>3, <1>5 DEF Promise

\* The steps that leave the table and the calls alone.
LEMMA OtherPromise ==
  ASSUME Shape, Promise,
         \/ RunEvents \/ HandlersCalled \/ RecyclePassed \/ Mute \/ Tick
         \/ (\E h \in Waiters : CancelWait(h)) \/ UNCHANGED vars
  PROVE  Promise'
<1>0. Timetable /\ Progress /\ Uncalled /\ Owed /\ Scheduling
  BY DEF Shape, Promise
<1>1. UNCHANGED <<failed, stray, delay, last_change, state, timed, calling, due, called, wanted, key,
                  keys, next_event_time>>
  BY DEF RunEvents, HandlersCalled, RecyclePassed, Mute, Tick, CancelWait, vars, device, table, call, ghosts
<1>2. CASE RunEvents
  <2>1. pc = "timed" /\ pc' = "events" /\ now' = now
    BY <1>2 DEF RunEvents
  <2> QED BY <2>1, <1>0, <1>1 DEF Promise, Uncalled, Owed, Scheduling, Awaited, Moment
<1>3. CASE HandlersCalled
  <2>1. pc = "handlers" /\ pc' = "idle" /\ \A e : ~ Contains(calling, e)
    BY <1>3, EmptyList DEF HandlersCalled
  <2> QED BY <2>1, <1>0, <1>1 DEF Promise, Uncalled, Owed, Scheduling, Awaited, Moment
<1>4. CASE ~RunEvents /\ ~HandlersCalled
  <2>1. pc' = pc /\ (now' = now \/ pc = "idle")
    BY <1>4 DEF RecyclePassed, Mute, Tick, CancelWait, vars, call
  <2>2. Uncalled' /\ Owed'
    BY <2>1, <1>0, <1>1 DEF Uncalled, Owed, Moment
  <2>3. Scheduling'
    BY <2>1, <1>0, <1>1 DEF Scheduling, Awaited
  <2> QED BY <2>2, <2>3 DEF Promise
<1> QED BY <1>2, <1>3, <1>4

\* Every step keeps Promise.
LEMMA NextPromise ==
  ASSUME Wrapped = {}, Unusual = {}, Shape, Right, Promise, [Next]_vars
  PROVE  Promise'
<1>1. ASSUME NEW h \in Handlers, AddHandler(h) \/ RemoveHandler(h) PROVE Promise'
  BY <1>1, AddEntryPromise, RemoveEntriesPromise DEF AddHandler, RemoveHandler
<1>2. ASSUME NEW h \in Waiters, Wait(h) \/ FutureDone(h) PROVE Promise'
  <2>1. h \in Handlers
    BY SwitchAssumption
  <2> QED BY <1>2, <2>1, AddEntryPromise, RemoveEntriesPromise DEF Wait, FutureDone
<1>3. ASSUME NEW lag \in 0..MaxLag, Change(now - lag) PROVE Promise'
  <2>1. now - lag \in Int
    BY SwitchAssumption DEF Shape, Types
  <2> QED BY <1>3, <2>1, ChangePromise
<1>4. ASSUME NEW t \in Scheduled, BeginTimed(t) PROVE Promise'
  BY <1>4, BeginTimedPromise
<1>5. ASSUME NEW t, TakeKey(t) PROVE Promise'
  BY <1>5, TakeKeyPromise
<1>6. CASE RunEvents \/ HandlersCalled \/ RecyclePassed \/ Mute \/ Tick
           \/ (\E h \in Waiters : CancelWait(h)) \/ UNCHANGED vars
  BY <1>6, OtherPromise
<1>7. CASE CallHandler
  BY <1>7, CallHandlerPromise
<1>8. CASE CallTimed
  BY <1>8, CallTimedPromise
<1>9. CASE KeyDone
  BY <1>9, KeyDonePromise
<1>10. CASE TimedDone
  BY <1>10, TimedDonePromise
<1> QED BY <1>1, <1>2, <1>3, <1>4, <1>5, <1>6, <1>7, <1>8, <1>9, <1>10 DEF Next

\* What is due and not called is in the table, and the scheduled call is no later.
LEMMA PromiseKept ==
  ASSUME Shape, Promise
  PROVE  NoneForgotten
<1>0. Timetable /\ Progress /\ Uncalled /\ Owed /\ Scheduling
  BY DEF Shape, Promise
<1>1. ~failed /\ \A h \in Handlers : called[h] \in 0..1 /\ called[h] <= 1
  BY <1>0 DEF Scheduling, Uncalled
<1>2. ASSUME NEW h \in Handlers, pc = "idle", \A t \in Scheduled : t > now,
             due[h] # None, due[h] <= now, called[h] # 1
      PROVE  FALSE
  <2>1. due[h] \in DOMAIN timed /\ key = None /\ keys = {} /\ next_event_time = None
    BY <1>0, <1>2 DEF Owed, Progress
  <2>2. delay # None /\ delay <= due[h]
    BY <2>1, <1>0, <1>2 DEF Scheduling, Awaited
  <2>3. delay > now
    BY <2>2, <1>2 DEF Scheduled
  <2>4. delay \in Int /\ due[h] \in Int /\ now \in Int
    BY <2>2, <1>0, MomentType DEF Shape, Types, Timetable, Owed
  <2> QED BY <2>2, <2>3, <2>4, <1>2
<1> QED BY <1>1, <1>2 DEF NoneForgotten

\* Every handler whose time has come has been called, and once, if handlers are added and
\* removed as SwitchAssumption's comment says they usually are.
THEOREM NoneForgottenAlways ==
  ASSUME Wrapped = {}, Unusual = {}
  PROVE  Spec => []NoneForgotten
<1>1. Init => Shape /\ Right /\ Promise
  <2>1. Init => Right
    BY EmptyList DEF Init, Right, Registration, Entries, Calls
  <2>2. Init => Promise
    BY EmptyList DEF Init, Promise, Uncalled, Owed, Scheduling, None
  <2> QED BY <2>1, <2>2, InitShape
<1>2. Shape /\ Right /\ Promise /\ [Next]_vars => (Shape /\ Right /\ Promise)'
  BY NextShape, NextRight, NextPromise DEF Plain
<1>3. Shape /\ Promise => NoneForgotten
  BY PromiseKept
<1> QED BY <1>1, <1>2, <1>3, PTL DEF Spec
===============================================================================
