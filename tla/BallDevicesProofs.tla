--------------------------- MODULE BallDevicesProofs ---------------------------
(***************************************************************************)
(* Proofs about BallDevices: for any number of devices, any capacities, any *)
(* number of balls and any bound on mishaps and requests, what the machine  *)
(* has in its books is what its tasks have counted, promised and owe.       *)
(*                                                                         *)
(* The books alone are not inductive.  What a step does to them depends on  *)
(* the stages of the counting pass, of wait_for_ball() and of the eject,    *)
(* and on how far the count lags behind the balls; IInv says what these     *)
(* stages imply about each other, about a device (Local) and between them   *)
(* (Balances, Conserved, Sleep).  It is assumed throughout that nothing     *)
(* Unusual happens: with any of its members the books do go wrong.           *)
(*                                                                         *)
(* Each action has a lemma of its own, XStep for the action X, and all are  *)
(* built alike: <1>2 is what the action sees and does, <1>3 to <1>8 are the *)
(* parts of IInv.                                                           *)
(***************************************************************************)
EXTENDS BallDevices, FiniteSetTheorems, WellFoundedInduction, TLAPS

-------------------------------------------------------------------------------
(* Natural numbers, and sums over a finite set.  BallsConserved adds up a    *)
(* function, so a step needs to know what one changed value does to the sum. *)
(* Both rest on well-founded orders: there is no smallest counterexample.    *)

\* A set of natural numbers has a least element ...
LEMMA LeastElement ==
  ASSUME NEW T, T \subseteq Nat, T # {}
  PROVE  \E x \in T : \A y \in T : x <= y
<1> DEFINE R == {ss \in Nat \X Nat : ss[1] < ss[2]}
<1>0. IsWellFoundedOn(R, Nat)
  BY NatLessThanWellFounded, SMT DEF OpToRel
<1>1. PICK x \in T : \A y \in T : ~ (<<y, x>> \in R)
  <2> HIDE DEF R
  <2> QED BY <1>0, WFMin, Zenon
<1>2. ASSUME NEW y \in T PROVE x <= y
  <2>1. ~ (<<y, x>> \in R)
    BY <1>1
  <2>2. ~ (y < x)
    BY <2>1, SMT 
  <2> QED BY <2>2
<1> QED BY <1>1, <1>2

\* SumFunction picks an element, adds its value and goes on with the rest: h is its
\* table of partial sums.
Pick(s) == CHOOSE x \in s : TRUE
SumStepOf(F, h, s) == IF s = {} THEN 0 ELSE F[Pick(s)] + h[s \ {Pick(s)}]
SumsUp(F, S, h) == h = [s \in SUBSET S |-> SumStepOf(F, h, s)]

\* What there is to know of that table.
PartSums(F, S, h) ==
  /\ h[{}] = 0
  /\ \A s \in SUBSET S : s # {} => h[s] = F[Pick(s)] + h[s \ {Pick(s)}]

\* The picked element is one of the set.
LEMMA Picked == ASSUME NEW s, s # {} PROVE Pick(s) \in s
BY DEF Pick

\* The table exists: it is built for ever larger subsets.
LEMMA SumExists ==
  ASSUME NEW S, IsFiniteSet(S), NEW F \in [S -> Int]
  PROVE  \E h : SumsUp(F, S, h)
<1> DEFINE Small(n) == {s \in SUBSET S : Cardinality(s) <= n}
           Good(n) == \E h : h = [s \in Small(n) |-> SumStepOf(F, h, s)]
           Bad == {n \in Nat : ~Good(n)}
<1>1. Cardinality(S) \in Nat
  BY FS_CardinalityType
<1>2. \A s \in SUBSET S : IsFiniteSet(s) /\ Cardinality(s) \in Nat
  BY FS_Subset, FS_CardinalityType
<1>3. Good(0)
  <2>1. \A s \in Small(0) : s = {}
    BY <1>2, FS_EmptySet
  <2> DEFINE h == [s \in Small(0) |-> 0]
  <2>2. h = [s \in Small(0) |-> SumStepOf(F, h, s)]
    BY <2>1 DEF SumStepOf
  <2> QED BY <2>2
<1>4. ASSUME NEW n \in Nat, Good(n) PROVE Good(n + 1)
  <2>1. PICK h : h = [s \in Small(n) |-> SumStepOf(F, h, s)]
    BY <1>4
  <2> DEFINE g == [s \in Small(n + 1) |-> SumStepOf(F, h, s)]
  <2>2. ASSUME NEW s \in Small(n + 1), s # {}
        PROVE  s \ {Pick(s)} \in Small(n) /\ s \ {Pick(s)} \in Small(n + 1)
    <3>1. Cardinality(s \ {Pick(s)}) = Cardinality(s) - 1
      BY <1>2, <2>2, Picked, FS_RemoveElement
    <3> QED BY <3>1, <1>2
  <2>3. \A s \in Small(n) : s \in Small(n + 1) /\ g[s] = h[s]
    <3>1. \A s \in Small(n) : h[s] = SumStepOf(F, h, s)
      BY <2>1
    <3>2. \A s \in Small(n) : s \in Small(n + 1)
      BY <1>2
    <3>3. \A s \in Small(n + 1) : g[s] = SumStepOf(F, h, s)
      OBVIOUS
    <3> QED BY <3>1, <3>2, <3>3
  <2>4. ASSUME NEW s \in Small(n + 1) PROVE SumStepOf(F, h, s) = SumStepOf(F, g, s)
    <3>1. CASE s = {}
      BY <3>1 DEF SumStepOf
    <3>2. CASE s # {}
      <4>1. h[s \ {Pick(s)}] = g[s \ {Pick(s)}]
        BY <2>2, <2>3, <3>2
      <4> QED BY <4>1, <3>2 DEF SumStepOf
    <3> QED BY <3>1, <3>2
  <2>5. g = [s \in Small(n + 1) |-> SumStepOf(F, g, s)]
    BY <2>4
  <2> HIDE DEF g
  <2> QED BY <2>5
<1>5. Bad = {}
  <2>1. SUFFICES ASSUME Bad # {} PROVE FALSE
    OBVIOUS
  <2> HIDE DEF Good
  <2>2. PICK m \in Bad : \A y \in Bad : m <= y
    BY <2>1, LeastElement
  <2>3. m # 0
    BY <1>3, <2>2
  <2>4. m - 1 \in Nat /\ m - 1 \notin Bad
    BY <2>2, <2>3
  <2>5. Good(m - 1)
    BY <2>4
  <2>6. Good((m - 1) + 1)
    BY <2>4, <2>5, <1>4
  <2>7. (m - 1) + 1 = m
    BY <2>2
  <2> QED BY <2>2, <2>6, <2>7
<1>6. Good(Cardinality(S))
  <2> HIDE DEF Good
  <2> QED BY <1>1, <1>5
<1>7. Small(Cardinality(S)) = SUBSET S
  BY FS_Subset
<1> HIDE DEF Small
<1> QED BY <1>6, <1>7 DEF SumsUp

\* So SumFunction is the last entry of such a table.
LEMMA SumFunctionUnfolds ==
  ASSUME NEW S, IsFiniteSet(S), NEW F \in [S -> Int]
  PROVE  \E h : PartSums(F, S, h) /\ SumFunction(F) = h[S]
<1> DEFINE h == CHOOSE iter : SumsUp(F, S, iter)
<1>1. SumsUp(F, S, h)
  BY SumExists, Zenon
<1>2. DOMAIN F = S
  OBVIOUS
<1>3. SumFunction(F) = h[S]
  BY <1>2
       DEF SumFunction, SumFunctionOnSet, FoldFunctionOnSet, MapThenFoldSet, SumsUp, SumStepOf, Pick
<1>4. PartSums(F, S, h)
  <2> HIDE DEF h
  <2> QED BY <1>1 DEF SumsUp, SumStepOf, PartSums
<1> QED BY <1>3, <1>4

\* A property of finite sets that the empty set has, and a set has if it is
\* without the element that is picked first.
LEMMA SmallestSet ==
  ASSUME NEW S, IsFiniteSet(S), NEW Bad, Bad \subseteq SUBSET S, {} \notin Bad,
         \A s \in SUBSET S : s # {} /\ s \ {Pick(s)} \notin Bad => s \notin Bad
  PROVE  Bad = {}
<1>1. SUFFICES ASSUME Bad # {} PROVE FALSE
  OBVIOUS
<1>2. IsWellFoundedOn(StrictSubsetOrdering(S), SUBSET S)
  BY FS_StrictSubsetOrderingWellFounded, FS_FiniteSubsetsOfFinite
<1>3. PICK s \in Bad : \A t \in Bad : ~ (<<t, s>> \in StrictSubsetOrdering(S))
  BY <1>1, <1>2, WFMin, Zenon
<1>4. s # {} /\ s \in SUBSET S
  BY <1>3
<1>5. s \ {Pick(s)} \subseteq s /\ s \ {Pick(s)} # s
  BY <1>4, Picked
<1>6. s \ {Pick(s)} \notin Bad
  BY <1>3, <1>4, <1>5 DEF StrictSubsetOrdering
<1> QED BY <1>3, <1>4, <1>6

\* Partial sums of integers are integers.
LEMMA PartSumsAreInt ==
  ASSUME NEW S, IsFiniteSet(S), NEW F \in [S -> Int], NEW h, PartSums(F, S, h)
  PROVE  \A s \in SUBSET S : h[s] \in Int
<1> DEFINE Bad == {s \in SUBSET S : h[s] \notin Int}
<1>1. {} \notin Bad
  BY DEF PartSums
<1>2. ASSUME NEW s \in SUBSET S, s # {}, s \ {Pick(s)} \notin Bad PROVE s \notin Bad
  <2>1. h[s] = F[Pick(s)] + h[s \ {Pick(s)}]
    BY <1>2, Zenon DEF PartSums
  <2>2. F[Pick(s)] \in Int
    BY <1>2, Picked
  <2>3. h[s \ {Pick(s)}] \in Int
    BY <1>2
  <2> QED BY <2>1, <2>2, <2>3
<1>3. Bad = {}
  <2> HIDE DEF Bad
  <2>1. Bad \subseteq SUBSET S
    BY DEF Bad
  <2> QED BY <1>1, <1>2, <2>1, SmallestSet
<1> QED BY <1>3

\* The sum of a function changes by as much as its value at one place.
LEMMA SumChanges ==
  ASSUME NEW S, IsFiniteSet(S), NEW F \in [S -> Int], NEW G \in [S -> Int], NEW x \in S,
         \A y \in S \ {x} : G[y] = F[y]
  PROVE  SumFunction(G) = SumFunction(F) + (G[x] - F[x])
<1>1. PICK f : PartSums(F, S, f) /\ SumFunction(F) = f[S]
  BY SumFunctionUnfolds
<1>2. PICK g : PartSums(G, S, g) /\ SumFunction(G) = g[S]
  BY SumFunctionUnfolds
<1>3. \A s \in SUBSET S : f[s] \in Int /\ g[s] \in Int
  BY <1>1, <1>2, PartSumsAreInt
<1> DEFINE Delta(s) == IF x \in s THEN G[x] - F[x] ELSE 0
           Bad == {s \in SUBSET S : g[s] # f[s] + Delta(s)}
<1>4. {} \notin Bad
  BY <1>1, <1>2 DEF PartSums
<1>5. ASSUME NEW s \in SUBSET S, s # {}, s \ {Pick(s)} \notin Bad PROVE s \notin Bad
  <2> DEFINE r == s \ {Pick(s)}
  <2>1. f[s] = F[Pick(s)] + f[r] /\ g[s] = G[Pick(s)] + g[r]
    BY <1>1, <1>2, <1>5, Zenon DEF PartSums
  <2>2. Pick(s) \in s
    BY <1>5, Picked
  <2>3. r \in SUBSET S /\ g[r] = f[r] + Delta(r)
    BY <1>5
  <2>4. f[r] \in Int /\ g[r] \in Int /\ f[s] \in Int /\ g[s] \in Int
    BY <1>3, <2>3
  <2>5. F[Pick(s)] \in Int /\ G[Pick(s)] \in Int /\ F[x] \in Int /\ G[x] \in Int
    BY <2>2
  <2>6. CASE Pick(s) = x
    <3>1. Delta(r) = 0 /\ Delta(s) = G[x] - F[x]
      BY <2>2, <2>6
    <3> HIDE DEF Delta
    <3> QED BY <2>1, <2>3, <2>4, <2>5, <2>6, <3>1
  <2>7. CASE Pick(s) # x
    <3>1. Delta(r) = Delta(s) /\ Delta(r) \in Int
      BY <2>5, <2>7
    <3>2. G[Pick(s)] = F[Pick(s)]
      BY <2>2, <2>7
    <3> HIDE DEF Delta
    <3> QED BY <2>1, <2>3, <2>4, <2>5, <3>1, <3>2
  <2> QED BY <2>6, <2>7
<1>6. Bad = {}
  <2> HIDE DEF Bad
  <2>1. Bad \subseteq SUBSET S
    BY DEF Bad
  <2> QED BY <1>4, <1>5, <2>1, SmallestSet
<1>7. g[S] = f[S] + Delta(S)
  BY <1>6
<1> QED BY <1>1, <1>2, <1>7

\* A sum of natural numbers is one, and bounds each of them.
LEMMA SumOfNaturals ==
  ASSUME NEW S, IsFiniteSet(S), NEW F \in [S -> Nat]
  PROVE  SumFunction(F) \in Nat /\ \A x \in S : F[x] <= SumFunction(F)
<1>1. PICK f : PartSums(F, S, f) /\ SumFunction(F) = f[S]
  BY SumFunctionUnfolds
<1> DEFINE Bad == {s \in SUBSET S : ~ (f[s] \in Nat /\ \A x \in s : F[x] <= f[s])}
<1>2. {} \notin Bad
  BY <1>1 DEF PartSums
<1>3. ASSUME NEW s \in SUBSET S, s # {}, s \ {Pick(s)} \notin Bad PROVE s \notin Bad
  <2> DEFINE r == s \ {Pick(s)}
  <2>1. f[s] = F[Pick(s)] + f[r]
    BY <1>1, <1>3, Zenon DEF PartSums
  <2>2. Pick(s) \in s
    BY <1>3, Picked
  <2>3. f[r] \in Nat /\ \A x \in r : F[x] <= f[r]
    BY <1>3
  <2>4. F[Pick(s)] \in Nat /\ \A x \in s : F[x] \in Nat
    BY <2>2
  <2>5. f[s] \in Nat /\ F[Pick(s)] <= f[s] /\ f[r] <= f[s]
    BY <2>1, <2>3, <2>4
  <2>6. ASSUME NEW x \in s PROVE F[x] <= f[s]
    <3>1. CASE x = Pick(s)
      BY <2>5, <3>1
    <3>2. CASE x # Pick(s)
      <4>1. F[x] <= f[r]
        BY <2>3, <3>2
      <4> QED BY <4>1, <2>3, <2>4, <2>5
    <3> QED BY <3>1, <3>2
  <2> QED BY <2>5, <2>6
<1>4. Bad = {}
  <2> HIDE DEF Bad
  <2>1. Bad \subseteq SUBSET S
    BY DEF Bad
  <2> QED BY <1>2, <1>3, <2>1, SmallestSet
<1>5. S \in SUBSET S
  OBVIOUS
<1> QED BY <1>1, <1>4, <1>5

\* Zeros add up to zero.
LEMMA SumOfZeros ==
  ASSUME NEW S, IsFiniteSet(S)
  PROVE  SumFunction([x \in S |-> 0]) = 0
<1> DEFINE F == [x \in S |-> 0]
<1>0. F \in [S -> Int]
  OBVIOUS
<1>1. PICK f : PartSums(F, S, f) /\ SumFunction(F) = f[S]
  BY <1>0, SumFunctionUnfolds
<1> DEFINE Bad == {s \in SUBSET S : f[s] # 0}
<1>2. {} \notin Bad
  BY <1>1 DEF PartSums
<1>3. ASSUME NEW s \in SUBSET S, s # {}, s \ {Pick(s)} \notin Bad PROVE s \notin Bad
  <2>1. f[s] = F[Pick(s)] + f[s \ {Pick(s)}]
    BY <1>1, <1>3, Zenon DEF PartSums
  <2>2. F[Pick(s)] = 0
    BY <1>3, Picked
  <2> QED BY <1>3, <2>1, <2>2
<1>4. Bad = {}
  <2> HIDE DEF Bad
  <2>1. Bad \subseteq SUBSET S
    BY DEF Bad
  <2> QED BY <1>2, <1>3, <2>1, SmallestSet
<1> QED BY <1>1, <1>4

\* ... and, if it is bounded, a greatest one.
LEMMA GreatestElement ==
  ASSUME NEW n \in Nat, NEW T, T \subseteq 1..n, T # {}
  PROVE  \E x \in T : \A y \in T : y <= x
<1> DEFINE U == {n - x : x \in T}
<1>1. U \subseteq Nat /\ U # {}
  <2>1. \A x \in T : x \in 1..n
    OBVIOUS
  <2>2. \A x \in T : n - x \in Nat
    BY <2>1
  <2> QED BY <2>2
<1>2. PICK u \in U : \A v \in U : u <= v
  <2> HIDE DEF U
  <2> QED BY <1>1, LeastElement
<1>3. PICK x \in T : u = n - x
  BY <1>2
<1>4. ASSUME NEW y \in T PROVE y <= x
  <2>1. n - y \in U
    OBVIOUS
  <2>2. n - x <= n - y
    BY <1>2, <1>3, <2>1
  <2> QED BY <2>2
<1> QED BY <1>4

-------------------------------------------------------------------------------
(* The inductive invariant.                                                 *)

AfterLeft == {"ball_left", "recounting", "grace", "missing", "lost", "ending"}

\* The ball of the eject has left the device and is still in ball_count.
Left(d) == IF pc[d] \in AfterLeft THEN 1 ELSE 0

\* The stages of the task that ejects.
Stages == {"idle", "validating", "waiting_for_ball", "waiting_for_target_ready",
           "target_full", "start_eject", "checking"} \cup InEject

\* TypeOK without the bounds, which follow from the rest.
Types ==
  /\ inside \in [Devices -> Nat]
  /\ flying \in [Devices -> Nat]
  /\ loose \in Nat
  /\ mishaps \in 0..MaxMishaps
  /\ last_count \in [Devices -> Nat]
  /\ stable \in [Devices -> BOOLEAN]
  /\ ball_count \in [Devices -> Nat]
  /\ counting \in [Devices -> {"free", "eject", "count", "arrivals", "missing"}]
  /\ recount \in [Devices -> BOOLEAN]
  /\ count_valid \in [Devices -> BOOLEAN]
  /\ arrivals \in [Devices -> Nat]
  /\ waiter \in [Devices -> {"off", "waiting", "noted", "arrivals", "done"}]
  /\ noted \in [Devices -> Nat]
  /\ waiter_arrivals \in [Devices -> Nat]
  /\ surplus \in [Devices -> Int]
  /\ unknown_balls \in [Devices -> BOOLEAN]
  /\ heard \in [Devices -> BOOLEAN]
  /\ pc \in [Devices -> Stages]
  /\ queue \in [Devices -> Nat]
  /\ cancelled \in [Devices -> BOOLEAN]
  /\ ball \in [Devices -> {"none", "left", "arrived", "lost"}]
  /\ awaited \in [Devices -> Nat]
  /\ available_balls \in [Places -> Int]
  /\ playfield_balls \in Int
  /\ num_balls_requested \in Nat
  /\ wanted \in [Places -> Nat]

\* The lock of the counting: whoever ejects has it from start_eject() to the end, and
\* only the idle trough misses balls, as many as its count has fallen.
CountStage(d) ==
  /\ counting[d] = "eject" <=> pc[d] \in InEject
  /\ counting[d] = "arrivals" => arrivals[d] > 0
  /\ counting[d] = "missing" =>
       /\ d = 1
       /\ pc[d] \in {"idle", "validating"}
       /\ pc[d] = "validating" => ~count_valid[d]
       /\ arrivals[d] <= ball_count[d]
       /\ arrivals[d] = ball_count[d] - last_count[d] \/ recount[d]

\* wait_for_ball(): what it noted is not less than any count, and a cancellation finds it
\* not yet busy with a ball.
WaitStage(d) ==
  /\ pc[d] = "waiting_for_ball" <=> waiter[d] # "off"
  /\ waiter[d] = "arrivals" <=> waiter_arrivals[d] > 0
  /\ cancelled[d] => pc[d] = "waiting_for_ball" /\ waiter[d] # "arrivals" /\ d > 1
  /\ waiter[d] = "waiting" => ball_count[d] <= last_count[d] /\ ball_count[d] <= inside[d]
  /\ waiter[d] \in {"noted", "arrivals"} =>
       /\ 0 < noted[d]
       /\ ball_count[d] <= noted[d]
       /\ last_count[d] <= noted[d]
       /\ inside[d] <= noted[d]
       /\ d > 1 => noted[d] = last_count[d]
  /\ waiter[d] = "arrivals" => ball_count[d] = noted[d]
  /\ waiter[d] = "done" => ball_count[d] > 0

\* The eject: its ball at each stage, and the balls it may count on.
EjectStage(d) ==
  /\ pc[d] \in AfterLeft \ {"lost", "ending"} => ball[d] \in {"left", "arrived"}
  /\ pc[d] = "lost" => ball[d] = "lost"
  /\ pc[d] = "ending" => ball[d] \in {"arrived", "lost"}
  /\ pc[d] \notin AfterLeft => ball[d] = "none"
  /\ pc[d] = "grace" => d = Last
  /\ pc[d] = "recounting" => d # Last
  /\ pc[d] = "target_full" => d # Last
  /\ pc[d] = "checking" => d > 1
  /\ pc[d] = "ejecting" => last_count[d] > 0 /\ inside[d] > 0
  /\ pc[d] \in InEject => recount[d]
  /\ pc[d] \notin {"idle", "validating", "waiting_for_ball", "checking"} => ball_count[d] > 0
  /\ pc[d] \in InEject \ {"ending"} /\ d = Last => num_balls_requested > 0

\* The counter: a settled count is true, and after the trough a count only lags behind
\* balls that came in.  The tracker hears of no more balls than did come in.
Observed(d) ==
  /\ stable[d] => last_count[d] = inside[d]
  /\ unknown_balls[d] \/ heard[d] => pc[d] \in AfterLeft \cup {"ejecting"}
  /\ d > 1 => /\ last_count[d] <= inside[d]
              /\ ball_count[d] <= last_count[d] + Left(d)
              /\ (unknown_balls[d] \/ heard[d]) => ball_count[d] + 1 <= last_count[d] + Left(d)

\* The bounds of TypeOK, and nothing is awaited at the trough.
Limited(d) ==
  /\ last_count[d] <= Balls
  /\ ball_count[d] <= Balls
  /\ arrivals[d] <= Balls
  /\ noted[d] <= Balls
  /\ waiter_arrivals[d] <= Balls
  /\ d = 1 => awaited[d] = 0

\* A count handler that differs from the counter is counting, or about to.
Agreed(d) ==
  (d > 1 \/ Idle(d)) =>
     \/ ball_count[d] = last_count[d] \/ recount[d]
     \/ counting[d] \in {"count", "eject", "missing"}

\* What holds in every device for itself.
Local(d) ==
  CountStage(d) /\ WaitStage(d) /\ EjectStage(d) /\ Observed(d) /\ Limited(d) /\ Agreed(d)

\* The balls that a place has, or may count on because their eject is confirmed.
Has(p) == IF p = Playfield THEN playfield_balls ELSE ball_count[p] - Pending(p) + awaited[p]

\* The ejects of d that will still bring a ball to the next place.
Promised(d) ==
  queue[d] + (IF pc[d] \in {"idle", "checking", "ending"} \/ cancelled[d] \/ (d < Last /\ ball[d] = "arrived")
              THEN 0 ELSE 1)

\* The balance of a place: what it has, plus what is promised to it, less what it owes.
Balances ==
  \A p \in Places :
    available_balls[p] = (Has(p) + (IF p = 1 THEN 0 ELSE Promised(p - 1)))
                         - (IF p = Playfield THEN 0 ELSE Outbound(p))

\* The balls that are booked in d, so that the books do not miss or double a ball.
Booked(d) == ball_count[d] - Pending(d) - Doubled(d) + awaited[d]
Known == [d \in Devices |-> Booked(d)]

\* The balls that are in d, or just left it.
Here == [d \in Devices |-> inside[d] + flying[d]]

\* Neither the books nor the machine lose or make a ball.
Conserved == playfield_balls + SumFunction(Known) = Balls /\ loose + SumFunction(Here) = Balls

\* A device that sleeps before a full target is right to do so.
Sleeps(d) == awaited[d] = 0 /\ (pc[d] = "target_full" => ~HasRoom(d + 1))
Sleep == ByEvent = {} => \A d \in Devices : Sleeps(d)

\* The inductive invariant.
IInv ==
  /\ Types
  /\ \A d \in Devices : Local(d)
  /\ Balances
  /\ Conserved
  /\ Sleep

-------------------------------------------------------------------------------
(* The chain of devices, and moving balls along it.                         *)

\* The devices are 1..Last, the playfield comes after them.
LEMMA Geometry ==
  /\ Last \in Devices /\ 1 \in Devices /\ Balls \in Nat
  /\ Playfield = Last + 1 /\ Playfield \notin Devices
  /\ Devices \subseteq Int /\ \A e \in Devices : 1 <= e /\ e <= Last
  /\ Places \subseteq Int /\ Playfield \in Places
  /\ \A p \in Places : (p # Playfield => p \in Devices) /\ (p # 1 => p - 1 \in Devices)
  /\ \A e \in Devices : (e # Last => e + 1 \in Devices) /\ (e # 1 => e - 1 \in Devices)
  /\ Devices \subseteq Places
BY BallAssumption DEF Devices, Places, Playfield

\* Sums over the devices are sums over a finite set.
LEMMA FinitelyManyDevices == IsFiniteSet(Devices)
BY BallAssumption, FS_Interval DEF Devices

\* A sum of integers is an integer.
LEMMA SumIsInt ==
  ASSUME NEW S, IsFiniteSet(S), NEW F \in [S -> Int]
  PROVE  SumFunction(F) \in Int
<1>1. PICK f : PartSums(F, S, f) /\ SumFunction(F) = f[S]
  BY SumFunctionUnfolds
<1>2. \A s \in SUBSET S : f[s] \in Int
  BY <1>1, PartSumsAreInt
<1> QED BY <1>1, <1>2

\* What one device gains and the rest (m, n) loses leaves the total alone ...
LEMMA MovedOutside ==
  ASSUME NEW F \in [Devices -> Int], NEW G \in [Devices -> Int], NEW m \in Int, NEW n \in Int,
         NEW d \in Devices, \A e \in Devices \ {d} : G[e] = F[e],
         n + G[d] = m + F[d], m + SumFunction(F) = Balls
  PROVE  n + SumFunction(G) = Balls
<1>1. SumFunction(G) = SumFunction(F) + (G[d] - F[d])
  BY FinitelyManyDevices, SumChanges
<1>2. SumFunction(F) \in Int /\ SumFunction(G) \in Int
  BY FinitelyManyDevices, SumIsInt
<1>3. F[d] \in Int /\ G[d] \in Int
  OBVIOUS
<1> QED BY <1>1, <1>2, <1>3

\* ... and so does what it gains from another device.
LEMMA MovedAlong ==
  ASSUME NEW F \in [Devices -> Int], NEW G \in [Devices -> Int], NEW m \in Int, NEW n \in Int,
         NEW c \in Devices, NEW d \in Devices, c # d, \A e \in Devices \ {c, d} : G[e] = F[e],
         n + (G[c] + G[d]) = m + (F[c] + F[d]), m + SumFunction(F) = Balls
  PROVE  n + SumFunction(G) = Balls
<1> DEFINE H == [F EXCEPT ![c] = G[c]]
<1>1. H \in [Devices -> Int] /\ H[c] = G[c] /\ H[d] = F[d] /\ \A e \in Devices \ {c} : H[e] = F[e]
  OBVIOUS
<1>2. \A e \in Devices \ {d} : G[e] = H[e]
  OBVIOUS
<1> HIDE DEF H
<1>3. SumFunction(H) = SumFunction(F) + (H[c] - F[c])
  BY <1>1, FinitelyManyDevices, SumChanges
<1>4. SumFunction(G) = SumFunction(H) + (G[d] - H[d])
  BY <1>1, <1>2, FinitelyManyDevices, SumChanges
<1>5. SumFunction(F) \in Int /\ SumFunction(H) \in Int /\ SumFunction(G) \in Int
  BY <1>1, FinitelyManyDevices, SumIsInt
<1>6. F[c] \in Int /\ G[c] \in Int /\ F[d] \in Int /\ G[d] \in Int
  OBVIOUS
<1> QED BY <1>1, <1>3, <1>4, <1>5, <1>6

\* No place holds more balls than the machine has.
LEMMA InsideFits ==
  ASSUME Types, Conserved
  PROVE  loose <= Balls /\ \A d \in Devices : inside[d] + flying[d] <= Balls
<1>1. Here \in [Devices -> Nat]
  BY DEF Types, Here
<1>2. SumFunction(Here) \in Nat /\ \A d \in Devices : Here[d] <= SumFunction(Here)
  BY <1>1, FinitelyManyDevices, SumOfNaturals
<1>3. loose + SumFunction(Here) = Balls /\ loose \in Nat
  BY DEF Conserved, Types
<1>4. \A d \in Devices : Here[d] = inside[d] + flying[d] /\ Here[d] \in Nat
  BY <1>1 DEF Here
<1> QED BY <1>2, <1>3, <1>4, Geometry

\* A capacity is a natural number.
LEMMA Capacities == \A d \in Devices : Capacity[d] \in Nat
BY BallAssumption DEF Devices

\* SourceFor finds a device before the place, if it finds one.
LEMMA SourceFound ==
  ASSUME NEW p \in Places, NEW avail, SourceFor(p, avail) # 0
  PROVE  SourceFor(p, avail) \in Devices /\ SourceFor(p, avail) < p
<1> DEFINE rich == {d \in 1..(p - 1) : avail[d] > 0}
<1>1. p \in Int /\ p - 1 \in Nat /\ p - 1 <= Last /\ Last \in Nat
  BY BallAssumption DEF Places, Playfield
<1>2. rich # {}
  BY DEF SourceFor
<1>3. \E x \in rich : \A y \in rich : y <= x
  <2>1. rich \subseteq 1..(p - 1)
    OBVIOUS
  <2> HIDE DEF rich
  <2> QED BY <1>1, <1>2, <2>1, GreatestElement
<1>4. SourceFor(p, avail) \in rich
  BY <1>2, <1>3 DEF SourceFor
<1>5. SourceFor(p, avail) \in 1..(p - 1)
  BY <1>4
<1> QED BY <1>1, <1>5 DEF Devices

\* An eject chain from c to p moves one available ball and adds an eject to each device on
\* the way: at every place the balance changes on both sides alike.
LEMMA ChainBooks ==
  ASSUME NEW c \in Devices, NEW p \in Places, c < p, NEW avail \in [Places -> Int],
         queue \in [Devices -> Nat]
  PROVE  /\ Chain(avail, c, p) \in [Places -> Int]
         /\ Hops(c, p) \in [Devices -> Nat]
         /\ \A e \in Devices : queue[e] <= Hops(c, p)[e]
         /\ \A q \in Places :
              Chain(avail, c, p)[q] =
                (avail[q] + (IF q = 1 THEN 0 ELSE Hops(c, p)[q - 1] - queue[q - 1]))
                  - (IF q = Playfield THEN 0 ELSE Hops(c, p)[q] - queue[q])
<1> DEFINE hop(e) == IF c <= e /\ e < p THEN 1 ELSE 0
<1>1. c \in Int /\ p \in Int /\ c \in Places /\ 1 <= c /\ p <= Playfield /\ Playfield \in Int
  BY Geometry DEF Places
<1>2. \A e \in Devices : Hops(c, p)[e] = queue[e] + hop(e) /\ e \in Int
  BY <1>1, Geometry DEF Hops
<1>3. \A e \in Devices : Hops(c, p)[e] - queue[e] = hop(e)
  BY <1>2
<1>4. \A q \in Places : Chain(avail, c, p)[q] =
        avail[q] + (IF q = p THEN 1 ELSE IF q = c THEN -1 ELSE 0)
  BY <1>1 DEF Chain
<1>5. Chain(avail, c, p) \in [Places -> Int]
  BY <1>1 DEF Chain
<1>6. Hops(c, p) \in [Devices -> Nat]
  BY <1>1 DEF Hops
<1>7. \A e \in Devices : queue[e] <= Hops(c, p)[e]
  BY <1>2
<1>8. ASSUME NEW q \in Places
      PROVE  Chain(avail, c, p)[q] =
                (avail[q] + (IF q = 1 THEN 0 ELSE Hops(c, p)[q - 1] - queue[q - 1]))
                  - (IF q = Playfield THEN 0 ELSE Hops(c, p)[q] - queue[q])
  <2>1. q \in Int /\ avail[q] \in Int /\ 1 <= q /\ q <= Playfield
    BY Geometry DEF Places
  <2>2. q # 1 => Hops(c, p)[q - 1] - queue[q - 1] = hop(q - 1)
    BY <1>3, Geometry
  <2>3. q # Playfield => Hops(c, p)[q] - queue[q] = hop(q)
    BY <1>3, Geometry
  <2>4. Chain(avail, c, p)[q] = avail[q] + (IF q = p THEN 1 ELSE IF q = c THEN -1 ELSE 0)
    BY <1>4
  <2> QED BY <1>1, <2>1, <2>2, <2>3, <2>4
<1> QED BY <1>5, <1>6, <1>7, <1>8

-------------------------------------------------------------------------------
(* The balance of a place when a ball is requested or comes in unexpectedly: *)
(* the chain of ejects that is set up at once pays for itself.              *)

\* From avail, the books change by what the queues do, and no queue gets shorter.
Rebooks(avail) ==
  /\ available_balls' \in [Places -> Int]
  /\ queue' \in [Devices -> Nat]
  /\ wanted' \in [Places -> Nat]
  /\ \A e \in Devices : queue[e] <= queue'[e]
  /\ \A q \in Places :
       available_balls'[q] =
         (avail[q] + (IF q = 1 THEN 0 ELSE queue'[q - 1] - queue[q - 1]))
           - (IF q = Playfield THEN 0 ELSE queue'[q] - queue[q])

\* A step that only adds to the requests does so ...
LEMMA NothingQueued ==
  ASSUME Types, NEW avail \in [Places -> Int], available_balls' = avail, queue' = queue,
         wanted' \in [Places -> Nat]
  PROVE  Rebooks(avail)
<1>1. queue \in [Devices -> Nat]
  BY DEF Types
<1>2. ASSUME NEW q \in Places
      PROVE  available_balls'[q] =
               (avail[q] + (IF q = 1 THEN 0 ELSE queue'[q - 1] - queue[q - 1]))
                 - (IF q = Playfield THEN 0 ELSE queue'[q] - queue[q])
  <2>1. q # 1 => queue[q - 1] - queue[q - 1] = 0
    BY <1>1, Geometry
  <2>2. q # Playfield => queue[q] - queue[q] = 0
    BY <1>1, Geometry
  <2> QED BY <2>1, <2>2
<1>3. \A e \in Devices : queue[e] <= queue'[e]
  BY <1>1
<1> QED BY <1>1, <1>2, <1>3 DEF Rebooks

\* ... and so does an eject chain ...
LEMMA ChainRebooks ==
  ASSUME Types, NEW avail \in [Places -> Int], NEW c \in Devices, NEW p \in Places, c < p,
         available_balls' = Chain(avail, c, p), queue' = Hops(c, p), wanted' \in [Places -> Nat]
  PROVE  Rebooks(avail)
<1>1. queue \in [Devices -> Nat]
  BY DEF Types
<1> QED BY <1>1, ChainBooks DEF Rebooks

\* ... and _setup_or_queue_eject_to_target(), which does one or the other.
LEMMA SetupRebooks ==
  ASSUME Types, NEW s \in Devices, NEW p \in Places, NEW avail \in [Places -> Int],
         SetupOrQueue(s, p, avail)
  PROVE  Rebooks(avail)
<1> DEFINE source == IF s < p /\ avail[s] > 0 THEN s ELSE SourceFor(IF s < p THEN s ELSE p, avail)
<1>1. \/ /\ wanted' = [wanted EXCEPT ![p] = @ + 1] /\ available_balls' = avail /\ queue' = queue
      \/ /\ source # 0 /\ available_balls' = Chain(avail, source, p) /\ queue' = Hops(source, p)
         /\ wanted' = wanted
  BY DEF SetupOrQueue
<1>2. wanted \in [Places -> Nat]
  BY DEF Types
<1>3. CASE wanted' = [wanted EXCEPT ![p] = @ + 1] /\ available_balls' = avail /\ queue' = queue
  <2>1. wanted' \in [Places -> Nat]
    BY <1>2, <1>3
  <2> QED BY <1>3, <2>1, NothingQueued
<1>4. CASE /\ source # 0 /\ available_balls' = Chain(avail, source, p) /\ queue' = Hops(source, p)
           /\ wanted' = wanted
  <2>1. s \in Places /\ s \in Int /\ p \in Int
    BY Geometry
  <2>2. source \in Devices /\ source < p
    <3>1. CASE s < p /\ avail[s] > 0
      BY <3>1
    <3>2. CASE s < p /\ ~ (avail[s] > 0)
      <4>1. source = SourceFor(s, avail)
        BY <3>2
      <4>2. source \in Devices /\ source < s
        BY <1>4, <2>1, <4>1, SourceFound
      <4>3. source \in Int
        BY <4>2, Geometry
      <4> HIDE DEF source
      <4> QED BY <2>1, <3>2, <4>2, <4>3
    <3>3. CASE ~ (s < p)
      <4>1. source = SourceFor(p, avail)
        BY <3>3
      <4> QED BY <1>4, <4>1, SourceFound
    <3> QED BY <3>1, <3>2, <3>3
  <2> HIDE DEF source
  <2> QED BY <1>2, <1>4, <2>2, ChainRebooks
<1> QED BY <1>1, <1>3, <1>4

\* The current eject alone: what it will take from d, and bring to the next place.
Owes(d) == IF pc[d] \in {"idle", "checking"} \/ cancelled[d] THEN 0 ELSE 1
Comes(d) ==
  IF pc[d] \in {"idle", "checking", "ending"} \/ cancelled[d] \/ (d < Last /\ ball[d] = "arrived")
  THEN 0 ELSE 1

\* If avail balances with the old queues, the books balance with the new ones.
LEMMA Rebalanced ==
  ASSUME Types, Types', NEW avail \in [Places -> Int], Rebooks(avail),
         \A q \in Places : avail[q] = (Has(q)' + (IF q = 1 THEN 0 ELSE queue[q - 1] + Comes(q - 1)'))
                                        - (IF q = Playfield THEN 0 ELSE queue[q] + Owes(q)')
  PROVE  Balances'
<1>1. SUFFICES ASSUME NEW q \in Places
               PROVE  available_balls'[q] = (Has(q)' + (IF q = 1 THEN 0 ELSE Promised(q - 1)'))
                                             - (IF q = Playfield THEN 0 ELSE Outbound(q)')
  BY DEF Balances
<1>2. \A e \in Devices : /\ Promised(e)' = queue'[e] + Comes(e)' /\ Outbound(e)' = queue'[e] + Owes(e)'
                         /\ queue'[e] \in Int /\ Comes(e)' \in Int /\ Owes(e)' \in Int
                         /\ queue[e] \in Int
  BY DEF Promised, Comes, Outbound, Owes, Types
<1>3. Has(q)' \in Int
  <2>1. q = Playfield \/ q \in Devices
    BY Geometry
  <2> QED BY <2>1 DEF Has, Pending, Types
<1>4. available_balls'[q] =
         (avail[q] + (IF q = 1 THEN 0 ELSE queue'[q - 1] - queue[q - 1]))
           - (IF q = Playfield THEN 0 ELSE queue'[q] - queue[q])
  BY DEF Rebooks
<1>5. avail[q] \in Int /\ avail[q] = (Has(q)' + (IF q = 1 THEN 0 ELSE queue[q - 1] + Comes(q - 1)'))
                                        - (IF q = Playfield THEN 0 ELSE queue[q] + Owes(q)')
  OBVIOUS
<1>6. q # 1 => /\ Promised(q - 1)' = queue'[q - 1] + Comes(q - 1)' /\ queue'[q - 1] \in Int
               /\ Comes(q - 1)' \in Int /\ queue[q - 1] \in Int
  BY <1>2, Geometry
<1>7. q # Playfield => /\ Outbound(q)' = queue'[q] + Owes(q)' /\ queue'[q] \in Int
                       /\ Owes(q)' \in Int /\ queue[q] \in Int
  BY <1>2, Geometry
<1> QED BY <1>3, <1>4, <1>5, <1>6, <1>7

\* The ball of e is as it was, or is found to have arrived.
Confirms(e) == ball'[e] = ball[e] \/ (ball[e] = "left" /\ ball'[e] = "arrived")

\* The three ways to receive a ball: it was awaited, ...
ByAwaited(d) ==
  /\ awaited[d] > 0
  /\ awaited' = [awaited EXCEPT ![d] = @ - 1]
  /\ UNCHANGED <<ball, queue, available_balls, playfield_balls, wanted>>

\* ... the eject before d did not know yet that it arrived, ...
BySource(d) ==
  /\ d > 1
  /\ ball[d - 1] = "left"
  /\ ball' = [ball EXCEPT ![d - 1] = "arrived"]
  /\ UNCHANGED <<awaited, queue, available_balls, playfield_balls, wanted>>

\* ... or it came from the playfield.
FromPlayfield(d) ==
  /\ ball' \in [Devices -> {"none", "left", "arrived", "lost"}]
  /\ \A e \in Devices : Confirms(e) /\ (e # Last => ball'[e] = ball[e])
  /\ playfield_balls' = playfield_balls - 1
  /\ Rebooks([available_balls EXCEPT ![Playfield] = @ - 1, ![d] = @ + 1])
  /\ UNCHANGED awaited

\* There are no others.
LEMMA ReceivedHow ==
  ASSUME Types, NEW d \in Devices, ReceiveBall(d)
  PROVE  ByAwaited(d) \/ BySource(d) \/ FromPlayfield(d)
<1>1. CASE ReceiveExpected(d)
  BY <1>1 DEF ReceiveExpected, Expected, UnderWay, ByAwaited, BySource
<1>2. CASE ReceiveUnexpected(d)
  <2> DEFINE avail == [available_balls EXCEPT ![Playfield] = @ - 1, ![d] = @ + 1]
             asked == {p \in Places : p > 1 /\ wanted[p] > 0}
  <2>1. avail \in [Places -> Int]
    BY Geometry DEF Types
  <2>2. playfield_balls' = playfield_balls - 1 /\ awaited' = awaited
    BY <1>2 DEF ReceiveUnexpected
  <2>3. /\ ball' \in [Devices -> {"none", "left", "arrived", "lost"}]
        /\ \A e \in Devices : Confirms(e) /\ (e # Last => ball'[e] = ball[e])
    <3>1. \/ UnderWay(Last) /\ ball' = [ball EXCEPT ![Last] = "arrived"]
          \/ ball' = ball
      BY <1>2 DEF ReceiveUnexpected
    <3>2. CASE UnderWay(Last) /\ ball' = [ball EXCEPT ![Last] = "arrived"]
      BY <3>2, Geometry DEF Types, UnderWay, Confirms
    <3>3. CASE ball' = ball
      BY <3>3 DEF Types, Confirms
    <3> QED BY <3>1, <3>2, <3>3
  <2>4. \/ available_balls' = avail /\ queue' = queue /\ wanted' = wanted
        \/ /\ ~ (avail[d] <= 0 \/ (d = 1 /\ asked = {}))
           /\ \E p \in IF d = 1 THEN asked ELSE {Playfield} :
                /\ available_balls' = Chain(avail, d, p)
                /\ queue' = Hops(d, p)
                /\ wanted' = IF d = 1 THEN [wanted EXCEPT ![p] = @ - 1] ELSE wanted
    BY <1>2 DEF ReceiveUnexpected
  <2> HIDE DEF avail
  <2>5. CASE available_balls' = avail /\ queue' = queue /\ wanted' = wanted
    <3>1. wanted' \in [Places -> Nat]
      BY <2>5 DEF Types
    <3>2. Rebooks(avail)
      BY <2>1, <2>5, <3>1, NothingQueued
    <3> QED BY <2>2, <2>3, <3>2 DEF avail, FromPlayfield
  <2>6. CASE \E p \in IF d = 1 THEN asked ELSE {Playfield} :
                /\ available_balls' = Chain(avail, d, p)
                /\ queue' = Hops(d, p)
                /\ wanted' = IF d = 1 THEN [wanted EXCEPT ![p] = @ - 1] ELSE wanted
    <3>1. PICK p \in IF d = 1 THEN asked ELSE {Playfield} :
                /\ available_balls' = Chain(avail, d, p)
                /\ queue' = Hops(d, p)
                /\ wanted' = IF d = 1 THEN [wanted EXCEPT ![p] = @ - 1] ELSE wanted
      BY <2>6
    <3>2. p \in Places /\ d < p
      <4>1. CASE d = 1
        BY <3>1, <4>1, Geometry
      <4>2. CASE d # 1
        BY <3>1, <4>2, Geometry
      <4> QED BY <4>1, <4>2
    <3>3. wanted' \in [Places -> Nat]
      <4>0. wanted \in [Places -> Nat]
        BY DEF Types
      <4>1. CASE d = 1
        <5>1. wanted[p] \in Nat /\ wanted[p] > 0 /\ wanted' = [wanted EXCEPT ![p] = @ - 1]
          BY <3>1, <3>2, <4>0, <4>1
        <5>2. wanted[p] - 1 \in Nat
          BY <5>1
        <5> QED BY <4>0, <5>1, <5>2
      <4>2. CASE d # 1
        BY <3>1, <4>0, <4>2
      <4> QED BY <4>1, <4>2
    <3>4. Rebooks(avail)
      BY <2>1, <3>1, <3>2, <3>3, ChainRebooks
    <3> QED BY <2>2, <2>3, <3>4 DEF avail, FromPlayfield
  <2> QED BY <2>4, <2>5, <2>6
<1> QED BY <1>1, <1>2 DEF ReceiveBall

\* Receiving a ball keeps the types and awaits no more balls; a device that is idle after it
\* was so before.
LEMMA ReceivedTypes ==
  ASSUME Types, NEW d \in Devices, ReceiveBall(d)
  PROVE  /\ awaited' \in [Devices -> Nat]
         /\ ball' \in [Devices -> {"none", "left", "arrived", "lost"}]
         /\ queue' \in [Devices -> Nat]
         /\ available_balls' \in [Places -> Int]
         /\ playfield_balls' \in Int
         /\ wanted' \in [Places -> Nat]
         /\ \A e \in Devices : /\ awaited'[e] <= awaited[e]
                               /\ Idle(e)' => pc'[e] = "idle" /\ queue[e] = 0
                               /\ Confirms(e)
<1>0. /\ \A e \in Devices :
             awaited[e] \in Nat /\ queue[e] \in Nat /\ ball[e] \in {"none", "left", "arrived", "lost"}
      /\ playfield_balls \in Int
  BY DEF Types
<1>1. CASE ByAwaited(d)
  BY <1>0, <1>1 DEF ByAwaited, Types, Confirms, Idle
<1>2. CASE BySource(d)
  <2> DEFINE c == d - 1
  <2>1. c \in Devices
    BY <1>2, Geometry DEF BySource
  <2>2. /\ ball[c] = "left" /\ ball' = [ball EXCEPT ![c] = "arrived"]
        /\ UNCHANGED <<awaited, queue, available_balls, playfield_balls, wanted>>
    BY <1>2 DEF BySource
  <2> HIDE DEF c
  <2> QED BY <1>0, <2>1, <2>2 DEF Types, Confirms, Idle
<1>3. CASE FromPlayfield(d)
  <2>1. /\ queue' \in [Devices -> Nat] /\ wanted' \in [Places -> Nat]
        /\ available_balls' \in [Places -> Int]
        /\ \A e \in Devices : queue[e] <= queue'[e]
    BY <1>3 DEF FromPlayfield, Rebooks
  <2>2. \A e \in Devices : queue'[e] = 0 => queue[e] = 0
    BY <1>0, <2>1
  <2>3. /\ ball' \in [Devices -> {"none", "left", "arrived", "lost"}] /\ awaited' = awaited
        /\ playfield_balls' = playfield_balls - 1
    BY <1>3 DEF FromPlayfield
  <2>4. \A e \in Devices : Confirms(e)
    BY <1>3 DEF FromPlayfield
  <2>5. playfield_balls' \in Int
    BY <1>0, <2>3
  <2>6. \A e \in Devices : awaited'[e] <= awaited[e]
    BY <1>0, <2>3
  <2>7. awaited' \in [Devices -> Nat]
    BY <2>3 DEF Types
  <2> QED BY <2>1, <2>2, <2>3, <2>4, <2>5, <2>6, <2>7 DEF Idle
<1> QED BY <1>1, <1>2, <1>3, ReceivedHow

\* What receiving a ball does to the rest: one ball less is pending, and a device that
\* waited for room may go on.
Handled(d) ==
  /\ \A e \in Devices : Pending(e)' = Pending(e) - (IF e = d THEN 1 ELSE 0)
  /\ \A e \in Devices : \/ pc'[e] = pc[e]
                        \/ pc[e] = "target_full" /\ pc'[e] = "waiting_for_target_ready"
  /\ UNCHANGED <<machine, ball_count, cancelled>>

-------------------------------------------------------------------------------
(* How the balance and the totals survive a step.                           *)

\* Every quantity of the books is an integer and the sum of its parts ...
LEMMA PlainTypes ==
  ASSUME Types
  PROVE  \A e \in Devices : /\ Pending(e) \in Int /\ ball_count[e] \in Int /\ awaited[e] \in Int
                            /\ queue[e] \in Int /\ Owes(e) \in Int /\ Comes(e) \in Int
                            /\ Doubled(e) \in Int
                            /\ Promised(e) = queue[e] + Comes(e) /\ Outbound(e) = queue[e] + Owes(e)
                            /\ Booked(e) = ((ball_count[e] - Pending(e)) - Doubled(e)) + awaited[e]
                            /\ Booked(e) \in Int /\ Promised(e) \in Int /\ Outbound(e) \in Int
                            /\ Has(e) = (ball_count[e] - Pending(e)) + awaited[e]
<1>1. ASSUME NEW e \in Devices
      PROVE  /\ Pending(e) \in Int /\ ball_count[e] \in Int /\ awaited[e] \in Int
             /\ queue[e] \in Int /\ Owes(e) \in Int /\ Comes(e) \in Int /\ Doubled(e) \in Int
  BY DEF Types, Pending, Owes, Comes, Doubled
<1>2. ASSUME NEW e \in Devices
      PROVE  /\ Promised(e) = queue[e] + Comes(e) /\ Outbound(e) = queue[e] + Owes(e)
             /\ Booked(e) = ((ball_count[e] - Pending(e)) - Doubled(e)) + awaited[e]
             /\ Has(e) = (ball_count[e] - Pending(e)) + awaited[e]
  BY Geometry DEF Promised, Comes, Outbound, Owes, Booked, Has
<1> QED BY <1>1, <1>2

\* ... also in the next state.
LEMMA PlainTypesNext ==
  ASSUME Types'
  PROVE  \A e \in Devices : /\ Pending(e)' \in Int /\ ball_count'[e] \in Int /\ awaited'[e] \in Int
                            /\ queue'[e] \in Int /\ Owes(e)' \in Int /\ Comes(e)' \in Int
                            /\ Doubled(e)' \in Int
                            /\ Promised(e)' = queue'[e] + Comes(e)'
                            /\ Outbound(e)' = queue'[e] + Owes(e)'
                            /\ Booked(e)' = ((ball_count'[e] - Pending(e)') - Doubled(e)') + awaited'[e]
                            /\ Booked(e)' \in Int /\ Promised(e)' \in Int /\ Outbound(e)' \in Int
                            /\ Has(e)' = (ball_count'[e] - Pending(e)') + awaited'[e]
<1>1. ASSUME NEW e \in Devices
      PROVE  /\ Pending(e)' \in Int /\ ball_count'[e] \in Int /\ awaited'[e] \in Int
             /\ queue'[e] \in Int /\ Owes(e)' \in Int /\ Comes(e)' \in Int /\ Doubled(e)' \in Int
  BY DEF Types, Pending, Owes, Comes, Doubled
<1>2. ASSUME NEW e \in Devices
      PROVE  /\ Promised(e)' = queue'[e] + Comes(e)' /\ Outbound(e)' = queue'[e] + Owes(e)'
             /\ Booked(e)' = ((ball_count'[e] - Pending(e)') - Doubled(e)') + awaited'[e]
             /\ Has(e)' = (ball_count'[e] - Pending(e)') + awaited'[e]
  BY Geometry DEF Promised, Comes, Outbound, Owes, Booked, Has
<1> QED BY <1>1, <1>2

\* If the balance of every place changes as its parts do, it still holds.
LEMMA BalancesAgain ==
  ASSUME Types, Types', Balances,
         \A p \in Places :
           (available_balls'[p] - available_balls[p]) =
             ((Has(p)' - Has(p)) + (IF p = 1 THEN 0 ELSE Promised(p - 1)' - Promised(p - 1)))
               - (IF p = Playfield THEN 0 ELSE Outbound(p)' - Outbound(p))
  PROVE  Balances'
<1>1. SUFFICES ASSUME NEW p \in Places
               PROVE  available_balls'[p] = (Has(p)' + (IF p = 1 THEN 0 ELSE Promised(p - 1)'))
                                             - (IF p = Playfield THEN 0 ELSE Outbound(p)')
  BY DEF Balances
<1>2. available_balls[p] = (Has(p) + (IF p = 1 THEN 0 ELSE Promised(p - 1)))
                           - (IF p = Playfield THEN 0 ELSE Outbound(p))
  BY DEF Balances
<1>3. (available_balls'[p] - available_balls[p]) =
        ((Has(p)' - Has(p)) + (IF p = 1 THEN 0 ELSE Promised(p - 1)' - Promised(p - 1)))
          - (IF p = Playfield THEN 0 ELSE Outbound(p)' - Outbound(p))
  OBVIOUS
<1>4. Has(p) \in Int /\ Has(p)' \in Int
  <2>1. p = Playfield \/ p \in Devices
    BY Geometry
  <2> QED BY <2>1 DEF Has, Pending, Types
<1>5. available_balls[p] \in Int /\ available_balls'[p] \in Int
  BY DEF Types
<1>6. p # 1 => Promised(p - 1) \in Int /\ Promised(p - 1)' \in Int
  BY PlainTypes, PlainTypesNext, Geometry
<1>7. p # Playfield => Outbound(p) \in Int /\ Outbound(p)' \in Int
  BY PlainTypes, PlainTypesNext, Geometry
<1> QED BY <1>2, <1>3, <1>4, <1>5, <1>6, <1>7

\* The booked balls are integers ...
LEMMA KnownIsTyped == ASSUME Types PROVE Known \in [Devices -> Int]
BY PlainTypes DEF Known

\* ... before and after a step.
LEMMA KnownTypes == ASSUME Types, Types' PROVE Known \in [Devices -> Int] /\ Known' \in [Devices -> Int]
BY PlainTypes, PlainTypesNext DEF Known

\* A ball is booked from a device to the playfield, or back ...
LEMMA ConservedAgain ==
  ASSUME Types, Types', Conserved, UNCHANGED machine, NEW d \in Devices,
         \A e \in Devices \ {d} : Booked(e)' = Booked(e),
         (playfield_balls' - playfield_balls) + (Booked(d)' - Booked(d)) = 0
  PROVE  Conserved'
<1>1. Known \in [Devices -> Int] /\ Known' \in [Devices -> Int]
  BY KnownTypes
<1>2. /\ (\A e \in Devices \ {d} : Known'[e] = Known[e]) /\ Known[d] = Booked(d)
      /\ Known'[d] = Booked(d)'
  BY DEF Known
<1>3. /\ playfield_balls \in Int /\ playfield_balls' \in Int
      /\ playfield_balls + SumFunction(Known) = Balls
  BY DEF Types, Conserved
<1>4. playfield_balls' + Known'[d] = playfield_balls + Known[d]
  <2>1. Booked(d) \in Int /\ Booked(d)' \in Int
    BY PlainTypes, PlainTypesNext
  <2>2. (playfield_balls' - playfield_balls) + (Booked(d)' - Booked(d)) = 0
    OBVIOUS
  <2>3. playfield_balls' + Booked(d)' = playfield_balls + Booked(d)
    <3> HIDE DEF Booked
    <3> QED BY ONLY <1>3, <2>1, <2>2
  <2> QED BY <1>2, <2>3
<1>5. playfield_balls' + SumFunction(Known') = Balls
  <2> HIDE DEF Known
  <2> QED BY <1>1, <1>2, <1>3, <1>4, MovedOutside
<1>6. Here' = Here /\ loose' = loose
  BY DEF machine, Here
<1> QED BY <1>5, <1>6 DEF Conserved

\* ... or from a device to another.
LEMMA ConservedAlong ==
  ASSUME Types, Types', Conserved, UNCHANGED machine, NEW c \in Devices, NEW d \in Devices, c # d,
         \A e \in Devices \ {c, d} : Booked(e)' = Booked(e), playfield_balls' = playfield_balls,
         (Booked(c)' - Booked(c)) + (Booked(d)' - Booked(d)) = 0
  PROVE  Conserved'
<1>1. Known \in [Devices -> Int] /\ Known' \in [Devices -> Int]
  BY KnownTypes
<1>2. /\ \A e \in Devices \ {c, d} : Known'[e] = Known[e]
      /\ Known[c] = Booked(c) /\ Known'[c] = Booked(c)' /\ Known[d] = Booked(d)
      /\ Known'[d] = Booked(d)'
  BY DEF Known
<1>3. /\ playfield_balls \in Int /\ playfield_balls' \in Int
      /\ playfield_balls + SumFunction(Known) = Balls
  BY DEF Types, Conserved
<1>4. playfield_balls' + (Known'[c] + Known'[d]) = playfield_balls + (Known[c] + Known[d])
  <2>1. Booked(c) \in Int /\ Booked(c)' \in Int /\ Booked(d) \in Int /\ Booked(d)' \in Int
    BY PlainTypes, PlainTypesNext
  <2> QED BY <1>2, <1>3, <2>1
<1>5. playfield_balls' + SumFunction(Known') = Balls
  <2> DEFINE F == Known
             G == Known'
             m == playfield_balls
             n == playfield_balls'
  <2>1. /\ F \in [Devices -> Int] /\ G \in [Devices -> Int] /\ m \in Int /\ n \in Int
        /\ \A e \in Devices \ {c, d} : G[e] = F[e]
        /\ n + (G[c] + G[d]) = m + (F[c] + F[d]) /\ m + SumFunction(F) = Balls
    BY <1>1, <1>2, <1>3, <1>4
  <2>2. n + SumFunction(G) = Balls
    <3> HIDE DEF F, G, m, n
    <3> QED BY <2>1, MovedAlong
  <2> QED BY <2>2
<1>6. Here' = Here /\ loose' = loose
  BY DEF machine, Here
<1> QED BY <1>5, <1>6 DEF Conserved

\* An action that changes what no place has, is promised or owes keeps the balance ...
LEMMA BalancesStay ==
  ASSUME Types, Types', Balances, UNCHANGED <<available_balls, playfield_balls>>,
         \A e \in Devices : Has(e)' = Has(e) /\ Promised(e)' = Promised(e) /\ Outbound(e)' = Outbound(e)
  PROVE  Balances'
<1>1. \A p \in Places : Has(p)' = Has(p)
  <2>1. Has(Playfield)' = Has(Playfield)
    BY DEF Has
  <2> QED BY <2>1, Geometry
<1>2. \A p \in Places : p # 1 => Promised(p - 1)' = Promised(p - 1)
  BY Geometry
<1>3. \A p \in Places : p # Playfield => Outbound(p)' = Outbound(p)
  BY Geometry
<1> QED BY <1>1, <1>2, <1>3 DEF Balances

\* ... and one that changes no booking and moves no ball keeps the totals.
LEMMA TotalsStay ==
  ASSUME Types, Types', Conserved, UNCHANGED <<loose, inside, flying, playfield_balls>>,
         \A e \in Devices : Booked(e)' = Booked(e)
  PROVE  Conserved'
BY DEF Conserved, Known, Here

\* A ball moves between a device and the playfield ...
LEMMA BallMovesOutside ==
  ASSUME Types, Types', Conserved, UNCHANGED playfield_balls,
         \A e \in Devices : Booked(e)' = Booked(e), NEW d \in Devices,
         \A e \in Devices \ {d} : inside'[e] = inside[e] /\ flying'[e] = flying[e],
         loose' + (inside'[d] + flying'[d]) = loose + (inside[d] + flying[d])
  PROVE  Conserved'
<1>1. Here \in [Devices -> Int] /\ Here' \in [Devices -> Int]
  BY DEF Types, Here
<1>2. /\ \A e \in Devices \ {d} : Here'[e] = Here[e]
      /\ loose' + Here'[d] = loose + Here[d]
  BY DEF Here
<1>3. loose \in Int /\ loose' \in Int /\ loose + SumFunction(Here) = Balls
  BY DEF Types, Conserved
<1>4. loose' + SumFunction(Here') = Balls
  <2> HIDE DEF Here
  <2> QED BY <1>1, <1>2, <1>3, MovedOutside
<1>5. Known' = Known
  BY DEF Known
<1> QED BY <1>4, <1>5 DEF Conserved

\* ... or from a device into another.
LEMMA BallMovesAlong ==
  ASSUME Types, Types', Conserved, UNCHANGED <<loose, playfield_balls>>,
         \A e \in Devices : Booked(e)' = Booked(e), NEW c \in Devices, NEW d \in Devices, c # d,
         \A e \in Devices \ {c, d} : inside'[e] = inside[e] /\ flying'[e] = flying[e],
         (inside'[c] + flying'[c]) + (inside'[d] + flying'[d])
            = (inside[c] + flying[c]) + (inside[d] + flying[d])
  PROVE  Conserved'
<1> DEFINE F == Here
           G == Here'
           m == loose
           n == loose'
<1>1. F \in [Devices -> Int] /\ G \in [Devices -> Int] /\ m \in Int /\ n \in Int
  BY DEF Types, Here
<1>2. \A e \in Devices \ {c, d} : G[e] = F[e]
  BY DEF Here
<1>3. n + (G[c] + G[d]) = m + (F[c] + F[d])
  BY DEF Here, Types
<1>4. m + SumFunction(F) = Balls
  BY DEF Conserved
<1>5. n + SumFunction(G) = Balls
  <2> HIDE DEF F, G, m, n
  <2> QED BY <1>1, <1>2, <1>3, <1>4, MovedAlong
<1>6. Known' = Known
  BY DEF Known
<1> QED BY <1>5, <1>6 DEF Conserved

-------------------------------------------------------------------------------
(* Receiving a ball, in each of the three ways.                             *)

\* An awaited ball becomes one that the device has.
LEMMA ReceivedByAwaited ==
  ASSUME Types, Types', Balances, Conserved, NEW d \in Devices, ByAwaited(d), Handled(d)
  PROVE  Balances' /\ Conserved'
<1>1. ASSUME NEW e \in Devices
      PROVE  /\ awaited'[e] = awaited[e] - (IF e = d THEN 1 ELSE 0)
             /\ Owes(e)' = Owes(e) /\ Comes(e)' = Comes(e) /\ Doubled(e)' = Doubled(e)
             /\ queue'[e] = queue[e] /\ ball_count'[e] = ball_count[e]
             /\ Pending(e)' = Pending(e) - (IF e = d THEN 1 ELSE 0)
  <2>1. awaited'[e] = awaited[e] - (IF e = d THEN 1 ELSE 0)
    BY DEF ByAwaited, Types
  <2>2. Owes(e)' = Owes(e) /\ Comes(e)' = Comes(e) /\ Doubled(e)' = Doubled(e)
    BY DEF ByAwaited, Handled, Owes, Comes, Doubled
  <2> QED BY <2>1, <2>2 DEF ByAwaited, Handled
<1>2. ASSUME NEW e \in Devices
      PROVE  /\ Has(e)' = Has(e) /\ Booked(e)' = Booked(e)
             /\ Promised(e)' = Promised(e) /\ Outbound(e)' = Outbound(e)
  <2>0. /\ Pending(e) \in Int /\ ball_count[e] \in Int /\ awaited[e] \in Int /\ Doubled(e) \in Int
        /\ Booked(e) = ((ball_count[e] - Pending(e)) - Doubled(e)) + awaited[e]
        /\ Has(e) = (ball_count[e] - Pending(e)) + awaited[e]
        /\ Booked(e)' = ((ball_count'[e] - Pending(e)') - Doubled(e)') + awaited'[e]
        /\ Has(e)' = (ball_count'[e] - Pending(e)') + awaited'[e]
    BY PlainTypes, PlainTypesNext
  <2>1. Has(e)' = Has(e)
    BY <1>1, <2>0
  <2>2. Promised(e)' = Promised(e) /\ Outbound(e)' = Outbound(e)
    BY <1>1, PlainTypes, PlainTypesNext
  <2>3. Booked(e)' = Booked(e)
    BY <1>1, <2>0
  <2> QED BY <2>1, <2>2, <2>3
<1>3. Balances'
  <2>1. UNCHANGED <<available_balls, playfield_balls>>
    BY DEF ByAwaited
  <2>2. \A p \in Places : Has(p)' = Has(p)
    BY <1>2, <2>1, Geometry DEF Has
  <2>3. \A p \in Places : (p # 1 => Promised(p - 1)' = Promised(p - 1)) /\ (p # Playfield => Outbound(p)' = Outbound(p))
    BY <1>2, Geometry
  <2> QED BY <2>1, <2>2, <2>3 DEF Balances
<1>4. Conserved'
  <2>1. UNCHANGED <<machine, playfield_balls>>
    BY DEF ByAwaited, Handled
  <2>2. Known' = Known
    BY <1>2 DEF Known
  <2>3. Here' = Here /\ loose' = loose
    BY <2>1 DEF machine, Here
  <2> QED BY <2>1, <2>2, <2>3 DEF Conserved
<1> QED BY <1>3, <1>4

\* A ball under way becomes one that the device has; the source still counts it until its
\* eject ends.
LEMMA ReceivedBySource ==
  ASSUME Types, Types', Balances, Conserved, \A e \in Devices : WaitStage(e) /\ EjectStage(e),
         NEW d \in Devices, BySource(d), Handled(d)
  PROVE  Balances' /\ Conserved'
<1> DEFINE c == d - 1
<1>1. /\ c \in Devices /\ c # d /\ c # Last /\ c < Last /\ d # 1
      /\ \A p \in Places : (p = d <=> p - 1 = c)
  BY Geometry DEF BySource
<1>2. /\ ball[c] = "left" /\ ball' = [ball EXCEPT ![c] = "arrived"]
      /\ UNCHANGED <<awaited, queue, available_balls, playfield_balls>>
  BY DEF BySource
<1> HIDE DEF c
<1>3. pc[c] \in AfterLeft \ {"lost", "ending"} /\ ~cancelled[c]
  BY <1>1, <1>2 DEF Types, WaitStage, EjectStage, AfterLeft, Stages, InEject
<1>4. \A e \in Devices : e # c => ball'[e] = ball[e]
  BY <1>2 DEF Types
<1>5. \A e \in Devices : Owes(e)' = Owes(e)
  BY DEF Handled, Owes
<1>6. /\ \A e \in Devices : e # c => Comes(e)' = Comes(e) /\ Doubled(e)' = Doubled(e)
      /\ Comes(c) = 1 /\ Comes(c)' = 0 /\ Doubled(c) = 0 /\ Doubled(c)' = 1
  <2>1. \A e \in Devices : e # c => Comes(e)' = Comes(e) /\ Doubled(e)' = Doubled(e)
    BY <1>4 DEF Handled, Comes, Doubled
  <2>2. ball'[c] = "arrived" /\ pc'[c] = pc[c] /\ cancelled'[c] = cancelled[c]
    BY <1>1, <1>2, <1>3 DEF Types, Handled, AfterLeft
  <2>3. Comes(c) = 1 /\ Comes(c)' = 0
    BY <1>1, <1>2, <1>3, <2>2 DEF Comes, AfterLeft
  <2>4. Doubled(c) = 0 /\ Doubled(c)' = 1
    BY <1>1, <1>2, <1>3, <2>2 DEF Doubled, AfterLeft
  <2> QED BY <2>1, <2>3, <2>4
<1>7. ASSUME NEW e \in Devices
      PROVE  /\ Has(e)' - Has(e) = (IF e = d THEN 1 ELSE 0)
             /\ Promised(e)' - Promised(e) = (IF e = c THEN -1 ELSE 0)
             /\ Outbound(e)' - Outbound(e) = 0
             /\ Booked(e)' - Booked(e) = (IF e = d THEN 1 ELSE IF e = c THEN -1 ELSE 0)
  <2>1. /\ awaited'[e] = awaited[e] /\ queue'[e] = queue[e] /\ ball_count'[e] = ball_count[e]
        /\ Pending(e)' = Pending(e) - (IF e = d THEN 1 ELSE 0)
    BY <1>2 DEF Handled
  <2>2. Has(e)' - Has(e) = (IF e = d THEN 1 ELSE 0)
    BY <2>1, PlainTypes, PlainTypesNext
  <2>3. Promised(e)' - Promised(e) = (IF e = c THEN -1 ELSE 0)
    BY <1>6, <2>1, PlainTypes, PlainTypesNext
  <2>4. Outbound(e)' - Outbound(e) = 0
    BY <1>5, <2>1, PlainTypes, PlainTypesNext
  <2>5. Booked(e)' - Booked(e) = (IF e = d THEN 1 ELSE IF e = c THEN -1 ELSE 0)
    BY <1>1, <1>6, <2>1, PlainTypes, PlainTypesNext
  <2> QED BY <2>2, <2>3, <2>4, <2>5
<1>8. Balances'
  <2>1. ASSUME NEW p \in Places
        PROVE  (available_balls'[p] - available_balls[p]) =
                 ((Has(p)' - Has(p)) + (IF p = 1 THEN 0 ELSE Promised(p - 1)' - Promised(p - 1)))
                   - (IF p = Playfield THEN 0 ELSE Outbound(p)' - Outbound(p))
    <3>1. available_balls'[p] - available_balls[p] = 0
      BY <1>2 DEF Types
    <3>2. Has(p)' - Has(p) = (IF p = d THEN 1 ELSE 0)
      <4>1. CASE p = Playfield
        BY <1>2, <4>1, Geometry DEF Has, Types
      <4>2. CASE p # Playfield
        BY <1>7, <4>2, Geometry
      <4> QED BY <4>1, <4>2
    <3>3. p # 1 => Promised(p - 1)' - Promised(p - 1) = (IF p = d THEN -1 ELSE 0)
      BY <1>1, <1>7, Geometry
    <3>4. p # Playfield => Outbound(p)' - Outbound(p) = 0
      BY <1>7, Geometry
    <3> QED BY <1>1, <3>1, <3>2, <3>3, <3>4
  <2> QED BY <2>1, BalancesAgain
<1>9. Conserved'
  <2>1. UNCHANGED machine /\ playfield_balls' = playfield_balls
    BY <1>2 DEF Handled
  <2>2. ASSUME NEW e \in Devices \ {c, d} PROVE Booked(e)' = Booked(e)
    <3>1. Booked(e)' - Booked(e) = 0
      BY <1>7
    <3>2. Booked(e) \in Int /\ Booked(e)' \in Int
      BY PlainTypes, PlainTypesNext
    <3> QED BY <3>1, <3>2
  <2>3. (Booked(c)' - Booked(c)) + (Booked(d)' - Booked(d)) = 0
    BY <1>1, <1>7
  <2> QED BY <1>1, <2>1, <2>2, <2>3, ConservedAlong
<1> QED BY <1>8, <1>9

\* A ball from the playfield is no longer booked there, and at once kept or sent back.
LEMMA ReceivedFromPlayfield ==
  ASSUME Types, Types', Balances, Conserved, NEW d \in Devices, FromPlayfield(d), Handled(d)
  PROVE  Balances' /\ Conserved'
<1> DEFINE avail == [available_balls EXCEPT ![Playfield] = @ - 1, ![d] = @ + 1]
<1>1. /\ avail \in [Places -> Int]
      /\ \A q \in Places : avail[q] =
           available_balls[q] + (IF q = d THEN 1 ELSE IF q = Playfield THEN -1 ELSE 0)
  BY Geometry DEF Types
<1>2. /\ playfield_balls' = playfield_balls - 1 /\ Rebooks(avail) /\ awaited' = awaited
      /\ playfield_balls \in Int
  BY DEF FromPlayfield, Types
<1>3. \A e \in Devices : Owes(e)' = Owes(e) /\ Comes(e)' = Comes(e) /\ Doubled(e)' = Doubled(e)
  <2>1. \A e \in Devices : e < Last => ball'[e] = ball[e]
    BY Geometry DEF FromPlayfield
  <2> QED BY <2>1 DEF Handled, Owes, Comes, Doubled
<1> HIDE DEF avail
<1>4. ASSUME NEW e \in Devices
      PROVE  /\ Has(e)' - Has(e) = (IF e = d THEN 1 ELSE 0)
             /\ Booked(e)' - Booked(e) = (IF e = d THEN 1 ELSE 0)
  <2>1. /\ awaited'[e] = awaited[e] /\ ball_count'[e] = ball_count[e]
        /\ Pending(e)' = Pending(e) - (IF e = d THEN 1 ELSE 0)
    BY <1>2 DEF Handled
  <2> QED BY <1>3, <2>1, PlainTypes, PlainTypesNext
<1>5. Balances'
  <2>1. ASSUME NEW q \in Places
        PROVE  avail[q] = (Has(q)' + (IF q = 1 THEN 0 ELSE queue[q - 1] + Comes(q - 1)'))
                            - (IF q = Playfield THEN 0 ELSE queue[q] + Owes(q)')
    <3>1. available_balls[q] = (Has(q) + (IF q = 1 THEN 0 ELSE Promised(q - 1)))
                               - (IF q = Playfield THEN 0 ELSE Outbound(q))
      BY DEF Balances
    <3>2. /\ Has(q)' - Has(q) = (IF q = d THEN 1 ELSE IF q = Playfield THEN -1 ELSE 0)
          /\ Has(q) \in Int /\ Has(q)' \in Int
      <4>1. CASE q = Playfield
        BY <1>2, <4>1, Geometry DEF Has
      <4>2. CASE q # Playfield
        <5>1. q \in Devices
          BY <4>2, Geometry
        <5> QED BY <1>4, <4>2, <5>1, PlainTypes, PlainTypesNext
      <4> QED BY <4>1, <4>2
    <3>3. q # 1 => Promised(q - 1) = queue[q - 1] + Comes(q - 1)'
      BY <1>3, Geometry, PlainTypes
    <3>4. q # Playfield => Outbound(q) = queue[q] + Owes(q)'
      BY <1>3, Geometry, PlainTypes
    <3>5. /\ avail[q] = available_balls[q] + (IF q = d THEN 1 ELSE IF q = Playfield THEN -1 ELSE 0)
          /\ available_balls[q] \in Int
      BY <1>1 DEF Types
    <3>6. (q # 1 => Promised(q - 1) \in Int) /\ (q # Playfield => Outbound(q) \in Int)
      BY Geometry, PlainTypes
    <3> DEFINE P == IF q = 1 THEN 0 ELSE Promised(q - 1)
               O == IF q = Playfield THEN 0 ELSE Outbound(q)
    <3>7. avail[q] = (Has(q)' + P) - O
      <4>1. P \in Int /\ O \in Int
        BY <3>6
      <4>2. available_balls[q] = (Has(q) + P) - O
        BY <3>1
      <4> HIDE DEF P, O
      <4> QED BY <3>2, <3>5, <4>1, <4>2
    <3> QED BY <3>3, <3>4, <3>7
  <2> QED BY <1>1, <1>2, <2>1, Rebalanced
<1>6. Conserved'
  <2>1. UNCHANGED machine
    BY DEF Handled
  <2>2. \A e \in Devices \ {d} : Booked(e)' = Booked(e)
    BY <1>4, PlainTypes, PlainTypesNext
  <2>3. (playfield_balls' - playfield_balls) + (Booked(d)' - Booked(d)) = 0
    BY <1>2, <1>4
  <2> QED BY <2>1, <2>2, <2>3, ConservedAgain
<1> QED BY <1>5, <1>6

\* In all three ways the books survive.
LEMMA ReceivedBooks ==
  ASSUME Types, Types', Balances, Conserved, \A e \in Devices : WaitStage(e) /\ EjectStage(e),
         NEW d \in Devices, ReceiveBall(d), Handled(d)
  PROVE  Balances' /\ Conserved'
BY ReceivedHow, ReceivedByAwaited, ReceivedBySource, ReceivedFromPlayfield

-------------------------------------------------------------------------------
(* The steps.                                                               *)

\* The eject is over: the ball that left is taken from the count.
LEMMA EndEjectStep ==
  ASSUME Unusual = {}, IInv, NEW d \in Devices, EndEject(d)
  PROVE  IInv'
<1> USE DEF EndEject, SetBallCount, Woken, machine, counter, waiting, books
<1>1. Types /\ (\A e \in Devices : Local(e)) /\ Balances /\ Conserved /\ Sleep
  BY DEF IInv
<1>2. /\ ball_count[d] \in Nat /\ ball_count[d] > 0 /\ pc[d] = "ending"
      /\ ~cancelled[d] /\ counting[d] = "eject" /\ recount[d]
  BY <1>1 DEF Types, Local, CountStage, WaitStage, EjectStage, InEject, AfterLeft
<1>3. Types'
  BY <1>1, <1>2 DEF Types, Stages, InEject
<1>4. ASSUME NEW e \in Devices PROVE Local(e)'
  <2>1. Local(e)
    BY <1>1
  <2> QED BY <1>1, <1>2, <1>3, <2>1, Geometry
       DEF Types, Stages, Local, CountStage, WaitStage, EjectStage, Observed, Limited, Agreed, Left,
           Idle, InEject, AfterLeft
<1>5. ASSUME NEW e \in Devices
      PROVE  /\ Outbound(e)' - Outbound(e) = (IF e = d THEN -1 ELSE 0)
             /\ Promised(e)' - Promised(e) = 0
             /\ Has(e)' - Has(e) = (IF e = d THEN -1 ELSE 0) /\ Booked(e)' - Booked(e) = 0
  <2>1. Outbound(e)' - Outbound(e) = (IF e = d THEN -1 ELSE 0) /\ Promised(e)' - Promised(e) = 0
    BY <1>1, <1>2, <1>3, Geometry DEF Types, Promised, Outbound
  <2>2. Has(e)' - Has(e) = (IF e = d THEN -1 ELSE 0) /\ Booked(e)' - Booked(e) = 0
    BY <1>1, <1>2, <1>3, Geometry DEF Types, Has, Booked, Pending, Doubled
  <2> QED BY <2>1, <2>2
<1>6. Balances'
  <2> HIDE DEF EndEject, SetBallCount, Woken, machine, counter, waiting, books
  <2>1. ASSUME NEW p \in Places
        PROVE  (available_balls'[p] - available_balls[p]) =
                 ((Has(p)' - Has(p)) + (IF p = 1 THEN 0 ELSE Promised(p - 1)' - Promised(p - 1)))
                   - (IF p = Playfield THEN 0 ELSE Outbound(p)' - Outbound(p))
    <3>1. available_balls'[p] - available_balls[p] = 0
      <4>1. available_balls'[p] = available_balls[p] + 0 /\ available_balls[p] \in Int
        BY <1>1, <1>2, <1>3, Geometry
             DEF Types, EndEject, SetBallCount, Woken, machine, counter, waiting, books
      <4> QED BY <1>2, <4>1
    <3>2. Has(p)' - Has(p) = (IF p = d THEN -1 ELSE 0)
      <4>1. CASE p = Playfield
        <5>1. Has(p) = playfield_balls /\ Has(p)' = playfield_balls' /\ playfield_balls \in Int
          BY <1>1, <4>1 DEF Types, Has
        <5> QED BY <1>2, <4>1, <5>1, Geometry
             DEF EndEject, SetBallCount, Woken, machine, counter, waiting, books
      <4>2. CASE p # Playfield
        BY <1>2, <1>5, <4>2, Geometry
      <4> QED BY <4>1, <4>2
    <3>3. p # 1 => Promised(p - 1)' - Promised(p - 1) = 0
      BY <1>5, Geometry
    <3>4. p # Playfield => Outbound(p)' - Outbound(p) = (IF p = d THEN -1 ELSE 0)
      BY <1>5, Geometry
    <3> QED BY <1>2, <3>1, <3>2, <3>3, <3>4, Geometry
  <2> QED BY <1>1, <1>3, <2>1, BalancesAgain
<1>7. Conserved'
  <2>1. ASSUME NEW e \in Devices \ {d} PROVE Booked(e)' = Booked(e)
    <3>1. Booked(e)' - Booked(e) = 0
      BY <1>2, <1>5
    <3>2. Booked(e) \in Int /\ Booked(e)' \in Int
      BY <1>1, <1>3, PlainTypes, PlainTypesNext
    <3> QED BY <3>1, <3>2
  <2>2. UNCHANGED machine /\ (playfield_balls' - playfield_balls) + (Booked(d)' - Booked(d)) = 0
    BY <1>1, <1>2, <1>5 DEF Types
  <2> QED BY <1>1, <1>3, <2>1, <2>2, ConservedAgain
<1>8. Sleep'
  <2>1. SUFFICES ASSUME ByEvent = {}, NEW e \in Devices PROVE Sleeps(e)'
    BY DEF Sleep
  <2>2. Sleeps(e) /\ EjectStage(e) /\ (e # Last => Sleeps(e + 1) /\ Capacity[e + 1] \in Nat)
    BY <1>1, <2>1, Geometry, Capacities DEF Sleep, Local
  <2> QED BY <1>1, <1>2, <1>3, <2>2, Geometry
       DEF Types, Sleeps, HasRoom, Incoming, UnderWay, EjectStage, AfterLeft
<1> QED BY <1>3, <1>4, <1>6, <1>7, <1>8 DEF IInv

\* A counting pass takes the lock.
LEMMA BeginCountStep ==
  ASSUME Unusual = {}, IInv, NEW d \in Devices, BeginCount(d)
  PROVE  IInv'
<1> USE DEF BeginCount, machine, counter, waiting, tracker, outgoing, books
<1>1. Types /\ (\A e \in Devices : Local(e)) /\ Balances /\ Conserved /\ Sleep
  BY DEF IInv
<1>2. counting[d] = "free"
  BY <1>1 DEF Types, Local, CountStage, WaitStage, EjectStage, InEject, AfterLeft
<1>3. Types'
  BY <1>1, <1>2 DEF Types, Stages, InEject
<1>4. ASSUME NEW e \in Devices PROVE Local(e)'
  <2>1. Local(e)
    BY <1>1
  <2> QED BY <1>1, <1>2, <1>3, <2>1, Geometry
       DEF Types, Stages, Local, CountStage, WaitStage, EjectStage, Observed, Limited, Agreed, Left,
           Idle, InEject, AfterLeft
<1>5. ASSUME NEW e \in Devices
      PROVE  /\ Outbound(e)' = Outbound(e) /\ Promised(e)' = Promised(e)
             /\ Has(e)' = Has(e) /\ Booked(e)' = Booked(e)
  <2>1. Outbound(e)' = Outbound(e) /\ Promised(e)' = Promised(e)
    BY <1>1, <1>2, <1>3, Geometry DEF Types, Promised, Outbound
  <2>2. Has(e)' = Has(e)
    BY <1>1, <1>2, <1>3, Geometry DEF Types, Has, Pending
  <2>3. Booked(e)' = Booked(e)
    BY <1>1, <1>2, <1>3, Geometry DEF Types, Booked, Pending, Doubled
  <2> QED BY <2>1, <2>2, <2>3
<1>6. Balances'
  BY <1>1, <1>2, <1>3, <1>5, BalancesStay
<1>7. Conserved'
  BY <1>1, <1>2, <1>3, <1>5, TotalsStay
<1>8. Sleep'
  <2>1. SUFFICES ASSUME ByEvent = {}, NEW e \in Devices PROVE Sleeps(e)'
    BY DEF Sleep
  <2>2. Sleeps(e) /\ EjectStage(e) /\ (e # Last => Sleeps(e + 1) /\ Capacity[e + 1] \in Nat)
    BY <1>1, <2>1, Geometry, Capacities DEF Sleep, Local
  <2> QED BY <1>1, <1>2, <1>3, <2>2, Geometry
       DEF Types, Sleeps, HasRoom, Incoming, UnderWay, EjectStage, AfterLeft
<1> QED BY <1>3, <1>4, <1>6, <1>7, <1>8 DEF IInv

\* wait_for_ball() notes a count ...
LEMMA NoteBallsStep ==
  ASSUME Unusual = {}, IInv, NEW d \in Devices, NoteBalls(d)
  PROVE  IInv'
<1> USE DEF NoteBalls, GoesOn, machine, counter, handler, tracker, outgoing, books
<1>1. Types /\ (\A e \in Devices : Local(e)) /\ Balances /\ Conserved /\ Sleep
  BY DEF IInv
<1>2. ~cancelled[d] /\ waiter[d] = "waiting"
  BY <1>1 DEF Types, Local, CountStage, WaitStage, EjectStage, InEject, AfterLeft
<1>3. Types'
  BY <1>1, <1>2 DEF Types, Stages, InEject
<1>4. ASSUME NEW e \in Devices PROVE Local(e)'
  <2>1. Local(e)
    BY <1>1
  <2> QED BY <1>1, <1>2, <1>3, <2>1, Geometry
       DEF Types, Stages, Local, CountStage, WaitStage, EjectStage, Observed, Limited, Agreed, Left,
           Idle, InEject, AfterLeft
<1>5. ASSUME NEW e \in Devices
      PROVE  /\ Outbound(e)' = Outbound(e) /\ Promised(e)' = Promised(e)
             /\ Has(e)' = Has(e) /\ Booked(e)' = Booked(e)
  <2>1. Outbound(e)' = Outbound(e) /\ Promised(e)' = Promised(e)
    BY <1>1, <1>2, <1>3, Geometry DEF Types, Promised, Outbound
  <2>2. Has(e)' = Has(e)
    BY <1>1, <1>2, <1>3, Geometry DEF Types, Has, Pending
  <2>3. Booked(e)' = Booked(e)
    BY <1>1, <1>2, <1>3, Geometry DEF Types, Booked, Pending, Doubled
  <2> QED BY <2>1, <2>2, <2>3
<1>6. Balances'
  BY <1>1, <1>2, <1>3, <1>5, BalancesStay
<1>7. Conserved'
  BY <1>1, <1>2, <1>3, <1>5, TotalsStay
<1>8. Sleep'
  <2>1. SUFFICES ASSUME ByEvent = {}, NEW e \in Devices PROVE Sleeps(e)'
    BY DEF Sleep
  <2>2. Sleeps(e) /\ EjectStage(e) /\ (e # Last => Sleeps(e + 1) /\ Capacity[e + 1] \in Nat)
    BY <1>1, <2>1, Geometry, Capacities DEF Sleep, Local
  <2> QED BY <1>1, <1>2, <1>3, <2>2, Geometry
       DEF Types, Sleeps, HasRoom, Incoming, UnderWay, EjectStage, AfterLeft
<1> QED BY <1>3, <1>4, <1>6, <1>7, <1>8 DEF IInv

\* ... finds no ball in it, and takes it over.
LEMMA UpdateCountStep ==
  ASSUME Unusual = {}, IInv, NEW d \in Devices, UpdateCount(d)
  PROVE  IInv'
<1> USE DEF UpdateCount, GoesOn, machine, counter, tracker, outgoing, books
<1>1. Types /\ (\A e \in Devices : Local(e)) /\ Balances /\ Conserved /\ Sleep
  BY DEF IInv
<1>2. /\ waiter[d] = "noted" /\ ~cancelled[d] /\ ball_count[d] <= noted[d] /\ waiter_arrivals[d] = 0
      /\ ball_count[d] \in Nat /\ noted[d] \in Nat
  BY <1>1 DEF Types, Local, CountStage, WaitStage, EjectStage, InEject, AfterLeft
<1>3. Types'
  BY <1>1, <1>2 DEF Types, Stages, InEject
<1>4. ASSUME NEW e \in Devices PROVE Local(e)'
  <2>1. Local(e)
    BY <1>1
  <2> QED BY <1>1, <1>2, <1>3, <2>1, Geometry
       DEF Types, Stages, Local, CountStage, WaitStage, EjectStage, Observed, Limited, Agreed, Left,
           Idle, InEject, AfterLeft
<1>5. ASSUME NEW e \in Devices
      PROVE  /\ Outbound(e)' = Outbound(e) /\ Promised(e)' = Promised(e)
             /\ Has(e)' = Has(e) /\ Booked(e)' = Booked(e)
  <2>1. Outbound(e)' = Outbound(e) /\ Promised(e)' = Promised(e)
    BY <1>1, <1>2, <1>3, Geometry DEF Types, Promised, Outbound
  <2>2. Has(e)' = Has(e)
    BY <1>1, <1>2, <1>3, Geometry DEF Types, Has, Pending
  <2>3. Booked(e)' = Booked(e)
    BY <1>1, <1>2, <1>3, Geometry DEF Types, Booked, Pending, Doubled
  <2> QED BY <2>1, <2>2, <2>3
<1>6. Balances'
  BY <1>1, <1>2, <1>3, <1>5, BalancesStay
<1>7. Conserved'
  BY <1>1, <1>2, <1>3, <1>5, TotalsStay
<1>8. Sleep'
  <2>1. SUFFICES ASSUME ByEvent = {}, NEW e \in Devices PROVE Sleeps(e)'
    BY DEF Sleep
  <2>2. Sleeps(e) /\ EjectStage(e) /\ (e # Last => Sleeps(e + 1) /\ Capacity[e + 1] \in Nat)
    BY <1>1, <2>1, Geometry, Capacities DEF Sleep, Local
  <2> QED BY <1>1, <1>2, <1>3, <2>2, Geometry
       DEF Types, Sleeps, HasRoom, Incoming, UnderWay, EjectStage, AfterLeft
<1> QED BY <1>3, <1>4, <1>6, <1>7, <1>8 DEF IInv

\* The pass has a stable count: new balls, missing ones, or neither.
LEMMA CountBallsStep ==
  ASSUME Unusual = {}, IInv, NEW d \in Devices, CountBalls(d)
  PROVE  IInv'
<1> USE DEF CountBalls, SetBallCount, Woken, machine, counter, waiting, tracker, books
<1>1. Types /\ (\A e \in Devices : Local(e)) /\ Balances /\ Conserved /\ Sleep
  BY DEF IInv
<1>2. /\ ball_count[d] \in Nat /\ last_count[d] \in Nat /\ arrivals[d] \in Nat
      /\ counting[d] = "count" /\ stable[d] /\ pc[d] \notin InEject
  BY <1>1 DEF Types, Local, CountStage, WaitStage, EjectStage, InEject, AfterLeft
<1>3. Types'
  <2>1. ball_count' \in [Devices -> Nat] /\ arrivals' \in [Devices -> Nat]
    BY <1>1, <1>2 DEF Types
  <2>2. pc' \in [Devices -> Stages]
    BY <1>1, <1>2 DEF Types, Stages, InEject
  <2>3. /\ counting' \in [Devices -> {"free", "eject", "count", "arrivals", "missing"}]
        /\ count_valid' \in [Devices -> BOOLEAN]
    BY <1>1, <1>2 DEF Types
  <2> QED BY <1>1, <2>1, <2>2, <2>3 DEF Types
<1>4. ASSUME NEW e \in Devices PROVE Local(e)'
  <2>1. Local(e)
    BY <1>1
  <2> QED BY <1>1, <1>2, <1>3, <2>1, Geometry
       DEF Types, Stages, Local, CountStage, WaitStage, EjectStage, Observed, Limited, Agreed, Left,
           Idle, InEject, AfterLeft
<1>5. ASSUME NEW e \in Devices
      PROVE  /\ Outbound(e)' = Outbound(e) /\ Promised(e)' = Promised(e)
             /\ Has(e)' = Has(e) /\ Booked(e)' = Booked(e)
  <2>1. Outbound(e)' = Outbound(e) /\ Promised(e)' = Promised(e)
    BY <1>1, <1>2, <1>3, Geometry DEF Types, Promised, Outbound
  <2>2. Has(e)' = Has(e)
    BY <1>1, <1>2, <1>3, Geometry DEF Types, Has, Pending
  <2>3. Booked(e)' = Booked(e)
    BY <1>1, <1>2, <1>3, Geometry DEF Types, Booked, Pending, Doubled
  <2> QED BY <2>1, <2>2, <2>3
<1>6. Balances'
  BY <1>1, <1>2, <1>3, <1>5, BalancesStay
<1>7. Conserved'
  BY <1>1, <1>2, <1>3, <1>5, TotalsStay
<1>8. Sleep'
  <2>1. SUFFICES ASSUME ByEvent = {}, NEW e \in Devices PROVE Sleeps(e)'
    BY DEF Sleep
  <2>2. Sleeps(e) /\ EjectStage(e) /\ (e # Last => Sleeps(e + 1) /\ Capacity[e + 1] \in Nat)
    BY <1>1, <2>1, Geometry, Capacities DEF Sleep, Local
  <2> QED BY <1>1, <1>2, <1>3, <2>2, Geometry
       DEF Types, Sleeps, HasRoom, Incoming, UnderWay, EjectStage, AfterLeft
<1> QED BY <1>3, <1>4, <1>6, <1>7, <1>8 DEF IInv

\* The switches settle and the count is as it was.
LEMMA SettleQuietlyStep ==
  ASSUME Unusual = {}, IInv, NEW d \in Devices, Settle(d), inside[d] = last_count[d]
  PROVE  IInv'
<1> USE DEF machine, waiting, outgoing, books, tracker, handler, counter
<1>1. Types /\ (\A e \in Devices : Local(e)) /\ Balances /\ Conserved /\ Sleep
  BY DEF IInv
<1>2. /\ inside[d] \in Nat /\ last_count[d] = inside[d] /\ inside[d] - last_count[d] = 0
      /\ stable' = [stable EXCEPT ![d] = TRUE]
      /\ UNCHANGED <<machine, handler, waiting, tracker, outgoing, books, last_count>>
  BY <1>1
       DEF Settle, machine, waiting, outgoing, books, tracker, handler, counter, Types, Local,
           CountStage, WaitStage, EjectStage, InEject, AfterLeft
<1>3. Types'
  BY <1>1, <1>2 DEF Types, Stages, InEject
<1>4. ASSUME NEW e \in Devices PROVE Local(e)'
  <2>1. Local(e)
    BY <1>1
  <2> QED BY <1>1, <1>2, <1>3, <2>1, Geometry
       DEF Types, Stages, Local, CountStage, WaitStage, EjectStage, Observed, Limited, Agreed, Left,
           Idle, InEject, AfterLeft
<1>5. ASSUME NEW e \in Devices
      PROVE  /\ Outbound(e)' = Outbound(e) /\ Promised(e)' = Promised(e)
             /\ Has(e)' = Has(e) /\ Booked(e)' = Booked(e)
  <2>1. Outbound(e)' = Outbound(e) /\ Promised(e)' = Promised(e)
    BY <1>1, <1>2, <1>3, Geometry DEF Types, Promised, Outbound
  <2>2. Has(e)' = Has(e)
    BY <1>1, <1>2, <1>3, Geometry DEF Types, Has, Pending
  <2>3. Booked(e)' = Booked(e)
    BY <1>1, <1>2, <1>3, Geometry DEF Types, Booked, Pending, Doubled
  <2> QED BY <2>1, <2>2, <2>3
<1>6. Balances'
  BY <1>1, <1>2, <1>3, <1>5, BalancesStay
<1>7. Conserved'
  BY <1>1, <1>2, <1>3, <1>5, TotalsStay
<1>8. Sleep'
  <2>1. SUFFICES ASSUME ByEvent = {}, NEW e \in Devices PROVE Sleeps(e)'
    BY DEF Sleep
  <2>2. Sleeps(e) /\ EjectStage(e) /\ (e # Last => Sleeps(e + 1) /\ Capacity[e + 1] \in Nat)
    BY <1>1, <2>1, Geometry, Capacities DEF Sleep, Local
  <2> QED BY <1>1, <1>2, <1>3, <2>2, Geometry
       DEF Types, Sleeps, HasRoom, Incoming, UnderWay, EjectStage, AfterLeft
<1> QED BY <1>3, <1>4, <1>6, <1>7, <1>8 DEF IInv

\* The switches settle on another count: the pass is due again and the tracker hears of it.
LEMMA SettleChangedStep ==
  ASSUME Unusual = {}, IInv, NEW d \in Devices, Settle(d), inside[d] # last_count[d]
  PROVE  IInv'
<1> USE DEF machine, waiting, outgoing, books, tracker, handler, counter
<1>1. Types /\ (\A e \in Devices : Local(e)) /\ Balances /\ Conserved /\ Sleep
  BY DEF IInv
<1>2. /\ inside[d] \in Nat /\ last_count[d] \in Nat /\ surplus[d] \in Int /\ inside[d] <= Balls
      /\ inside[d] # last_count[d]
      /\ last_count' = [last_count EXCEPT ![d] = inside[d]]
      /\ stable' = [stable EXCEPT ![d] = TRUE]
      /\ recount' = [recount EXCEPT ![d] = TRUE]
      /\ \/ counting[d] = "missing" /\ counting' = [counting EXCEPT ![d] = "free"]
            /\ count_valid' = [count_valid EXCEPT ![d] = TRUE]
            /\ arrivals' = [arrivals EXCEPT ![d] = 0]
         \/ counting[d] # "missing" /\ UNCHANGED <<counting, count_valid, arrivals>>
      /\ unknown_balls' \in [Devices -> BOOLEAN] /\ heard' \in [Devices -> BOOLEAN]
      /\ surplus' \in [Devices -> Int]
      /\ \A e \in Devices : e # d => unknown_balls'[e] = unknown_balls[e] /\ heard'[e] = heard[e]
      /\ unknown_balls'[d] \/ heard'[d] =>
           \/ unknown_balls[d] \/ heard[d]
           \/ inside[d] > last_count[d] /\ pc[d] \in InEject \ {"will_eject"}
      /\ UNCHANGED <<machine, waiting, outgoing, books, ball_count>>
  <2>1. /\ inside[d] \in Nat /\ last_count[d] \in Nat /\ surplus[d] \in Int /\ flying[d] \in Nat
        /\ inside[d] + flying[d] <= Balls
    BY <1>1, InsideFits DEF Types
  <2>2. inside[d] <= Balls
    BY <2>1, Geometry
  <2> DEFINE new == inside[d] - last_count[d]
             rest == surplus[d] + new
             more == new > 0
             held == rest > 0
  <2>3. /\ new \in Int /\ rest \in Int /\ new # 0 /\ more \in BOOLEAN /\ held \in BOOLEAN
        /\ more => inside[d] > last_count[d]
    BY <2>1
  <2>4. /\ last_count' = [last_count EXCEPT ![d] = inside[d]]
        /\ stable' = [stable EXCEPT ![d] = TRUE]
        /\ recount' = [recount EXCEPT ![d] = recount[d] \/ new # 0]
        /\ UNCHANGED <<machine, waiting, outgoing, books, ball_count>>
    BY DEF Settle
  <2>5. \/ /\ counting[d] = "eject" /\ pc[d] # "will_eject"
           /\ surplus' = [surplus EXCEPT ![d] = rest]
           /\ unknown_balls' = [unknown_balls EXCEPT ![d] = more \/ (@ /\ held)]
           /\ heard' = [heard EXCEPT ![d] = @ \/ (more /\ pc[d] \in {"recounting", "grace", "missing"})]
        \/ UNCHANGED tracker
    BY <2>3 DEF Settle
  <2>6. \/ counting[d] = "missing" /\ counting' = [counting EXCEPT ![d] = "free"]
            /\ count_valid' = [count_valid EXCEPT ![d] = TRUE]
            /\ arrivals' = [arrivals EXCEPT ![d] = 0]
        \/ counting[d] # "missing" /\ UNCHANGED <<counting, count_valid, arrivals>>
    BY <2>3 DEF Settle
  <2> HIDE DEF new, rest, more, held
  <2>7. recount' = [recount EXCEPT ![d] = TRUE]
    BY <2>3, <2>4
  <2>8. /\ unknown_balls' \in [Devices -> BOOLEAN] /\ heard' \in [Devices -> BOOLEAN]
        /\ surplus' \in [Devices -> Int]
    <3>1. CASE UNCHANGED tracker
      BY <1>1, <3>1 DEF Types, tracker
    <3>2. CASE ~ UNCHANGED tracker
      BY <1>1, <2>3, <2>5, <3>2 DEF Types
    <3> QED BY <3>1, <3>2
  <2>9. counting[d] = "eject" => pc[d] \in InEject
    BY <1>1 DEF Local, CountStage
  <2>10. /\ \A e \in Devices : e # d => unknown_balls'[e] = unknown_balls[e] /\ heard'[e] = heard[e]
         /\ unknown_balls'[d] \/ heard'[d] =>
              \/ unknown_balls[d] \/ heard[d]
              \/ more /\ pc[d] \in InEject \ {"will_eject"}
    <3>1. CASE UNCHANGED tracker
      BY <3>1 DEF tracker
    <3>2. CASE ~ UNCHANGED tracker
      BY <1>1, <2>3, <2>5, <2>9, <3>2 DEF Types
    <3> QED BY <3>1, <3>2
  <2> QED BY <2>1, <2>2, <2>3, <2>4, <2>6, <2>7, <2>8, <2>10
<1>3. Types'
  <2>0. \/ counting[d] = "missing" /\ counting' = [counting EXCEPT ![d] = "free"]
            /\ count_valid' = [count_valid EXCEPT ![d] = TRUE]
            /\ arrivals' = [arrivals EXCEPT ![d] = 0]
        \/ UNCHANGED <<counting, count_valid, arrivals>>
    BY <1>2
  <2>1. /\ counting' \in [Devices -> {"free", "eject", "count", "arrivals", "missing"}]
        /\ count_valid' \in [Devices -> BOOLEAN] /\ arrivals' \in [Devices -> Nat]
    <3>1. CASE UNCHANGED <<counting, count_valid, arrivals>>
      BY <1>1, <3>1 DEF Types
    <3>2. CASE /\ counting' = [counting EXCEPT ![d] = "free"]
               /\ count_valid' = [count_valid EXCEPT ![d] = TRUE]
               /\ arrivals' = [arrivals EXCEPT ![d] = 0]
      BY <1>1, <3>2 DEF Types
    <3> QED BY <2>0, <3>1, <3>2
  <2>2. /\ last_count' \in [Devices -> Nat] /\ stable' \in [Devices -> BOOLEAN]
        /\ recount' \in [Devices -> BOOLEAN]
    BY <1>1, <1>2 DEF Types
  <2> QED BY <1>1, <1>2, <2>1, <2>2 DEF Types
<1>4. ASSUME NEW e \in Devices PROVE Local(e)'
  <2>1. Local(e)
    BY <1>1
  <2>2. CountStage(e)'
    BY <1>1, <1>2, <1>3, <2>1, Geometry DEF Types, Stages, Local, CountStage, InEject
  <2>3. WaitStage(e)'
    BY <1>1, <1>2, <1>3, <2>1, Geometry DEF Types, Stages, Local, WaitStage, Observed, Left
  <2>4. EjectStage(e)'
    BY <1>1, <1>2, <1>3, <2>1, Geometry DEF Types, Stages, Local, EjectStage, AfterLeft, InEject
  <2>5. Observed(e)'
    BY <1>1, <1>2, <1>3, <2>1, Geometry DEF Types, Stages, Local, Observed, Left, AfterLeft, InEject
  <2>6. Limited(e)'
    BY <1>1, <1>2, <1>3, <2>1, Geometry DEF Types, Stages, Local, Limited
  <2>7. Agreed(e)'
    BY <1>1, <1>2, <1>3, <2>1, Geometry DEF Types, Stages, Local, Agreed, Idle
  <2> QED BY <2>2, <2>3, <2>4, <2>5, <2>6, <2>7 DEF Local
<1>5. ASSUME NEW e \in Devices
      PROVE  /\ Outbound(e)' = Outbound(e) /\ Promised(e)' = Promised(e)
             /\ Has(e)' = Has(e) /\ Booked(e)' = Booked(e)
  <2>1. Outbound(e)' = Outbound(e) /\ Promised(e)' = Promised(e)
    BY <1>1, <1>2, <1>3, Geometry DEF Types, Promised, Outbound
  <2>2. Has(e)' = Has(e)
    BY <1>1, <1>2, <1>3, Geometry DEF Types, Has, Pending
  <2>3. Booked(e)' = Booked(e)
    BY <1>1, <1>2, <1>3, Geometry DEF Types, Booked, Pending, Doubled
  <2> QED BY <2>1, <2>2, <2>3
<1>6. Balances'
  BY <1>1, <1>2, <1>3, <1>5, BalancesStay
<1>7. Conserved'
  BY <1>1, <1>2, <1>3, <1>5, TotalsStay
<1>8. Sleep'
  <2>1. SUFFICES ASSUME ByEvent = {}, NEW e \in Devices PROVE Sleeps(e)'
    BY DEF Sleep
  <2>2. Sleeps(e) /\ EjectStage(e) /\ (e # Last => Sleeps(e + 1) /\ Capacity[e + 1] \in Nat)
    BY <1>1, <2>1, Geometry, Capacities DEF Sleep, Local
  <2> QED BY <1>1, <1>2, <1>3, <2>2, Geometry
       DEF Types, Sleeps, HasRoom, Incoming, UnderWay, EjectStage, AfterLeft
<1> QED BY <1>3, <1>4, <1>6, <1>7, <1>8 DEF IInv

\* The ejecting task takes a request.
LEMMA TakeRequestStep ==
  ASSUME Unusual = {}, IInv, NEW d \in Devices, TakeRequest(d)
  PROVE  IInv'
<1> USE DEF TakeRequest, Validate, Goto, machine, counter, waiting, tracker, books
<1>1. Types /\ (\A e \in Devices : Local(e)) /\ Balances /\ Conserved /\ Sleep
  BY DEF IInv
<1>2. pc[d] = "idle" /\ ball[d] = "none" /\ ~cancelled[d] /\ queue[d] \in Nat /\ queue[d] > 0
  BY <1>1 DEF Types, Local, CountStage, WaitStage, EjectStage, InEject, AfterLeft
<1>3. Types'
  BY <1>1, <1>2 DEF Types, Stages, InEject
<1>4. ASSUME NEW e \in Devices PROVE Local(e)'
  <2>1. Local(e)
    BY <1>1
  <2> QED BY <1>1, <1>2, <1>3, <2>1, Geometry
       DEF Types, Stages, Local, CountStage, WaitStage, EjectStage, Observed, Limited, Agreed, Left,
           Idle, InEject, AfterLeft
<1>5. ASSUME NEW e \in Devices
      PROVE  /\ Outbound(e)' = Outbound(e) /\ Promised(e)' = Promised(e)
             /\ Has(e)' = Has(e) /\ Booked(e)' = Booked(e)
  <2>1. Outbound(e)' = Outbound(e) /\ Promised(e)' = Promised(e)
    BY <1>1, <1>2, <1>3, Geometry DEF Types, Promised, Outbound
  <2>2. Has(e)' = Has(e)
    BY <1>1, <1>2, <1>3, Geometry DEF Types, Has, Pending
  <2>3. Booked(e)' = Booked(e)
    BY <1>1, <1>2, <1>3, Geometry DEF Types, Booked, Pending, Doubled
  <2> QED BY <2>1, <2>2, <2>3
<1>6. Balances'
  BY <1>1, <1>2, <1>3, <1>5, BalancesStay
<1>7. Conserved'
  BY <1>1, <1>2, <1>3, <1>5, TotalsStay
<1>8. Sleep'
  <2>1. SUFFICES ASSUME ByEvent = {}, NEW e \in Devices PROVE Sleeps(e)'
    BY DEF Sleep
  <2>2. Sleeps(e) /\ EjectStage(e) /\ (e # Last => Sleeps(e + 1) /\ Capacity[e + 1] \in Nat)
    BY <1>1, <2>1, Geometry, Capacities DEF Sleep, Local
  <2> QED BY <1>1, <1>2, <1>3, <2>2, Geometry
       DEF Types, Sleeps, HasRoom, Incoming, UnderWay, EjectStage, AfterLeft
<1> QED BY <1>3, <1>4, <1>6, <1>7, <1>8 DEF IInv

\* It has a valid count.
LEMMA ValidatedStep ==
  ASSUME Unusual = {}, IInv, NEW d \in Devices, Validated(d)
  PROVE  IInv'
<1> USE DEF Validated, Goto, machine, counter, handler, tracker, books
<1>1. Types /\ (\A e \in Devices : Local(e)) /\ Balances /\ Conserved /\ Sleep
  BY DEF IInv
<1>2. pc[d] = "validating" /\ ball_count[d] \in Nat
  BY <1>1 DEF Types, Local, CountStage, WaitStage, EjectStage, InEject, AfterLeft
<1>3. Types'
  BY <1>1, <1>2 DEF Types, Stages, InEject
<1>4. ASSUME NEW e \in Devices PROVE Local(e)'
  <2>1. Local(e)
    BY <1>1
  <2> QED BY <1>1, <1>2, <1>3, <2>1, Geometry
       DEF Types, Stages, Local, CountStage, WaitStage, EjectStage, Observed, Limited, Agreed, Left,
           Idle, InEject, AfterLeft
<1>5. ASSUME NEW e \in Devices
      PROVE  /\ Outbound(e)' = Outbound(e) /\ Promised(e)' = Promised(e)
             /\ Has(e)' = Has(e) /\ Booked(e)' = Booked(e)
  <2>1. Outbound(e)' = Outbound(e) /\ Promised(e)' = Promised(e)
    BY <1>1, <1>2, <1>3, Geometry DEF Types, Promised, Outbound
  <2>2. Has(e)' = Has(e)
    BY <1>1, <1>2, <1>3, Geometry DEF Types, Has, Pending
  <2>3. Booked(e)' = Booked(e)
    BY <1>1, <1>2, <1>3, Geometry DEF Types, Booked, Pending, Doubled
  <2> QED BY <2>1, <2>2, <2>3
<1>6. Balances'
  BY <1>1, <1>2, <1>3, <1>5, BalancesStay
<1>7. Conserved'
  BY <1>1, <1>2, <1>3, <1>5, TotalsStay
<1>8. Sleep'
  <2>1. SUFFICES ASSUME ByEvent = {}, NEW e \in Devices PROVE Sleeps(e)'
    BY DEF Sleep
  <2>2. Sleeps(e) /\ EjectStage(e) /\ (e # Last => Sleeps(e + 1) /\ Capacity[e + 1] \in Nat)
    BY <1>1, <2>1, Geometry, Capacities DEF Sleep, Local
  <2> QED BY <1>1, <1>2, <1>3, <2>2, Geometry
       DEF Types, Sleeps, HasRoom, Incoming, UnderWay, EjectStage, AfterLeft
<1> QED BY <1>3, <1>4, <1>6, <1>7, <1>8 DEF IInv

\* It has a ball to eject.
LEMMA BallCameStep ==
  ASSUME Unusual = {}, IInv, NEW d \in Devices, BallCame(d)
  PROVE  IInv'
<1> USE DEF BallCame, LeaveWait, Goto, machine, counter, handler, tracker, books
<1>1. Types /\ (\A e \in Devices : Local(e)) /\ Balances /\ Conserved /\ Sleep
  BY DEF IInv
<1>2. waiter[d] = "done" /\ waiter_arrivals[d] = 0
  BY <1>1 DEF Types, Local, CountStage, WaitStage, EjectStage, InEject, AfterLeft
<1>3. Types'
  BY <1>1, <1>2 DEF Types, Stages, InEject
<1>4. ASSUME NEW e \in Devices PROVE Local(e)'
  <2>1. Local(e)
    BY <1>1
  <2> QED BY <1>1, <1>2, <1>3, <2>1, Geometry
       DEF Types, Stages, Local, CountStage, WaitStage, EjectStage, Observed, Limited, Agreed, Left,
           Idle, InEject, AfterLeft
<1>5. ASSUME NEW e \in Devices
      PROVE  /\ Outbound(e)' = Outbound(e) /\ Promised(e)' = Promised(e)
             /\ Has(e)' = Has(e) /\ Booked(e)' = Booked(e)
  <2>1. Outbound(e)' = Outbound(e) /\ Promised(e)' = Promised(e)
    BY <1>1, <1>2, <1>3, Geometry DEF Types, Promised, Outbound
  <2>2. Has(e)' = Has(e)
    BY <1>1, <1>2, <1>3, Geometry DEF Types, Has, Pending
  <2>3. Booked(e)' = Booked(e)
    BY <1>1, <1>2, <1>3, Geometry DEF Types, Booked, Pending, Doubled
  <2> QED BY <2>1, <2>2, <2>3
<1>6. Balances'
  BY <1>1, <1>2, <1>3, <1>5, BalancesStay
<1>7. Conserved'
  BY <1>1, <1>2, <1>3, <1>5, TotalsStay
<1>8. Sleep'
  <2>1. SUFFICES ASSUME ByEvent = {}, NEW e \in Devices PROVE Sleeps(e)'
    BY DEF Sleep
  <2>2. Sleeps(e) /\ EjectStage(e) /\ (e # Last => Sleeps(e + 1) /\ Capacity[e + 1] \in Nat)
    BY <1>1, <2>1, Geometry, Capacities DEF Sleep, Local
  <2> QED BY <1>1, <1>2, <1>3, <2>2, Geometry
       DEF Types, Sleeps, HasRoom, Incoming, UnderWay, EjectStage, AfterLeft
<1> QED BY <1>3, <1>4, <1>6, <1>7, <1>8 DEF IInv

\* The wait for a ball is cancelled with the eject.
LEMMA EjectCancelledStep ==
  ASSUME Unusual = {}, IInv, NEW d \in Devices, EjectCancelled(d)
  PROVE  IInv'
<1> USE DEF EjectCancelled, LeaveWait, Goto, machine, counter, handler, tracker, books
<1>1. Types /\ (\A e \in Devices : Local(e)) /\ Balances /\ Conserved /\ Sleep
  BY DEF IInv
<1>2. waiter[d] # "arrivals" /\ waiter_arrivals[d] = 0 /\ d > 1
  BY <1>1 DEF Types, Local, CountStage, WaitStage, EjectStage, InEject, AfterLeft
<1>3. Types'
  BY <1>1, <1>2 DEF Types, Stages, InEject
<1>4. ASSUME NEW e \in Devices PROVE Local(e)'
  <2>1. Local(e)
    BY <1>1
  <2> QED BY <1>1, <1>2, <1>3, <2>1, Geometry
       DEF Types, Stages, Local, CountStage, WaitStage, EjectStage, Observed, Limited, Agreed, Left,
           Idle, InEject, AfterLeft
<1>5. ASSUME NEW e \in Devices
      PROVE  /\ Outbound(e)' = Outbound(e) /\ Promised(e)' = Promised(e)
             /\ Has(e)' = Has(e) /\ Booked(e)' = Booked(e)
  <2>1. Outbound(e)' = Outbound(e) /\ Promised(e)' = Promised(e)
    BY <1>1, <1>2, <1>3, Geometry DEF Types, Promised, Outbound
  <2>2. Has(e)' = Has(e)
    BY <1>1, <1>2, <1>3, Geometry DEF Types, Has, Pending
  <2>3. Booked(e)' = Booked(e)
    BY <1>1, <1>2, <1>3, Geometry DEF Types, Booked, Pending, Doubled
  <2> QED BY <2>1, <2>2, <2>3
<1>6. Balances'
  BY <1>1, <1>2, <1>3, <1>5, BalancesStay
<1>7. Conserved'
  BY <1>1, <1>2, <1>3, <1>5, TotalsStay
<1>8. Sleep'
  <2>1. SUFFICES ASSUME ByEvent = {}, NEW e \in Devices PROVE Sleeps(e)'
    BY DEF Sleep
  <2>2. Sleeps(e) /\ EjectStage(e) /\ (e # Last => Sleeps(e + 1) /\ Capacity[e + 1] \in Nat)
    BY <1>1, <2>1, Geometry, Capacities DEF Sleep, Local
  <2> QED BY <1>1, <1>2, <1>3, <2>2, Geometry
       DEF Types, Sleeps, HasRoom, Incoming, UnderWay, EjectStage, AfterLeft
<1> QED BY <1>3, <1>4, <1>6, <1>7, <1>8 DEF IInv

\* The target has room, or the task goes to sleep.
LEMMA TargetReadyStep ==
  ASSUME Unusual = {}, IInv, NEW d \in Devices, TargetReady(d)
  PROVE  IInv'
<1> USE DEF TargetReady, Goto, machine, counter, handler, waiting, tracker, books
<1>1. Types /\ (\A e \in Devices : Local(e)) /\ Balances /\ Conserved /\ Sleep
  BY DEF IInv
<1>2. pc[d] = "waiting_for_target_ready" /\ ~cancelled[d]
  BY <1>1 DEF Types, Local, CountStage, WaitStage, EjectStage, InEject, AfterLeft
<1>3. Types'
  BY <1>1, <1>2 DEF Types, Stages, InEject
<1>4. ASSUME NEW e \in Devices PROVE Local(e)'
  <2>1. Local(e)
    BY <1>1
  <2> QED BY <1>1, <1>2, <1>3, <2>1, Geometry
       DEF Types, Stages, Local, CountStage, WaitStage, EjectStage, Observed, Limited, Agreed, Left,
           Idle, InEject, AfterLeft
<1>5. ASSUME NEW e \in Devices
      PROVE  /\ Outbound(e)' = Outbound(e) /\ Promised(e)' = Promised(e)
             /\ Has(e)' = Has(e) /\ Booked(e)' = Booked(e)
  <2>1. Outbound(e)' = Outbound(e) /\ Promised(e)' = Promised(e)
    BY <1>1, <1>2, <1>3, Geometry DEF Types, Promised, Outbound
  <2>2. Has(e)' = Has(e)
    BY <1>1, <1>2, <1>3, Geometry DEF Types, Has, Pending
  <2>3. Booked(e)' = Booked(e)
    BY <1>1, <1>2, <1>3, Geometry DEF Types, Booked, Pending, Doubled
  <2> QED BY <2>1, <2>2, <2>3
<1>6. Balances'
  BY <1>1, <1>2, <1>3, <1>5, BalancesStay
<1>7. Conserved'
  BY <1>1, <1>2, <1>3, <1>5, TotalsStay
<1>8. Sleep'
  <2>1. SUFFICES ASSUME ByEvent = {}, NEW e \in Devices PROVE Sleeps(e)'
    BY DEF Sleep
  <2>2. Sleeps(e) /\ EjectStage(e) /\ (e # Last => Sleeps(e + 1) /\ Capacity[e + 1] \in Nat)
    BY <1>1, <2>1, Geometry, Capacities DEF Sleep, Local
  <2> QED BY <1>1, <1>2, <1>3, <2>2, Geometry
       DEF Types, Sleeps, HasRoom, Incoming, UnderWay, EjectStage, AfterLeft
<1> QED BY <1>3, <1>4, <1>6, <1>7, <1>8 DEF IInv

\* The eject starts and takes the lock of the counting.
LEMMA StartEjectStep ==
  ASSUME Unusual = {}, IInv, NEW d \in Devices, StartEject(d)
  PROVE  IInv'
<1> USE DEF StartEject, Goto, machine, counter, waiting, tracker
<1>1. Types /\ (\A e \in Devices : Local(e)) /\ Balances /\ Conserved /\ Sleep
  BY DEF IInv
<1>2. pc[d] = "start_eject" /\ ~cancelled[d] /\ num_balls_requested \in Nat
  BY <1>1 DEF Types, Local, CountStage, WaitStage, EjectStage, InEject, AfterLeft
<1>3. Types'
  BY <1>1, <1>2 DEF Types, Stages, InEject
<1>4. ASSUME NEW e \in Devices PROVE Local(e)'
  <2>1. Local(e)
    BY <1>1
  <2> QED BY <1>1, <1>2, <1>3, <2>1, Geometry
       DEF Types, Stages, Local, CountStage, WaitStage, EjectStage, Observed, Limited, Agreed, Left,
           Idle, InEject, AfterLeft
<1>5. ASSUME NEW e \in Devices
      PROVE  /\ Outbound(e)' = Outbound(e) /\ Promised(e)' = Promised(e)
             /\ Has(e)' = Has(e) /\ Booked(e)' = Booked(e)
  <2>1. Outbound(e)' = Outbound(e) /\ Promised(e)' = Promised(e)
    BY <1>1, <1>2, <1>3, Geometry DEF Types, Promised, Outbound
  <2>2. Has(e)' = Has(e)
    BY <1>1, <1>2, <1>3, Geometry DEF Types, Has, Pending
  <2>3. Booked(e)' = Booked(e)
    BY <1>1, <1>2, <1>3, Geometry DEF Types, Booked, Pending, Doubled
  <2> QED BY <2>1, <2>2, <2>3
<1>6. Balances'
  BY <1>1, <1>2, <1>3, <1>5, BalancesStay
<1>7. Conserved'
  BY <1>1, <1>2, <1>3, <1>5, TotalsStay
<1>8. Sleep'
  <2>1. SUFFICES ASSUME ByEvent = {}, NEW e \in Devices PROVE Sleeps(e)'
    BY DEF Sleep
  <2>2. Sleeps(e) /\ EjectStage(e) /\ (e # Last => Sleeps(e + 1) /\ Capacity[e + 1] \in Nat)
    BY <1>1, <2>1, Geometry, Capacities DEF Sleep, Local
  <2> QED BY <1>1, <1>2, <1>3, <2>2, Geometry
       DEF Types, Sleeps, HasRoom, Incoming, UnderWay, EjectStage, AfterLeft
<1> QED BY <1>3, <1>4, <1>6, <1>7, <1>8 DEF IInv

\* The coil fires.
LEMMA WillEjectStep ==
  ASSUME Unusual = {}, IInv, NEW d \in Devices, WillEject(d)
  PROVE  IInv'
<1> USE DEF WillEject, Goto, machine, counter, handler, waiting, tracker, books
<1>1. Types /\ (\A e \in Devices : Local(e)) /\ Balances /\ Conserved /\ Sleep
  BY DEF IInv
<1>2. pc[d] = "will_eject" /\ ~cancelled[d] /\ ball[d] = "none"
  BY <1>1 DEF Types, Local, CountStage, WaitStage, EjectStage, InEject, AfterLeft
<1>3. Types'
  BY <1>1, <1>2 DEF Types, Stages, InEject
<1>4. ASSUME NEW e \in Devices PROVE Local(e)'
  <2>1. Local(e)
    BY <1>1
  <2> QED BY <1>1, <1>2, <1>3, <2>1, Geometry
       DEF Types, Stages, Local, CountStage, WaitStage, EjectStage, Observed, Limited, Agreed, Left,
           Idle, InEject, AfterLeft
<1>5. ASSUME NEW e \in Devices
      PROVE  /\ Outbound(e)' = Outbound(e) /\ Promised(e)' = Promised(e)
             /\ Has(e)' = Has(e) /\ Booked(e)' = Booked(e)
  <2>1. Outbound(e)' = Outbound(e) /\ Promised(e)' = Promised(e)
    BY <1>1, <1>2, <1>3, Geometry DEF Types, Promised, Outbound
  <2>2. Has(e)' = Has(e)
    BY <1>1, <1>2, <1>3, Geometry DEF Types, Has, Pending
  <2>3. Booked(e)' = Booked(e)
    BY <1>1, <1>2, <1>3, Geometry DEF Types, Booked, Pending, Doubled
  <2> QED BY <2>1, <2>2, <2>3
<1>6. Balances'
  BY <1>1, <1>2, <1>3, <1>5, BalancesStay
<1>7. Conserved'
  BY <1>1, <1>2, <1>3, <1>5, TotalsStay
<1>8. Sleep'
  <2>1. SUFFICES ASSUME ByEvent = {}, NEW e \in Devices PROVE Sleeps(e)'
    BY DEF Sleep
  <2>2. Sleeps(e) /\ EjectStage(e) /\ (e # Last => Sleeps(e + 1) /\ Capacity[e + 1] \in Nat)
    BY <1>1, <2>1, Geometry, Capacities DEF Sleep, Local
  <2> QED BY <1>1, <1>2, <1>3, <2>2, Geometry
       DEF Types, Sleeps, HasRoom, Incoming, UnderWay, EjectStage, AfterLeft
<1> QED BY <1>3, <1>4, <1>6, <1>7, <1>8 DEF IInv

\* The missing balls of the idle trough are booked on the playfield.
LEMMA IdleBallLostStep ==
  ASSUME Unusual = {}, IInv, NEW d \in Devices, IdleBallLost(d)
  PROVE  IInv'
<1> USE DEF IdleBallLost, SetBallCount, Woken, machine, counter, waiting, tracker
<1>1. Types /\ (\A e \in Devices : Local(e)) /\ Balances /\ Conserved /\ Sleep
  BY DEF IInv
<1>2. /\ ball_count[d] \in Nat /\ arrivals[d] \in Nat /\ arrivals[d] <= ball_count[d] /\ d = 1
      /\ counting[d] = "missing" /\ pc[d] \in {"idle", "validating"}
  BY <1>1 DEF Types, Local, CountStage, WaitStage, EjectStage, InEject, AfterLeft
<1>3. Types'
  <2>1. ball_count' \in [Devices -> Nat] /\ arrivals' \in [Devices -> Nat]
    BY <1>1, <1>2 DEF Types
  <2>2. pc' \in [Devices -> Stages]
    BY <1>1, <1>2 DEF Types, Stages, InEject
  <2>3. available_balls' \in [Places -> Int] /\ playfield_balls' \in Int
    BY <1>1, <1>2, Geometry DEF Types
  <2>4. /\ counting' \in [Devices -> {"free", "eject", "count", "arrivals", "missing"}]
        /\ count_valid' \in [Devices -> BOOLEAN]
    BY <1>1, <1>2 DEF Types
  <2> QED BY <1>1, <1>2, <2>1, <2>2, <2>3, <2>4 DEF Types
<1>4. ASSUME NEW e \in Devices PROVE Local(e)'
  <2>1. Local(e)
    BY <1>1
  <2> QED BY <1>1, <1>2, <1>3, <2>1, Geometry
       DEF Types, Stages, Local, CountStage, WaitStage, EjectStage, Observed, Limited, Agreed, Left,
           Idle, InEject, AfterLeft
<1>5. ASSUME NEW e \in Devices
      PROVE  /\ Outbound(e)' - Outbound(e) = 0 /\ Promised(e)' - Promised(e) = 0
             /\ Has(e)' - Has(e) =
                  (IF e = d THEN -arrivals[d] ELSE IF e = Playfield THEN arrivals[d] ELSE 0)
             /\ Booked(e)' - Booked(e) = (IF e = d THEN -arrivals[d] ELSE 0)
  <2>1. Outbound(e)' - Outbound(e) = 0 /\ Promised(e)' - Promised(e) = 0
    BY <1>1, <1>2, <1>3, Geometry DEF Types, Promised, Outbound
  <2>2. /\ Has(e)' - Has(e) =
             (IF e = d THEN -arrivals[d] ELSE IF e = Playfield THEN arrivals[d] ELSE 0)
        /\ Booked(e)' - Booked(e) = (IF e = d THEN -arrivals[d] ELSE 0)
    BY <1>1, <1>2, <1>3, Geometry DEF Types, Has, Booked, Pending, Doubled
  <2> QED BY <2>1, <2>2
<1>6. Balances'
  <2> HIDE DEF IdleBallLost, SetBallCount, Woken, machine, counter, waiting, tracker
  <2>1. ASSUME NEW p \in Places
        PROVE  (available_balls'[p] - available_balls[p]) =
                 ((Has(p)' - Has(p)) + (IF p = 1 THEN 0 ELSE Promised(p - 1)' - Promised(p - 1)))
                   - (IF p = Playfield THEN 0 ELSE Outbound(p)' - Outbound(p))
    <3>1. available_balls'[p] - available_balls[p] =
            (IF p = d THEN -arrivals[d] ELSE IF p = Playfield THEN arrivals[d] ELSE 0)
      <4>1. /\ available_balls'[p] =
                 available_balls[p] + (IF p = d THEN -arrivals[d] ELSE IF p = Playfield THEN arrivals[d] ELSE 0)
            /\ available_balls[p] \in Int
        BY <1>1, <1>2, <1>3, Geometry
             DEF Types, IdleBallLost, SetBallCount, Woken, machine, counter, waiting, tracker
      <4> QED BY <1>2, <4>1
    <3>2. Has(p)' - Has(p) =
            (IF p = d THEN -arrivals[d] ELSE IF p = Playfield THEN arrivals[d] ELSE 0)
      <4>1. CASE p = Playfield
        <5>1. Has(p) = playfield_balls /\ Has(p)' = playfield_balls' /\ playfield_balls \in Int
          BY <1>1, <4>1 DEF Types, Has
        <5> QED BY <1>2, <4>1, <5>1, Geometry
             DEF IdleBallLost, SetBallCount, Woken, machine, counter, waiting, tracker
      <4>2. CASE p # Playfield
        BY <1>2, <1>5, <4>2, Geometry
      <4> QED BY <4>1, <4>2
    <3>3. p # 1 => Promised(p - 1)' - Promised(p - 1) = 0
      BY <1>5, Geometry
    <3>4. p # Playfield => Outbound(p)' - Outbound(p) = 0
      BY <1>5, Geometry
    <3> QED BY <1>2, <3>1, <3>2, <3>3, <3>4, Geometry
  <2> QED BY <1>1, <1>3, <2>1, BalancesAgain
<1>7. Conserved'
  <2>1. ASSUME NEW e \in Devices \ {d} PROVE Booked(e)' = Booked(e)
    <3>1. Booked(e)' - Booked(e) = 0
      BY <1>2, <1>5
    <3>2. Booked(e) \in Int /\ Booked(e)' \in Int
      BY <1>1, <1>3, PlainTypes, PlainTypesNext
    <3> QED BY <3>1, <3>2
  <2>2. UNCHANGED machine /\ (playfield_balls' - playfield_balls) + (Booked(d)' - Booked(d)) = 0
    BY <1>1, <1>2, <1>5 DEF Types
  <2> QED BY <1>1, <1>3, <2>1, <2>2, ConservedAgain
<1>8. Sleep'
  <2>1. SUFFICES ASSUME ByEvent = {}, NEW e \in Devices PROVE Sleeps(e)'
    BY DEF Sleep
  <2>2. Sleeps(e) /\ EjectStage(e) /\ (e # Last => Sleeps(e + 1) /\ Capacity[e + 1] \in Nat)
    BY <1>1, <2>1, Geometry, Capacities DEF Sleep, Local
  <2> QED BY <1>1, <1>2, <1>3, <2>2, Geometry
       DEF Types, Sleeps, HasRoom, Incoming, UnderWay, EjectStage, AfterLeft
<1> QED BY <1>3, <1>4, <1>6, <1>7, <1>8 DEF IInv

\* A ball leaves the device.
LEMMA BallLeavesStep ==
  ASSUME Unusual = {}, IInv, NEW d \in Devices, BallLeaves(d)
  PROVE  IInv'
<1> USE DEF BallLeaves, Goto, handler, waiting, tracker, books
<1>1. Types /\ (\A e \in Devices : Local(e)) /\ Balances /\ Conserved /\ Sleep
  BY DEF IInv
<1>2. /\ pc[d] = "ejecting" /\ inside[d] \in Nat /\ flying[d] \in Nat /\ last_count[d] \in Nat
      /\ last_count[d] > 0
      /\ ball[d] = "none" /\ ~cancelled[d] /\ mishaps' = mishaps
      /\ inside[d] > 0 /\ inside' = [inside EXCEPT ![d] = @ - 1]
      /\ flying' = [flying EXCEPT ![d] = @ + 1]
  <2>1. /\ pc[d] = "ejecting" /\ inside[d] \in Nat /\ flying[d] \in Nat /\ last_count[d] \in Nat
        /\ mishaps \in Int
    BY <1>1, BallAssumption DEF Types
  <2>2. last_count[d] > 0 /\ inside[d] > 0 /\ ball[d] = "none" /\ ~cancelled[d]
    BY <1>1, <2>1 DEF Local, WaitStage, EjectStage, AfterLeft
  <2>3. PICK n \in 1..2 :
          /\ n = 2 => "two_gone" \in Unusual
          /\ inside' = [inside EXCEPT ![d] = @ - n]
          /\ flying' = [flying EXCEPT ![d] = @ + n]
          /\ mishaps' = mishaps + n - 1
    OBVIOUS
  <2>4. n = 1
    BY <2>3
  <2>5. mishaps' = mishaps
    BY <2>1, <2>3, <2>4
  <2>6. inside' = [inside EXCEPT ![d] = @ - 1]
    BY <2>3, <2>4
  <2>7. flying' = [flying EXCEPT ![d] = @ + 1]
    BY <2>3, <2>4
  <2> HIDE DEF BallLeaves
  <2> QED BY <2>1, <2>2, <2>5, <2>6, <2>7
<1>3. Types'
  BY <1>1, <1>2 DEF Types, Stages, InEject
<1>4. ASSUME NEW e \in Devices PROVE Local(e)'
  <2>1. Local(e)
    BY <1>1
  <2> QED BY <1>1, <1>2, <1>3, <2>1, Geometry
       DEF Types, Stages, Local, CountStage, WaitStage, EjectStage, Observed, Limited, Agreed, Left,
           Idle, InEject, AfterLeft
<1>5. ASSUME NEW e \in Devices
      PROVE  /\ Outbound(e)' = Outbound(e) /\ Promised(e)' = Promised(e)
             /\ Has(e)' = Has(e) /\ Booked(e)' = Booked(e)
  <2>1. Outbound(e)' = Outbound(e) /\ Promised(e)' = Promised(e)
    BY <1>1, <1>2, <1>3, Geometry DEF Types, Promised, Outbound
  <2>2. Has(e)' = Has(e)
    BY <1>1, <1>2, <1>3, Geometry DEF Types, Has, Pending
  <2>3. Booked(e)' = Booked(e)
    BY <1>1, <1>2, <1>3, Geometry DEF Types, Booked, Pending, Doubled
  <2> QED BY <2>1, <2>2, <2>3
<1>6. Balances'
  BY <1>1, <1>2, <1>3, <1>5, BalancesStay
<1>7. Conserved'
  <2>1. /\ \A e \in Devices \ {d} : inside'[e] = inside[e] /\ flying'[e] = flying[e]
        /\ loose' + (inside'[d] + flying'[d]) = loose + (inside[d] + flying[d])
        /\ playfield_balls' = playfield_balls
    <3>1. /\ \A e \in Devices \ {d} : inside'[e] = inside[e] /\ flying'[e] = flying[e]
          /\ loose \in Int /\ inside[d] \in Int /\ flying[d] \in Int
          /\ playfield_balls' = playfield_balls
      BY <1>1, <1>2, <1>3 DEF Types
    <3>2. <<loose', inside'[d], flying'[d]>> = <<loose, inside[d] - 1, flying[d] + 1>>
      BY <1>1, <1>2, <1>3, <3>1 DEF Types
    <3> QED BY <3>1, <3>2
  <2> QED BY <1>1, <1>3, <1>5, <2>1, BallMovesOutside
<1>8. Sleep'
  <2>1. SUFFICES ASSUME ByEvent = {}, NEW e \in Devices PROVE Sleeps(e)'
    BY DEF Sleep
  <2>2. Sleeps(e) /\ EjectStage(e) /\ (e # Last => Sleeps(e + 1) /\ Capacity[e + 1] \in Nat)
    BY <1>1, <2>1, Geometry, Capacities DEF Sleep, Local
  <2> QED BY <1>1, <1>2, <1>3, <2>2, Geometry
       DEF Types, Sleeps, HasRoom, Incoming, UnderWay, EjectStage, AfterLeft
<1> QED BY <1>3, <1>4, <1>6, <1>7, <1>8 DEF IInv

\* No ball has left in time.
LEMMA EjectTimeoutStep ==
  ASSUME Unusual = {}, IInv, NEW d \in Devices, EjectTimeout(d)
  PROVE  IInv'
<1> USE DEF EjectTimeout, EjectFailed, Validate, Goto, machine, counter, waiting
<1>1. Types /\ (\A e \in Devices : Local(e)) /\ Balances /\ Conserved /\ Sleep
  BY DEF IInv
<1>2. /\ pc[d] = "ejecting" /\ ball[d] = "none" /\ ~cancelled[d] /\ counting[d] = "eject"
      /\ num_balls_requested \in Nat /\ (d = Last => num_balls_requested > 0)
  BY <1>1 DEF Types, Local, CountStage, WaitStage, EjectStage, InEject, AfterLeft
<1>3. Types'
  BY <1>1, <1>2 DEF Types, Stages, InEject
<1>4. ASSUME NEW e \in Devices PROVE Local(e)'
  <2>1. Local(e)
    BY <1>1
  <2> QED BY <1>1, <1>2, <1>3, <2>1, Geometry
       DEF Types, Stages, Local, CountStage, WaitStage, EjectStage, Observed, Limited, Agreed, Left,
           Idle, InEject, AfterLeft
<1>5. ASSUME NEW e \in Devices
      PROVE  /\ Outbound(e)' = Outbound(e) /\ Promised(e)' = Promised(e)
             /\ Has(e)' = Has(e) /\ Booked(e)' = Booked(e)
  <2>1. Outbound(e)' = Outbound(e) /\ Promised(e)' = Promised(e)
    BY <1>1, <1>2, <1>3, Geometry DEF Types, Promised, Outbound
  <2>2. Has(e)' = Has(e)
    BY <1>1, <1>2, <1>3, Geometry DEF Types, Has, Pending
  <2>3. Booked(e)' = Booked(e)
    BY <1>1, <1>2, <1>3, Geometry DEF Types, Booked, Pending, Doubled
  <2> QED BY <2>1, <2>2, <2>3
<1>6. Balances'
  BY <1>1, <1>2, <1>3, <1>5, BalancesStay
<1>7. Conserved'
  BY <1>1, <1>2, <1>3, <1>5, TotalsStay
<1>8. Sleep'
  <2>1. SUFFICES ASSUME ByEvent = {}, NEW e \in Devices PROVE Sleeps(e)'
    BY DEF Sleep
  <2>2. Sleeps(e) /\ EjectStage(e) /\ (e # Last => Sleeps(e + 1) /\ Capacity[e + 1] \in Nat)
    BY <1>1, <2>1, Geometry, Capacities DEF Sleep, Local
  <2> QED BY <1>1, <1>2, <1>3, <2>2, Geometry
       DEF Types, Sleeps, HasRoom, Incoming, UnderWay, EjectStage, AfterLeft
<1> QED BY <1>3, <1>4, <1>6, <1>7, <1>8 DEF IInv

\* The ball fell back.
LEMMA BallReturnedStep ==
  ASSUME Unusual = {}, IInv, NEW d \in Devices, BallReturned(d)
  PROVE  IInv'
<1> USE DEF BallReturned, EjectFailed, Validate, Goto, machine, counter, waiting
<1>1. Types /\ (\A e \in Devices : Local(e)) /\ Balances /\ Conserved /\ Sleep
  BY DEF IInv
<1>2. /\ pc[d] = "missing" /\ heard[d] /\ (d # Last => ball[d] = "left") /\ ~cancelled[d]
      /\ counting[d] = "eject"
      /\ num_balls_requested \in Nat /\ (d = Last => num_balls_requested > 0)
  BY <1>1 DEF Types, Local, CountStage, WaitStage, EjectStage, InEject, AfterLeft
<1>3. Types'
  BY <1>1, <1>2 DEF Types, Stages, InEject
<1>4. ASSUME NEW e \in Devices PROVE Local(e)'
  <2>1. Local(e)
    BY <1>1
  <2> QED BY <1>1, <1>2, <1>3, <2>1, Geometry
       DEF Types, Stages, Local, CountStage, WaitStage, EjectStage, Observed, Limited, Agreed, Left,
           Idle, InEject, AfterLeft
<1>5. ASSUME NEW e \in Devices
      PROVE  /\ Outbound(e)' = Outbound(e) /\ Promised(e)' = Promised(e)
             /\ Has(e)' = Has(e) /\ Booked(e)' = Booked(e)
  <2>1. Outbound(e)' = Outbound(e) /\ Promised(e)' = Promised(e)
    BY <1>1, <1>2, <1>3, Geometry DEF Types, Promised, Outbound
  <2>2. Has(e)' = Has(e)
    BY <1>1, <1>2, <1>3, Geometry DEF Types, Has, Pending
  <2>3. Booked(e)' = Booked(e)
    BY <1>1, <1>2, <1>3, Geometry DEF Types, Booked, Pending, Doubled
  <2> QED BY <2>1, <2>2, <2>3
<1>6. Balances'
  BY <1>1, <1>2, <1>3, <1>5, BalancesStay
<1>7. Conserved'
  BY <1>1, <1>2, <1>3, <1>5, TotalsStay
<1>8. Sleep'
  <2>1. SUFFICES ASSUME ByEvent = {}, NEW e \in Devices PROVE Sleeps(e)'
    BY DEF Sleep
  <2>2. Sleeps(e) /\ EjectStage(e) /\ (e # Last => Sleeps(e + 1) /\ Capacity[e + 1] \in Nat)
    BY <1>1, <2>1, Geometry, Capacities DEF Sleep, Local
  <2> QED BY <1>1, <1>2, <1>3, <2>2, Geometry
       DEF Types, Sleeps, HasRoom, Incoming, UnderWay, EjectStage, AfterLeft
<1> QED BY <1>3, <1>4, <1>6, <1>7, <1>8 DEF IInv

\* A playfield switch confirms an eject to the playfield.
LEMMA PlayfieldHitStep ==
  ASSUME Unusual = {}, IInv, PlayfieldHit
  PROVE  IInv'
<1> USE DEF PlayfieldHit, machine, counter, handler, waiting, tracker, books, UnderWay
<1>1. Types /\ (\A e \in Devices : Local(e)) /\ Balances /\ Conserved /\ Sleep
  BY DEF IInv
<1>2. pc[Last] \in AfterLeft \ {"lost", "ending"} /\ ball[Last] = "left"
  BY <1>1, Geometry DEF Types, Local, CountStage, WaitStage, EjectStage, InEject, AfterLeft
<1>3. Types'
  BY <1>1, <1>2 DEF Types, Stages, InEject
<1>4. ASSUME NEW e \in Devices PROVE Local(e)'
  <2>1. Local(e)
    BY <1>1
  <2> QED BY <1>1, <1>2, <1>3, <2>1, Geometry
       DEF Types, Stages, Local, CountStage, WaitStage, EjectStage, Observed, Limited, Agreed, Left,
           Idle, InEject, AfterLeft
<1>5. ASSUME NEW e \in Devices
      PROVE  /\ Outbound(e)' = Outbound(e) /\ Promised(e)' = Promised(e)
             /\ Has(e)' = Has(e) /\ Booked(e)' = Booked(e)
  <2>1. Outbound(e)' = Outbound(e) /\ Promised(e)' = Promised(e)
    BY <1>1, <1>2, <1>3, Geometry DEF Types, Promised, Outbound
  <2>2. Has(e)' = Has(e)
    BY <1>1, <1>2, <1>3, Geometry DEF Types, Has, Pending
  <2>3. Booked(e)' = Booked(e)
    BY <1>1, <1>2, <1>3, Geometry DEF Types, Booked, Pending, Doubled
  <2> QED BY <2>1, <2>2, <2>3
<1>6. Balances'
  BY <1>1, <1>2, <1>3, <1>5, BalancesStay
<1>7. Conserved'
  BY <1>1, <1>2, <1>3, <1>5, TotalsStay
<1>8. Sleep'
  <2>1. SUFFICES ASSUME ByEvent = {}, NEW e \in Devices PROVE Sleeps(e)'
    BY DEF Sleep
  <2>2. Sleeps(e) /\ EjectStage(e) /\ (e # Last => Sleeps(e + 1) /\ Capacity[e + 1] \in Nat)
    BY <1>1, <2>1, Geometry, Capacities DEF Sleep, Local
  <2> QED BY <1>1, <1>2, <1>3, <2>2, Geometry
       DEF Types, Sleeps, HasRoom, Incoming, UnderWay, EjectStage, AfterLeft
<1> QED BY <1>3, <1>4, <1>6, <1>7, <1>8 DEF IInv

\* The confirmation is late.
LEMMA ConfirmTimeoutStep ==
  ASSUME Unusual = {}, IInv, NEW d \in Devices, ConfirmTimeout(d)
  PROVE  IInv'
<1> USE DEF ConfirmTimeout, Goto, machine, counter, waiting, books
<1>1. Types /\ (\A e \in Devices : Local(e)) /\ Balances /\ Conserved /\ Sleep
  BY DEF IInv
<1>2. /\ pc[d] = "ball_left" /\ ~cancelled[d] /\ (d # Last => d + 1 \in Devices /\ d + 1 # d)
  BY <1>1, Geometry DEF Types, Local, CountStage, WaitStage, EjectStage, InEject, AfterLeft
<1>3. Types'
  <2>1. pc' \in [Devices -> Stages]
    BY <1>1, <1>2 DEF Types, Stages, InEject
  <2>2. count_valid' \in [Devices -> BOOLEAN] /\ recount' \in [Devices -> BOOLEAN]
    BY <1>1, <1>2 DEF Types
  <2>3. heard' \in [Devices -> BOOLEAN]
    BY <1>1, <1>2 DEF Types
  <2> QED BY <1>1, <1>2, <2>1, <2>2, <2>3 DEF Types
<1>4. ASSUME NEW e \in Devices PROVE Local(e)'
  <2>1. Local(e)
    BY <1>1
  <2> QED BY <1>1, <1>2, <1>3, <2>1, Geometry
       DEF Types, Stages, Local, CountStage, WaitStage, EjectStage, Observed, Limited, Agreed, Left,
           Idle, InEject, AfterLeft
<1>5. ASSUME NEW e \in Devices
      PROVE  /\ Outbound(e)' = Outbound(e) /\ Promised(e)' = Promised(e)
             /\ Has(e)' = Has(e) /\ Booked(e)' = Booked(e)
  <2>1. Outbound(e)' = Outbound(e) /\ Promised(e)' = Promised(e)
    BY <1>1, <1>2, <1>3, Geometry DEF Types, Promised, Outbound
  <2>2. Has(e)' = Has(e)
    BY <1>1, <1>2, <1>3, Geometry DEF Types, Has, Pending
  <2>3. Booked(e)' = Booked(e)
    BY <1>1, <1>2, <1>3, Geometry DEF Types, Booked, Pending, Doubled
  <2> QED BY <2>1, <2>2, <2>3
<1>6. Balances'
  BY <1>1, <1>2, <1>3, <1>5, BalancesStay
<1>7. Conserved'
  BY <1>1, <1>2, <1>3, <1>5, TotalsStay
<1>8. Sleep'
  <2>1. SUFFICES ASSUME ByEvent = {}, NEW e \in Devices PROVE Sleeps(e)'
    BY DEF Sleep
  <2>2. Sleeps(e) /\ EjectStage(e) /\ (e # Last => Sleeps(e + 1) /\ Capacity[e + 1] \in Nat)
    BY <1>1, <2>1, Geometry, Capacities DEF Sleep, Local
  <2> QED BY <1>1, <1>2, <1>3, <2>2, Geometry
       DEF Types, Sleeps, HasRoom, Incoming, UnderWay, EjectStage, AfterLeft
<1> QED BY <1>3, <1>4, <1>6, <1>7, <1>8 DEF IInv

\* The ball may still be under way.
LEMMA NotYetThereStep ==
  ASSUME Unusual = {}, IInv, NEW d \in Devices, NotYetThere(d)
  PROVE  IInv'
<1> USE DEF NotYetThere, Goto, machine, counter, handler, waiting, tracker, books
<1>1. Types /\ (\A e \in Devices : Local(e)) /\ Balances /\ Conserved /\ Sleep
  BY DEF IInv
<1>2. pc[d] \in {"recounting", "grace"} /\ ~cancelled[d]
  BY <1>1 DEF Types, Local, CountStage, WaitStage, EjectStage, InEject, AfterLeft
<1>3. Types'
  BY <1>1, <1>2 DEF Types, Stages, InEject
<1>4. ASSUME NEW e \in Devices PROVE Local(e)'
  <2>1. Local(e)
    BY <1>1
  <2> QED BY <1>1, <1>2, <1>3, <2>1, Geometry
       DEF Types, Stages, Local, CountStage, WaitStage, EjectStage, Observed, Limited, Agreed, Left,
           Idle, InEject, AfterLeft
<1>5. ASSUME NEW e \in Devices
      PROVE  /\ Outbound(e)' = Outbound(e) /\ Promised(e)' = Promised(e)
             /\ Has(e)' = Has(e) /\ Booked(e)' = Booked(e)
  <2>1. Outbound(e)' = Outbound(e) /\ Promised(e)' = Promised(e)
    BY <1>1, <1>2, <1>3, Geometry DEF Types, Promised, Outbound
  <2>2. Has(e)' = Has(e)
    BY <1>1, <1>2, <1>3, Geometry DEF Types, Has, Pending
  <2>3. Booked(e)' = Booked(e)
    BY <1>1, <1>2, <1>3, Geometry DEF Types, Booked, Pending, Doubled
  <2> QED BY <2>1, <2>2, <2>3
<1>6. Balances'
  BY <1>1, <1>2, <1>3, <1>5, BalancesStay
<1>7. Conserved'
  BY <1>1, <1>2, <1>3, <1>5, TotalsStay
<1>8. Sleep'
  <2>1. SUFFICES ASSUME ByEvent = {}, NEW e \in Devices PROVE Sleeps(e)'
    BY DEF Sleep
  <2>2. Sleeps(e) /\ EjectStage(e) /\ (e # Last => Sleeps(e + 1) /\ Capacity[e + 1] \in Nat)
    BY <1>1, <2>1, Geometry, Capacities DEF Sleep, Local
  <2> QED BY <1>1, <1>2, <1>3, <2>2, Geometry
       DEF Types, Sleeps, HasRoom, Incoming, UnderWay, EjectStage, AfterLeft
<1> QED BY <1>3, <1>4, <1>6, <1>7, <1>8 DEF IInv

\* The ball is given up.
LEMMA GiveUpStep ==
  ASSUME Unusual = {}, IInv, NEW d \in Devices, GiveUp(d)
  PROVE  IInv'
<1> USE DEF GiveUp, Goto, UnderWay, machine, counter, handler, waiting, tracker, books
<1>1. Types /\ (\A e \in Devices : Local(e)) /\ Balances /\ Conserved /\ Sleep
  BY DEF IInv
<1>2. pc[d] = "missing" /\ ball[d] = "left" /\ ~cancelled[d]
  BY <1>1 DEF Types, Local, CountStage, WaitStage, EjectStage, InEject, AfterLeft
<1>3. Types'
  BY <1>1, <1>2 DEF Types, Stages, InEject
<1>4. ASSUME NEW e \in Devices PROVE Local(e)'
  <2>1. Local(e)
    BY <1>1
  <2> QED BY <1>1, <1>2, <1>3, <2>1, Geometry
       DEF Types, Stages, Local, CountStage, WaitStage, EjectStage, Observed, Limited, Agreed, Left,
           Idle, InEject, AfterLeft
<1>5. ASSUME NEW e \in Devices
      PROVE  /\ Outbound(e)' = Outbound(e) /\ Promised(e)' = Promised(e)
             /\ Has(e)' = Has(e) /\ Booked(e)' = Booked(e)
  <2>1. Outbound(e)' = Outbound(e) /\ Promised(e)' = Promised(e)
    BY <1>1, <1>2, <1>3, Geometry DEF Types, Promised, Outbound
  <2>2. Has(e)' = Has(e)
    BY <1>1, <1>2, <1>3, Geometry DEF Types, Has, Pending
  <2>3. Booked(e)' = Booked(e)
    BY <1>1, <1>2, <1>3, Geometry DEF Types, Booked, Pending, Doubled
  <2> QED BY <2>1, <2>2, <2>3
<1>6. Balances'
  BY <1>1, <1>2, <1>3, <1>5, BalancesStay
<1>7. Conserved'
  BY <1>1, <1>2, <1>3, <1>5, TotalsStay
<1>8. Sleep'
  <2>1. SUFFICES ASSUME ByEvent = {}, NEW e \in Devices PROVE Sleeps(e)'
    BY DEF Sleep
  <2>2. Sleeps(e) /\ EjectStage(e) /\ (e # Last => Sleeps(e + 1) /\ Capacity[e + 1] \in Nat)
    BY <1>1, <2>1, Geometry, Capacities DEF Sleep, Local
  <2> QED BY <1>1, <1>2, <1>3, <2>2, Geometry
       DEF Types, Sleeps, HasRoom, Incoming, UnderWay, EjectStage, AfterLeft
<1> QED BY <1>3, <1>4, <1>6, <1>7, <1>8 DEF IInv

\* The device looks whether a ball left without an eject.
LEMMA CheckLeftStep ==
  ASSUME Unusual = {}, IInv, NEW d \in Devices, CheckLeft(d)
  PROVE  IInv'
<1> USE DEF CheckLeft, Goto, machine, counter, waiting, tracker
<1>1. Types /\ (\A e \in Devices : Local(e)) /\ Balances /\ Conserved /\ Sleep
  BY DEF IInv
<1>2. /\ pc[d] = "checking" /\ ~cancelled[d] /\ d > 1
      /\ ball_count[d] \in Nat /\ last_count[d] \in Nat /\ ball_count[d] <= last_count[d]
      /\ ~ (ball_count[d] - last_count[d] > 0)
  BY <1>1 DEF Types, Local, CountStage, WaitStage, EjectStage, InEject, AfterLeft, Observed, Left
<1>3. Types'
  BY <1>1, <1>2 DEF Types, Stages, InEject
<1>4. ASSUME NEW e \in Devices PROVE Local(e)'
  <2>1. Local(e)
    BY <1>1
  <2> QED BY <1>1, <1>2, <1>3, <2>1, Geometry
       DEF Types, Stages, Local, CountStage, WaitStage, EjectStage, Observed, Limited, Agreed, Left,
           Idle, InEject, AfterLeft
<1>5. ASSUME NEW e \in Devices
      PROVE  /\ Outbound(e)' = Outbound(e) /\ Promised(e)' = Promised(e)
             /\ Has(e)' = Has(e) /\ Booked(e)' = Booked(e)
  <2>1. Outbound(e)' = Outbound(e) /\ Promised(e)' = Promised(e)
    BY <1>1, <1>2, <1>3, Geometry DEF Types, Promised, Outbound
  <2>2. Has(e)' = Has(e)
    BY <1>1, <1>2, <1>3, Geometry DEF Types, Has, Pending
  <2>3. Booked(e)' = Booked(e)
    BY <1>1, <1>2, <1>3, Geometry DEF Types, Booked, Pending, Doubled
  <2> QED BY <2>1, <2>2, <2>3
<1>6. Balances'
  BY <1>1, <1>2, <1>3, <1>5, BalancesStay
<1>7. Conserved'
  BY <1>1, <1>2, <1>3, <1>5, TotalsStay
<1>8. Sleep'
  <2>1. SUFFICES ASSUME ByEvent = {}, NEW e \in Devices PROVE Sleeps(e)'
    BY DEF Sleep
  <2>2. Sleeps(e) /\ EjectStage(e) /\ (e # Last => Sleeps(e + 1) /\ Capacity[e + 1] \in Nat)
    BY <1>1, <2>1, Geometry, Capacities DEF Sleep, Local
  <2> QED BY <1>1, <1>2, <1>3, <2>2, Geometry
       DEF Types, Sleeps, HasRoom, Incoming, UnderWay, EjectStage, AfterLeft
<1> QED BY <1>3, <1>4, <1>6, <1>7, <1>8 DEF IInv

\* The ball has arrived: the eject was a success.
LEMMA ConfirmedStep ==
  ASSUME Unusual = {}, IInv, NEW d \in Devices, Confirmed(d)
  PROVE  IInv'
<1> USE DEF Confirmed, EjectSuccess, Goto, machine, counter, handler, waiting, tracker
<1>1. Types /\ (\A e \in Devices : Local(e)) /\ Balances /\ Conserved /\ Sleep
  BY DEF IInv
<1>2. /\ pc[d] \in {"ball_left", "recounting", "missing"} /\ ball[d] = "arrived" /\ ~cancelled[d]
      /\ Last \in Int /\ d <= Last
      /\ num_balls_requested \in Nat /\ (d = Last => num_balls_requested > 0)
  BY <1>1, Geometry DEF Types, Local, CountStage, WaitStage, EjectStage, InEject, AfterLeft
<1>3. Types'
  BY <1>1, <1>2 DEF Types, Stages, InEject
<1>4. ASSUME NEW e \in Devices PROVE Local(e)'
  <2>1. Local(e)
    BY <1>1
  <2> QED BY <1>1, <1>2, <1>3, <2>1, Geometry
       DEF Types, Stages, Local, CountStage, WaitStage, EjectStage, Observed, Limited, Agreed, Left,
           Idle, InEject, AfterLeft
<1>5. ASSUME NEW e \in Devices
      PROVE  /\ Outbound(e)' - Outbound(e) = 0
             /\ Promised(e)' - Promised(e) = (IF e = d /\ d = Last THEN -1 ELSE 0)
             /\ Has(e)' - Has(e) = (IF e = Playfield /\ d = Last THEN 1 ELSE 0)
             /\ Booked(e)' - Booked(e) = (IF e = d /\ d = Last THEN -1 ELSE 0)
  <2>0. Outbound(e)' - Outbound(e) = 0
    BY <1>1, <1>2, <1>3, Geometry DEF Types, Outbound
  <2>1. Promised(e)' - Promised(e) = (IF e = d /\ d = Last THEN -1 ELSE 0)
    <3>1. e # d => Promised(e)' = Promised(e) /\ Promised(e) \in Int
      BY <1>1, <1>2, <1>3, Geometry DEF Types, Promised
    <3>2. Promised(d)' - Promised(d) = (IF d = Last THEN -1 ELSE 0)
      BY <1>1, <1>2, <1>3, Geometry DEF Types, Promised
    <3> QED BY <3>1, <3>2
  <2>2. /\ Has(e)' - Has(e) = (IF e = Playfield /\ d = Last THEN 1 ELSE 0)
        /\ Booked(e)' - Booked(e) = (IF e = d /\ d = Last THEN -1 ELSE 0)
    BY <1>1, <1>2, <1>3, Geometry DEF Types, Has, Booked, Pending, Doubled
  <2> QED BY <2>0, <2>1, <2>2
<1>6. Balances'
  <2> HIDE DEF Confirmed, EjectSuccess, Goto, machine, counter, handler, waiting, tracker
  <2>1. ASSUME NEW p \in Places
        PROVE  (available_balls'[p] - available_balls[p]) =
                 ((Has(p)' - Has(p)) + (IF p = 1 THEN 0 ELSE Promised(p - 1)' - Promised(p - 1)))
                   - (IF p = Playfield THEN 0 ELSE Outbound(p)' - Outbound(p))
    <3>1. available_balls'[p] - available_balls[p] = 0
      <4>1. available_balls'[p] = available_balls[p] + 0 /\ available_balls[p] \in Int
        BY <1>1, <1>2, <1>3, Geometry
             DEF Types, Confirmed, EjectSuccess, Goto, machine, counter, handler, waiting, tracker
      <4> QED BY <1>2, <4>1
    <3>2. Has(p)' - Has(p) = (IF p = Playfield /\ d = Last THEN 1 ELSE 0)
      <4>1. CASE p = Playfield
        <5>1. Has(p) = playfield_balls /\ Has(p)' = playfield_balls' /\ playfield_balls \in Int
          BY <1>1, <4>1 DEF Types, Has
        <5> QED BY <1>2, <4>1, <5>1, Geometry
             DEF Confirmed, EjectSuccess, Goto, machine, counter, handler, waiting, tracker
      <4>2. CASE p # Playfield
        BY <1>2, <1>5, <4>2, Geometry
      <4> QED BY <4>1, <4>2
    <3>3. p # 1 => Promised(p - 1)' - Promised(p - 1) = (IF p - 1 = d /\ d = Last THEN -1 ELSE 0)
      BY <1>5, Geometry
    <3>4. p # Playfield => Outbound(p)' - Outbound(p) = 0
      BY <1>5, Geometry
    <3> QED BY <1>2, <3>1, <3>2, <3>3, <3>4, Geometry
  <2> QED BY <1>1, <1>3, <2>1, BalancesAgain
<1>7. Conserved'
  <2>1. ASSUME NEW e \in Devices \ {d} PROVE Booked(e)' = Booked(e)
    <3>1. Booked(e)' - Booked(e) = 0
      BY <1>2, <1>5
    <3>2. Booked(e) \in Int /\ Booked(e)' \in Int
      BY <1>1, <1>3, PlainTypes, PlainTypesNext
    <3> QED BY <3>1, <3>2
  <2>2. UNCHANGED machine /\ (playfield_balls' - playfield_balls) + (Booked(d)' - Booked(d)) = 0
    BY <1>1, <1>2, <1>5 DEF Types
  <2> QED BY <1>1, <1>3, <2>1, <2>2, ConservedAgain
<1>8. Sleep'
  <2>1. SUFFICES ASSUME ByEvent = {}, NEW e \in Devices PROVE Sleeps(e)'
    BY DEF Sleep
  <2>2. Sleeps(e) /\ EjectStage(e) /\ (e # Last => Sleeps(e + 1) /\ Capacity[e + 1] \in Nat)
    BY <1>1, <2>1, Geometry, Capacities DEF Sleep, Local
  <2> QED BY <1>1, <1>2, <1>3, <2>2, Geometry
       DEF Types, Sleeps, HasRoom, Incoming, UnderWay, EjectStage, AfterLeft
<1> QED BY <1>3, <1>4, <1>6, <1>7, <1>8 DEF IInv

\* An eject to the playfield counts as a success after its timeout.
LEMMA PlayfieldTimeoutConfirmStep ==
  ASSUME Unusual = {}, IInv, NEW d \in Devices, PlayfieldTimeoutConfirm(d)
  PROVE  IInv'
<1> USE DEF PlayfieldTimeoutConfirm, EjectSuccess, Goto, machine, counter, handler, waiting, tracker
<1>1. Types /\ (\A e \in Devices : Local(e)) /\ Balances /\ Conserved /\ Sleep
  BY DEF IInv
<1>2. /\ pc[d] = "grace" /\ d = Last /\ ~cancelled[d] /\ Last \in Int
      /\ ball[d] \in {"left", "arrived"}
      /\ num_balls_requested \in Nat /\ num_balls_requested > 0
  BY <1>1, Geometry DEF Types, Local, CountStage, WaitStage, EjectStage, InEject, AfterLeft
<1>3. Types'
  BY <1>1, <1>2 DEF Types, Stages, InEject
<1>4. ASSUME NEW e \in Devices PROVE Local(e)'
  <2>1. Local(e)
    BY <1>1
  <2> QED BY <1>1, <1>2, <1>3, <2>1, Geometry
       DEF Types, Stages, Local, CountStage, WaitStage, EjectStage, Observed, Limited, Agreed, Left,
           Idle, InEject, AfterLeft
<1>5. ASSUME NEW e \in Devices
      PROVE  /\ Outbound(e)' - Outbound(e) = 0
             /\ Promised(e)' - Promised(e) = (IF e = d /\ d = Last THEN -1 ELSE 0)
             /\ Has(e)' - Has(e) = (IF e = Playfield /\ d = Last THEN 1 ELSE 0)
             /\ Booked(e)' - Booked(e) = (IF e = d /\ d = Last THEN -1 ELSE 0)
  <2>0. Outbound(e)' - Outbound(e) = 0
    BY <1>1, <1>2, <1>3, Geometry DEF Types, Outbound
  <2>1. Promised(e)' - Promised(e) = (IF e = d /\ d = Last THEN -1 ELSE 0)
    <3>1. e # d => Promised(e)' = Promised(e) /\ Promised(e) \in Int
      BY <1>1, <1>2, <1>3, Geometry DEF Types, Promised
    <3>2. Promised(d)' - Promised(d) = (IF d = Last THEN -1 ELSE 0)
      BY <1>1, <1>2, <1>3, Geometry DEF Types, Promised
    <3> QED BY <3>1, <3>2
  <2>2. /\ Has(e)' - Has(e) = (IF e = Playfield /\ d = Last THEN 1 ELSE 0)
        /\ Booked(e)' - Booked(e) = (IF e = d /\ d = Last THEN -1 ELSE 0)
    BY <1>1, <1>2, <1>3, Geometry DEF Types, Has, Booked, Pending, Doubled
  <2> QED BY <2>0, <2>1, <2>2
<1>6. Balances'
  <2> HIDE DEF PlayfieldTimeoutConfirm, EjectSuccess, Goto, machine, counter, handler, waiting,
             tracker
  <2>1. ASSUME NEW p \in Places
        PROVE  (available_balls'[p] - available_balls[p]) =
                 ((Has(p)' - Has(p)) + (IF p = 1 THEN 0 ELSE Promised(p - 1)' - Promised(p - 1)))
                   - (IF p = Playfield THEN 0 ELSE Outbound(p)' - Outbound(p))
    <3>1. available_balls'[p] - available_balls[p] = 0
      <4>1. available_balls'[p] = available_balls[p] + 0 /\ available_balls[p] \in Int
        BY <1>1, <1>2, <1>3, Geometry
             DEF Types, PlayfieldTimeoutConfirm, EjectSuccess, Goto, machine, counter, handler,
                 waiting, tracker
      <4> QED BY <1>2, <4>1
    <3>2. Has(p)' - Has(p) = (IF p = Playfield /\ d = Last THEN 1 ELSE 0)
      <4>1. CASE p = Playfield
        <5>1. Has(p) = playfield_balls /\ Has(p)' = playfield_balls' /\ playfield_balls \in Int
          BY <1>1, <4>1 DEF Types, Has
        <5> QED BY <1>2, <4>1, <5>1, Geometry
             DEF PlayfieldTimeoutConfirm, EjectSuccess, Goto, machine, counter, handler, waiting,
                 tracker
      <4>2. CASE p # Playfield
        BY <1>2, <1>5, <4>2, Geometry
      <4> QED BY <4>1, <4>2
    <3>3. p # 1 => Promised(p - 1)' - Promised(p - 1) = (IF p - 1 = d /\ d = Last THEN -1 ELSE 0)
      BY <1>5, Geometry
    <3>4. p # Playfield => Outbound(p)' - Outbound(p) = 0
      BY <1>5, Geometry
    <3> QED BY <1>2, <3>1, <3>2, <3>3, <3>4, Geometry
  <2> QED BY <1>1, <1>3, <2>1, BalancesAgain
<1>7. Conserved'
  <2>1. ASSUME NEW e \in Devices \ {d} PROVE Booked(e)' = Booked(e)
    <3>1. Booked(e)' - Booked(e) = 0
      BY <1>2, <1>5
    <3>2. Booked(e) \in Int /\ Booked(e)' \in Int
      BY <1>1, <1>3, PlainTypes, PlainTypesNext
    <3> QED BY <3>1, <3>2
  <2>2. UNCHANGED machine /\ (playfield_balls' - playfield_balls) + (Booked(d)' - Booked(d)) = 0
    BY <1>1, <1>2, <1>5 DEF Types
  <2> QED BY <1>1, <1>3, <2>1, <2>2, ConservedAgain
<1>8. Sleep'
  <2>1. SUFFICES ASSUME ByEvent = {}, NEW e \in Devices PROVE Sleeps(e)'
    BY DEF Sleep
  <2>2. Sleeps(e) /\ EjectStage(e) /\ (e # Last => Sleeps(e + 1) /\ Capacity[e + 1] \in Nat)
    BY <1>1, <2>1, Geometry, Capacities DEF Sleep, Local
  <2> QED BY <1>1, <1>2, <1>3, <2>2, Geometry
       DEF Types, Sleeps, HasRoom, Incoming, UnderWay, EjectStage, AfterLeft
<1> QED BY <1>3, <1>4, <1>6, <1>7, <1>8 DEF IInv

\* An event confirms the eject, and the target awaits a ball that it may never see.
LEMMA ExternalConfirmStep ==
  ASSUME Unusual = {}, IInv, NEW d \in Devices, ExternalConfirm(d)
  PROVE  IInv'
<1> USE DEF UnderWay, machine, counter, handler, waiting, tracker
<1>1. Types /\ (\A e \in Devices : Local(e)) /\ Balances /\ Conserved /\ Sleep
  BY DEF IInv
<1> DEFINE c == d + 1
<1>2. /\ d \in Devices /\ d \in Int /\ c \in Devices /\ c # d /\ d # Last /\ d < Last
      /\ c # Playfield /\ c # 1 /\ ByEvent # {}
      /\ pc[d] \in AfterLeft \ {"lost", "ending"} /\ ball[d] = "left" /\ ~cancelled[d]
      /\ awaited[c] \in Nat
      /\ ball' = [ball EXCEPT ![d] = "arrived"] /\ awaited' = [awaited EXCEPT ![c] = @ + 1]
      /\ UNCHANGED <<machine, counter, handler, waiting, tracker, pc, queue, cancelled,
                     available_balls, playfield_balls, num_balls_requested, wanted>>
  <2>1. d \in ByEvent /\ d \in Int /\ 1 <= d /\ d < Last /\ d + 1 # 1
    BY BallAssumption, Geometry DEF ExternalConfirm
  <2>2. d + 1 \in Devices /\ d + 1 # d /\ d + 1 # Playfield /\ d # Last
    BY <2>1, Geometry
  <2>3. ball[d] = "left" /\ pc[d] \in AfterLeft \ {"lost", "ending"} /\ ~cancelled[d]
    BY <1>1
         DEF ExternalConfirm, UnderWay, Types, Local, WaitStage, EjectStage, AfterLeft, Stages,
             InEject
  <2>4. awaited[c] \in Nat
    BY <1>1, <2>2 DEF Types
  <2>5. ball' = [ball EXCEPT ![d] = "arrived"] /\ awaited' = [awaited EXCEPT ![c] = @ + 1]
    BY DEF ExternalConfirm
  <2>6. c \in Devices /\ c # d /\ c # Playfield /\ c # 1 /\ c = d + 1
    BY <2>1, <2>2
  <2>7. UNCHANGED <<machine, counter, handler, waiting, tracker, pc, queue, cancelled,
                    available_balls, playfield_balls, num_balls_requested, wanted>>
    BY DEF ExternalConfirm
  <2> HIDE DEF c
  <2> QED BY <2>1, <2>2, <2>3, <2>4, <2>5, <2>6, <2>7
<1>C. c = d + 1
  OBVIOUS
<1> HIDE DEF c
<1>3. Types'
  BY <1>1, <1>2 DEF Types, Stages, InEject
<1>4. ASSUME NEW e \in Devices PROVE Local(e)'
  <2>1. Local(e)
    BY <1>1
  <2> QED BY <1>1, <1>2, <1>3, <2>1, Geometry
       DEF Types, Stages, Local, CountStage, WaitStage, EjectStage, Observed, Limited, Agreed, Left,
           Idle, InEject, AfterLeft
<1>5. ASSUME NEW e \in Devices
      PROVE  /\ Outbound(e)' - Outbound(e) = 0
             /\ Promised(e)' - Promised(e) = (IF e = d THEN -1 ELSE 0)
             /\ Has(e)' - Has(e) = (IF e = c THEN 1 ELSE 0)
             /\ Booked(e)' - Booked(e) = (IF e = c THEN 1 ELSE IF e = d THEN -1 ELSE 0)
  <2>1. Outbound(e)' - Outbound(e) = 0 /\ Promised(e)' - Promised(e) = (IF e = d THEN -1 ELSE 0)
    BY <1>1, <1>2, <1>3, Geometry DEF Types, Promised, Outbound, AfterLeft
  <2>2. /\ Has(e)' - Has(e) = (IF e = c THEN 1 ELSE 0)
        /\ Booked(e)' - Booked(e) = (IF e = c THEN 1 ELSE IF e = d THEN -1 ELSE 0)
    <3>1. /\ awaited'[e] = awaited[e] + (IF e = c THEN 1 ELSE 0) /\ Pending(e)' = Pending(e)
          /\ ball_count'[e] = ball_count[e]
      BY <1>1, <1>2 DEF Types, Pending
    <3>2. Doubled(e)' = Doubled(e) + (IF e = d THEN 1 ELSE 0)
      BY <1>1, <1>2 DEF Types, Doubled, AfterLeft
    <3> QED BY <1>1, <1>2, <1>3, <3>1, <3>2, PlainTypes, PlainTypesNext
  <2> QED BY <2>1, <2>2
<1>6. Balances'
  <2> HIDE DEF UnderWay, machine, counter, handler, waiting, tracker
  <2>1. ASSUME NEW p \in Places
        PROVE  (available_balls'[p] - available_balls[p]) =
                 ((Has(p)' - Has(p)) + (IF p = 1 THEN 0 ELSE Promised(p - 1)' - Promised(p - 1)))
                   - (IF p = Playfield THEN 0 ELSE Outbound(p)' - Outbound(p))
    <3>1. available_balls'[p] - available_balls[p] = 0
      <4>1. available_balls'[p] = available_balls[p] + 0 /\ available_balls[p] \in Int
        BY <1>1, <1>2, <1>3, Geometry
             DEF Types, UnderWay, machine, counter, handler, waiting, tracker
      <4> QED BY <1>2, <4>1
    <3>2. Has(p)' - Has(p) = (IF p = c THEN 1 ELSE 0)
      <4>1. CASE p = Playfield
        <5>1. Has(p) = playfield_balls /\ Has(p)' = playfield_balls' /\ playfield_balls \in Int
          BY <1>1, <4>1 DEF Types, Has
        <5> QED BY <1>2, <4>1, <5>1, Geometry
             DEF UnderWay, machine, counter, handler, waiting, tracker
      <4>2. CASE p # Playfield
        BY <1>2, <1>5, <4>2, Geometry
      <4> QED BY <4>1, <4>2
    <3>3. p # 1 => Promised(p - 1)' - Promised(p - 1) = (IF p - 1 = d THEN -1 ELSE 0)
      BY <1>5, Geometry
    <3>4. p # Playfield => Outbound(p)' - Outbound(p) = 0
      BY <1>5, Geometry
    <3> QED BY <1>2, <3>1, <3>2, <3>3, <3>4, Geometry, <1>C
  <2> QED BY <1>1, <1>3, <2>1, BalancesAgain
<1>7. Conserved'
  <2>1. ASSUME NEW e \in Devices \ {c, d} PROVE Booked(e)' = Booked(e)
    <3>1. Booked(e)' - Booked(e) = 0
      BY <1>2, <1>5
    <3>2. Booked(e) \in Int /\ Booked(e)' \in Int
      BY <1>1, <1>3, PlainTypes, PlainTypesNext
    <3> QED BY <3>1, <3>2
  <2>2. /\ UNCHANGED machine /\ playfield_balls' = playfield_balls
        /\ (Booked(c)' - Booked(c)) + (Booked(d)' - Booked(d)) = 0
    BY <1>2, <1>5
  <2> QED BY <1>1, <1>2, <1>3, <2>1, <2>2, ConservedAlong
<1>8. Sleep'
  BY <1>2 DEF Sleep
<1> QED BY <1>3, <1>4, <1>6, <1>7, <1>8 DEF IInv

\* A ball arrives on the playfield ...
LEMMA ArriveOutsideStep ==
  ASSUME Unusual = {}, IInv, NEW d \in Devices, Arrive(d), d = Last
  PROVE  IInv'
<1> USE DEF machine, counter, handler, waiting, tracker, outgoing, books
<1>1. Types /\ (\A e \in Devices : Local(e)) /\ Balances /\ Conserved /\ Sleep
  BY DEF IInv
<1>2. /\ d = Last /\ flying[d] \in Nat /\ flying[d] > 0 /\ loose \in Nat
      /\ flying' = [flying EXCEPT ![d] = @ - 1] /\ loose' = loose + 1
      /\ UNCHANGED <<inside, mishaps, counter, handler, waiting, tracker, outgoing, books>>
  BY <1>1 DEF Arrive, Types
<1>3. Types'
  BY <1>1, <1>2 DEF Types, Stages, InEject
<1>4. ASSUME NEW e \in Devices PROVE Local(e)'
  <2>1. Local(e)
    BY <1>1
  <2> QED BY <1>1, <1>2, <1>3, <2>1, Geometry
       DEF Types, Stages, Local, CountStage, WaitStage, EjectStage, Observed, Limited, Agreed, Left,
           Idle, InEject, AfterLeft
<1>5. ASSUME NEW e \in Devices
      PROVE  /\ Outbound(e)' = Outbound(e) /\ Promised(e)' = Promised(e)
             /\ Has(e)' = Has(e) /\ Booked(e)' = Booked(e)
  <2>1. Outbound(e)' = Outbound(e) /\ Promised(e)' = Promised(e)
    BY <1>1, <1>2, <1>3, Geometry DEF Types, Promised, Outbound
  <2>2. Has(e)' = Has(e)
    BY <1>1, <1>2, <1>3, Geometry DEF Types, Has, Pending
  <2>3. Booked(e)' = Booked(e)
    BY <1>1, <1>2, <1>3, Geometry DEF Types, Booked, Pending, Doubled
  <2> QED BY <2>1, <2>2, <2>3
<1>6. Balances'
  BY <1>1, <1>2, <1>3, <1>5, BalancesStay
<1>7. Conserved'
  <2>1. /\ \A e \in Devices \ {d} : inside'[e] = inside[e] /\ flying'[e] = flying[e]
        /\ loose' + (inside'[d] + flying'[d]) = loose + (inside[d] + flying[d])
        /\ playfield_balls' = playfield_balls
    <3>1. /\ \A e \in Devices \ {d} : inside'[e] = inside[e] /\ flying'[e] = flying[e]
          /\ loose \in Int /\ inside[d] \in Int /\ flying[d] \in Int
          /\ playfield_balls' = playfield_balls
      BY <1>1, <1>2, <1>3 DEF Types
    <3>2. <<loose', inside'[d], flying'[d]>> = <<loose + 1, inside[d], flying[d] - 1>>
      BY <1>1, <1>2, <1>3, <3>1 DEF Types
    <3> QED BY <3>1, <3>2
  <2> QED BY <1>1, <1>3, <1>5, <2>1, BallMovesOutside
<1>8. Sleep'
  <2>1. SUFFICES ASSUME ByEvent = {}, NEW e \in Devices PROVE Sleeps(e)'
    BY DEF Sleep
  <2>2. Sleeps(e) /\ EjectStage(e) /\ (e # Last => Sleeps(e + 1) /\ Capacity[e + 1] \in Nat)
    BY <1>1, <2>1, Geometry, Capacities DEF Sleep, Local
  <2> QED BY <1>1, <1>2, <1>3, <2>2, Geometry
       DEF Types, Sleeps, HasRoom, Incoming, UnderWay, EjectStage, AfterLeft
<1> QED BY <1>3, <1>4, <1>6, <1>7, <1>8 DEF IInv

\* ... or in the next device.
LEMMA ArriveInsideStep ==
  ASSUME Unusual = {}, IInv, NEW d \in Devices, Arrive(d), d # Last
  PROVE  IInv'
<1> USE DEF handler, waiting, tracker, outgoing, books
<1>1. Types /\ (\A e \in Devices : Local(e)) /\ Balances /\ Conserved /\ Sleep
  BY DEF IInv
<1> DEFINE c == d + 1
<1>2. /\ c \in Devices /\ c # d /\ flying[d] \in Nat /\ flying[d] > 0
      /\ waiter[c] \notin {"noted", "arrivals"}
      /\ flying' = [flying EXCEPT ![d] = @ - 1] /\ inside' = [inside EXCEPT ![c] = @ + 1]
      /\ stable' = [stable EXCEPT ![c] = FALSE]
      /\ UNCHANGED <<loose, mishaps, last_count, handler, waiting, tracker, outgoing, books>>
  BY <1>1, Geometry DEF Arrive, RollIn, Types
<1> HIDE DEF c
<1>3. Types'
  BY <1>1, <1>2 DEF Types, Stages, InEject
<1>4. ASSUME NEW e \in Devices PROVE Local(e)'
  <2>1. Local(e)
    BY <1>1
  <2> QED BY <1>1, <1>2, <1>3, <2>1, Geometry
       DEF Types, Stages, Local, CountStage, WaitStage, EjectStage, Observed, Limited, Agreed, Left,
           Idle, InEject, AfterLeft
<1>5. ASSUME NEW e \in Devices
      PROVE  /\ Outbound(e)' = Outbound(e) /\ Promised(e)' = Promised(e)
             /\ Has(e)' = Has(e) /\ Booked(e)' = Booked(e)
  <2>1. Outbound(e)' = Outbound(e) /\ Promised(e)' = Promised(e)
    BY <1>1, <1>2, <1>3, Geometry DEF Types, Promised, Outbound
  <2>2. Has(e)' = Has(e)
    BY <1>1, <1>2, <1>3, Geometry DEF Types, Has, Pending
  <2>3. Booked(e)' = Booked(e)
    BY <1>1, <1>2, <1>3, Geometry DEF Types, Booked, Pending, Doubled
  <2> QED BY <2>1, <2>2, <2>3
<1>6. Balances'
  BY <1>1, <1>2, <1>3, <1>5, BalancesStay
<1>7. Conserved'
  <2>1. /\ \A e \in Devices \ {d, c} : inside'[e] = inside[e] /\ flying'[e] = flying[e]
        /\ (inside'[d] + flying'[d]) + (inside'[c] + flying'[c])
             = (inside[d] + flying[d]) + (inside[c] + flying[c])
        /\ UNCHANGED <<loose, playfield_balls>>
    <3>1. \A e \in Devices \ {d, c} : inside'[e] = inside[e] /\ flying'[e] = flying[e]
      BY <1>1, <1>2, <1>3 DEF Types
    <3>2. /\ inside'[d] = inside[d] /\ flying'[d] = flying[d] - 1
          /\ inside'[c] = inside[c] + 1 /\ flying'[c] = flying[c]
      BY <1>1, <1>2, <1>3 DEF Types
    <3>3. inside[d] \in Int /\ flying[d] \in Int /\ inside[c] \in Int /\ flying[c] \in Int
      BY <1>1, <1>2 DEF Types
    <3> QED BY <1>2, <3>1, <3>2, <3>3
  <2> QED BY <1>1, <1>2, <1>3, <1>5, <2>1, BallMovesAlong
<1>8. Sleep'
  <2>1. SUFFICES ASSUME ByEvent = {}, NEW e \in Devices PROVE Sleeps(e)'
    BY DEF Sleep
  <2>2. Sleeps(e) /\ EjectStage(e) /\ (e # Last => Sleeps(e + 1) /\ Capacity[e + 1] \in Nat)
    BY <1>1, <2>1, Geometry, Capacities DEF Sleep, Local
  <2> QED BY <1>1, <1>2, <1>3, <2>2, Geometry
       DEF Types, Sleeps, HasRoom, Incoming, UnderWay, EjectStage, AfterLeft
<1> QED BY <1>3, <1>4, <1>6, <1>7, <1>8 DEF IInv

\* A ball enters from the playfield.
LEMMA EnterStep ==
  ASSUME Unusual = {}, IInv, NEW d \in Devices, Enter(d)
  PROVE  IInv'
<1> USE DEF Enter, RollIn, handler, waiting, tracker, outgoing, books
<1>1. Types /\ (\A e \in Devices : Local(e)) /\ Balances /\ Conserved /\ Sleep
  BY DEF IInv
<1>2. loose \in Nat /\ loose > 0 /\ inside[d] \in Nat /\ waiter[d] \notin {"noted", "arrivals"}
  BY <1>1 DEF Types, Local, CountStage, WaitStage, EjectStage, InEject, AfterLeft
<1>3. Types'
  BY <1>1, <1>2 DEF Types, Stages, InEject
<1>4. ASSUME NEW e \in Devices PROVE Local(e)'
  <2>1. Local(e)
    BY <1>1
  <2> QED BY <1>1, <1>2, <1>3, <2>1, Geometry
       DEF Types, Stages, Local, CountStage, WaitStage, EjectStage, Observed, Limited, Agreed, Left,
           Idle, InEject, AfterLeft
<1>5. ASSUME NEW e \in Devices
      PROVE  /\ Outbound(e)' = Outbound(e) /\ Promised(e)' = Promised(e)
             /\ Has(e)' = Has(e) /\ Booked(e)' = Booked(e)
  <2>1. Outbound(e)' = Outbound(e) /\ Promised(e)' = Promised(e)
    BY <1>1, <1>2, <1>3, Geometry DEF Types, Promised, Outbound
  <2>2. Has(e)' = Has(e)
    BY <1>1, <1>2, <1>3, Geometry DEF Types, Has, Pending
  <2>3. Booked(e)' = Booked(e)
    BY <1>1, <1>2, <1>3, Geometry DEF Types, Booked, Pending, Doubled
  <2> QED BY <2>1, <2>2, <2>3
<1>6. Balances'
  BY <1>1, <1>2, <1>3, <1>5, BalancesStay
<1>7. Conserved'
  <2>1. /\ \A e \in Devices \ {d} : inside'[e] = inside[e] /\ flying'[e] = flying[e]
        /\ loose' + (inside'[d] + flying'[d]) = loose + (inside[d] + flying[d])
        /\ playfield_balls' = playfield_balls
    <3>1. /\ \A e \in Devices \ {d} : inside'[e] = inside[e] /\ flying'[e] = flying[e]
          /\ loose \in Int /\ inside[d] \in Int /\ flying[d] \in Int
          /\ playfield_balls' = playfield_balls
      BY <1>1, <1>2, <1>3 DEF Types
    <3>2. <<loose', inside'[d], flying'[d]>> = <<loose - 1, inside[d] + 1, flying[d]>>
      BY <1>1, <1>2, <1>3, <3>1 DEF Types
    <3> QED BY <3>1, <3>2
  <2> QED BY <1>1, <1>3, <1>5, <2>1, BallMovesOutside
<1>8. Sleep'
  <2>1. SUFFICES ASSUME ByEvent = {}, NEW e \in Devices PROVE Sleeps(e)'
    BY DEF Sleep
  <2>2. Sleeps(e) /\ EjectStage(e) /\ (e # Last => Sleeps(e + 1) /\ Capacity[e + 1] \in Nat)
    BY <1>1, <2>1, Geometry, Capacities DEF Sleep, Local
  <2> QED BY <1>1, <1>2, <1>3, <2>2, Geometry
       DEF Types, Sleeps, HasRoom, Incoming, UnderWay, EjectStage, AfterLeft
<1> QED BY <1>3, <1>4, <1>6, <1>7, <1>8 DEF IInv

\* A ball on its way falls back.
LEMMA FallBackStep ==
  ASSUME Unusual = {}, IInv, NEW d \in Devices, FallBack(d)
  PROVE  IInv'
<1> USE DEF handler, waiting, tracker, outgoing, books
<1>1. Types /\ (\A e \in Devices : Local(e)) /\ Balances /\ Conserved /\ Sleep
  BY DEF IInv
<1>2. /\ flying[d] \in Nat /\ flying[d] > 0 /\ waiter[d] \notin {"noted", "arrivals"}
      /\ inside[d] \in Nat
      /\ flying' = [flying EXCEPT ![d] = @ - 1] /\ inside' = [inside EXCEPT ![d] = @ + 1]
      /\ stable' = [stable EXCEPT ![d] = FALSE] /\ mishaps' \in 0..MaxMishaps
      /\ UNCHANGED <<loose, last_count, handler, waiting, tracker, outgoing, books>>
  BY <1>1, BallAssumption DEF FallBack, RollIn, Types
<1>3. Types'
  BY <1>1, <1>2 DEF Types, Stages, InEject
<1>4. ASSUME NEW e \in Devices PROVE Local(e)'
  <2>1. Local(e)
    BY <1>1
  <2> QED BY <1>1, <1>2, <1>3, <2>1, Geometry
       DEF Types, Stages, Local, CountStage, WaitStage, EjectStage, Observed, Limited, Agreed, Left,
           Idle, InEject, AfterLeft
<1>5. ASSUME NEW e \in Devices
      PROVE  /\ Outbound(e)' = Outbound(e) /\ Promised(e)' = Promised(e)
             /\ Has(e)' = Has(e) /\ Booked(e)' = Booked(e)
  <2>1. Outbound(e)' = Outbound(e) /\ Promised(e)' = Promised(e)
    BY <1>1, <1>2, <1>3, Geometry DEF Types, Promised, Outbound
  <2>2. Has(e)' = Has(e)
    BY <1>1, <1>2, <1>3, Geometry DEF Types, Has, Pending
  <2>3. Booked(e)' = Booked(e)
    BY <1>1, <1>2, <1>3, Geometry DEF Types, Booked, Pending, Doubled
  <2> QED BY <2>1, <2>2, <2>3
<1>6. Balances'
  BY <1>1, <1>2, <1>3, <1>5, BalancesStay
<1>7. Conserved'
  <2>1. /\ \A e \in Devices \ {d} : inside'[e] = inside[e] /\ flying'[e] = flying[e]
        /\ loose' + (inside'[d] + flying'[d]) = loose + (inside[d] + flying[d])
        /\ playfield_balls' = playfield_balls
    <3>1. /\ \A e \in Devices \ {d} : inside'[e] = inside[e] /\ flying'[e] = flying[e]
          /\ loose \in Int /\ inside[d] \in Int /\ flying[d] \in Int
          /\ playfield_balls' = playfield_balls
      BY <1>1, <1>2, <1>3 DEF Types
    <3>2. <<loose', inside'[d], flying'[d]>> = <<loose, inside[d] + 1, flying[d] - 1>>
      BY <1>1, <1>2, <1>3, <3>1 DEF Types
    <3> QED BY <3>1, <3>2
  <2> QED BY <1>1, <1>3, <1>5, <2>1, BallMovesOutside
<1>8. Sleep'
  <2>1. SUFFICES ASSUME ByEvent = {}, NEW e \in Devices PROVE Sleeps(e)'
    BY DEF Sleep
  <2>2. Sleeps(e) /\ EjectStage(e) /\ (e # Last => Sleeps(e + 1) /\ Capacity[e + 1] \in Nat)
    BY <1>1, <2>1, Geometry, Capacities DEF Sleep, Local
  <2> QED BY <1>1, <1>2, <1>3, <2>2, Geometry
       DEF Types, Sleeps, HasRoom, Incoming, UnderWay, EjectStage, AfterLeft
<1> QED BY <1>3, <1>4, <1>6, <1>7, <1>8 DEF IInv

\* A ball on its way ends up on the playfield.
LEMMA GoAstrayStep ==
  ASSUME Unusual = {}, IInv, NEW d \in Devices, GoAstray(d)
  PROVE  IInv'
<1> USE DEF machine, counter, handler, waiting, tracker, outgoing, books
<1>1. Types /\ (\A e \in Devices : Local(e)) /\ Balances /\ Conserved /\ Sleep
  BY DEF IInv
<1>2. /\ flying[d] \in Nat /\ flying[d] > 0 /\ loose \in Nat
      /\ flying' = [flying EXCEPT ![d] = @ - 1] /\ loose' = loose + 1 /\ mishaps' \in 0..MaxMishaps
      /\ UNCHANGED <<inside, counter, handler, waiting, tracker, outgoing, books>>
  <2>1. flying[d] \in Nat /\ flying[d] > 0 /\ loose \in Nat
    BY <1>1 DEF GoAstray, Types
  <2>2. mishaps' \in 0..MaxMishaps
    <3>1. mishaps \in 0..MaxMishaps /\ MaxMishaps \in Nat
      BY <1>1, BallAssumption DEF Types
    <3>2. mishaps' = mishaps \/ (mishaps < MaxMishaps /\ mishaps' = mishaps + 1)
      BY DEF GoAstray, machine
    <3> QED BY <3>1, <3>2
  <2> QED BY <2>1, <2>2 DEF GoAstray
<1>3. Types'
  BY <1>1, <1>2 DEF Types, Stages, InEject
<1>4. ASSUME NEW e \in Devices PROVE Local(e)'
  <2>1. Local(e)
    BY <1>1
  <2> QED BY <1>1, <1>2, <1>3, <2>1, Geometry
       DEF Types, Stages, Local, CountStage, WaitStage, EjectStage, Observed, Limited, Agreed, Left,
           Idle, InEject, AfterLeft
<1>5. ASSUME NEW e \in Devices
      PROVE  /\ Outbound(e)' = Outbound(e) /\ Promised(e)' = Promised(e)
             /\ Has(e)' = Has(e) /\ Booked(e)' = Booked(e)
  <2>1. Outbound(e)' = Outbound(e) /\ Promised(e)' = Promised(e)
    BY <1>1, <1>2, <1>3, Geometry DEF Types, Promised, Outbound
  <2>2. Has(e)' = Has(e)
    BY <1>1, <1>2, <1>3, Geometry DEF Types, Has, Pending
  <2>3. Booked(e)' = Booked(e)
    BY <1>1, <1>2, <1>3, Geometry DEF Types, Booked, Pending, Doubled
  <2> QED BY <2>1, <2>2, <2>3
<1>6. Balances'
  BY <1>1, <1>2, <1>3, <1>5, BalancesStay
<1>7. Conserved'
  <2>1. /\ \A e \in Devices \ {d} : inside'[e] = inside[e] /\ flying'[e] = flying[e]
        /\ loose' + (inside'[d] + flying'[d]) = loose + (inside[d] + flying[d])
        /\ playfield_balls' = playfield_balls
    <3>1. /\ \A e \in Devices \ {d} : inside'[e] = inside[e] /\ flying'[e] = flying[e]
          /\ loose \in Int /\ inside[d] \in Int /\ flying[d] \in Int
          /\ playfield_balls' = playfield_balls
      BY <1>1, <1>2, <1>3 DEF Types
    <3>2. <<loose', inside'[d], flying'[d]>> = <<loose + 1, inside[d], flying[d] - 1>>
      BY <1>1, <1>2, <1>3, <3>1 DEF Types
    <3> QED BY <3>1, <3>2
  <2> QED BY <1>1, <1>3, <1>5, <2>1, BallMovesOutside
<1>8. Sleep'
  <2>1. SUFFICES ASSUME ByEvent = {}, NEW e \in Devices PROVE Sleeps(e)'
    BY DEF Sleep
  <2>2. Sleeps(e) /\ EjectStage(e) /\ (e # Last => Sleeps(e + 1) /\ Capacity[e + 1] \in Nat)
    BY <1>1, <2>1, Geometry, Capacities DEF Sleep, Local
  <2> QED BY <1>1, <1>2, <1>3, <2>2, Geometry
       DEF Types, Sleeps, HasRoom, Incoming, UnderWay, EjectStage, AfterLeft
<1> QED BY <1>3, <1>4, <1>6, <1>7, <1>8 DEF IInv

\* A ball leaves a device unasked.
LEMMA VanishStep ==
  ASSUME Unusual = {}, IInv, NEW d \in Devices, Vanish(d)
  PROVE  IInv'
<1> USE DEF handler, waiting, tracker, outgoing, books
<1>1. Types /\ (\A e \in Devices : Local(e)) /\ Balances /\ Conserved /\ Sleep
  BY DEF IInv
<1>2. /\ inside[d] \in Nat /\ inside[d] > 0 /\ loose \in Nat /\ pc[d] # "ejecting" /\ d = 1
      /\ (waiter[d] = "waiting" => last_count[d] = 0 /\ ball_count[d] = 0)
      /\ loose' = loose + 1 /\ inside' = [inside EXCEPT ![d] = @ - 1]
      /\ stable' = [stable EXCEPT ![d] = FALSE] /\ mishaps' \in 0..MaxMishaps
      /\ UNCHANGED <<flying, last_count, handler, waiting, tracker, outgoing, books>>
  <2>1. /\ last_count[d] \in Nat /\ ball_count[d] \in Nat
        /\ (waiter[d] = "waiting" => ball_count[d] <= last_count[d])
    BY <1>1 DEF Types, Local, WaitStage
  <2>2. d = 1
    BY Geometry DEF Vanish
  <2>3. waiter[d] = "waiting" => last_count[d] = 0
    BY <2>1 DEF Vanish
  <2> QED BY <1>1, <2>1, <2>2, <2>3, BallAssumption DEF Vanish, Types
<1>3. Types'
  BY <1>1, <1>2 DEF Types, Stages, InEject
<1>4. ASSUME NEW e \in Devices PROVE Local(e)'
  <2>1. Local(e)
    BY <1>1
  <2> QED BY <1>1, <1>2, <1>3, <2>1, Geometry
       DEF Types, Stages, Local, CountStage, WaitStage, EjectStage, Observed, Limited, Agreed, Left,
           Idle, InEject, AfterLeft
<1>5. ASSUME NEW e \in Devices
      PROVE  /\ Outbound(e)' = Outbound(e) /\ Promised(e)' = Promised(e)
             /\ Has(e)' = Has(e) /\ Booked(e)' = Booked(e)
  <2>1. Outbound(e)' = Outbound(e) /\ Promised(e)' = Promised(e)
    BY <1>1, <1>2, <1>3, Geometry DEF Types, Promised, Outbound
  <2>2. Has(e)' = Has(e)
    BY <1>1, <1>2, <1>3, Geometry DEF Types, Has, Pending
  <2>3. Booked(e)' = Booked(e)
    BY <1>1, <1>2, <1>3, Geometry DEF Types, Booked, Pending, Doubled
  <2> QED BY <2>1, <2>2, <2>3
<1>6. Balances'
  BY <1>1, <1>2, <1>3, <1>5, BalancesStay
<1>7. Conserved'
  <2>1. /\ \A e \in Devices \ {d} : inside'[e] = inside[e] /\ flying'[e] = flying[e]
        /\ loose' + (inside'[d] + flying'[d]) = loose + (inside[d] + flying[d])
        /\ playfield_balls' = playfield_balls
    <3>1. /\ \A e \in Devices \ {d} : inside'[e] = inside[e] /\ flying'[e] = flying[e]
          /\ loose \in Int /\ inside[d] \in Int /\ flying[d] \in Int
          /\ playfield_balls' = playfield_balls
      BY <1>1, <1>2, <1>3 DEF Types
    <3>2. <<loose', inside'[d], flying'[d]>> = <<loose + 1, inside[d] - 1, flying[d]>>
      BY <1>1, <1>2, <1>3, <3>1 DEF Types
    <3> QED BY <3>1, <3>2
  <2> QED BY <1>1, <1>3, <1>5, <2>1, BallMovesOutside
<1>8. Sleep'
  <2>1. SUFFICES ASSUME ByEvent = {}, NEW e \in Devices PROVE Sleeps(e)'
    BY DEF Sleep
  <2>2. Sleeps(e) /\ EjectStage(e) /\ (e # Last => Sleeps(e + 1) /\ Capacity[e + 1] \in Nat)
    BY <1>1, <2>1, Geometry, Capacities DEF Sleep, Local
  <2> QED BY <1>1, <1>2, <1>3, <2>2, Geometry
       DEF Types, Sleeps, HasRoom, Incoming, UnderWay, EjectStage, AfterLeft
<1> QED BY <1>3, <1>4, <1>6, <1>7, <1>8 DEF IInv

\* _setup_or_queue_eject_to_target() as a step of its own.
LEMMA SetupStep ==
  ASSUME Unusual = {}, IInv, NEW s \in Devices, NEW p \in Places, SetupOrQueue(s, p,
         available_balls),
         UNCHANGED <<machine, counter, handler, waiting, tracker, pc, cancelled, ball,
                     awaited, playfield_balls, num_balls_requested>>
  PROVE  IInv'
<1> USE DEF machine, counter, handler, waiting, tracker
<1>1. Types /\ (\A e \in Devices : Local(e)) /\ Balances /\ Conserved /\ Sleep
  BY DEF IInv
<1>2. Rebooks(available_balls) /\ available_balls \in [Places -> Int]
  <2>1. Types /\ available_balls \in [Places -> Int]
    BY <1>1 DEF Types
  <2> QED BY <2>1, SetupRebooks
<1>3. Types' /\ (\A e \in Devices : Idle(e)' => Idle(e))
  <2>1. /\ queue' \in [Devices -> Nat] /\ wanted' \in [Places -> Nat]
        /\ available_balls' \in [Places -> Int]
    BY <1>2 DEF Rebooks
  <2>2. \A e \in Devices : queue[e] <= queue'[e] /\ queue[e] \in Nat /\ queue'[e] \in Nat
    BY <1>1, <1>2 DEF Rebooks, Types
  <2>3. \A e \in Devices : Idle(e)' => Idle(e)
    BY <2>2 DEF Idle
  <2> QED BY <1>1, <2>1, <2>3 DEF Types
<1>4. ASSUME NEW e \in Devices PROVE Local(e)'
  <2>1. Local(e)
    BY <1>1
  <2> QED BY <1>1, <1>2, <1>3, <2>1, Geometry
       DEF Types, Stages, Local, CountStage, WaitStage, EjectStage, Observed, Limited, Agreed, Left,
           Idle, InEject, AfterLeft
<1>6. Balances'
  <2> DEFINE Before(q) == (Has(q) + (IF q = 1 THEN 0 ELSE queue[q - 1] + Comes(q - 1)))
                            - (IF q = Playfield THEN 0 ELSE queue[q] + Owes(q))
             After(q) == (Has(q)' + (IF q = 1 THEN 0 ELSE queue[q - 1] + Comes(q - 1)'))
                            - (IF q = Playfield THEN 0 ELSE queue[q] + Owes(q)')
  <2>1. \A q \in Places : available_balls[q] = Before(q)
    BY <1>1 DEF Balances, Promised, Comes, Outbound, Owes
  <2>2. \A q \in Places : After(q) = Before(q)
    BY DEF Has, Pending, Comes, Owes
  <2>3. \A q \in Places : available_balls[q] = After(q)
    <3> HIDE DEF After, Before
    <3> QED BY <2>1, <2>2
  <2> QED BY <1>1, <1>2, <1>3, <2>3, Rebalanced
<1>7. Conserved'
  <2>1. \A e \in Devices : Booked(e)' = Booked(e)
    BY DEF Booked, Pending, Doubled
  <2> QED BY <1>1, <1>3, <2>1, TotalsStay
<1>8. Sleep'
  <2>1. SUFFICES ASSUME ByEvent = {}, NEW e \in Devices PROVE Sleeps(e)'
    BY DEF Sleep
  <2>2. Sleeps(e) /\ EjectStage(e) /\ (e # Last => Sleeps(e + 1) /\ Capacity[e + 1] \in Nat)
    BY <1>1, <2>1, Geometry, Capacities DEF Sleep, Local
  <2> QED BY <1>1, <1>2, <1>3, <2>2, Geometry
       DEF Types, Sleeps, HasRoom, Incoming, UnderWay, EjectStage, AfterLeft
<1> QED BY <1>3, <1>4, <1>6, <1>7, <1>8 DEF IInv

\* The pass handles one of the new balls ...
LEMMA CountArrivalStep ==
  ASSUME Unusual = {}, IInv, NEW d \in Devices, CountArrival(d)
  PROVE  IInv'
<1> USE DEF machine, counter, waiting, tracker
<1>1. Types /\ (\A e \in Devices : Local(e)) /\ Balances /\ Conserved /\ Sleep
  BY DEF IInv
<1>2. /\ awaited' \in [Devices -> Nat]
      /\ ball' \in [Devices -> {"none", "left", "arrived", "lost"}]
      /\ queue' \in [Devices -> Nat]
      /\ available_balls' \in [Places -> Int]
      /\ playfield_balls' \in Int
      /\ wanted' \in [Places -> Nat]
      /\ \A e \in Devices : awaited'[e] <= awaited[e] /\ Confirms(e) /\ (Idle(e)' => Idle(e))
      /\ counting[d] = "arrivals" /\ arrivals[d] \in Nat /\ arrivals[d] > 0
      /\ arrivals' = [arrivals EXCEPT ![d] = @ - 1] /\ ReceiveBall(d)
      /\ \/ /\ arrivals[d] = 1
            /\ counting' = [counting EXCEPT ![d] = "free"]
            /\ count_valid' = [count_valid EXCEPT ![d] = TRUE]
         \/ arrivals[d] > 1 /\ UNCHANGED <<counting, count_valid>>
      /\ UNCHANGED <<machine, counter, ball_count, recount, waiting, tracker, pc, cancelled,
                     num_balls_requested>>
  <2>1. Types /\ ReceiveBall(d) /\ pc' = pc
    BY <1>1 DEF CountArrival
  <2>2. /\ awaited' \in [Devices -> Nat]
      /\ ball' \in [Devices -> {"none", "left", "arrived", "lost"}]
      /\ queue' \in [Devices -> Nat]
      /\ available_balls' \in [Places -> Int]
      /\ playfield_balls' \in Int
      /\ wanted' \in [Places -> Nat]
      /\ \A e \in Devices :
             awaited'[e] <= awaited[e] /\ Confirms(e) /\ (Idle(e)' => pc'[e] = "idle" /\ queue[e] = 0)
    BY <2>1, ReceivedTypes
  <2>3. \A e \in Devices : Idle(e)' => Idle(e)
    BY <2>1, <2>2 DEF Idle
  <2>4. counting[d] = "arrivals" /\ arrivals[d] \in Nat /\ arrivals[d] > 0
    BY <1>1 DEF CountArrival, Types, Local, CountStage
  <2>5. /\ arrivals' = [arrivals EXCEPT ![d] = @ - 1]
        /\ \/ /\ arrivals[d] = 1
              /\ counting' = [counting EXCEPT ![d] = "free"]
              /\ count_valid' = [count_valid EXCEPT ![d] = TRUE]
           \/ arrivals[d] # 1 /\ UNCHANGED <<counting, count_valid>>
        /\ UNCHANGED <<machine, counter, ball_count, recount, waiting, tracker, pc, cancelled,
                       num_balls_requested>>
    BY DEF CountArrival
  <2>6. arrivals[d] # 1 => arrivals[d] > 1
    BY <2>4
  <2> HIDE DEF Idle, Confirms
  <2> QED BY <2>1, <2>2, <2>3, <2>4, <2>5, <2>6
<1>3. Types'
  <2>1. /\ arrivals' \in [Devices -> Nat]
        /\ counting' \in [Devices -> {"free", "eject", "count", "arrivals", "missing"}]
        /\ count_valid' \in [Devices -> BOOLEAN]
    <3>1. /\ arrivals \in [Devices -> Nat] /\ arrivals[d] - 1 \in Nat
          /\ arrivals' = [arrivals EXCEPT ![d] = @ - 1]
      BY <1>1, <1>2 DEF Types
    <3>2. counting' \in [Devices -> {"free", "eject", "count", "arrivals", "missing"}]
      BY <1>1, <1>2 DEF Types
    <3>3. count_valid' \in [Devices -> BOOLEAN]
      BY <1>1, <1>2 DEF Types
    <3> QED BY <3>1, <3>2, <3>3
  <2> QED BY <1>1, <1>2, <2>1 DEF Types
<1>4. ASSUME NEW e \in Devices PROVE Local(e)'
  <2>1. Local(e)
    BY <1>1
  <2>2. CountStage(e)'
    BY <1>1, <1>2, <1>3, <2>1, Geometry
         DEF Types, Stages, Local, CountStage, InEject, Confirms, Idle
  <2>3. WaitStage(e)'
    BY <1>1, <1>2, <1>3, <2>1, Geometry
         DEF Types, Stages, Local, WaitStage, Observed, Left, Confirms, Idle
  <2>4. EjectStage(e)'
    BY <1>1, <1>2, <1>3, <2>1, Geometry
         DEF Types, Stages, Local, EjectStage, AfterLeft, InEject, Confirms, Idle
  <2>5. Observed(e)'
    BY <1>1, <1>2, <1>3, <2>1, Geometry
         DEF Types, Stages, Local, Observed, Left, AfterLeft, InEject, Confirms, Idle
  <2>6. Limited(e)'
    BY <1>1, <1>2, <1>3, <2>1, Geometry DEF Types, Stages, Local, Limited, Confirms, Idle
  <2>7. Agreed(e)'
    BY <1>1, <1>2, <1>3, <2>1, Geometry DEF Types, Stages, Local, Agreed, Idle, Confirms, Idle
  <2> QED BY <2>2, <2>3, <2>4, <2>5, <2>6, <2>7 DEF Local
<1>5. Handled(d)
  <2>1. UNCHANGED <<machine, ball_count, cancelled>>
    BY <1>2
  <2>2. \A e \in Devices : \/ pc'[e] = pc[e]
                           \/ pc[e] = "target_full" /\ pc'[e] = "waiting_for_target_ready"
    BY <1>2
  <2>3. ASSUME NEW e \in Devices PROVE Pending(e)' = Pending(e) - (IF e = d THEN 1 ELSE 0)
    BY <1>1, <1>2, <1>3 DEF Types, Pending
  <2> QED BY <2>1, <2>2, <2>3 DEF Handled
<1>6. Balances' /\ Conserved'
  <2>1. \A e \in Devices : WaitStage(e) /\ EjectStage(e)
    BY <1>1 DEF Local
  <2>2. ReceiveBall(d)
    BY <1>2
  <2> QED BY <1>1, <1>3, <1>5, <2>1, <2>2, ReceivedBooks
<1>7. Conserved'
  BY <1>6
<1>8. Sleep'
  <2>1. SUFFICES ASSUME ByEvent = {}, NEW e \in Devices PROVE Sleeps(e)'
    BY DEF Sleep
  <2>2. /\ Sleeps(e) /\ EjectStage(e)
        /\ (e # Last => e + 1 \in Devices /\ Sleeps(e + 1) /\ Capacity[e + 1] \in Nat)
    BY <1>1, <2>1, Geometry, Capacities DEF Sleep, Local
  <2>3. awaited'[e] = 0
    BY <1>1, <1>2, <2>2 DEF Types, Sleeps
  <2>4. ASSUME pc'[e] = "target_full" PROVE ~HasRoom(e + 1)'
    <3>1. pc[e] = "target_full" /\ e # Last /\ ball[e] = "none" /\ ball'[e] = "none"
      BY <1>1, <1>2, <2>2, <2>4 DEF Types, EjectStage, AfterLeft, Confirms, SetBallCount, Woken
    <3>2. awaited[e + 1] = 0 /\ awaited'[e + 1] = 0 /\ ball_count'[e + 1] = ball_count[e + 1]
      BY <1>1, <1>2, <2>2, <3>1 DEF Types, Sleeps
    <3>3. (e + 1) - 1 = e
      BY Geometry
    <3>4. Incoming(e + 1) = 0 /\ Incoming(e + 1)' = 0
      BY <3>1, <3>2, <3>3 DEF Incoming, UnderWay
    <3> QED BY <2>2, <3>1, <3>2, <3>4 DEF HasRoom, Sleeps
  <2> QED BY <2>3, <2>4 DEF Sleeps
<1> QED BY <1>3, <1>4, <1>6, <1>7, <1>8 DEF IInv

\* ... and so does wait_for_ball().
LEMMA WaiterArrivalStep ==
  ASSUME Unusual = {}, IInv, NEW d \in Devices, WaiterArrival(d)
  PROVE  IInv'
<1> USE DEF machine, counter, tracker
<1>1. Types /\ (\A e \in Devices : Local(e)) /\ Balances /\ Conserved /\ Sleep
  BY DEF IInv
<1>2. /\ awaited' \in [Devices -> Nat]
      /\ ball' \in [Devices -> {"none", "left", "arrived", "lost"}]
      /\ queue' \in [Devices -> Nat]
      /\ available_balls' \in [Places -> Int]
      /\ playfield_balls' \in Int
      /\ wanted' \in [Places -> Nat]
      /\ \A e \in Devices : awaited'[e] <= awaited[e] /\ Confirms(e) /\ (Idle(e)' => Idle(e))
      /\ waiter[d] = "arrivals" /\ waiter_arrivals[d] \in Nat /\ waiter_arrivals[d] > 0
      /\ ball_count[d] = noted[d] /\ ball_count[d] > 0 /\ ~cancelled[d]
      /\ pc[d] = "waiting_for_ball"
      /\ waiter_arrivals' = [waiter_arrivals EXCEPT ![d] = @ - 1] /\ ReceiveBall(d)
      /\ \/ /\ waiter_arrivals[d] = 1
            /\ waiter' = [waiter EXCEPT ![d] = "done"]
         \/ waiter_arrivals[d] > 1 /\ UNCHANGED <<waiter>>
      /\ \A e \in Devices : \/ pc'[e] = pc[e]
                            \/ pc[e] = "target_full" /\ pc'[e] = "waiting_for_target_ready"
      /\ pc' \in [Devices -> Stages]
      /\ UNCHANGED <<machine, counter, ball_count, noted, counting, recount, count_valid, arrivals,
                     tracker, cancelled, num_balls_requested>>
  <2>1. Types /\ ReceiveBall(d)
    BY <1>1 DEF WaiterArrival
  <2>2. /\ awaited' \in [Devices -> Nat]
      /\ ball' \in [Devices -> {"none", "left", "arrived", "lost"}]
      /\ queue' \in [Devices -> Nat]
      /\ available_balls' \in [Places -> Int]
      /\ playfield_balls' \in Int
      /\ wanted' \in [Places -> Nat]
      /\ \A e \in Devices :
             awaited'[e] <= awaited[e] /\ Confirms(e) /\ (Idle(e)' => pc'[e] = "idle" /\ queue[e] = 0)
    BY <2>1, ReceivedTypes
  <2>4. /\ waiter[d] = "arrivals" /\ waiter_arrivals[d] \in Nat /\ waiter_arrivals[d] > 0
        /\ ball_count[d] = noted[d] /\ ball_count[d] > 0 /\ ~cancelled[d]
        /\ pc[d] = "waiting_for_ball"
    BY <1>1 DEF WaiterArrival, Types, Local, WaitStage
  <2>5. /\ waiter_arrivals' = [waiter_arrivals EXCEPT ![d] = @ - 1]
        /\ \/ waiter_arrivals[d] = 1 /\ waiter' = [waiter EXCEPT ![d] = "done"]
           \/ waiter_arrivals[d] # 1 /\ UNCHANGED <<waiter>>
        /\ UNCHANGED <<machine, counter, noted, counting, recount, count_valid, arrivals, tracker,
                       cancelled, num_balls_requested>>
    BY DEF WaiterArrival
  <2>6. waiter_arrivals[d] # 1 => waiter_arrivals[d] > 1
    BY <2>4
  <2>7. \/ ball_count' = ball_count /\ pc' = pc
        \/ ball_count' = [ball_count EXCEPT ![d] = noted[d]] /\ pc' = Woken(d, pc)
    BY DEF WaiterArrival, SetBallCount
  <2>8. ball_count' = ball_count
    BY <2>1, <2>4, <2>7 DEF Types
  <2>9. /\ pc' \in [Devices -> Stages]
        /\ \A e \in Devices : \/ pc'[e] = pc[e]
                              \/ pc[e] = "target_full" /\ pc'[e] = "waiting_for_target_ready"
    BY <2>1, <2>7 DEF Types, Woken, Stages
  <2>3. \A e \in Devices : Idle(e)' => Idle(e)
    BY <2>1, <2>2, <2>9 DEF Idle
  <2> HIDE DEF Idle, Confirms
  <2> QED BY <2>1, <2>2, <2>3, <2>4, <2>5, <2>6, <2>8, <2>9
<1>3. Types'
  <2>1. /\ waiter_arrivals' \in [Devices -> Nat]
        /\ waiter' \in [Devices -> {"off", "waiting", "noted", "arrivals", "done"}]
    BY <1>1, <1>2 DEF Types
  <2> QED BY <1>1, <1>2, <2>1 DEF Types
<1>4. ASSUME NEW e \in Devices PROVE Local(e)'
  <2>1. Local(e)
    BY <1>1
  <2>2. CountStage(e)'
    BY <1>1, <1>2, <1>3, <2>1, Geometry
         DEF Types, Stages, Local, CountStage, InEject, Confirms, Idle
  <2>3. WaitStage(e)'
    BY <1>1, <1>2, <1>3, <2>1, Geometry
         DEF Types, Stages, Local, WaitStage, Observed, Left, Confirms, Idle
  <2>4. EjectStage(e)'
    BY <1>1, <1>2, <1>3, <2>1, Geometry
         DEF Types, Stages, Local, EjectStage, AfterLeft, InEject, Confirms, Idle
  <2>5. Observed(e)'
    BY <1>1, <1>2, <1>3, <2>1, Geometry
         DEF Types, Stages, Local, Observed, Left, AfterLeft, InEject, Confirms, Idle
  <2>6. Limited(e)'
    BY <1>1, <1>2, <1>3, <2>1, Geometry DEF Types, Stages, Local, Limited, Confirms, Idle
  <2>7. Agreed(e)'
    BY <1>1, <1>2, <1>3, <2>1, Geometry DEF Types, Stages, Local, Agreed, Idle, Confirms, Idle
  <2> QED BY <2>2, <2>3, <2>4, <2>5, <2>6, <2>7 DEF Local
<1>5. Handled(d)
  <2>1. UNCHANGED <<machine, ball_count, cancelled>>
    BY <1>2
  <2>2. \A e \in Devices : \/ pc'[e] = pc[e]
                           \/ pc[e] = "target_full" /\ pc'[e] = "waiting_for_target_ready"
    BY <1>2
  <2>3. ASSUME NEW e \in Devices PROVE Pending(e)' = Pending(e) - (IF e = d THEN 1 ELSE 0)
    <3>1. /\ waiter_arrivals'[e] = waiter_arrivals[e] - (IF e = d THEN 1 ELSE 0)
          /\ waiter_arrivals[e] \in Nat /\ arrivals[e] \in Nat
      BY <1>1, <1>2 DEF Types
    <3>2. counting' = counting /\ arrivals' = arrivals
      BY <1>2
    <3> QED BY <3>1, <3>2 DEF Pending
  <2> QED BY <2>1, <2>2, <2>3 DEF Handled
<1>6. Balances' /\ Conserved'
  <2>1. \A e \in Devices : WaitStage(e) /\ EjectStage(e)
    BY <1>1 DEF Local
  <2>2. ReceiveBall(d)
    BY <1>2
  <2> QED BY <1>1, <1>3, <1>5, <2>1, <2>2, ReceivedBooks
<1>7. Conserved'
  BY <1>6
<1>8. Sleep'
  <2>1. SUFFICES ASSUME ByEvent = {}, NEW e \in Devices PROVE Sleeps(e)'
    BY DEF Sleep
  <2>2. /\ Sleeps(e) /\ EjectStage(e)
        /\ (e # Last => e + 1 \in Devices /\ Sleeps(e + 1) /\ Capacity[e + 1] \in Nat)
    BY <1>1, <2>1, Geometry, Capacities DEF Sleep, Local
  <2>3. awaited'[e] = 0
    BY <1>1, <1>2, <2>2 DEF Types, Sleeps
  <2>4. ASSUME pc'[e] = "target_full" PROVE ~HasRoom(e + 1)'
    <3>1. pc[e] = "target_full" /\ e # Last /\ ball[e] = "none" /\ ball'[e] = "none"
      BY <1>1, <1>2, <2>2, <2>4 DEF Types, EjectStage, AfterLeft, Confirms, SetBallCount, Woken
    <3>2. awaited[e + 1] = 0 /\ awaited'[e + 1] = 0 /\ ball_count'[e + 1] = ball_count[e + 1]
      BY <1>1, <1>2, <2>2, <3>1 DEF Types, Sleeps
    <3>3. (e + 1) - 1 = e
      BY Geometry
    <3>4. Incoming(e + 1) = 0 /\ Incoming(e + 1)' = 0
      BY <3>1, <3>2, <3>3 DEF Incoming, UnderWay
    <3> QED BY <2>2, <3>1, <3>2, <3>4 DEF HasRoom, Sleeps
  <2> QED BY <2>3, <2>4 DEF Sleeps
<1> QED BY <1>3, <1>4, <1>6, <1>7, <1>8 DEF IInv

\* A ball of an eject is lost and the ejects after it are cancelled ...
LEMMA LostEjectedCancelledStep ==
  ASSUME Unusual = {}, IInv, NEW d \in Devices, LostEjectedBall(d), Cancellable(d + 1)
  PROVE  IInv'
<1> USE DEF machine, counter, handler, waiting, tracker
<1>1. Types /\ (\A e \in Devices : Local(e)) /\ Balances /\ Conserved /\ Sleep
  BY DEF IInv
<1>2. /\ d \in Int /\ pc[d] = "lost" /\ ball[d] = "lost" /\ ~cancelled[d]
      /\ pc' = [pc EXCEPT ![d] = "ending"]
      /\ \A e \in Devices : e > d => /\ pc[e] = "waiting_for_ball" /\ ~cancelled[e]
                                     /\ waiter[e] # "arrivals" /\ ball[e] = "none" /\ e > 1
      /\ cancelled' \in [Devices -> BOOLEAN]
      /\ \A e \in Devices : cancelled'[e] <=> (cancelled[e] \/ e > d)
      /\ playfield_balls \in Int /\ playfield_balls' = playfield_balls + 1
      /\ UNCHANGED <<available_balls, queue, wanted>>
      /\ UNCHANGED <<machine, counter, handler, waiting, tracker, ball, awaited,
                     num_balls_requested>>
  <2>1. /\ d \in Int /\ pc[d] = "lost" /\ ball[d] = "lost" /\ ~cancelled[d]
        /\ pc' = [pc EXCEPT ![d] = "ending"]
    BY <1>1, Geometry DEF LostEjectedBall, Goto, Local, WaitStage, EjectStage
  <2>2. /\ \A e \in (d + 1)..Last : waiter[e] # "arrivals"
        /\ cancelled' = [e \in Devices |-> cancelled[e] \/ e >= d + 1]
        /\ UNCHANGED <<available_balls, queue, wanted>>
        /\ playfield_balls' = playfield_balls + 1
    BY DEF LostEjectedBall, LostOnTheWay
  <2>3. ASSUME NEW e \in Devices, e > d
        PROVE  /\ pc[e] = "waiting_for_ball" /\ ~cancelled[e]
               /\ waiter[e] # "arrivals" /\ ball[e] = "none" /\ e > 1
    <3>1. e \in (d + 1)..Last /\ e > 1
      BY <2>1, <2>3, Geometry, BallAssumption
    <3>2. pc[e] = "waiting_for_ball" /\ ~cancelled[e]
      BY <3>1 DEF Cancellable
    <3> QED BY <1>1, <2>2, <3>1, <3>2 DEF Local, EjectStage, AfterLeft
  <2>4. ASSUME NEW e \in Devices PROVE cancelled'[e] = (cancelled[e] \/ e > d)
    <3>1. e \in Int
      BY Geometry
    <3>2. e >= d + 1 <=> e > d
      BY <2>1, <3>1
    <3> QED BY <2>2, <3>2
  <2>5. cancelled' \in [Devices -> BOOLEAN]
    BY <2>2
  <2>6. playfield_balls \in Int
    BY <1>1 DEF Types
  <2>7. UNCHANGED <<machine, counter, handler, waiting, tracker, ball, awaited,
                    num_balls_requested>>
    BY DEF LostEjectedBall
  <2> QED BY <2>1, <2>2, <2>3, <2>4, <2>5, <2>6, <2>7
<1>3. Types'
  BY <1>1, <1>2 DEF Types, Stages, InEject
<1>4. ASSUME NEW e \in Devices PROVE Local(e)'
  <2>1. Local(e)
    BY <1>1
  <2>2. CountStage(e)'
    BY <1>1, <1>2, <1>3, <2>1, Geometry DEF Types, Stages, Local, CountStage, InEject, Idle
  <2>3. WaitStage(e)'
    BY <1>1, <1>2, <1>3, <2>1, Geometry DEF Types, Stages, Local, WaitStage, Observed, Left, Idle
  <2>4. EjectStage(e)'
    BY <1>1, <1>2, <1>3, <2>1, Geometry
         DEF Types, Stages, Local, EjectStage, AfterLeft, InEject, Idle
  <2>5. Observed(e)'
    BY <1>1, <1>2, <1>3, <2>1, Geometry
         DEF Types, Stages, Local, Observed, Left, AfterLeft, InEject, Idle
  <2>6. Limited(e)'
    BY <1>1, <1>2, <1>3, <2>1, Geometry DEF Types, Stages, Local, Limited, Idle
  <2>7. Agreed(e)'
    BY <1>1, <1>2, <1>3, <2>1, Geometry DEF Types, Stages, Local, Agreed, Idle, Idle
  <2> QED BY <2>2, <2>3, <2>4, <2>5, <2>6, <2>7 DEF Local
<1>5. ASSUME NEW e \in Devices
      PROVE  /\ Promised(e)' - Promised(e) = (IF e < d THEN 0 ELSE -1)
             /\ Outbound(e)' - Outbound(e) = (IF e > d THEN -1 ELSE 0)
  <2>1. queue'[e] = queue[e] /\ queue[e] \in Nat /\ e \in Int
    BY <1>1, <1>2, Geometry DEF Types
  <2>2. Owes(e)' - Owes(e) = (IF e > d THEN -1 ELSE 0)
    <3>1. CASE e > d
      BY <1>2, <3>1 DEF Owes
    <3>2. CASE ~ (e > d)
      BY <1>1, <1>2, <3>2 DEF Types, Owes
    <3> QED BY <3>1, <3>2
  <2>3. Comes(e)' - Comes(e) = (IF e < d THEN 0 ELSE -1)
    <3>1. CASE e > d
      BY <1>2, <2>1, <3>1 DEF Comes
    <3>2. CASE e = d
      BY <1>1, <1>2, <3>2 DEF Types, Comes
    <3>3. CASE e < d
      BY <1>1, <1>2, <3>3 DEF Types, Comes
    <3> QED BY <1>2, <2>1, <3>1, <3>2, <3>3
  <2>4. /\ Promised(e) = queue[e] + Comes(e) /\ Promised(e)' = queue'[e] + Comes(e)'
        /\ Outbound(e) = queue[e] + Owes(e) /\ Outbound(e)' = queue'[e] + Owes(e)'
        /\ Comes(e) \in Int /\ Comes(e)' \in Int /\ Owes(e) \in Int /\ Owes(e)' \in Int
    BY <1>1, <1>3, PlainTypes, PlainTypesNext
  <2> QED BY <2>1, <2>2, <2>3, <2>4
<1>6. Balances'
  <2>1. ASSUME NEW p \in Places
        PROVE  (available_balls'[p] - available_balls[p]) =
                 ((Has(p)' - Has(p)) + (IF p = 1 THEN 0 ELSE Promised(p - 1)' - Promised(p - 1)))
                   - (IF p = Playfield THEN 0 ELSE Outbound(p)' - Outbound(p))
    <3>0. p \in Int /\ d >= 1 /\ d <= Last /\ Last \in Int /\ p >= 1
      BY <1>2, Geometry, BallAssumption DEF Places
    <3>1. available_balls'[p] - available_balls[p] = 0
      BY <1>1, <1>2 DEF Types
    <3>2. Has(p)' - Has(p) = (IF p = Playfield THEN 1 ELSE 0)
      <4>1. CASE p = Playfield
        BY <1>2, <4>1 DEF Has
      <4>2. CASE p # Playfield
        BY <1>1, <1>2, <4>2, Geometry DEF Types, Has, Pending
      <4> QED BY <4>1, <4>2
    <3>3. p # 1 => Promised(p - 1)' - Promised(p - 1) = (IF p - 1 < d THEN 0 ELSE -1)
      BY <1>5, Geometry
    <3>4. p # Playfield => Outbound(p)' - Outbound(p) = (IF p > d THEN -1 ELSE 0)
      BY <1>5, Geometry
    <3>5. CASE p = 1
      BY <3>0, <3>1, <3>2, <3>4, <3>5, Geometry
    <3>6. CASE p = Playfield
      BY <3>0, <3>1, <3>2, <3>3, <3>6, Geometry
    <3>7. CASE p # 1 /\ p # Playfield
      BY <1>2, <3>0, <3>1, <3>2, <3>3, <3>4, <3>7, Geometry
    <3> QED BY <3>5, <3>6, <3>7
  <2> QED BY <1>1, <1>3, <2>1, BalancesAgain
<1>7. Conserved'
  <2>1. \A e \in Devices \ {d} : Booked(e)' = Booked(e)
    BY <1>1, <1>2 DEF Types, Booked, Pending, Doubled
  <2>2. Booked(d)' - Booked(d) = -1
    <3>1. Doubled(d) = 0 /\ Doubled(d)' = 1
      BY <1>1, <1>2 DEF Types, Doubled
    <3>2. Pending(d)' = Pending(d) /\ ball_count'[d] = ball_count[d] /\ awaited'[d] = awaited[d]
      BY <1>2 DEF Pending
    <3> QED BY <1>1, <1>3, <3>1, <3>2, PlainTypes, PlainTypesNext
  <2>3. UNCHANGED machine /\ (playfield_balls' - playfield_balls) + (Booked(d)' - Booked(d)) = 0
    BY <1>2, <2>2
  <2> QED BY <1>1, <1>3, <2>1, <2>3, ConservedAgain
<1>8. Sleep'
  <2>1. SUFFICES ASSUME ByEvent = {}, NEW e \in Devices PROVE Sleeps(e)'
    BY DEF Sleep
  <2>2. Sleeps(e) /\ EjectStage(e) /\ (e # Last => Sleeps(e + 1) /\ Capacity[e + 1] \in Nat)
    BY <1>1, <2>1, Geometry, Capacities DEF Sleep, Local
  <2> QED BY <1>1, <1>2, <1>3, <2>2, Geometry
       DEF Types, Sleeps, HasRoom, Incoming, UnderWay, EjectStage, AfterLeft
<1> QED BY <1>3, <1>4, <1>6, <1>7, <1>8 DEF IInv

\* ... or another one is ordered in its place.
LEMMA LostEjectedAgainStep ==
  ASSUME Unusual = {}, IInv, NEW d \in Devices, LostEjectedBall(d), ~Cancellable(d + 1)
  PROVE  IInv'
<1> USE DEF machine, counter, handler, waiting, tracker
<1>1. Types /\ (\A e \in Devices : Local(e)) /\ Balances /\ Conserved /\ Sleep
  BY DEF IInv
<1> DEFINE t == d + 1
           avail == [available_balls EXCEPT ![t] = @ - 1, ![Playfield] = @ + 1]
<1>2. /\ d \in Int /\ pc[d] = "lost" /\ ball[d] = "lost" /\ ~cancelled[d]
      /\ pc' = [pc EXCEPT ![d] = "ending"]
      /\ playfield_balls \in Int /\ playfield_balls' = playfield_balls + 1
      /\ t \in Devices /\ t # d /\ t # Playfield /\ (\A p \in Places : p = t <=> p - 1 = d)
      /\ UNCHANGED cancelled
      /\ UNCHANGED <<machine, counter, handler, waiting, tracker, ball, awaited,
                     num_balls_requested>>
  <2>1. /\ d \in Int /\ pc[d] = "lost" /\ ball[d] = "lost" /\ ~cancelled[d]
        /\ pc' = [pc EXCEPT ![d] = "ending"]
    BY <1>1, Geometry DEF LostEjectedBall, Goto, Local, WaitStage, EjectStage
  <2>2. d # Last
    BY <2>1, BallAssumption DEF Cancellable
  <2>3. t \in Devices /\ t # d /\ t # Playfield /\ (\A p \in Places : p = t <=> p - 1 = d)
    BY <2>1, <2>2, Geometry
  <2>4. /\ UNCHANGED cancelled
        /\ UNCHANGED <<machine, counter, handler, waiting, tracker, ball, awaited,
                       num_balls_requested>>
        /\ playfield_balls' = playfield_balls + 1
    BY DEF LostEjectedBall, LostOnTheWay
  <2>5. playfield_balls \in Int
    BY <1>1 DEF Types
  <2> QED BY <2>1, <2>3, <2>4, <2>5
<1>R. Rebooks(avail) /\ avail \in [Places -> Int]
  <2>1. SetupOrQueue(d, t, avail)
    BY DEF LostEjectedBall, LostOnTheWay
  <2>2. avail \in [Places -> Int] /\ Types /\ t \in Places
    BY <1>1, <1>2, Geometry DEF Types
  <2> HIDE DEF avail, t
  <2> QED BY <2>1, <2>2, SetupRebooks
<1>V. \A q \in Places : avail[q] =
        available_balls[q] + (IF q = t THEN -1 ELSE IF q = Playfield THEN 1 ELSE 0)
  <2>1. t \in Places /\ t # Playfield /\ Playfield \in Places /\ available_balls \in [Places -> Int]
    BY <1>1, <1>2, Geometry DEF Types
  <2> HIDE DEF t
  <2> QED BY <2>1
<1> HIDE DEF t, avail
<1>3. Types' /\ (\A e \in Devices : Idle(e)' => Idle(e))
  <2>1. /\ queue' \in [Devices -> Nat] /\ wanted' \in [Places -> Nat]
        /\ available_balls' \in [Places -> Int]
    BY <1>R DEF Rebooks
  <2>2. \A e \in Devices : queue[e] <= queue'[e] /\ queue[e] \in Nat /\ queue'[e] \in Nat
    BY <1>1, <1>R DEF Rebooks, Types
  <2>3. \A e \in Devices : Idle(e)' => Idle(e)
    BY <1>1, <1>2, <2>2 DEF Idle, Types
  <2>4. pc' \in [Devices -> Stages] /\ playfield_balls' \in Int
    BY <1>1, <1>2 DEF Types, Stages, InEject
  <2> QED BY <1>1, <1>2, <2>1, <2>3, <2>4 DEF Types
<1>4. ASSUME NEW e \in Devices PROVE Local(e)'
  <2>1. Local(e)
    BY <1>1
  <2>2. CountStage(e)'
    BY <1>1, <1>2, <1>3, <2>1, Geometry DEF Types, Stages, Local, CountStage, InEject, Idle
  <2>3. WaitStage(e)'
    BY <1>1, <1>2, <1>3, <2>1, Geometry DEF Types, Stages, Local, WaitStage, Observed, Left, Idle
  <2>4. EjectStage(e)'
    BY <1>1, <1>2, <1>3, <2>1, Geometry
         DEF Types, Stages, Local, EjectStage, AfterLeft, InEject, Idle
  <2>5. Observed(e)'
    BY <1>1, <1>2, <1>3, <2>1, Geometry
         DEF Types, Stages, Local, Observed, Left, AfterLeft, InEject, Idle
  <2>6. Limited(e)'
    BY <1>1, <1>2, <1>3, <2>1, Geometry DEF Types, Stages, Local, Limited, Idle
  <2>7. Agreed(e)'
    BY <1>1, <1>2, <1>3, <2>1, Geometry DEF Types, Stages, Local, Agreed, Idle, Idle
  <2> QED BY <2>2, <2>3, <2>4, <2>5, <2>6, <2>7 DEF Local
<1>5. ASSUME NEW e \in Devices
      PROVE  Comes(e)' - Comes(e) = (IF e = d THEN -1 ELSE 0) /\ Owes(e)' = Owes(e)
  <2>1. CASE e = d
    BY <1>1, <1>2, <2>1 DEF Types, Comes, Owes
  <2>2. CASE e # d
    BY <1>1, <1>2, <2>2 DEF Types, Comes, Owes
  <2> QED BY <2>1, <2>2
<1>6. Balances'
  <2>1. ASSUME NEW q \in Places
        PROVE  avail[q] = (Has(q)' + (IF q = 1 THEN 0 ELSE queue[q - 1] + Comes(q - 1)'))
                            - (IF q = Playfield THEN 0 ELSE queue[q] + Owes(q)')
    <3>1. available_balls[q] = (Has(q) + (IF q = 1 THEN 0 ELSE Promised(q - 1)))
                               - (IF q = Playfield THEN 0 ELSE Outbound(q))
      BY <1>1 DEF Balances
    <3>2. Has(q)' = Has(q) + (IF q = Playfield THEN 1 ELSE 0) /\ Has(q) \in Int
      <4>1. CASE q = Playfield
        BY <1>2, <4>1 DEF Has
      <4>2. CASE q # Playfield
        BY <1>1, <1>2, <4>2, Geometry DEF Types, Has, Pending
      <4> QED BY <4>1, <4>2
    <3>3. q # 1 => /\ Promised(q - 1) = queue[q - 1] + Comes(q - 1) /\ queue[q - 1] \in Int
                   /\ Comes(q - 1)' - Comes(q - 1) = (IF q = t THEN -1 ELSE 0)
                   /\ Comes(q - 1) \in Int /\ Comes(q - 1)' \in Int
      BY <1>1, <1>2, <1>3, <1>5, Geometry, PlainTypes, PlainTypesNext
    <3>4. q # Playfield => Outbound(q) = queue[q] + Owes(q)' /\ Outbound(q) \in Int
      BY <1>1, <1>5, Geometry, PlainTypes
    <3>5. /\ avail[q] = available_balls[q] + (IF q = t THEN -1 ELSE IF q = Playfield THEN 1 ELSE 0)
          /\ available_balls[q] \in Int
      BY <1>1, <1>V DEF Types
    <3>6. t # 1 /\ t # Playfield
      BY <1>2, Geometry
    <3>7. CASE q = 1
      BY <3>1, <3>2, <3>4, <3>5, <3>6, <3>7, Geometry
    <3>8. CASE q = Playfield
      BY <3>1, <3>2, <3>3, <3>5, <3>6, <3>8, Geometry
    <3>9. CASE q # 1 /\ q # Playfield
      BY <3>1, <3>2, <3>3, <3>4, <3>5, <3>9
    <3> QED BY <3>7, <3>8, <3>9
  <2> QED BY <1>1, <1>3, <1>R, <2>1, Rebalanced
<1>7. Conserved'
  <2>1. \A e \in Devices \ {d} : Booked(e)' = Booked(e)
    BY <1>1, <1>2 DEF Types, Booked, Pending, Doubled
  <2>2. Booked(d)' - Booked(d) = -1
    <3>1. Doubled(d) = 0 /\ Doubled(d)' = 1
      BY <1>1, <1>2 DEF Types, Doubled
    <3>2. Pending(d)' = Pending(d) /\ ball_count'[d] = ball_count[d] /\ awaited'[d] = awaited[d]
      BY <1>2 DEF Pending
    <3> QED BY <1>1, <1>3, <3>1, <3>2, PlainTypes, PlainTypesNext
  <2>3. UNCHANGED machine /\ (playfield_balls' - playfield_balls) + (Booked(d)' - Booked(d)) = 0
    BY <1>2, <2>2
  <2> QED BY <1>1, <1>3, <2>1, <2>3, ConservedAgain
<1>8. Sleep'
  <2>1. SUFFICES ASSUME ByEvent = {}, NEW e \in Devices PROVE Sleeps(e)'
    BY DEF Sleep
  <2>2. Sleeps(e) /\ EjectStage(e) /\ (e # Last => Sleeps(e + 1) /\ Capacity[e + 1] \in Nat)
    BY <1>1, <2>1, Geometry, Capacities DEF Sleep, Local
  <2> QED BY <1>1, <1>2, <1>3, <2>2, Geometry
       DEF Types, Sleeps, HasRoom, Incoming, UnderWay, EjectStage, AfterLeft
<1> QED BY <1>3, <1>4, <1>6, <1>7, <1>8 DEF IInv

\* An awaited ball times out: the same two ways.
LEMMA LostIncomingCancelledStep ==
  ASSUME Unusual = {}, IInv, NEW t \in Devices, LostIncomingBall(t), Cancellable(t)
  PROVE  IInv'
<1> USE DEF machine, counter, handler, waiting, tracker
<1>1. Types /\ (\A e \in Devices : Local(e)) /\ Balances /\ Conserved /\ Sleep
  BY DEF IInv
<1>2. /\ t \in Int /\ awaited[t] \in Nat /\ awaited[t] > 0 /\ t # 1 /\ t # Playfield
      /\ awaited' = [awaited EXCEPT ![t] = @ - 1]
      /\ \A e \in Devices : e >= t => /\ pc[e] = "waiting_for_ball" /\ ~cancelled[e]
                                      /\ waiter[e] # "arrivals" /\ ball[e] = "none" /\ e > 1
      /\ cancelled' \in [Devices -> BOOLEAN]
      /\ \A e \in Devices : cancelled'[e] <=> (cancelled[e] \/ e >= t)
      /\ playfield_balls \in Int /\ playfield_balls' = playfield_balls + 1
      /\ UNCHANGED <<available_balls, queue, wanted>>
      /\ UNCHANGED <<machine, counter, handler, waiting, tracker, pc, ball, num_balls_requested>>
  <2>1. /\ t \in Int /\ awaited[t] \in Nat /\ awaited[t] > 0 /\ t # 1 /\ t # Playfield
        /\ awaited' = [awaited EXCEPT ![t] = @ - 1]
    BY <1>1, Geometry DEF LostIncomingBall, Types, Local, Limited
  <2>2. /\ \A e \in t..Last : waiter[e] # "arrivals"
        /\ cancelled' = [e \in Devices |-> cancelled[e] \/ e >= t]
        /\ UNCHANGED <<available_balls, queue, wanted>>
        /\ playfield_balls' = playfield_balls + 1
    BY DEF LostIncomingBall, LostOnTheWay
  <2>3. ASSUME NEW e \in Devices, e >= t
        PROVE  /\ pc[e] = "waiting_for_ball" /\ ~cancelled[e]
               /\ waiter[e] # "arrivals" /\ ball[e] = "none" /\ e > 1
    <3>1. e \in t..Last /\ e > 1
      BY <2>1, <2>3, Geometry, BallAssumption
    <3>2. pc[e] = "waiting_for_ball" /\ ~cancelled[e]
      BY <3>1 DEF Cancellable
    <3> QED BY <1>1, <2>2, <3>1, <3>2 DEF Local, EjectStage, AfterLeft
  <2>4. \A e \in Devices : cancelled'[e] = (cancelled[e] \/ e >= t)
    BY <2>2
  <2>5. cancelled' \in [Devices -> BOOLEAN]
    BY <2>2
  <2>6. playfield_balls \in Int
    BY <1>1 DEF Types
  <2>7. UNCHANGED <<machine, counter, handler, waiting, tracker, pc, ball, num_balls_requested>>
    BY DEF LostIncomingBall
  <2> QED BY <2>1, <2>2, <2>3, <2>4, <2>5, <2>6, <2>7
<1>3. Types'
  BY <1>1, <1>2 DEF Types, Stages, InEject
<1>4. ASSUME NEW e \in Devices PROVE Local(e)'
  <2>1. Local(e)
    BY <1>1
  <2>2. CountStage(e)'
    BY <1>1, <1>2, <1>3, <2>1, Geometry DEF Types, Stages, Local, CountStage, InEject, Idle
  <2>3. WaitStage(e)'
    BY <1>1, <1>2, <1>3, <2>1, Geometry DEF Types, Stages, Local, WaitStage, Observed, Left, Idle
  <2>4. EjectStage(e)'
    BY <1>1, <1>2, <1>3, <2>1, Geometry
         DEF Types, Stages, Local, EjectStage, AfterLeft, InEject, Idle
  <2>5. Observed(e)'
    BY <1>1, <1>2, <1>3, <2>1, Geometry
         DEF Types, Stages, Local, Observed, Left, AfterLeft, InEject, Idle
  <2>6. Limited(e)'
    BY <1>1, <1>2, <1>3, <2>1, Geometry DEF Types, Stages, Local, Limited, Idle
  <2>7. Agreed(e)'
    BY <1>1, <1>2, <1>3, <2>1, Geometry DEF Types, Stages, Local, Agreed, Idle, Idle
  <2> QED BY <2>2, <2>3, <2>4, <2>5, <2>6, <2>7 DEF Local
<1>5. ASSUME NEW e \in Devices
      PROVE  /\ Promised(e)' - Promised(e) = (IF e >= t THEN -1 ELSE 0)
             /\ Outbound(e)' - Outbound(e) = (IF e >= t THEN -1 ELSE 0)
  <2>1. queue'[e] = queue[e] /\ queue[e] \in Nat /\ e \in Int
    BY <1>1, <1>2, Geometry DEF Types
  <2>2. Owes(e)' - Owes(e) = (IF e >= t THEN -1 ELSE 0)
    <3>1. CASE e >= t
      BY <1>2, <3>1 DEF Owes
    <3>2. CASE ~ (e >= t)
      BY <1>1, <1>2, <3>2 DEF Types, Owes
    <3> QED BY <3>1, <3>2
  <2>3. Comes(e)' - Comes(e) = (IF e >= t THEN -1 ELSE 0)
    <3>1. CASE e >= t
      BY <1>2, <2>1, <3>1 DEF Comes
    <3>2. CASE ~ (e >= t)
      BY <1>1, <1>2, <3>2 DEF Types, Comes
    <3> QED BY <3>1, <3>2
  <2>4. /\ Promised(e) = queue[e] + Comes(e) /\ Promised(e)' = queue'[e] + Comes(e)'
        /\ Outbound(e) = queue[e] + Owes(e) /\ Outbound(e)' = queue'[e] + Owes(e)'
        /\ Comes(e) \in Int /\ Comes(e)' \in Int /\ Owes(e) \in Int /\ Owes(e)' \in Int
    BY <1>1, <1>3, PlainTypes, PlainTypesNext
  <2> QED BY <2>1, <2>2, <2>3, <2>4
<1>6. Balances'
  <2>1. ASSUME NEW p \in Places
        PROVE  (available_balls'[p] - available_balls[p]) =
                 ((Has(p)' - Has(p)) + (IF p = 1 THEN 0 ELSE Promised(p - 1)' - Promised(p - 1)))
                   - (IF p = Playfield THEN 0 ELSE Outbound(p)' - Outbound(p))
    <3>0. p \in Int /\ t > 1 /\ t <= Last /\ Last \in Int /\ p >= 1
      BY <1>2, Geometry, BallAssumption DEF Places
    <3>1. available_balls'[p] - available_balls[p] = 0
      BY <1>1, <1>2 DEF Types
    <3>2. Has(p)' - Has(p) = (IF p = Playfield THEN 1 ELSE IF p = t THEN -1 ELSE 0)
      <4>1. CASE p = Playfield
        BY <1>2, <4>1, Geometry DEF Has
      <4>2. CASE p # Playfield
        <5>1. Pending(p)' = Pending(p) /\ ball_count'[p] = ball_count[p]
          BY <1>2 DEF Pending
        <5>2. awaited'[p] = awaited[p] - (IF p = t THEN 1 ELSE 0) /\ p \in Devices
          BY <1>1, <1>2, <4>2, Geometry DEF Types
        <5> QED BY <1>1, <1>3, <4>2, <5>1, <5>2, PlainTypes, PlainTypesNext
      <4> QED BY <4>1, <4>2
    <3>3. p # 1 => Promised(p - 1)' - Promised(p - 1) = (IF p - 1 >= t THEN -1 ELSE 0)
      BY <1>5, Geometry
    <3>4. p # Playfield => Outbound(p)' - Outbound(p) = (IF p >= t THEN -1 ELSE 0)
      BY <1>5, Geometry
    <3>5. CASE p = 1
      BY <3>0, <3>1, <3>2, <3>4, <3>5, Geometry
    <3>6. CASE p = Playfield
      BY <3>0, <3>1, <3>2, <3>3, <3>6, Geometry
    <3>7. CASE p # 1 /\ p # Playfield
      BY <1>2, <3>0, <3>1, <3>2, <3>3, <3>4, <3>7, Geometry
    <3> QED BY <3>5, <3>6, <3>7
  <2> QED BY <1>1, <1>3, <2>1, BalancesAgain
<1>7. Conserved'
  <2>1. \A e \in Devices \ {t} : Booked(e)' = Booked(e)
    BY <1>1, <1>2 DEF Types, Booked, Pending, Doubled
  <2>2. Booked(t)' - Booked(t) = -1
    <3>1. Doubled(t)' = Doubled(t) /\ Pending(t)' = Pending(t) /\ ball_count'[t] = ball_count[t]
      BY <1>2 DEF Pending, Doubled
    <3>2. awaited'[t] = awaited[t] - 1
      BY <1>1, <1>2 DEF Types
    <3> QED BY <1>1, <1>3, <3>1, <3>2, PlainTypes, PlainTypesNext
  <2>3. UNCHANGED machine /\ (playfield_balls' - playfield_balls) + (Booked(t)' - Booked(t)) = 0
    BY <1>2, <2>2
  <2> QED BY <1>1, <1>3, <2>1, <2>3, ConservedAgain
<1>8. Sleep'
  <2>1. SUFFICES ASSUME ByEvent = {} PROVE FALSE
    BY DEF Sleep
  <2>2. awaited[t] = 0
    BY <1>1, <2>1 DEF Sleep, Sleeps
  <2> QED BY <1>2, <2>2
<1> QED BY <1>3, <1>4, <1>6, <1>7, <1>8 DEF IInv

\* The second one: the target orders another ball.
LEMMA LostIncomingAgainStep ==
  ASSUME Unusual = {}, IInv, NEW t \in Devices, LostIncomingBall(t), ~Cancellable(t)
  PROVE  IInv'
<1> USE DEF machine, counter, handler, waiting, tracker
<1>1. Types /\ (\A e \in Devices : Local(e)) /\ Balances /\ Conserved /\ Sleep
  BY DEF IInv
<1> DEFINE avail == [available_balls EXCEPT ![t] = @ - 1, ![Playfield] = @ + 1]
<1>2. /\ t \in Int /\ awaited[t] \in Nat /\ awaited[t] > 0 /\ t # 1 /\ t # Playfield
      /\ awaited' = [awaited EXCEPT ![t] = @ - 1]
      /\ playfield_balls \in Int /\ playfield_balls' = playfield_balls + 1
      /\ UNCHANGED cancelled
      /\ UNCHANGED <<machine, counter, handler, waiting, tracker, pc, ball, num_balls_requested>>
  <2>1. /\ t \in Int /\ awaited[t] \in Nat /\ awaited[t] > 0 /\ t # 1 /\ t # Playfield
        /\ awaited' = [awaited EXCEPT ![t] = @ - 1]
    BY <1>1, Geometry DEF LostIncomingBall, Types, Local, Limited
  <2>4. /\ UNCHANGED cancelled
        /\ UNCHANGED <<machine, counter, handler, waiting, tracker, pc, ball, num_balls_requested>>
        /\ playfield_balls' = playfield_balls + 1
    BY DEF LostIncomingBall, LostOnTheWay
  <2>5. playfield_balls \in Int
    BY <1>1 DEF Types
  <2> QED BY <2>1, <2>4, <2>5
<1>R. Rebooks(avail) /\ avail \in [Places -> Int]
  <2>1. SetupOrQueue(t, t, avail)
    BY DEF LostIncomingBall, LostOnTheWay
  <2>2. avail \in [Places -> Int] /\ Types /\ t \in Places
    BY <1>1, <1>2, Geometry DEF Types
  <2> HIDE DEF avail
  <2> QED BY <2>1, <2>2, SetupRebooks
<1>V. \A q \in Places : avail[q] =
        available_balls[q] + (IF q = t THEN -1 ELSE IF q = Playfield THEN 1 ELSE 0)
  <2>1. t \in Places /\ t # Playfield /\ Playfield \in Places /\ available_balls \in [Places -> Int]
    BY <1>1, <1>2, Geometry DEF Types
  <2> QED BY <2>1
<1> HIDE DEF avail
<1>3. Types' /\ (\A e \in Devices : Idle(e)' => Idle(e))
  <2>1. /\ queue' \in [Devices -> Nat] /\ wanted' \in [Places -> Nat]
        /\ available_balls' \in [Places -> Int]
    BY <1>R DEF Rebooks
  <2>2. \A e \in Devices : queue[e] <= queue'[e] /\ queue[e] \in Nat /\ queue'[e] \in Nat
    BY <1>1, <1>R DEF Rebooks, Types
  <2>3. \A e \in Devices : Idle(e)' => Idle(e)
    BY <1>2, <2>2 DEF Idle
  <2>4. awaited' \in [Devices -> Nat] /\ playfield_balls' \in Int
    <3>1. awaited[t] - 1 \in Nat /\ awaited \in [Devices -> Nat]
      BY <1>1, <1>2 DEF Types
    <3> QED BY <1>2, <3>1
  <2> QED BY <1>1, <1>2, <2>1, <2>3, <2>4 DEF Types
<1>4. ASSUME NEW e \in Devices PROVE Local(e)'
  <2>1. Local(e)
    BY <1>1
  <2>2. CountStage(e)'
    BY <1>1, <1>2, <1>3, <2>1, Geometry DEF Types, Stages, Local, CountStage, InEject, Idle
  <2>3. WaitStage(e)'
    BY <1>1, <1>2, <1>3, <2>1, Geometry DEF Types, Stages, Local, WaitStage, Observed, Left, Idle
  <2>4. EjectStage(e)'
    BY <1>1, <1>2, <1>3, <2>1, Geometry
         DEF Types, Stages, Local, EjectStage, AfterLeft, InEject, Idle
  <2>5. Observed(e)'
    BY <1>1, <1>2, <1>3, <2>1, Geometry
         DEF Types, Stages, Local, Observed, Left, AfterLeft, InEject, Idle
  <2>6. Limited(e)'
    BY <1>1, <1>2, <1>3, <2>1, Geometry DEF Types, Stages, Local, Limited, Idle
  <2>7. Agreed(e)'
    BY <1>1, <1>2, <1>3, <2>1, Geometry DEF Types, Stages, Local, Agreed, Idle, Idle
  <2> QED BY <2>2, <2>3, <2>4, <2>5, <2>6, <2>7 DEF Local
<1>5. \A e \in Devices : Comes(e)' = Comes(e) /\ Owes(e)' = Owes(e)
  BY <1>2 DEF Comes, Owes
<1>6. Balances'
  <2>1. ASSUME NEW p \in Places
        PROVE  avail[p] = (Has(p)' + (IF p = 1 THEN 0 ELSE queue[p - 1] + Comes(p - 1)'))
                            - (IF p = Playfield THEN 0 ELSE queue[p] + Owes(p)')
    <3>1. available_balls[p] = (Has(p) + (IF p = 1 THEN 0 ELSE Promised(p - 1)))
                               - (IF p = Playfield THEN 0 ELSE Outbound(p))
      BY <1>1 DEF Balances
    <3>2. Has(p)' - Has(p) = (IF p = Playfield THEN 1 ELSE IF p = t THEN -1 ELSE 0)
      <4>1. CASE p = Playfield
        BY <1>2, <4>1, Geometry DEF Has
      <4>2. CASE p # Playfield
        <5>1. Pending(p)' = Pending(p) /\ ball_count'[p] = ball_count[p]
          BY <1>2 DEF Pending
        <5>2. awaited'[p] = awaited[p] - (IF p = t THEN 1 ELSE 0) /\ p \in Devices
          BY <1>1, <1>2, <4>2, Geometry DEF Types
        <5> QED BY <1>1, <1>3, <4>2, <5>1, <5>2, PlainTypes, PlainTypesNext
      <4> QED BY <4>1, <4>2
    <3>A. Has(p) \in Int /\ Has(p)' \in Int
      <4>1. CASE p = Playfield
        BY <1>2, <4>1 DEF Has
      <4>2. CASE p # Playfield
        BY <1>1, <1>3, <4>2, Geometry DEF Types, Has, Pending
      <4> QED BY <4>1, <4>2
    <3>3. p # 1 => Promised(p - 1) = queue[p - 1] + Comes(p - 1)' /\ Promised(p - 1) \in Int
      BY <1>1, <1>5, Geometry, PlainTypes
    <3>4. p # Playfield => Outbound(p) = queue[p] + Owes(p)' /\ Outbound(p) \in Int
      BY <1>1, <1>5, Geometry, PlainTypes
    <3>5. /\ avail[p] = available_balls[p] + (IF p = t THEN -1 ELSE IF p = Playfield THEN 1 ELSE 0)
          /\ available_balls[p] \in Int
      BY <1>1, <1>V DEF Types
    <3>6. t # 1 /\ t # Playfield
      BY <1>2, Geometry
    <3>7. CASE p = 1
      BY <3>1, <3>2, <3>A, <3>4, <3>5, <3>6, <3>7, Geometry
    <3>8. CASE p = Playfield
      BY <3>1, <3>2, <3>A, <3>3, <3>5, <3>6, <3>8, Geometry
    <3>9. CASE p # 1 /\ p # Playfield
      BY <3>1, <3>2, <3>A, <3>3, <3>4, <3>5, <3>9
    <3> QED BY <3>7, <3>8, <3>9
  <2> QED BY <1>1, <1>3, <1>R, <2>1, Rebalanced
<1>7. Conserved'
  <2>1. \A e \in Devices \ {t} : Booked(e)' = Booked(e)
    BY <1>1, <1>2 DEF Types, Booked, Pending, Doubled
  <2>2. Booked(t)' - Booked(t) = -1
    <3>1. Doubled(t)' = Doubled(t) /\ Pending(t)' = Pending(t) /\ ball_count'[t] = ball_count[t]
      BY <1>2 DEF Pending, Doubled
    <3>2. awaited'[t] = awaited[t] - 1
      BY <1>1, <1>2 DEF Types
    <3> QED BY <1>1, <1>3, <3>1, <3>2, PlainTypes, PlainTypesNext
  <2>3. UNCHANGED machine /\ (playfield_balls' - playfield_balls) + (Booked(t)' - Booked(t)) = 0
    BY <1>2, <2>2
  <2> QED BY <1>1, <1>3, <2>1, <2>3, ConservedAgain
<1>8. Sleep'
  <2>1. SUFFICES ASSUME ByEvent = {} PROVE FALSE
    BY DEF Sleep
  <2>2. awaited[t] = 0
    BY <1>1, <2>1 DEF Sleep, Sleeps
  <2> QED BY <1>2, <2>2
<1> QED BY <1>3, <1>4, <1>6, <1>7, <1>8 DEF IInv

\* All requests are _setup_or_queue_eject_to_target().
LEMMA RequestSteps ==
  ASSUME Unusual = {}, IInv
  PROVE  /\ AddBall => IInv'
         /\ \A d \in Devices : RequestBall(d) \/ EjectKept(d) => IInv'
<1>1. ASSUME AddBall PROVE IInv'
  BY <1>1, SetupStep, Geometry DEF AddBall
<1>2. ASSUME NEW d \in Devices, RequestBall(d) PROVE IInv'
  BY <1>2, SetupStep, Geometry DEF RequestBall
<1>3. ASSUME NEW d \in Devices, EjectKept(d) PROVE IInv'
  BY <1>3, SetupStep, Geometry DEF EjectKept
<1> QED BY <1>1, <1>2, <1>3

-------------------------------------------------------------------------------
(* The theorems.                                                            *)

\* Initially all balls are in the trough, and booked there.
LEMMA InitIInv == Init => IInv
<1> SUFFICES ASSUME Init PROVE IInv
  OBVIOUS
<1>1. Types
  <2>1. MaxMishaps \in Nat /\ Balls \in Nat
    BY BallAssumption
  <2> QED BY <2>1, Geometry DEF Init, Types, Stages
<1>2. ASSUME NEW d \in Devices PROVE Local(d)
  <2>1. Balls \in Nat
    BY Geometry
  <2> QED BY <2>1
       DEF Init, Local, CountStage, WaitStage, EjectStage, Observed, Limited, Agreed, Idle,
                      InEject, AfterLeft, Left
<1>3. Balances
  <2> SUFFICES ASSUME NEW p \in Places
               PROVE  available_balls[p] = (Has(p) + (IF p = 1 THEN 0 ELSE Promised(p - 1)))
                                           - (IF p = Playfield THEN 0 ELSE Outbound(p))
    BY DEF Balances
  <2>1. Has(p) = (IF p = 1 THEN Balls ELSE 0)
    BY Geometry DEF Init, Has, Pending
  <2>2. p # 1 => Promised(p - 1) = 0
    BY Geometry DEF Init, Promised
  <2>3. p # Playfield => Outbound(p) = 0
    BY Geometry DEF Init, Outbound
  <2> QED BY <2>1, <2>2, <2>3, Geometry DEF Init
<1>4. Conserved
  <2> DEFINE Zero == [d \in Devices |-> 0]
             Start == [d \in Devices |-> IF d = 1 THEN Balls ELSE 0]
  <2>1. SumFunction(Zero) = 0
    BY FinitelyManyDevices, SumOfZeros
  <2>2. SumFunction(Start) = SumFunction(Zero) + (Start[1] - Zero[1])
    <3>1. Zero \in [Devices -> Int] /\ Start \in [Devices -> Int] /\ 1 \in Devices
          /\ \A y \in Devices \ {1} : Start[y] = Zero[y]
      BY Geometry
    <3> HIDE DEF Zero, Start
    <3> QED BY <3>1, FinitelyManyDevices, SumChanges
  <2>3. SumFunction(Start) = Balls
    <3>1. Start[1] = Balls /\ Zero[1] = 0 /\ Balls \in Nat
      BY Geometry
    <3> HIDE DEF Zero, Start
    <3> QED BY <2>1, <2>2, <3>1
  <2>4. Known = Start
    BY Geometry DEF Init, Known, Booked, Pending, Doubled
  <2>5. Here = Start
    BY Geometry DEF Init, Here
  <2>6. playfield_balls = 0 /\ loose = 0 /\ Balls \in Nat
    BY Geometry DEF Init
  <2> HIDE DEF Start
  <2> QED BY <2>3, <2>4, <2>5, <2>6 DEF Conserved
<1>5. Sleep
  BY DEF Init, Sleep, Sleeps
<1> QED BY <1>1, <1>2, <1>3, <1>4, <1>5 DEF IInv

\* IInv is about nothing but the variables.
LEMMA Stuttering == ASSUME IInv, UNCHANGED vars PROVE IInv'
<1> USE DEF vars, machine, counter, handler, waiting, tracker, outgoing, books
<1>1. Types /\ (\A e \in Devices : Local(e)) /\ Balances /\ Conserved /\ Sleep
  BY DEF IInv
<1>2. Types'
  BY <1>1 DEF Types
<1>3. ASSUME NEW e \in Devices PROVE Local(e)'
  BY <1>1 DEF Local, CountStage, WaitStage, EjectStage, Observed, Limited, Agreed, Idle, Left
<1>4. Balances'
  BY <1>1 DEF Balances, Has, Pending, Promised, Outbound
<1>5. Conserved'
  BY <1>1 DEF Conserved, Known, Here, Booked, Pending, Doubled
<1>6. Sleep'
  BY <1>1 DEF Sleep, Sleeps, HasRoom, Incoming, UnderWay
<1> QED BY <1>2, <1>3, <1>4, <1>5, <1>6 DEF IInv

\* The counter has counted, and found a change or not.
LEMMA SettleStep ==
  ASSUME Unusual = {}, IInv, NEW d \in Devices, Settle(d)
  PROVE  IInv'
<1>1. CASE inside[d] = last_count[d]
  BY <1>1, SettleQuietlyStep
<1>2. CASE inside[d] # last_count[d]
  BY <1>2, SettleChangedStep
<1> QED BY <1>1, <1>2

\* The balls and the switches.
LEMMA MotionStep ==
  ASSUME Unusual = {}, IInv, NEW d \in Devices, Motion(d)
  PROVE  IInv'
<1>1. CASE Arrive(d)
  <2>1. CASE d = Last
    BY <1>1, <2>1, ArriveOutsideStep
  <2>2. CASE d # Last
    BY <1>1, <2>2, ArriveInsideStep
  <2> QED BY <2>1, <2>2
<1>2. CASE Settle(d) \/ BallLeaves(d) \/ Enter(d) \/ FallBack(d) \/ GoAstray(d) \/ Vanish(d)
  BY <1>2, SettleStep, BallLeavesStep, EnterStep, FallBackStep, GoAstrayStep, VanishStep
<1> QED BY <1>1, <1>2 DEF Motion

\* A ball is given up, with the ejects that were to follow, or not.
LEMMA LostStep ==
  ASSUME Unusual = {}, IInv, NEW d \in Devices, LostEjectedBall(d) \/ LostIncomingBall(d)
  PROVE  IInv'
<1>1. CASE LostEjectedBall(d)
  BY <1>1, LostEjectedCancelledStep, LostEjectedAgainStep
<1>2. CASE LostIncomingBall(d)
  BY <1>2, LostIncomingCancelledStep, LostIncomingAgainStep
<1> QED BY <1>1, <1>2

\* The three tasks of a device.
LEMMA TaskStep ==
  ASSUME Unusual = {}, IInv, NEW d \in Devices, CountTask(d) \/ WaitTask(d) \/ EjectTask(d)
  PROVE  IInv'
<1>1. CASE CountTask(d)
  BY <1>1, BeginCountStep, CountBallsStep, CountArrivalStep, IdleBallLostStep DEF CountTask
<1>2. CASE WaitTask(d)
  BY <1>2, NoteBallsStep, UpdateCountStep, WaiterArrivalStep DEF WaitTask
<1>3. CASE EjectTask(d)
  <2>1. CASE TakeRequest(d) \/ Validated(d) \/ BallCame(d) \/ EjectCancelled(d) \/ TargetReady(d)
    BY <2>1, TakeRequestStep, ValidatedStep, BallCameStep, EjectCancelledStep, TargetReadyStep
  <2>2. CASE StartEject(d) \/ WillEject(d) \/ EjectTimeout(d) \/ Confirmed(d) \/ ConfirmTimeout(d)
    BY <2>2, StartEjectStep, WillEjectStep, EjectTimeoutStep, ConfirmedStep, ConfirmTimeoutStep
  <2>3. CASE NotYetThere(d) \/ PlayfieldTimeoutConfirm(d) \/ BallReturned(d) \/ GiveUp(d)
    BY <2>3, NotYetThereStep, PlayfieldTimeoutConfirmStep, BallReturnedStep, GiveUpStep
  <2>4. CASE LostEjectedBall(d) \/ EndEject(d) \/ CheckLeft(d)
    BY <2>4, LostStep, EndEjectStep, CheckLeftStep
  <2> QED BY <1>3, <2>1, <2>2, <2>3, <2>4 DEF EjectTask
<1> QED BY <1>1, <1>2, <1>3

\* IInv is inductive.
LEMMA NextIInv == ASSUME Unusual = {}, IInv, [Next]_vars PROVE IInv'
<1>1. CASE UNCHANGED vars
  BY <1>1, Stuttering
<1>2. CASE AddBall
  BY <1>2, RequestSteps
<1>3. CASE PlayfieldHit
  BY <1>3, PlayfieldHitStep
<1>4. ASSUME NEW d \in Devices, RequestBall(d) \/ EjectKept(d) PROVE IInv'
  BY <1>4, RequestSteps
<1>5. ASSUME NEW d \in Devices, CountTask(d) \/ WaitTask(d) \/ EjectTask(d) PROVE IInv'
  BY <1>5, TaskStep
<1>6. ASSUME NEW d \in Devices, ExternalConfirm(d) PROVE IInv'
  BY <1>6, ExternalConfirmStep
<1>7. ASSUME NEW d \in Devices, LostIncomingBall(d) PROVE IInv'
  BY <1>7, LostStep
<1>8. ASSUME NEW d \in Devices, Motion(d) PROVE IInv'
  BY <1>8, MotionStep
<1> QED BY <1>1, <1>2, <1>3, <1>4, <1>5, <1>6, <1>7, <1>8 DEF Next

\* Whatever the tasks of the devices and the balls do, the stages of a device agree with its
\* counts, the books of every place balance and no ball is lost or counted twice.
THEOREM BooksInvariant == ASSUME Unusual = {} PROVE Spec => []IInv
<1>1. Init => IInv
  BY InitIInv
<1>2. IInv /\ [Next]_vars => IInv'
  BY NextIInv
<1> QED BY <1>1, <1>2, PTL DEF Spec

\* The bounds: a device holds, and counts, no more balls than the machine has.
LEMMA IInvTypeOK == IInv => TypeOK
<1> SUFFICES ASSUME IInv PROVE TypeOK
  OBVIOUS
<1>1. Types /\ (\A e \in Devices : Limited(e)) /\ Conserved
  BY DEF IInv, Local
<1>2. Balls \in Nat
  BY Geometry
<1>3. loose \in 0..Balls
  BY <1>1, <1>2, InsideFits DEF Types
<1>4. ASSUME NEW d \in Devices PROVE inside[d] \in 0..Balls /\ flying[d] \in 0..Balls
  <2>1. inside[d] \in Nat /\ flying[d] \in Nat /\ inside[d] + flying[d] <= Balls
    BY <1>1, InsideFits DEF Types
  <2> QED BY <1>2, <2>1
<1>5. ASSUME NEW d \in Devices
      PROVE  /\ last_count[d] \in 0..Balls /\ ball_count[d] \in 0..Balls /\ arrivals[d] \in 0..Balls
             /\ noted[d] \in 0..Balls /\ waiter_arrivals[d] \in 0..Balls
  BY <1>1, <1>2 DEF Types, Limited
<1>6. inside \in [Devices -> 0..Balls] /\ flying \in [Devices -> 0..Balls]
  BY <1>1, <1>4 DEF Types
<1>7. /\ last_count \in [Devices -> 0..Balls] /\ ball_count \in [Devices -> 0..Balls]
      /\ arrivals \in [Devices -> 0..Balls] /\ noted \in [Devices -> 0..Balls]
      /\ waiter_arrivals \in [Devices -> 0..Balls]
  BY <1>1, <1>5 DEF Types
<1>8. pc \in [Devices -> {"idle", "validating", "waiting_for_ball", "waiting_for_target_ready",
                          "target_full", "start_eject", "checking"} \cup InEject]
  BY <1>1 DEF Types, Stages
<1> QED BY <1>1, <1>3, <1>6, <1>7, <1>8 DEF Types, TypeOK

\* All counts, queues and stages stay in their range, in particular no count becomes
\* negative and none exceeds the number of balls.
THEOREM TypesHold == ASSUME Unusual = {} PROVE Spec => []TypeOK
BY BooksInvariant, IInvTypeOK, PTL

\* The balances, in the words of BooksBalance.
LEMMA IInvBooksBalance == IInv => BooksBalance
<1> SUFFICES ASSUME IInv PROVE BooksBalance
  OBVIOUS
<1>1. Types /\ Balances /\ (\A e \in Devices : Limited(e))
  BY DEF IInv, Local
<1>2. ASSUME NEW d \in Devices
      PROVE  available_balls[d] = ball_count[d] - Pending(d) + Inbound(d) - Outbound(d)
  <2>1. available_balls[d] = (Has(d) + (IF d = 1 THEN 0 ELSE Promised(d - 1))) - Outbound(d)
    BY <1>1, Geometry DEF Balances
  <2>2. Has(d) = (ball_count[d] - Pending(d)) + awaited[d]
    BY Geometry DEF Has
  <2>3. ball_count[d] \in Int /\ Pending(d) \in Int /\ awaited[d] \in Int /\ Outbound(d) \in Int
    BY <1>1, PlainTypes
  <2>4. CASE d = 1
    <3>1. awaited[d] = 0 /\ Inbound(d) = 0
      BY <1>1, <2>4 DEF Limited, Inbound
    <3> QED BY <2>1, <2>2, <2>3, <2>4, <3>1
  <2>5. CASE d # 1
    <3>1. /\ d - 1 \in Devices /\ Promised(d - 1) \in Int
          /\ Promised(d - 1) = queue[d - 1] + Comes(d - 1)
          /\ queue[d - 1] \in Int /\ Comes(d - 1) \in Int
      BY <1>1, <2>5, Geometry, PlainTypes
    <3>2. Inbound(d) = (queue[d - 1] + Comes(d - 1)) + awaited[d]
      BY <2>5 DEF Inbound, Comes
    <3> QED BY <2>1, <2>2, <2>3, <2>5, <3>1, <3>2
  <2> QED BY <2>4, <2>5
<1>3. available_balls[Playfield] = playfield_balls + Inbound(Playfield)
  <2>1. available_balls[Playfield] = playfield_balls + Promised(Last)
    <3>1. Playfield - 1 = Last /\ Playfield # 1
      BY BallAssumption DEF Playfield
    <3>2. available_balls[Playfield] = (Has(Playfield) + Promised(Last)) - 0
      BY <1>1, <3>1, Geometry DEF Balances
    <3>3. Has(Playfield) = playfield_balls /\ playfield_balls \in Int /\ Promised(Last) \in Int
      BY <1>1, PlainTypes, Geometry DEF Has, Types
    <3> QED BY <3>2, <3>3
  <2>2. Inbound(Playfield) = Promised(Last)
    <3>1. Playfield - 1 = Last /\ Playfield # 1 /\ Playfield \notin Devices /\ ~ (Last < Last)
      BY BallAssumption, Geometry DEF Playfield
    <3>2. Inbound(Playfield) = (queue[Last] + Comes(Last)) + 0
      BY <3>1 DEF Inbound, Comes
    <3>3. Promised(Last) = queue[Last] + Comes(Last) /\ Promised(Last) \in Int
      BY <1>1, PlainTypes, Geometry
    <3> QED BY <3>2, <3>3
  <2> QED BY <2>1, <2>2
<1> QED BY <1>2, <1>3 DEF BooksBalance

\* At all times, available_balls of a device and of the playfield is what it has counted and
\* handled, plus what is on its way or promised to it, less what it is to eject.
THEOREM BooksBalanced == ASSUME Unusual = {} PROVE Spec => []BooksBalance
BY BooksInvariant, IInvBooksBalance, PTL

\* The totals, in the words of BallsConserved.
LEMMA IInvBallsConserved == IInv => BallsConserved
BY DEF IInv, Conserved, Known, Booked, BallsConserved

\* At all times the balls of the devices, of the playfield and those awaited make up all balls
\* of the machine: lost, returned and late balls are booked exactly once.
THEOREM NoBallForgotten == ASSUME Unusual = {} PROVE Spec => []BallsConserved
BY BooksInvariant, IInvBallsConserved, PTL

\* With nothing under way a stable count is true in every device, so the playfield, which has
\* the rest in both totals, is right too.
LEMMA IInvQuiet == IInv => QuietBooksAreTrue
<1> SUFFICES ASSUME IInv, Quiet
             PROVE  (\A d \in Devices : ball_count[d] = inside[d]) /\ playfield_balls = loose
  BY DEF QuietBooksAreTrue
<1>1. Types /\ (\A e \in Devices : Local(e)) /\ Conserved
  BY DEF IInv
<1>2. ASSUME NEW d \in Devices PROVE ball_count[d] = inside[d] /\ inside[d] \in Nat
  BY <1>1 DEF Quiet, Local, Agreed, Observed, Types
<1>3. ASSUME NEW d \in Devices PROVE Pending(d) = 0 /\ Doubled(d) = 0
  <2>1. pc[d] = "idle" /\ counting[d] = "free"
    BY DEF Quiet, Idle
  <2>2. waiter_arrivals[d] = 0
    BY <1>1, <2>1 DEF Local, WaitStage, Types
  <2>3. ball[d] = "none"
    BY <1>1, <2>1 DEF Local, EjectStage, AfterLeft
  <2> QED BY <2>1, <2>2, <2>3 DEF Pending, Doubled
<1>4. Known = Here
  <2>1. ASSUME NEW d \in Devices PROVE Booked(d) = inside[d] + flying[d]
    <3>1. awaited[d] = 0 /\ flying[d] = 0
      BY DEF Quiet
    <3> QED BY <1>2, <1>3, <3>1 DEF Booked
  <2> QED BY <2>1 DEF Known, Here
<1>5. SumFunction(Known) \in Int
  BY <1>1, FinitelyManyDevices, SumIsInt, KnownIsTyped
<1>6. playfield_balls + SumFunction(Known) = Balls /\ loose + SumFunction(Known) = Balls
  BY <1>1, <1>4 DEF Conserved
<1>7. playfield_balls = loose
  <2>1. playfield_balls \in Int /\ loose \in Int
    BY <1>1 DEF Types
  <2> HIDE DEF Known
  <2> QED BY <1>5, <1>6, <2>1
<1> QED BY <1>2, <1>7

\* Whenever the machine has come to rest, whatever happened before, every device knows how
\* many balls it has and the playfield how many are loose.
THEOREM QuietBooks == ASSUME Unusual = {} PROVE Spec => []QuietBooksAreTrue
BY BooksInvariant, IInvQuiet, PTL

\* Sleep, in the words of NoSleepWithRoom.
LEMMA IInvSleep == ASSUME ByEvent = {}, IInv PROVE NoSleepWithRoom
<1>1. \A d \in Devices : Sleeps(d)
  BY DEF IInv, Sleep
<1>2. \A d \in 1..(Last - 1) : d \in Devices
  BY BallAssumption DEF Devices
<1> QED BY <1>1, <1>2 DEF Sleeps, NoSleepWithRoom

\* With ejects that are confirmed by the target, no device sleeps before a target that has
\* room again: every step that makes room also wakes the source.
THEOREM NobodyOversleeps == ASSUME Unusual = {}, ByEvent = {} PROVE Spec => []NoSleepWithRoom
<1>1. IInv => NoSleepWithRoom
  BY IInvSleep
<1> QED BY <1>1, BooksInvariant, PTL

================================================================================
