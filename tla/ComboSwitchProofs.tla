-------------------------- MODULE ComboSwitchProofs ---------------------------
(***************************************************************************)
(* Proofs about ComboSwitch, for any number of switches and any of the      *)
(* three times, as long as the mode of the device does not end while it     *)
(* counts something: an "active" group is held, and so is each half of a    *)
(* combo.                                                                   *)
(***************************************************************************)
EXTENDS ComboSwitch, TLAPS

Due(k, g) == delays[<<k, g>>]

\* The variables the argument is about, without the bounds of TypeOK.
Types ==
  /\ now \in Nat /\ loaded \in BOOLEAN /\ state \in {"inactive", "both", "one"}
  /\ on \in [Groups -> Nat]
  /\ active \in [Groups -> Int] /\ delays \in [Names -> Int]
  /\ pressed \in [Groups -> Int] /\ released \in [Groups -> Int]

\* The history: a press comes before the release, and both before now.
Past(g) ==
  /\ on[g] > 0 => pressed[g] \in 0..now
  /\ on[g] = 0 /\ released[g] # None => released[g] \in 0..now /\ pressed[g] \in 0..released[g]

\* A hold or a release that counts down belongs to a group that is on or off, and runs
\* out hold_time after the press and release_time after the release.
Countdowns(g) ==
  /\ Due("active", g) # None => on[g] > 0 /\ Due("active", g) >= now /\ Due("active", g) >= pressed[g] + HoldTime
  /\ Due("inactive", g) # None =>
       /\ on[g] = 0 /\ released[g] # None
       /\ Due("inactive", g) >= now /\ Due("inactive", g) = released[g] + ReleaseTime

\* A group that counts as active is held: by a switch, or by the release that counts down.
ActiveIsHeld(g) ==
  active[g] # None =>
    /\ active[g] <= now
    /\ on[g] > 0 => pressed[g] + HoldTime <= now
    /\ on[g] = 0 => Due("inactive", g) # None /\ released[g] - pressed[g] >= HoldTime

\* A group that is on and not yet active counts down to it.
OnComesActive(g) == loaded /\ on[g] > 0 /\ active[g] = None => Due("active", g) # None

\* Without the mode nothing is counted.
Idle(g) == ~loaded => active[g] = None /\ Due("active", g) = None /\ Due("inactive", g) = None

\* The state speaks of groups that count as active.
StateInv ==
  /\ state = "both" => \A g \in Groups : active[g] # None
  /\ state = "one" => \E g \in Groups : active[g] # None
  /\ ~loaded => ModeEnds = "quiet"

GroupInv(g) == Past(g) /\ Countdowns(g) /\ ActiveIsHeld(g) /\ OnComesActive(g) /\ Idle(g)

IInv == Types /\ (\A g \in Groups : GroupInv(g)) /\ StateInv

-----------------------------------------------------------------------------
(* The handlers, as functions of the record of active, state and delays.    *)

Records == [active : [Groups -> Int], state : {"inactive", "both", "one"}, delays : [Names -> Int]]

\* Two tables of delays that agree about the holds and the releases of a group.
SameCount(d, e, h) == d[<<"active", h>>] = e[<<"active", h>>] /\ d[<<"inactive", h>>] = e[<<"inactive", h>>]

LEMMA NamesOfGroups ==
  /\ \A g \in Groups : <<"active", g>> \in Names /\ <<"inactive", g>> \in Names /\ <<"only", g>> \in Names
  /\ \A g \in Groups : Other(g) \in Groups /\ Other(g) # g /\ Other(Other(g)) = g
  /\ \A g, h \in Groups : h = g \/ h = Other(g)
BY DEF Names, Groups, Other

\* Removing and adding a delay changes that delay alone.
LEMMA TableOps ==
  ASSUME now \in Nat, NEW d \in [Names -> Int], NEW n \in Names, NEW t \in Int
  PROVE  /\ Removed(d, n) \in [Names -> Int] /\ Removed(d, n)[n] = None
         /\ Added(d, n, t) \in [Names -> Int]
         /\ Added(d, n, t)[n] = IF d[n] = None THEN now + t ELSE d[n]
         /\ \A m \in Names \ {n} : Removed(d, n)[m] = d[m] /\ Added(d, n, t)[m] = d[m]
BY DEF Removed, Added, None

\* A delay of one group, changed, leaves the other group's countdowns and its own other one.
LEMMA RemoveCount ==
  ASSUME now \in Nat, NEW d \in [Names -> Int], NEW g \in Groups,
         NEW j \in {"active", "inactive"}, NEW k \in {"active", "inactive"}, j # k
  PROVE  /\ Removed(d, <<k, g>>) \in [Names -> Int]
         /\ Removed(d, <<k, g>>)[<<k, g>>] = None
         /\ Removed(d, <<k, g>>)[<<j, g>>] = d[<<j, g>>]
         /\ SameCount(Removed(d, <<k, g>>), d, Other(g))
<1> DEFINE n == <<k, g>>
           r == Removed(d, n)
<1>1. n \in Names /\ <<j, g>> \in Names \ {n}
  BY DEF Names
<1>2. <<"active", Other(g)>> \in Names \ {n} /\ <<"inactive", Other(g)>> \in Names \ {n}
  BY NamesOfGroups
<1> HIDE DEF n
<1>3. r \in [Names -> Int] /\ r[n] = None /\ \A m \in Names \ {n} : r[m] = d[m]
  BY <1>1 DEF Removed, None
<1> HIDE DEF r
<1>4. r[<<j, g>>] = d[<<j, g>>] /\ SameCount(r, d, Other(g))
  BY <1>1, <1>2, <1>3 DEF SameCount
<1> QED
  BY <1>3, <1>4 DEF r, n

LEMMA AddCount ==
  ASSUME now \in Nat, NEW d \in [Names -> Int], NEW g \in Groups, NEW t \in Nat,
         NEW j \in {"active", "inactive"}, NEW k \in {"active", "inactive"}, j # k
  PROVE  /\ Added(d, <<k, g>>, t) \in [Names -> Int]
         /\ Added(d, <<k, g>>, t)[<<k, g>>] = IF d[<<k, g>>] = None THEN now + t ELSE d[<<k, g>>]
         /\ Added(d, <<k, g>>, t)[<<j, g>>] = d[<<j, g>>]
         /\ SameCount(Added(d, <<k, g>>, t), d, Other(g))
<1> DEFINE n == <<k, g>>
           r == Added(d, n, t)
<1>1. n \in Names /\ <<j, g>> \in Names \ {n}
  BY DEF Names
<1>2. <<"active", Other(g)>> \in Names \ {n} /\ <<"inactive", Other(g)>> \in Names \ {n}
  BY NamesOfGroups
<1> HIDE DEF n
<1>3. /\ r \in [Names -> Int] /\ r[n] = IF d[n] = None THEN now + t ELSE d[n]
      /\ \A m \in Names \ {n} : r[m] = d[m]
  BY <1>1 DEF Added, None
<1> HIDE DEF r
<1>4. r[<<j, g>>] = d[<<j, g>>] /\ SameCount(r, d, Other(g))
  BY <1>1, <1>2, <1>3 DEF SameCount
<1> QED
  BY <1>3, <1>4 DEF r, n

\* The same for the two countdowns by name.
LEMMA HoldOps ==
  ASSUME now \in Nat, NEW d \in [Names -> Int], NEW g \in Groups
  PROVE  /\ Removed(d, <<"active", g>>) \in [Names -> Int]
         /\ Removed(d, <<"active", g>>)[<<"active", g>>] = None
         /\ Removed(d, <<"active", g>>)[<<"inactive", g>>] = d[<<"inactive", g>>]
         /\ SameCount(Removed(d, <<"active", g>>), d, Other(g))
         /\ Added(d, <<"active", g>>, HoldTime) \in [Names -> Int]
         /\ Added(d, <<"active", g>>, HoldTime)[<<"active", g>>] =
              IF d[<<"active", g>>] = None THEN now + HoldTime ELSE d[<<"active", g>>]
         /\ Added(d, <<"active", g>>, HoldTime)[<<"inactive", g>>] = d[<<"inactive", g>>]
         /\ SameCount(Added(d, <<"active", g>>, HoldTime), d, Other(g))
<1>1. HoldTime \in Nat /\ "active" # "inactive"
  BY ComboAssumption
<1>2. "active" \in {"active", "inactive"} /\ "inactive" \in {"active", "inactive"}
  OBVIOUS
<1> QED
  BY <1>1, <1>2, RemoveCount, AddCount

LEMMA ReleaseOps ==
  ASSUME now \in Nat, NEW d \in [Names -> Int], NEW g \in Groups
  PROVE  /\ Removed(d, <<"inactive", g>>) \in [Names -> Int]
         /\ Removed(d, <<"inactive", g>>)[<<"inactive", g>>] = None
         /\ Removed(d, <<"inactive", g>>)[<<"active", g>>] = d[<<"active", g>>]
         /\ SameCount(Removed(d, <<"inactive", g>>), d, Other(g))
         /\ Added(d, <<"inactive", g>>, ReleaseTime) \in [Names -> Int]
         /\ Added(d, <<"inactive", g>>, ReleaseTime)[<<"inactive", g>>] =
              IF d[<<"inactive", g>>] = None THEN now + ReleaseTime ELSE d[<<"inactive", g>>]
         /\ Added(d, <<"inactive", g>>, ReleaseTime)[<<"active", g>>] = d[<<"active", g>>]
         /\ SameCount(Added(d, <<"inactive", g>>, ReleaseTime), d, Other(g))
<1>1. ReleaseTime \in Nat /\ "active" # "inactive"
  BY ComboAssumption
<1>2. "active" \in {"active", "inactive"} /\ "inactive" \in {"active", "inactive"}
  OBVIOUS
<1> QED
  BY <1>1, <1>2, RemoveCount, AddCount

\* Activating a group sets its time; the state becomes "both" or stays, and the
\* countdowns stay.
LEMMA ActivateDoes ==
  ASSUME now \in Nat, NEW c \in Records, NEW g \in Groups
  PROVE  /\ Activate(c, g) \in Records
         /\ Activate(c, g).active = [c.active EXCEPT ![g] = now]
         /\ \/ Activate(c, g).state = c.state
            \/ /\ Activate(c, g).state = "both"
               /\ c.active[Other(g)] # None /\ ~TooLate(c, g)
         /\ \A h \in Groups : SameCount(Activate(c, g).delays, c.delays, h)
<1> DEFINE gone == Removed(c.delays, <<"only", Other(g)>>)
           added == Added(gone, <<"only", g>>, MaxOffset)
<1>0. /\ MaxOffset \in Int /\ c.delays \in [Names -> Int]
      /\ <<"only", g>> \in Names /\ <<"only", Other(g)>> \in Names
  <2>1. MaxOffset \in Int
    BY ComboAssumption
  <2>2. c.delays \in [Names -> Int]
    BY DEF Records
  <2> QED
    BY <2>1, <2>2, NamesOfGroups
<1>1. gone \in [Names -> Int] /\ added \in [Names -> Int]
  <2>1. gone \in [Names -> Int]
    BY <1>0, TableOps
  <2> HIDE DEF gone
  <2> QED
    BY <1>0, <2>1, TableOps
<1>2. \A h \in Groups : SameCount(gone, c.delays, h) /\ SameCount(added, c.delays, h)
  <2> SUFFICES ASSUME NEW h \in Groups, NEW k \in {"active", "inactive"}
               PROVE  gone[<<k, h>>] = c.delays[<<k, h>>] /\ added[<<k, h>>] = c.delays[<<k, h>>]
    BY DEF SameCount
  <2>1. <<k, h>> \in Names \ {<<"only", g>>, <<"only", Other(g)>>}
    <3>1. k # "only" /\ <<k, h>> \in Names
      BY DEF Names
    <3> QED
      BY <3>1
  <2>2. gone[<<k, h>>] = c.delays[<<k, h>>]
    BY <1>0, <2>1, TableOps
  <2> HIDE DEF gone
  <2>3. added[<<k, h>>] = gone[<<k, h>>]
    <3>1. /\ gone \in [Names -> Int] /\ MaxOffset \in Int /\ <<"only", g>> \in Names
          /\ <<k, h>> \in Names \ {<<"only", g>>}
      BY <1>0, <1>1, <2>1
    <3> QED
      BY <3>1, TableOps
  <2> QED
    BY <2>2, <2>3
<1>3. Activate(c, g).delays \in {gone, added}
  BY DEF Activate
<1>4. Activate(c, g).active = [c.active EXCEPT ![g] = now]
  BY DEF Activate
<1>5. \/ Activate(c, g).state = c.state
      \/ Activate(c, g).state = "both" /\ c.active[Other(g)] # None /\ ~TooLate(c, g)
  BY DEF Activate
<1>6. Activate(c, g) = [active |-> Activate(c, g).active, state |-> Activate(c, g).state,
                        delays |-> Activate(c, g).delays]
  BY DEF Activate
<1>7. Activate(c, g) \in Records
  <2>1. Activate(c, g).active \in [Groups -> Int]
    BY <1>4 DEF Records
  <2>2. Activate(c, g).state \in {"inactive", "both", "one"}
    BY <1>5 DEF Records
  <2>3. Activate(c, g).delays \in [Names -> Int]
    BY <1>1, <1>3
  <2> QED
    BY <1>6, <2>1, <2>2, <2>3 DEF Records
<1> QED
  BY <1>2, <1>3, <1>4, <1>5, <1>7

\* Releasing a group clears its time and leaves the countdowns.  "both" and "one" do not
\* outlive the groups they speak of.
LEMMA ReleaseDoes ==
  ASSUME NEW c \in Records, NEW g \in Groups
  PROVE  /\ Release(c, g) \in Records
         /\ Release(c, g).active = [c.active EXCEPT ![g] = None]
         /\ Release(c, g).delays = c.delays
         /\ Release(c, g).state =
              IF c.active[Other(g)] # None /\ c.state = "both" THEN "one"
              ELSE IF c.state = "one" THEN "inactive" ELSE c.state
<1> DEFINE act == [c.active EXCEPT ![g] = None]
           st == IF c.active[Other(g)] # None /\ c.state = "both" THEN "one"
                 ELSE IF c.state = "one" THEN "inactive" ELSE c.state
           half == [c EXCEPT !.active = act]
<1>0. c = [active |-> c.active, state |-> c.state, delays |-> c.delays]
  BY DEF Records
<1>1. Release(c, g) = [active |-> act, state |-> st, delays |-> c.delays]
  <2>1. half = [active |-> act, state |-> c.state, delays |-> c.delays]
    BY <1>0
  <2>2. Release(c, g) = [half EXCEPT !.state = st]
    BY <1>0, <2>1 DEF Release
  <2> QED
    BY <2>1, <2>2
<1>2. act \in [Groups -> Int] /\ st \in {"inactive", "both", "one"} /\ c.delays \in [Names -> Int]
  BY DEF Records, None
<1> QED
  BY <1>1, <1>2 DEF Records

Times == HoldTime \in Nat /\ ReleaseTime \in Nat /\ MaxOffset \in Int

LEMMA TimesAreNumbers == Times
BY ComboAssumption DEF Times

\* The first switch of a group: its release is cancelled, and unless it is active already
\* it becomes so, at once or after hold_time.
WentActiveResult(c, g, r) ==
  /\ r \in Records
  /\ SameCount(r.delays, c.delays, Other(g)) /\ r.delays[<<"inactive", g>>] = None
  /\ \/ /\ c.active[g] = None /\ HoldTime = 0
        /\ r.active = [c.active EXCEPT ![g] = now]
        /\ r.delays[<<"active", g>>] = c.delays[<<"active", g>>]
        /\ r.state = c.state \/ (r.state = "both" /\ c.active[Other(g)] # None /\ ~TooLate(c, g))
     \/ /\ c.active[g] # None \/ HoldTime # 0
        /\ r.active = c.active /\ r.state = c.state
        /\ r.delays[<<"active", g>>] =
             IF c.active[g] = None /\ c.delays[<<"active", g>>] = None THEN now + HoldTime
             ELSE c.delays[<<"active", g>>]

LEMMA WentActiveDoes ==
  ASSUME now \in Nat, NEW c \in Records, NEW g \in Groups, NEW r, r = WentActive(c, g)
  PROVE  WentActiveResult(c, g, r)
<1> USE DEF WentActiveResult
<1> DEFINE d == Removed(c.delays, <<"inactive", g>>)
           e == [c EXCEPT !.delays = d]
           f == Added(d, <<"active", g>>, HoldTime)
<1>1. c.delays \in [Names -> Int] /\ HoldTime \in Nat
  BY TimesAreNumbers DEF Records, Times
<1>2. /\ <<"active", g>> \in Names /\ <<"inactive", g>> \in Names
      /\ <<"active", Other(g)>> \in Names /\ <<"inactive", Other(g)>> \in Names
      /\ Other(g) # g /\ Other(g) \in Groups
  BY NamesOfGroups
<1>3. /\ d \in [Names -> Int] /\ d[<<"inactive", g>>] = None
      /\ d[<<"active", g>>] = c.delays[<<"active", g>>] /\ SameCount(d, c.delays, Other(g))
  BY <1>1, ReleaseOps
<1>4. e \in Records /\ e.delays = d /\ e.active = c.active /\ e.state = c.state
  BY <1>3 DEF Records
<1>5. CASE c.active[g] # None
  <2>1. r = e
    BY <1>5 DEF WentActive
  <2> HIDE DEF d, e
  <2> QED
    BY <1>3, <1>4, <1>5, <2>1
<1>6. CASE c.active[g] = None /\ HoldTime = 0
  <2>1. r = Activate(e, g)
    BY <1>6 DEF WentActive
  <2>2. TooLate(e, g) = TooLate(c, g)
    BY <1>4 DEF TooLate
  <2> HIDE DEF d, e
  <2>3. /\ r \in Records /\ r.active = [c.active EXCEPT ![g] = now]
        /\ r.state = c.state \/ (r.state = "both" /\ c.active[Other(g)] # None /\ ~TooLate(c, g))
        /\ \A h \in Groups : SameCount(r.delays, d, h)
    BY <1>4, <2>1, <2>2, ActivateDoes
  <2>4. /\ SameCount(r.delays, c.delays, Other(g)) /\ r.delays[<<"inactive", g>>] = None
        /\ r.delays[<<"active", g>>] = c.delays[<<"active", g>>]
    BY <1>2, <1>3, <2>3 DEF SameCount
  <2> QED
    BY <1>6, <2>3, <2>4
<1>7. CASE c.active[g] = None /\ HoldTime # 0
  <2>1. r = [c EXCEPT !.delays = f]
    BY <1>7 DEF WentActive
  <2>2. f \in [Names -> Int] /\ f[<<"active", g>>] = IF d[<<"active", g>>] = None THEN now + HoldTime ELSE d[<<"active", g>>]
    BY <1>1, <1>3, HoldOps
  <2>3. f[<<"inactive", g>>] = None /\ SameCount(f, c.delays, Other(g))
    <3> HIDE DEF d
    <3>1. f[<<"inactive", g>>] = d[<<"inactive", g>>] /\ SameCount(f, d, Other(g))
      BY <1>1, <1>3, HoldOps
    <3> QED
      BY <1>3, <3>1 DEF SameCount
  <2>4. r \in Records /\ r.delays = f /\ r.active = c.active /\ r.state = c.state
    BY <2>1, <2>2 DEF Records
  <2> HIDE DEF d, e, f
  <2> QED
    BY <1>3, <1>7, <2>2, <2>3, <2>4
<1> QED
  BY <1>5, <1>6, <1>7

\* The last switch of a group is released: its hold is cancelled, and it is released at
\* once or after release_time.
WentInactiveResult(c, g, r) ==
  /\ r \in Records
  /\ SameCount(r.delays, c.delays, Other(g)) /\ r.delays[<<"active", g>>] = None
  /\ \/ /\ ReleaseTime = 0
        /\ r.active = [c.active EXCEPT ![g] = None]
        /\ r.delays[<<"inactive", g>>] = c.delays[<<"inactive", g>>]
        /\ r.state = IF c.active[Other(g)] # None /\ c.state = "both" THEN "one"
                     ELSE IF c.state = "one" THEN "inactive" ELSE c.state
     \/ /\ ReleaseTime # 0
        /\ r.active = c.active /\ r.state = c.state
        /\ r.delays[<<"inactive", g>>] =
             IF c.delays[<<"inactive", g>>] = None THEN now + ReleaseTime
             ELSE c.delays[<<"inactive", g>>]

LEMMA WentInactiveDoes ==
  ASSUME now \in Nat, NEW c \in Records, NEW g \in Groups, NEW r, r = WentInactive(c, g, 0)
  PROVE  WentInactiveResult(c, g, r)
<1> USE DEF WentInactiveResult
<1> DEFINE d == Removed(c.delays, <<"active", g>>)
           e == [c EXCEPT !.delays = d]
           f == Added(d, <<"inactive", g>>, ReleaseTime)
<1>1. c.delays \in [Names -> Int] /\ ReleaseTime \in Nat
  BY TimesAreNumbers DEF Records, Times
<1>2. /\ <<"active", g>> \in Names /\ <<"inactive", g>> \in Names
      /\ <<"active", Other(g)>> \in Names /\ <<"inactive", Other(g)>> \in Names
      /\ Other(g) # g /\ Other(g) \in Groups
  BY NamesOfGroups
<1>3. /\ d \in [Names -> Int] /\ d[<<"active", g>>] = None
      /\ d[<<"inactive", g>>] = c.delays[<<"inactive", g>>] /\ SameCount(d, c.delays, Other(g))
  BY <1>1, HoldOps
<1>4. e \in Records /\ e.delays = d /\ e.active = c.active /\ e.state = c.state
  BY <1>3 DEF Records
<1>5. CASE ReleaseTime = 0
  <2>1. r = Release(e, g)
    BY <1>5 DEF WentInactive
  <2> HIDE DEF d, e
  <2> QED
    BY <1>3, <1>4, <1>5, <2>1, ReleaseDoes
<1>6. CASE ReleaseTime # 0
  <2>1. r = [c EXCEPT !.delays = f]
    BY <1>6 DEF WentInactive
  <2>2. f \in [Names -> Int] /\ f[<<"inactive", g>>] = IF d[<<"inactive", g>>] = None THEN now + ReleaseTime ELSE d[<<"inactive", g>>]
    BY <1>1, <1>3, ReleaseOps
  <2>3. f[<<"active", g>>] = None /\ SameCount(f, c.delays, Other(g))
    <3> HIDE DEF d
    <3>1. f[<<"active", g>>] = d[<<"active", g>>] /\ SameCount(f, d, Other(g))
      BY <1>1, <1>3, ReleaseOps
    <3> QED
      BY <1>3, <3>1 DEF SameCount
  <2>4. r \in Records /\ r.delays = f /\ r.active = c.active /\ r.state = c.state
    BY <2>1, <2>2 DEF Records
  <2> HIDE DEF d, e, f
  <2> QED
    BY <1>3, <1>6, <2>2, <2>3, <2>4
<1> QED
  BY <1>5, <1>6

-----------------------------------------------------------------------------
(* The invariant.                                                           *)

LEMMA HereIsARecord ==
  ASSUME Types
  PROVE  Here \in Records /\ Here.active = active /\ Here.state = state /\ Here.delays = delays
BY DEF Types, Here, Records

\* What a step does not touch of a group stays true of it.
LEMMA Untouched ==
  ASSUME NEW h \in Groups, GroupInv(h), now' = now, loaded' = loaded,
         on'[h] = on[h], pressed'[h] = pressed[h], released'[h] = released[h],
         active'[h] = active[h], SameCount(delays', delays, h)
  PROVE  GroupInv(h)'
BY DEF GroupInv, Past, Countdowns, ActiveIsHeld, OnComesActive, Idle, Due, SameCount

\* Activating a group keeps what the state says.
LEMMA StateAfterActivate ==
  ASSUME Types, StateInv, NEW g \in Groups, active' = [active EXCEPT ![g] = now], loaded', now # None,
         state' = state \/ (state' = "both" /\ active[Other(g)] # None)
  PROVE  StateInv'
BY NamesOfGroups DEF StateInv, Types

\* So does releasing it.
LEMMA StateAfterRelease ==
  ASSUME Types, StateInv, NEW g \in Groups, active' = [active EXCEPT ![g] = None], loaded',
         state' = IF active[Other(g)] # None /\ state = "both" THEN "one"
                  ELSE IF state = "one" THEN "inactive" ELSE state
  PROVE  StateInv'
BY NamesOfGroups DEF StateInv, Types

LEMMA PressKeeps ==
  ASSUME IInv, NEW g \in Groups, Press(g)
  PROVE  IInv'
<1> DEFINE r == WentActive(Here, g)
<1>1. /\ Types /\ GroupInv(g) /\ GroupInv(Other(g)) /\ StateInv /\ Other(g) \in Groups /\ Other(g) # g
      /\ HoldTime \in Nat /\ ReleaseTime \in Nat
  BY NamesOfGroups, TimesAreNumbers DEF IInv, Times
<1>2. /\ on' = [on EXCEPT ![g] = @ + 1] /\ now' = now /\ loaded' = loaded /\ released' = released
      /\ pressed' = IF on[g] > 0 \/ Held(g) THEN pressed ELSE [pressed EXCEPT ![g] = now]
      /\ Set(IF loaded THEN r ELSE Here)
  BY DEF Press
<1>3. /\ on' \in [Groups -> Nat] /\ on'[g] = on[g] + 1 /\ on'[Other(g)] = on[Other(g)]
      /\ pressed' \in [Groups -> Int] /\ pressed'[Other(g)] = pressed[Other(g)]
      /\ pressed'[g] = IF on[g] > 0 \/ Held(g) THEN pressed[g] ELSE now
  BY <1>1, <1>2 DEF Types
<1>4. Past(g)'
  BY <1>1, <1>2, <1>3 DEF Types, GroupInv, Past, Held
<1>5. CASE ~loaded
  <2>1. active' = active /\ state' = state /\ delays' = delays
    BY <1>1, <1>2, <1>5, HereIsARecord DEF Set
  <2>2. Types'
    BY <1>1, <1>2, <1>3, <2>1 DEF Types
  <2>3. GroupInv(Other(g))'
    BY <1>1, <1>2, <1>3, <2>1, Untouched DEF SameCount
  <2>4. GroupInv(g)'
    BY <1>1, <1>2, <1>4, <1>5, <2>1 DEF GroupInv, Countdowns, ActiveIsHeld, OnComesActive, Idle, Due
  <2>5. StateInv'
    BY <1>1, <1>2, <2>1 DEF StateInv
  <2> QED
    BY <2>2, <2>3, <2>4, <2>5, NamesOfGroups DEF IInv
<1>6. CASE loaded
  <2>1. active' = r.active /\ state' = r.state /\ delays' = r.delays
    BY <1>2, <1>6 DEF Set
  <2> HIDE DEF r
  <2>2. /\ r \in Records
        /\ SameCount(delays', delays, Other(g)) /\ delays'[<<"inactive", g>>] = None
        /\ \/ /\ active[g] = None /\ HoldTime = 0
              /\ active' = [active EXCEPT ![g] = now]
              /\ delays'[<<"active", g>>] = delays[<<"active", g>>]
              /\ state' = state \/ (state' = "both" /\ active[Other(g)] # None)
           \/ /\ active[g] # None \/ HoldTime # 0
              /\ active' = active /\ state' = state
              /\ delays'[<<"active", g>>] =
                   IF active[g] = None /\ delays[<<"active", g>>] = None THEN now + HoldTime
                   ELSE delays[<<"active", g>>]
    <3>1. now \in Nat /\ Here \in Records
      BY <1>1, HereIsARecord DEF Types
    <3>2. WentActiveResult(Here, g, r)
      BY <3>1, WentActiveDoes DEF r
    <3> QED
      BY <1>1, <2>1, <3>2, HereIsARecord DEF WentActiveResult
  <2>3. Types'
    BY <1>1, <1>2, <1>3, <2>1, <2>2 DEF Types, Records
  <2>4. GroupInv(Other(g))'
    <3>1. active'[Other(g)] = active[Other(g)]
      BY <1>1, <2>2 DEF Types
    <3> QED
      BY <1>1, <1>2, <1>3, <2>2, <3>1, Untouched
  <2>5. Countdowns(g)'
    BY <1>1, <1>2, <1>3, <1>4, <2>2 DEF Types, GroupInv, Past, Countdowns, Due, None
  <2>6. ActiveIsHeld(g)'
    BY <1>1, <1>2, <1>3, <1>4, <2>2 DEF Types, GroupInv, Past, Countdowns, ActiveIsHeld, Held, Due, None
  <2>7. OnComesActive(g)' /\ Idle(g)'
    BY <1>1, <1>2, <1>3, <1>6, <2>2 DEF Types, GroupInv, OnComesActive, Idle, Due, None
  <2>8. StateInv'
    <3>1. now # None
      BY <1>1 DEF Types, None
    <3>2. CASE active' = active /\ state' = state
      BY <1>1, <1>2, <3>2 DEF StateInv
    <3> QED
      BY <1>1, <1>2, <1>6, <2>2, <3>1, <3>2, StateAfterActivate
  <2> QED
    BY <1>4, <2>3, <2>4, <2>5, <2>6, <2>7, <2>8, NamesOfGroups DEF IInv, GroupInv
<1> QED
  BY <1>1, <1>5, <1>6 DEF Types

LEMMA LetGoKeeps ==
  ASSUME IInv, NEW g \in Groups, LetGo(g)
  PROVE  IInv'
<1>1. /\ Types /\ GroupInv(g) /\ GroupInv(Other(g)) /\ StateInv /\ Other(g) \in Groups /\ Other(g) # g
      /\ HoldTime \in Nat /\ ReleaseTime \in Nat
  BY NamesOfGroups, TimesAreNumbers DEF IInv, Times
<1>2. /\ on[g] > 0 /\ on' = [on EXCEPT ![g] = @ - 1] /\ now' = now /\ loaded' = loaded /\ pressed' = pressed
      /\ released' = IF on[g] = 1 THEN [released EXCEPT ![g] = now] ELSE released
      /\ Set(IF loaded THEN WentInactive(Here, g, on[g] - 1) ELSE Here)
  BY DEF LetGo
<1>3. /\ on' \in [Groups -> Nat] /\ on'[g] = on[g] - 1 /\ on'[Other(g)] = on[Other(g)]
      /\ released' \in [Groups -> Int] /\ released'[Other(g)] = released[Other(g)]
      /\ released'[g] = IF on[g] = 1 THEN now ELSE released[g]
  BY <1>1, <1>2 DEF Types
<1>4. Past(g)'
  BY <1>1, <1>2, <1>3 DEF Types, GroupInv, Past
<1>5. CASE ~loaded \/ on[g] # 1
  <2>1. active' = active /\ state' = state /\ delays' = delays
    <3>1. CASE loaded
      <4>1. on[g] - 1 # 0
        BY <1>1, <1>5, <3>1 DEF Types
      <4>2. WentInactive(Here, g, on[g] - 1) = Here
        BY <4>1 DEF WentInactive
      <4> QED
        BY <1>1, <1>2, <3>1, <4>2, HereIsARecord DEF Set
    <3>2. CASE ~loaded
      BY <1>1, <1>2, <3>2, HereIsARecord DEF Set
    <3> QED
      BY <3>1, <3>2
  <2>2. Types'
    BY <1>1, <1>2, <1>3, <2>1 DEF Types
  <2>3. GroupInv(Other(g))'
    BY <1>1, <1>2, <1>3, <2>1, Untouched DEF SameCount
  <2>4. GroupInv(g)'
    BY <1>1, <1>2, <1>3, <1>4, <1>5, <2>1
       DEF Types, GroupInv, Countdowns, ActiveIsHeld, OnComesActive, Idle, Due
  <2>5. StateInv'
    BY <1>1, <1>2, <2>1 DEF StateInv
  <2> QED
    BY <2>2, <2>3, <2>4, <2>5, NamesOfGroups DEF IInv
<1>6. CASE loaded /\ on[g] = 1
  <2> DEFINE r == WentInactive(Here, g, 0)
  <2>0. on[g] - 1 = 0
    BY <1>6
  <2>1. active' = r.active /\ state' = r.state /\ delays' = r.delays
    BY <1>2, <1>6, <2>0 DEF Set
  <2> HIDE DEF r
  <2>2. /\ r \in Records
        /\ SameCount(delays', delays, Other(g)) /\ delays'[<<"active", g>>] = None
        /\ \/ /\ ReleaseTime = 0
              /\ active' = [active EXCEPT ![g] = None]
              /\ delays'[<<"inactive", g>>] = delays[<<"inactive", g>>]
              /\ state' = IF active[Other(g)] # None /\ state = "both" THEN "one"
                          ELSE IF state = "one" THEN "inactive" ELSE state
           \/ /\ ReleaseTime # 0
              /\ active' = active /\ state' = state
              /\ delays'[<<"inactive", g>>] =
                   IF delays[<<"inactive", g>>] = None THEN now + ReleaseTime
                   ELSE delays[<<"inactive", g>>]
    <3>1. now \in Nat /\ Here \in Records
      BY <1>1, HereIsARecord DEF Types
    <3>2. WentInactiveResult(Here, g, r)
      BY <3>1, WentInactiveDoes DEF r
    <3> QED
      BY <1>1, <2>1, <3>2, HereIsARecord DEF WentInactiveResult
  <2>3. Types'
    BY <1>1, <1>2, <1>3, <2>1, <2>2 DEF Types, Records
  <2>4. GroupInv(Other(g))'
    <3>1. active'[Other(g)] = active[Other(g)]
      BY <1>1, <2>2 DEF Types
    <3> QED
      BY <1>1, <1>2, <1>3, <2>2, <3>1, Untouched
  <2>5. Due("inactive", g) = None
    BY <1>1, <1>6 DEF GroupInv, Countdowns
  <2>6. Countdowns(g)'
    BY <1>1, <1>2, <1>3, <1>6, <2>2, <2>5 DEF Types, Countdowns, Due, None
  <2>7. ActiveIsHeld(g)'
    BY <1>1, <1>2, <1>3, <1>6, <2>2, <2>5 DEF Types, GroupInv, Past, ActiveIsHeld, Due, None
  <2>8. OnComesActive(g)' /\ Idle(g)'
    BY <1>2, <1>3, <1>6, <2>2 DEF OnComesActive, Idle
  <2>9. StateInv'
    <3>1. CASE active' = active /\ state' = state
      BY <1>1, <1>2, <3>1 DEF StateInv
    <3> QED
      BY <1>1, <1>2, <1>6, <2>2, <3>1, StateAfterRelease
  <2> QED
    BY <1>4, <2>3, <2>4, <2>6, <2>7, <2>8, <2>9, NamesOfGroups DEF IInv, GroupInv
<1> QED
  BY <1>1, <1>5, <1>6 DEF Types

\* The callback of a delay, after its entry is gone.
LEMMA FireKeeps ==
  ASSUME IInv, NEW k \in {"active", "inactive", "only"}, NEW g \in Groups, Fire(<<k, g>>)
  PROVE  IInv'
<1> DEFINE d == Removed(delays, <<k, g>>)
           c == [Here EXCEPT !.delays = d]
<1>1. /\ Types /\ GroupInv(g) /\ GroupInv(Other(g)) /\ StateInv /\ Other(g) \in Groups /\ Other(g) # g
      /\ now' = now /\ loaded' = loaded /\ on' = on /\ pressed' = pressed /\ released' = released
      /\ HoldTime \in Nat /\ ReleaseTime \in Nat
  BY NamesOfGroups, TimesAreNumbers DEF IInv, Fire, Times
<1>2. <<k, g>> \in Names
  BY DEF Names
<1>3. /\ delays[<<k, g>>] # None /\ delays[<<k, g>>] <= now
      /\ k = "active" => Set(Activate(c, g))
      /\ k = "inactive" => Set(Release(c, g))
      /\ k = "only" => Set(c)
  BY DEF Fire
<1>4. d \in [Names -> Int]
  BY <1>1, <1>2, TableOps DEF Types, None
<1>5. c \in Records /\ c.active = active /\ c.state = state /\ c.delays = d
  <2> HIDE DEF d
  <2> QED
    BY <1>1, <1>4, HereIsARecord DEF Records
<1>6. loaded' => loaded
  BY <1>1
<1>7. CASE k = "active"
  <2>1. /\ d[<<"active", g>>] = None /\ d[<<"inactive", g>>] = delays[<<"inactive", g>>]
        /\ SameCount(d, delays, Other(g))
    BY <1>1, <1>7, HoldOps DEF Types
  <2> HIDE DEF d, c
  <2>2. active' = Activate(c, g).active /\ state' = Activate(c, g).state /\ delays' = Activate(c, g).delays
    BY <1>3, <1>7 DEF Set
  <2>3. /\ Activate(c, g) \in Records
        /\ active' = [active EXCEPT ![g] = now]
        /\ state' = state \/ (state' = "both" /\ active[Other(g)] # None)
        /\ \A h \in Groups : SameCount(delays', d, h)
    BY <1>1, <1>5, <2>2, ActivateDoes DEF Types
  <2>4. /\ delays'[<<"active", g>>] = None /\ delays'[<<"inactive", g>>] = delays[<<"inactive", g>>]
        /\ SameCount(delays', delays, Other(g))
    BY <1>1, <2>1, <2>3 DEF SameCount
  <2>5. Types'
    BY <1>1, <2>2, <2>3 DEF Types, Records
  <2>6. active'[g] = now /\ active'[Other(g)] = active[Other(g)]
    BY <1>1, <2>3 DEF Types
  <2>7. GroupInv(Other(g))'
    BY <1>1, <2>4, <2>6, Untouched
  <2>8. on[g] > 0 /\ pressed[g] + HoldTime <= now /\ Due("inactive", g) = None /\ loaded
    <3>1. /\ Due("active", g) # None /\ Due("active", g) <= now
          /\ Due("active", g) \in Int /\ now \in Nat /\ pressed[g] \in Int
      BY <1>1, <1>2, <1>3, <1>7 DEF Types, Due
    <3>2. on[g] > 0 /\ Due("active", g) >= pressed[g] + HoldTime
      BY <1>1, <3>1 DEF GroupInv, Countdowns
    <3>3. Due("inactive", g) = None /\ loaded
      BY <1>1, <3>1, <3>2 DEF GroupInv, Countdowns, Idle
    <3> QED
      BY <1>1, <3>1, <3>2, <3>3
  <2>9. Past(g)' /\ Countdowns(g)'
    BY <1>1, <2>4, <2>8 DEF GroupInv, Past, Countdowns, Due
  <2>10. ActiveIsHeld(g)' /\ OnComesActive(g)' /\ Idle(g)'
    BY <1>1, <2>4, <2>6, <2>8 DEF Types, ActiveIsHeld, OnComesActive, Idle, Due, None
  <2>11. StateInv'
    <3>1. now # None
      BY <1>1 DEF Types, None
    <3> QED
      BY <1>1, <2>3, <2>8, <3>1, StateAfterActivate
  <2> QED
    BY <2>5, <2>7, <2>9, <2>10, <2>11, NamesOfGroups DEF IInv, GroupInv
<1>8. CASE k = "inactive"
  <2>1. /\ d[<<"inactive", g>>] = None /\ d[<<"active", g>>] = delays[<<"active", g>>]
        /\ SameCount(d, delays, Other(g))
    BY <1>1, <1>8, ReleaseOps DEF Types
  <2> HIDE DEF d, c
  <2>2. active' = Release(c, g).active /\ state' = Release(c, g).state /\ delays' = Release(c, g).delays
    BY <1>3, <1>8 DEF Set
  <2>3. /\ Release(c, g) \in Records /\ delays' = d
        /\ active' = [active EXCEPT ![g] = None]
        /\ state' = IF active[Other(g)] # None /\ state = "both" THEN "one"
                    ELSE IF state = "one" THEN "inactive" ELSE state
    BY <1>5, <2>2, ReleaseDoes
  <2>4. Types'
    BY <1>1, <2>2, <2>3 DEF Types, Records
  <2>5. active'[g] = None /\ active'[Other(g)] = active[Other(g)]
    BY <1>1, <2>3 DEF Types
  <2>6. GroupInv(Other(g))'
    BY <1>1, <2>1, <2>3, <2>5, Untouched
  <2>7. on[g] = 0 /\ loaded
    BY <1>1, <1>3, <1>8 DEF GroupInv, Countdowns, Idle, Due
  <2>8. Past(g)' /\ Countdowns(g)'
    BY <1>1, <2>1, <2>3, <2>7 DEF GroupInv, Past, Countdowns, Due
  <2>9. ActiveIsHeld(g)' /\ OnComesActive(g)' /\ Idle(g)'
    BY <1>1, <2>5, <2>7 DEF ActiveIsHeld, OnComesActive, Idle
  <2>10. StateInv'
    BY <1>1, <2>3, <2>7, StateAfterRelease
  <2> QED
    BY <2>4, <2>6, <2>8, <2>9, <2>10, NamesOfGroups DEF IInv, GroupInv
<1>9. CASE k = "only"
  <2>1. active' = active /\ state' = state /\ delays' = d
    BY <1>3, <1>5, <1>9 DEF Set
  <2>2. \A h \in Groups : SameCount(d, delays, h)
    <3> SUFFICES ASSUME NEW h \in Groups, NEW j \in {"active", "inactive"}
                 PROVE  d[<<j, h>>] = delays[<<j, h>>]
      BY DEF SameCount
    <3>1. <<j, h>> \in Names /\ <<j, h>> # <<k, g>>
      BY <1>9 DEF Names
    <3> QED
      BY <1>1, <1>2, <3>1 DEF Types, Removed
  <2>3. \A h \in Groups : GroupInv(h)'
    <3> SUFFICES ASSUME NEW h \in Groups PROVE GroupInv(h)'
      OBVIOUS
    <3>1. GroupInv(h)
      BY DEF IInv
    <3> HIDE DEF d
    <3>2. SameCount(delays', delays, h)
      BY <2>1, <2>2
    <3> QED
      BY <1>1, <2>1, <3>1, <3>2, Untouched
  <2>4. Types' /\ StateInv'
    BY <1>1, <1>4, <2>1 DEF Types, StateInv
  <2> QED
    BY <2>3, <2>4 DEF IInv
<1> QED
  BY <1>7, <1>8, <1>9

\* The mode ends only while nothing counts down or is active, and starts only while no
\* switch is on.
LEMMA ModeKeeps ==
  ASSUME IInv, ModeEnds # "any", EndMode \/ StartMode
  PROVE  IInv'
<1>1. /\ Types /\ StateInv /\ \A g \in Groups : GroupInv(g)
      /\ now' = now /\ on' = on /\ pressed' = pressed /\ released' = released
      /\ active' = active /\ state' = state
  BY DEF IInv, EndMode, StartMode
<1>2. CASE EndMode
  <2>1. /\ ModeEnds = "quiet" /\ Quiet /\ \A g \in Groups : active[g] = None
        /\ loaded' = FALSE /\ delays' = [n \in Names |-> None]
    BY <1>2 DEF EndMode
  <2>2. Types' /\ StateInv'
    <3>1. delays' \in [Names -> Int]
      BY <2>1 DEF None
    <3>2. state # "both" /\ state # "one"
      BY <1>1, <2>1 DEF StateInv, Groups
    <3> QED
      BY <1>1, <2>1, <3>1, <3>2 DEF Types, StateInv
  <2>3. ASSUME NEW g \in Groups PROVE GroupInv(g)'
    <3>1. delays'[<<"active", g>>] = None /\ delays'[<<"inactive", g>>] = None
      BY <2>1, NamesOfGroups
    <3> QED
      BY <1>1, <2>1, <3>1 DEF GroupInv, Past, Countdowns, ActiveIsHeld, OnComesActive, Idle, Due
  <2> QED
    BY <2>2, <2>3 DEF IInv
<1>3. CASE StartMode
  <2>1. ModeEnds = "quiet"
    BY <1>1, <1>3 DEF StartMode, StateInv
  <2>2. (\A g \in Groups : on[g] = 0) /\ loaded' = TRUE /\ delays' = delays
    BY <1>3, <2>1 DEF StartMode
  <2>3. Types' /\ StateInv'
    BY <1>1, <2>2 DEF Types, StateInv
  <2>4. ASSUME NEW g \in Groups PROVE GroupInv(g)'
    BY <1>1, <2>2 DEF GroupInv, Past, Countdowns, ActiveIsHeld, OnComesActive, Idle, Due
  <2> QED
    BY <2>3, <2>4 DEF IInv
<1> QED
  BY <1>2, <1>3

\* Time passes only when no callback is due.
LEMMA TickKeeps ==
  ASSUME IInv, Tick
  PROVE  IInv'
<1>1. /\ Types /\ StateInv /\ \A g \in Groups : GroupInv(g)
      /\ now' = now + 1 /\ on' = on /\ pressed' = pressed /\ released' = released
      /\ active' = active /\ state' = state /\ delays' = delays /\ loaded' = loaded
  BY DEF IInv, Tick
<1>2. Types' /\ StateInv'
  BY <1>1 DEF Types, StateInv
<1>3. ASSUME NEW g \in Groups PROVE GroupInv(g)'
  <2>1. /\ Due("active", g) = None \/ Due("active", g) > now
        /\ Due("inactive", g) = None \/ Due("inactive", g) > now
    BY NamesOfGroups DEF Tick, Due
  <2>2. /\ now \in Nat /\ Due("active", g) \in Int /\ Due("inactive", g) \in Int
        /\ on[g] \in Nat /\ active[g] \in Int /\ pressed[g] \in Int /\ released[g] \in Int
        /\ HoldTime \in Nat /\ ReleaseTime \in Nat
    BY <1>1, NamesOfGroups, TimesAreNumbers DEF Types, Due, Times
  <2> QED
    BY <1>1, <2>1, <2>2 DEF GroupInv, Past, Countdowns, ActiveIsHeld, OnComesActive, Idle, Due
<1> QED
  BY <1>2, <1>3 DEF IInv

LEMMA InitHolds ==
  ASSUME Init
  PROVE  IInv
<1>1. Types /\ StateInv
  BY DEF Init, Types, StateInv, Groups, None
<1>2. ASSUME NEW g \in Groups PROVE GroupInv(g)
  <2>1. Due("active", g) = None /\ Due("inactive", g) = None
    BY NamesOfGroups DEF Init, Due
  <2> QED
    BY <2>1 DEF Init, GroupInv, Past, Countdowns, ActiveIsHeld, OnComesActive, Idle
<1> QED
  BY <1>1, <1>2 DEF IInv

LEMMA StepKeeps ==
  ASSUME IInv, ModeEnds # "any", [Next]_vars
  PROVE  IInv'
<1>1. ASSUME NEW n \in Names, Fire(n) PROVE IInv'
  <2>1. PICK k \in {"active", "inactive", "only"}, g \in Groups : n = <<k, g>>
    BY DEF Names
  <2> QED
    BY <1>1, <2>1, FireKeeps
<1>2. CASE UNCHANGED vars
  BY <1>2 DEF vars, IInv, Types, StateInv, GroupInv, Past, Countdowns, ActiveIsHeld, OnComesActive, Idle, Due
<1> QED
  BY <1>1, <1>2, PressKeeps, LetGoKeeps, ModeKeeps, TickKeeps DEF Next

-----------------------------------------------------------------------------
(* The theorems.                                                            *)

LEMMA IInvAlways == ASSUME ModeEnds # "any" PROVE Spec => []IInv
<1>1. Init => IInv
  BY InitHolds
<1>2. IInv /\ [Next]_vars => IInv'
  BY StepKeeps
<1> QED
  BY <1>1, <1>2, PTL DEF Spec

\* Once the holds and releases have run out, the groups that count as active are those with
\* a switch that is on, and the state tells them.
THEOREM QuietStateIsTrueAlways == ASSUME ModeEnds # "any" PROVE Spec => []QuietStateIsTrue
<1>1. IInv => QuietStateIsTrue
  <2> SUFFICES ASSUME IInv, loaded, \A g \in Groups : Due("active", g) = None /\ Due("inactive", g) = None
               PROVE  /\ \A g \in Groups : active[g] # None <=> on[g] > 0
                      /\ state = "both" => \A g \in Groups : on[g] > 0
                      /\ state = "one" => \E g \in Groups : on[g] > 0
    BY DEF QuietStateIsTrue, Due
  <2>1. ASSUME NEW g \in Groups PROVE active[g] # None <=> on[g] > 0
    <3>1. on[g] \in Nat /\ ActiveIsHeld(g) /\ OnComesActive(g)
      BY DEF IInv, Types, GroupInv
    <3> QED
      BY <3>1 DEF ActiveIsHeld, OnComesActive
  <2> QED
    BY <2>1 DEF IInv, StateInv
<1> QED
  BY <1>1, IInvAlways, PTL

\* A group that counts as active is held.
ActiveMeansHeld == \A g \in Groups : active[g] # None => Held(g)

LEMMA ActiveMeansHeldAlways == ASSUME ModeEnds # "any" PROVE Spec => []ActiveMeansHeld
<1>1. IInv => ActiveMeansHeld
  <2> SUFFICES ASSUME IInv, NEW g \in Groups, active[g] # None PROVE Held(g)
    BY DEF ActiveMeansHeld
  <2>1. /\ GroupInv(g) /\ now \in Nat /\ on[g] \in Nat /\ pressed[g] \in Int /\ released[g] \in Int
        /\ HoldTime \in Nat /\ ReleaseTime \in Nat
    BY TimesAreNumbers DEF IInv, Types, Times
  <2>2. CASE on[g] > 0
    BY <2>1, <2>2 DEF GroupInv, ActiveIsHeld, Held
  <2>3. CASE on[g] = 0
    BY <2>1, <2>3 DEF GroupInv, ActiveIsHeld, Countdowns, Held
  <2> QED
    BY <2>1, <2>2, <2>3
<1> QED
  BY <1>1, IInvAlways, PTL

\* The state becomes "both" when a group is activated in time for the other one.
LEMMA BecomesBoth ==
  ASSUME IInv, Next, state' = "both", state # "both"
  PROVE  \E g \in Groups : /\ active' = [active EXCEPT ![g] = now] /\ now' = now
                          /\ active[Other(g)] # None /\ ~TooLate(Here, g)
<1>1. now \in Nat /\ Here \in Records /\ Here.active = active /\ Here.state = state /\ Here.delays = delays
  BY HereIsARecord DEF IInv, Types
<1>2. ASSUME NEW g \in Groups, Press(g)
      PROVE  /\ active' = [active EXCEPT ![g] = now] /\ now' = now
             /\ active[Other(g)] # None /\ ~TooLate(Here, g)
  <2> DEFINE r == WentActive(Here, g)
  <2>1. now' = now /\ Set(IF loaded THEN r ELSE Here)
    BY <1>2 DEF Press
  <2>2. WentActiveResult(Here, g, r)
    BY <1>1, WentActiveDoes
  <2> HIDE DEF r
  <2>3. active' = r.active /\ state' = r.state
    BY <1>1, <2>1 DEF Set
  <2> QED
    BY <1>1, <2>1, <2>2, <2>3 DEF WentActiveResult
<1>3. ASSUME NEW g \in Groups, LetGo(g)
      PROVE  FALSE
  <2> DEFINE r == WentInactive(Here, g, on[g] - 1)
  <2>1. Set(IF loaded THEN r ELSE Here)
    BY <1>3 DEF LetGo
  <2>2. CASE on[g] - 1 = 0
    <3>1. WentInactiveResult(Here, g, r)
      BY <1>1, <2>2, WentInactiveDoes
    <3> HIDE DEF r
    <3>2. state' \in {r.state, state}
      BY <1>1, <2>1 DEF Set
    <3>3. r.state # "both"
      BY <1>1, <3>1 DEF WentInactiveResult
    <3> QED
      BY <3>2, <3>3
  <2>3. CASE on[g] - 1 # 0
    <3>1. r = Here
      BY <2>3 DEF WentInactive
    <3> QED
      BY <1>1, <2>1, <3>1 DEF Set
  <2> QED
    BY <2>2, <2>3
<1>4. ASSUME NEW k \in {"active", "inactive", "only"}, NEW g \in Groups, Fire(<<k, g>>)
      PROVE  /\ active' = [active EXCEPT ![g] = now] /\ now' = now
             /\ active[Other(g)] # None /\ ~TooLate(Here, g)
  <2> DEFINE d == Removed(delays, <<k, g>>)
             c == [Here EXCEPT !.delays = d]
  <2>1. /\ now' = now
        /\ k = "active" => Set(Activate(c, g))
        /\ k = "inactive" => Set(Release(c, g))
        /\ k = "only" => Set(c)
    BY <1>4 DEF Fire
  <2>2. d \in [Names -> Int]
    <3>1. <<k, g>> \in Names /\ delays \in [Names -> Int]
      BY DEF Names, IInv, Types
    <3> QED
      BY <1>1, <3>1 DEF Removed, None
  <2> HIDE DEF d
  <2>3. c \in Records /\ c.active = active /\ c.state = state
    BY <1>1, <2>2 DEF Records
  <2>4. TooLate(c, g) = TooLate(Here, g)
    BY <1>1, <2>3 DEF TooLate
  <2> HIDE DEF c
  <2>5. CASE k = "active"
    BY <1>1, <2>1, <2>3, <2>4, <2>5, ActivateDoes DEF Set
  <2>6. CASE k = "inactive"
    BY <2>1, <2>3, <2>6, ReleaseDoes DEF Set
  <2>7. CASE k = "only"
    BY <2>1, <2>3, <2>7 DEF Set
  <2> QED
    BY <2>5, <2>6, <2>7
<1>5. ASSUME NEW n \in Names, Fire(n)
      PROVE  \E k \in {"active", "inactive", "only"}, g \in Groups : Fire(<<k, g>>)
  BY <1>5 DEF Names
<1>6. CASE EndMode \/ StartMode \/ Tick
  BY <1>6 DEF EndMode, StartMode, Tick
<1> QED
  BY <1>2, <1>3, <1>4, <1>5, <1>6 DEF Next

\* "both" is posted only while both groups are held, and, with a max_offset_time, only
\* when they have become active within it.
THEOREM BothMeansBothAlways == ASSUME ModeEnds # "any" PROVE Spec => BothMeansBoth
<1> DEFINE Both == /\ \A g \in Groups : Held(g)'
                   /\ MaxOffset >= 0 => active'[1] - active'[2] \in -MaxOffset..MaxOffset
<1>1. IInv /\ IInv' /\ ActiveMeansHeld' /\ [Next]_vars => [state' = "both" /\ state # "both" => Both]_vars
  <2> SUFFICES ASSUME IInv, IInv', ActiveMeansHeld', Next, state' = "both", state # "both"
               PROVE  Both
    OBVIOUS
  <2>1. \A g \in Groups : active'[g] # None
    BY DEF IInv, StateInv
  <2>2. \A g \in Groups : Held(g)'
    BY <2>1 DEF ActiveMeansHeld
  <2>3. ASSUME MaxOffset >= 0
        PROVE  active'[1] - active'[2] \in -MaxOffset..MaxOffset
    <3>1. PICK g \in Groups : /\ active' = [active EXCEPT ![g] = now] /\ now' = now
                              /\ active[Other(g)] # None /\ ~TooLate(Here, g)
      BY BecomesBoth
    <3>2. /\ now \in Nat /\ active \in [Groups -> Int] /\ MaxOffset \in Int
          /\ Other(g) \in Groups /\ Other(g) # g /\ GroupInv(Other(g))
      BY NamesOfGroups, TimesAreNumbers DEF IInv, Types, Times
    <3>3. active[Other(g)] <= now /\ now - active[Other(g)] <= MaxOffset
      BY <2>3, <3>1, <3>2, HereIsARecord DEF IInv, GroupInv, ActiveIsHeld, TooLate
    <3>4. active'[g] = now /\ active'[Other(g)] = active[Other(g)] /\ active[Other(g)] \in Int
      BY <3>1, <3>2
    <3>5. (g = 1 /\ Other(g) = 2) \/ (g = 2 /\ Other(g) = 1)
      BY DEF Groups, Other
    <3> QED
      BY <3>2, <3>3, <3>4, <3>5
  <2> QED
    BY <2>2, <2>3
<1> QED
  BY <1>1, IInvAlways, ActiveMeansHeldAlways, PTL DEF Spec, BothMeansBoth
===============================================================================
