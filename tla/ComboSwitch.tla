------------------------------ MODULE ComboSwitch ------------------------------
(***************************************************************************)
(* A combo switch (mpf/devices/combo_switch.py): two groups of switches, a  *)
(* state that says whether both, one or none of them are held, and the      *)
(* named delays (mpf/core/delays.py) of hold_time, release_time and         *)
(* max_offset_time that debounce it.                                        *)
(***************************************************************************)
EXTENDS Integers, FiniteSetsExt

CONSTANTS PerGroup,        \* switches in each group
          HoldTime, ReleaseTime,
          MaxOffset,       \* max_offset_time, -1 for none
          MaxTime,         \* bound on the clock
          ModeEnds         \* the mode of the device ends and starts again: "never", "quiet", "any"

ASSUME ComboAssumption ==
  /\ {PerGroup, HoldTime, ReleaseTime, MaxTime} \subseteq Nat
  /\ MaxOffset \in Nat \cup {-1}
  /\ ModeEnds \in {"never", "quiet", "any"}

Groups == 1..2
Other(g) == 3 - g
None == -1
\* the names of the delays: "switch_<g>_active", "switch_<g>_inactive", "switch_<g>_only"
Names == {"active", "inactive", "only"} \X Groups

VARIABLES
  now,
  loaded,    \* the handlers of the switches are registered
  on,        \* active switches of each group
  active,    \* _switches_<g>_active: a time, or None for None and False
  state,
  delays,    \* delays.delays: from a name to the time of its callback
  \* history
  pressed,   \* when the group was pressed, short releases left aside
  released,  \* when the last switch of it was released
  solo       \* the group of a switches_<g> event of this step, or None

vars == <<now, loaded, on, active, state, delays, pressed, released, solo>>

TypeOK ==
  /\ now \in 0..MaxTime
  /\ loaded \in BOOLEAN
  /\ on \in [Groups -> 0..PerGroup]
  /\ active \in [Groups -> {None} \cup 0..MaxTime]
  /\ state \in {"inactive", "both", "one"}
  /\ delays \in [Names -> {None} \cup 0..(MaxTime + Max({HoldTime, ReleaseTime, MaxOffset}))]

Init ==
  /\ now = 0 /\ loaded = TRUE
  /\ on = [g \in Groups |-> 0] /\ active = [g \in Groups |-> None]
  /\ state = "inactive" /\ delays = [n \in Names |-> None]
  /\ pressed = [g \in Groups |-> None] /\ released = [g \in Groups |-> None]
  /\ solo = None

(***************************************************************************)
(* The DelayManager, on a function d from names to times.                   *)
(***************************************************************************)
Removed(d, n) == [d EXCEPT ![n] = None]
\* add_if_doesnt_exist
Added(d, n, t) == IF d[n] = None THEN [d EXCEPT ![n] = now + t] ELSE d

(***************************************************************************)
(* The parts of the handlers, as functions of active, state and delays.     *)
(***************************************************************************)
Here == [active |-> active, state |-> state, delays |-> delays]

Set(c) == active' = c.active /\ state' = c.state /\ delays' = c.delays

\* Mutant of TooLate: the distance from the other group is taken the wrong way round.
TooLateReversed(c, g) == MaxOffset >= 0 /\ c.active[Other(g)] - now > MaxOffset

TooLate(c, g) == MaxOffset >= 0 /\ now - c.active[Other(g)] > MaxOffset

\* _activate_switches_1 and _activate_switches_2
Activate(c, g) ==
  LET gone == Removed(c.delays, <<"only", Other(g)>>)
      act == [c.active EXCEPT ![g] = now]
  IN  IF c.active[Other(g)] # None
      THEN [active |-> act, delays |-> gone,
            state |-> IF TooLate(c, g) THEN c.state ELSE "both"]
      ELSE [active |-> act, state |-> c.state,
            delays |-> IF MaxOffset >= 0 THEN Added(gone, <<"only", g>>, MaxOffset) ELSE gone]

\* _release_switches_1 and _release_switches_2
Release(c, g) ==
  [c EXCEPT !.active[g] = None,
            !.state = IF c.active[Other(g)] # None /\ @ = "both" THEN "one"
                      ELSE IF @ = "one" THEN "inactive"
                      ELSE @]

\* Mutant of WentActive: the release that is under way goes on.
WentActiveOnly(c, g) ==
  IF c.active[g] # None THEN c
  ELSE IF HoldTime = 0 THEN Activate(c, g)
  ELSE [c EXCEPT !.delays = Added(c.delays, <<"active", g>>, HoldTime)]

\* _switch_1_went_active and _switch_2_went_active
WentActive(c, g) ==
  LET d == Removed(c.delays, <<"inactive", g>>) IN
    IF c.active[g] # None THEN [c EXCEPT !.delays = d]
    ELSE IF HoldTime = 0 THEN Activate([c EXCEPT !.delays = d], g)
    ELSE [c EXCEPT !.delays = Added(d, <<"active", g>>, HoldTime)]

\* _switch_1_went_inactive and _switch_2_went_inactive
WentInactive(c, g, left) ==
  LET d == Removed(c.delays, <<"active", g>>) IN
    IF left # 0 THEN c
    ELSE IF ReleaseTime = 0 THEN Release([c EXCEPT !.delays = d], g)
    ELSE [c EXCEPT !.delays = Added(d, <<"inactive", g>>, ReleaseTime)]

\* A group is held when one of its switches has been on for hold_time, or was until at most
\* release_time ago.
Held(g) ==
  IF on[g] > 0 THEN now - pressed[g] >= HoldTime
  ELSE released[g] # None /\ now - released[g] <= ReleaseTime /\ released[g] - pressed[g] >= HoldTime

(***************************************************************************)
(* Actions                                                                  *)
(***************************************************************************)
Press(g) ==
  /\ on[g] < PerGroup
  /\ on' = [on EXCEPT ![g] = @ + 1]
  /\ pressed' = IF on[g] > 0 \/ Held(g) THEN pressed ELSE [pressed EXCEPT ![g] = now]
  /\ Set(IF loaded THEN WentActive(Here, g) ELSE Here)
  /\ solo' = None
  /\ UNCHANGED <<now, loaded, released>>

LetGo(g) ==
  /\ on[g] > 0
  /\ on' = [on EXCEPT ![g] = @ - 1]
  /\ released' = IF on[g] = 1 THEN [released EXCEPT ![g] = now] ELSE released
  /\ Set(IF loaded THEN WentInactive(Here, g, on[g] - 1) ELSE Here)
  /\ solo' = None
  /\ UNCHANGED <<now, loaded, pressed>>

\* _process_delay_callback: the entry goes before the callback is called
Fire(n) ==
  /\ delays[n] # None /\ delays[n] <= now
  /\ LET c == [Here EXCEPT !.delays = Removed(delays, n)]
         g == n[2]
     IN  CASE n[1] = "active" -> Set(Activate(c, g)) /\ solo' = None
           [] n[1] = "inactive" -> Set(Release(c, g)) /\ solo' = None
           [] n[1] = "only" -> Set(c) /\ solo' = g    \* _post_only_one_active_event
  /\ UNCHANGED <<now, loaded, on, pressed, released>>

Quiet == \A n \in Names : delays[n] = None

\* device_removed_from_mode: the delays go, the state stays
EndMode ==
  /\ loaded
  /\ ModeEnds = "any" \/ (ModeEnds = "quiet" /\ Quiet /\ \A g \in Groups : active[g] = None)
  /\ loaded' = FALSE
  /\ delays' = [n \in Names |-> None]
  /\ solo' = None
  /\ UNCHANGED <<now, on, active, state, pressed, released>>

\* device_loaded_in_mode: switches that are held at that time are not looked at
StartMode ==
  /\ ~loaded
  /\ ModeEnds # "quiet" \/ \A g \in Groups : on[g] = 0
  /\ loaded' = TRUE
  /\ solo' = None
  /\ UNCHANGED <<now, on, active, state, delays, pressed, released>>

\* time passes when every callback that is due has been called
Tick ==
  /\ now < MaxTime
  /\ \A n \in Names : delays[n] = None \/ delays[n] > now
  /\ now' = now + 1
  /\ solo' = None
  /\ UNCHANGED <<loaded, on, active, state, delays, pressed, released>>

Next ==
  \/ \E g \in Groups : Press(g) \/ LetGo(g)
  \/ \E n \in Names : Fire(n)
  \/ EndMode \/ StartMode \/ Tick

Spec == Init /\ [][Next]_vars

(***************************************************************************)
(* Properties                                                               *)
(***************************************************************************)
\* The event of state "both" is only posted while both groups are held, and, with a
\* max_offset_time, only when they have become active within it: broken holds, releases
\* that are taken back and delays left from earlier presses never make a combo.
BothMeansBoth ==
  [][state' = "both" /\ state # "both" =>
       /\ \A g \in Groups : Held(g)'
       /\ MaxOffset >= 0 => active'[1] - active'[2] \in -MaxOffset..MaxOffset]_vars

\* Once every hold and release has run out, the groups that count as active are those with a
\* switch that is on, and the state tells them: with "both", each group has one, and with
\* "one" at least one of them.
QuietStateIsTrue ==
  loaded /\ (\A g \in Groups : delays[<<"active", g>>] = None /\ delays[<<"inactive", g>>] = None)
    => /\ \A g \in Groups : active[g] # None <=> on[g] > 0
       /\ state = "both" => \A g \in Groups : on[g] > 0
       /\ state = "one" => \E g \in Groups : on[g] > 0

\* The description of the event (name)_inactive: "Both switches are inactive."  Not
\* claimed by a run: TLC refutes it, the release of a group in state "one" does not look at
\* the other group.
InactiveMeansNone ==
  [][state' = "inactive" /\ state # "inactive" => \A g \in Groups : active'[g] = None]_vars

\* The description of the event (name)_switches_1: "Only switches_1 is active.
\* max_offset_time has passed and this hit cannot become both later on."  Not claimed
\* by a run: TLC refutes it, the delay of the event outlives the release of its group.
OnlyMeansOnly == solo # None => active[solo] # None /\ active[Other(solo)] = None
================================================================================
