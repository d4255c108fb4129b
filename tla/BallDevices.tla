------------------------------ MODULE BallDevices ------------------------------
(***************************************************************************)
(* A chain of ball devices (mpf/devices/ball_device), from the trough to    *)
(* the playfield: counting, requesting, ejecting, confirming and losing     *)
(* balls.                                                                   *)
(*                                                                         *)
(* Every device has two tasks that wait a lot: one counts the balls, one    *)
(* ejects them.  They look at switches that settle late and at the tasks of *)
(* the next device.  The balls themselves do as they like: they arrive, or  *)
(* fall back, or vanish, early or late, and others come in from the         *)
(* playfield in the meantime.                                               *)
(***************************************************************************)
EXTENDS Integers, FiniteSetsExt

CONSTANTS Last,       \* the devices are 1..Last; 1 is the trough
          Capacity,   \* ball switches of each device
          Balls,      \* balls in the machine
          ByEvent,    \* devices whose confirm_eject_type is event or switch
          MaxMishaps, \* bound on balls that fall back, go astray or vanish
          MaxWanted,  \* bound on queued ball requests
          Unusual     \* what may happen besides, see BallAssumption

ASSUME BallAssumption ==
  /\ Last \in Nat \ {0}
  /\ Capacity \in [1..Last -> Nat \ {0}]
  /\ Balls \in 0..Capacity[1]
  /\ ByEvent \subseteq 1..(Last - 1)
  /\ MaxMishaps \in Nat
  /\ MaxWanted \in Nat
  \* "two_gone": a device after the trough loses two balls at once; "double_entry": a ball enters
  \* while the task that waits for a ball handles another one; "midway": an eject
  \* is cancelled while that task handles a ball; "unpicked": a ball is given up
  \* before the next device has picked up the request for it; "both": a ball
  \* arrives and another one enters its source before the source's task looks;
  \* "late_look": a ball leaves the trough again before the task that waits for
  \* one looks at the count
  /\ Unusual \subseteq {"two_gone", "double_entry", "midway", "unpicked", "both", "late_look"}

Devices == 1..Last
Playfield == Last + 1
Places == 1..Playfield

VARIABLES
  \* the machine
  inside,           \* balls in each device
  flying,           \* balls between each device and the next place
  loose,            \* balls on the playfield
  mishaps,
  \* the counters
  last_count,       \* _last_count
  stable,           \* _count_stable
  \* the count handlers
  ball_count,       \* _ball_count
  counting,         \* holder of _is_counting: "free", "eject", or the stage of _run
  recount,          \* _run has a reason for another pass
  count_valid,      \* _count_valid
  arrivals,         \* balls the pass has still to handle (or found missing)
  waiter,           \* stage of wait_for_ball
  noted,            \* its local new_balls
  waiter_arrivals,  \* balls it has still to handle
  \* the eject trackers
  surplus,          \* _num_unknown_balls - _num_lost_balls
  unknown_balls,    \* _unknown_balls is done
  heard,            \* the future of it that the late confirmation holds is done
  \* the outgoing handlers
  pc,               \* where the task stands
  queue,            \* length of _eject_queue
  cancelled,        \* _cancel_future is done
  ball,             \* the IncomingBall of the current eject
  \* the books
  awaited,          \* confirmed balls in _incoming_balls, which may time out
  available_balls,
  playfield_balls,  \* balls of the playfield
  num_balls_requested,
  wanted            \* entries of all _ball_requests, by their target

machine == <<inside, flying, loose, mishaps>>
counter == <<last_count, stable>>
handler == <<ball_count, counting, recount, count_valid, arrivals>>
waiting == <<waiter, noted, waiter_arrivals>>
tracker == <<surplus, unknown_balls, heard>>
outgoing == <<pc, queue, cancelled, ball>>
books == <<awaited, available_balls, playfield_balls, num_balls_requested, wanted>>
vars == <<machine, counter, handler, waiting, tracker, outgoing, books>>

Init ==
  /\ inside = [d \in Devices |-> IF d = 1 THEN Balls ELSE 0]
  /\ flying = [d \in Devices |-> 0]
  /\ loose = 0
  /\ mishaps = 0
  /\ last_count = inside
  /\ stable = [d \in Devices |-> TRUE]
  /\ ball_count = inside
  /\ counting = [d \in Devices |-> "free"]
  /\ recount = [d \in Devices |-> FALSE]
  /\ count_valid = [d \in Devices |-> TRUE]
  /\ arrivals = [d \in Devices |-> 0]
  /\ waiter = [d \in Devices |-> "off"]
  /\ noted = [d \in Devices |-> 0]
  /\ waiter_arrivals = [d \in Devices |-> 0]
  /\ surplus = [d \in Devices |-> 0]
  /\ unknown_balls = [d \in Devices |-> FALSE]
  /\ heard = [d \in Devices |-> FALSE]
  /\ pc = [d \in Devices |-> "idle"]
  /\ queue = [d \in Devices |-> 0]
  /\ cancelled = [d \in Devices |-> FALSE]
  /\ ball = [d \in Devices |-> "none"]
  /\ awaited = [d \in Devices |-> 0]
  /\ available_balls = [p \in Places |-> IF p = 1 THEN Balls ELSE 0]
  /\ playfield_balls = 0
  /\ num_balls_requested = 0
  /\ wanted = [p \in Places |-> 0]

Idle(d) == pc[d] = "idle" /\ queue[d] = 0
HasTarget(d) == pc[d] # "idle"

\* The stages of an eject between start_eject() and end_eject().
InEject == {"will_eject", "ejecting", "ball_left", "recounting", "grace",
            "missing", "lost", "ending"}

\* Ball of the eject that is somewhere between here and the next place.
UnderWay(d) == ball[d] = "left"

-------------------------------------------------------------------------------
(* Requests: setup_eject_chain() moves one available ball in the books at    *)
(* once and leaves an eject with every device on the way.                   *)

Chain(avail, s, p) == [avail EXCEPT ![s] = @ - 1, ![p] = @ + 1]
\* Mutant of Hops: only the source gets an eject.
HopsOfSource(s, p) == [d \in Devices |-> queue[d] + (IF d = s THEN 1 ELSE 0)]

Hops(s, p) == [d \in Devices |-> queue[d] + (IF d \in s..(p - 1) THEN 1 ELSE 0)]

\* The nearest device before p with an available ball (find_one_available_ball),
\* or 0.
SourceFor(p, avail) ==
  LET rich == {d \in 1..(p - 1) : avail[d] > 0}
  IN  IF rich = {} THEN 0 ELSE CHOOSE d \in rich : \A e \in rich : e <= d

\* _setup_or_queue_eject_to_target(p), asked of the device s.
SetupOrQueue(s, p, avail) ==
  LET source == IF s < p /\ avail[s] > 0 THEN s ELSE SourceFor(IF s < p THEN s ELSE p, avail)
  IN  IF source = 0
      THEN /\ wanted' = [wanted EXCEPT ![p] = @ + 1]
           /\ available_balls' = avail
           /\ UNCHANGED queue
      ELSE /\ available_balls' = Chain(avail, source, p)
           /\ queue' = Hops(source, p)
           /\ UNCHANGED wanted

TotalWanted == wanted[Playfield] + Cardinality({d \in Devices : wanted[d] > 0})

\* Playfield.add_ball(): from the default source, here the trough.
AddBall ==
  /\ TotalWanted < MaxWanted \/ available_balls[1] > 0
  /\ SetupOrQueue(1, Playfield, available_balls)
  /\ UNCHANGED <<machine, counter, handler, waiting, tracker, pc, cancelled, ball,
                 awaited, playfield_balls, num_balls_requested>>

\* request_ball() of a device that is to keep a ball.
RequestBall(d) ==
  /\ d > 1
  /\ available_balls[d] < Capacity[d]
  /\ TotalWanted < MaxWanted \/ SourceFor(d, available_balls) # 0
  /\ SetupOrQueue(d, d, available_balls)
  /\ UNCHANGED <<machine, counter, handler, waiting, tracker, pc, cancelled, ball,
                 awaited, playfield_balls, num_balls_requested>>

\* eject_all() of a device that keeps balls.
EjectKept(d) ==
  /\ d > 1
  /\ available_balls[d] > 0
  /\ SetupOrQueue(d, Playfield, available_balls)
  /\ UNCHANGED <<machine, counter, handler, waiting, tracker, pc, cancelled, ball,
                 awaited, playfield_balls, num_balls_requested>>

-------------------------------------------------------------------------------
(* A ball in a device: IncomingBallsHandler.ball_arrived() and what it       *)
(* leads to.                                                                *)

Expected(d) == awaited[d] > 0 \/ (d > 1 /\ UnderWay(d - 1) /\ (d - 1) \notin ByEvent)

\* The first ball that can have arrived did arrive.
ReceiveExpected(d) ==
  /\ Expected(d)
  /\ IF awaited[d] > 0
     THEN awaited' = [awaited EXCEPT ![d] = @ - 1] /\ UNCHANGED ball
     ELSE ball' = [ball EXCEPT ![d - 1] = "arrived"] /\ UNCHANGED awaited
  /\ UNCHANGED <<queue, available_balls, playfield_balls, wanted>>

\* The ball came from the playfield, which thereby was active: that confirms the
\* eject to it if it had no ball before.  The trough keeps the ball and serves a
\* request; other devices eject it again.
ReceiveUnexpected(d) ==
  /\ ~Expected(d)
  /\ ball' = IF playfield_balls <= 0 /\ UnderWay(Last)
             THEN [ball EXCEPT ![Last] = "arrived"] ELSE ball
  /\ playfield_balls' = playfield_balls - 1
  /\ LET avail == [available_balls EXCEPT ![Playfield] = @ - 1, ![d] = @ + 1]
         asked == {p \in Places : p > 1 /\ wanted[p] > 0}
     IN  IF avail[d] <= 0 \/ (d = 1 /\ asked = {})
         THEN available_balls' = avail /\ UNCHANGED <<queue, wanted>>
         ELSE \E p \in IF d = 1 THEN asked ELSE {Playfield} :
                /\ available_balls' = Chain(avail, d, p)
                /\ queue' = Hops(d, p)
                /\ wanted' = IF d = 1 THEN [wanted EXCEPT ![p] = @ - 1] ELSE wanted
  /\ UNCHANGED awaited

ReceiveBall(d) == ReceiveExpected(d) \/ ReceiveUnexpected(d)

-------------------------------------------------------------------------------
(* Counting.                                                                *)

\* _set_ball_count() wakes the task that waits for room in this device.
Woken(d, pcs) ==
  [e \in Devices |-> IF e = d - 1 /\ pcs[e] = "target_full"
                     THEN "waiting_for_target_ready" ELSE pcs[e]]

\* Mutant of SetBallCount: nobody is woken.
SetBallCountSilently(d, n, pcs) ==
  /\ ball_count' = [ball_count EXCEPT ![d] = n]
  /\ pc' = pcs

SetBallCount(d, n, pcs) ==
  /\ ball_count' = [ball_count EXCEPT ![d] = n]
  /\ pc' = Woken(d, pcs)

\* The switches have been quiet long enough: the counter's task counts them and
\* tells the count handler and the tracker of an eject.
Settle(d) ==
  /\ ~stable[d]
  /\ stable' = [stable EXCEPT ![d] = TRUE]
  /\ last_count' = [last_count EXCEPT ![d] = inside[d]]
  /\ LET new == inside[d] - last_count[d]
         tracked == counting[d] = "eject" /\ pc[d] # "will_eject"
         rest == surplus[d] + new
     IN  /\ recount' = [recount EXCEPT ![d] = @ \/ new # 0]
         /\ IF tracked /\ new # 0
            THEN /\ surplus' = [surplus EXCEPT ![d] = rest]
                 /\ unknown_balls' = [unknown_balls EXCEPT ![d] = new > 0 \/ (@ /\ rest > 0)]
                 /\ heard' = [heard EXCEPT
                      ![d] = @ \/ (new > 0 /\ pc[d] \in {"recounting", "grace", "missing"})]
            ELSE UNCHANGED tracker
         \* activity ends the wait for a missing ball
         /\ IF counting[d] = "missing" /\ new # 0
            THEN /\ counting' = [counting EXCEPT ![d] = "free"]
                 /\ count_valid' = [count_valid EXCEPT ![d] = TRUE]
                 /\ arrivals' = [arrivals EXCEPT ![d] = 0]
            ELSE UNCHANGED <<counting, count_valid, arrivals>>
  /\ UNCHANGED <<machine, ball_count, waiting, outgoing, books>>

\* A pass of _run: it takes the lock ...
BeginCount(d) ==
  /\ counting[d] = "free"
  /\ recount[d]
  /\ counting' = [counting EXCEPT ![d] = "count"]
  /\ recount' = [recount EXCEPT ![d] = FALSE]
  /\ UNCHANGED <<machine, counter, ball_count, count_valid, arrivals, waiting, tracker, outgoing, books>>

\* ... waits for a stable count and compares it with the one it had.  Balls that
\* are missing while there is something to eject are left to the eject.
CountBalls(d) ==
  /\ counting[d] = "count"
  /\ stable[d]
  /\ LET new == last_count[d] - ball_count[d]
     IN  \/ /\ new > 0
            /\ SetBallCount(d, last_count[d], pc)
            /\ arrivals' = [arrivals EXCEPT ![d] = new]
            /\ counting' = [counting EXCEPT ![d] = "arrivals"]
            /\ UNCHANGED count_valid
         \/ /\ new < 0
            /\ Idle(d)
            /\ arrivals' = [arrivals EXCEPT ![d] = -new]
            /\ counting' = [counting EXCEPT ![d] = "missing"]
            /\ UNCHANGED <<ball_count, pc, count_valid>>
         \/ /\ new = 0 \/ (new < 0 /\ ~Idle(d))
            /\ counting' = [counting EXCEPT ![d] = "free"]
            /\ count_valid' = [count_valid EXCEPT ![d] = TRUE]
            /\ UNCHANGED <<ball_count, pc, arrivals>>
  /\ UNCHANGED <<machine, counter, recount, waiting, tracker, queue, cancelled, ball, books>>

\* One of the new balls, and after the last one the lock is released.
CountArrival(d) ==
  /\ counting[d] = "arrivals"
  /\ ReceiveBall(d)
  /\ arrivals' = [arrivals EXCEPT ![d] = @ - 1]
  /\ IF arrivals[d] = 1
     THEN /\ counting' = [counting EXCEPT ![d] = "free"]
          /\ count_valid' = [count_valid EXCEPT ![d] = TRUE]
     ELSE UNCHANGED <<counting, count_valid>>
  /\ UNCHANGED <<machine, counter, ball_count, recount, waiting, tracker, pc, cancelled, num_balls_requested>>

\* Mutant of IdleBallLost: add_missing_balls() forgets the playfield's count.
IdleBallForgotten(d) ==
  /\ counting[d] = "missing"
  /\ SetBallCount(d, ball_count[d] - arrivals[d], pc)
  /\ available_balls' = [available_balls EXCEPT ![d] = @ - arrivals[d],
                                                ![Playfield] = @ + arrivals[d]]
  /\ arrivals' = [arrivals EXCEPT ![d] = 0]
  /\ counting' = [counting EXCEPT ![d] = "free"]
  /\ count_valid' = [count_valid EXCEPT ![d] = TRUE]
  /\ UNCHANGED <<machine, counter, recount, waiting, tracker, queue, cancelled, ball,
                 awaited, playfield_balls, num_balls_requested, wanted>>

\* idle_missing_ball_timeout: the balls are gone, probably to the playfield.
IdleBallLost(d) ==
  /\ counting[d] = "missing"
  /\ SetBallCount(d, ball_count[d] - arrivals[d], pc)
  /\ available_balls' = [available_balls EXCEPT ![d] = @ - arrivals[d],
                                                ![Playfield] = @ + arrivals[d]]
  /\ playfield_balls' = playfield_balls + arrivals[d]
  /\ arrivals' = [arrivals EXCEPT ![d] = 0]
  /\ counting' = [counting EXCEPT ![d] = "free"]
  /\ count_valid' = [count_valid EXCEPT ![d] = TRUE]
  /\ UNCHANGED <<machine, counter, recount, waiting, tracker, queue, cancelled, ball,
                 awaited, num_balls_requested, wanted>>

-------------------------------------------------------------------------------
(* wait_for_ball(): the outgoing task counts too, and without the lock.      *)

\* A cancellation stops it, unless it was about to go on.
GoesOn(d) == cancelled[d] => "midway" \in Unusual

NoteBalls(d) ==
  /\ waiter[d] = "waiting"
  /\ GoesOn(d)
  /\ stable[d]
  /\ last_count[d] # 0
  /\ noted' = [noted EXCEPT ![d] = last_count[d]]
  /\ waiter' = [waiter EXCEPT ![d] = "noted"]
  /\ UNCHANGED <<machine, counter, handler, waiter_arrivals, tracker, outgoing, books>>

UpdateCount(d) ==
  /\ waiter[d] = "noted"
  /\ GoesOn(d)
  /\ ball_count' = [ball_count EXCEPT ![d] = noted[d]]
  /\ IF noted[d] > ball_count[d]
     THEN /\ waiter_arrivals' = [waiter_arrivals EXCEPT ![d] = noted[d] - ball_count[d]]
          /\ waiter' = [waiter EXCEPT ![d] = "arrivals"]
     ELSE /\ waiter' = [waiter EXCEPT ![d] = "done"]
          /\ UNCHANGED waiter_arrivals
  /\ UNCHANGED <<machine, counter, counting, recount, count_valid, arrivals, noted, tracker, outgoing, books>>

WaiterArrival(d) ==
  /\ waiter[d] = "arrivals"
  /\ ReceiveBall(d)
  /\ waiter_arrivals' = [waiter_arrivals EXCEPT ![d] = @ - 1]
  /\ IF waiter_arrivals[d] = 1
     THEN /\ SetBallCount(d, noted[d], pc)
          /\ waiter' = [waiter EXCEPT ![d] = "done"]
     ELSE UNCHANGED <<ball_count, pc, waiter>>
  /\ UNCHANGED <<machine, counter, counting, recount, count_valid, arrivals, noted, tracker,
                 cancelled, num_balls_requested>>

-------------------------------------------------------------------------------
(* The outgoing task up to the coil.                                        *)

Goto(d, stage) == pc' = [pc EXCEPT ![d] = stage]

\* Mutant of Validate: no pass of _run is asked for.
ValidateLater(d) ==
  /\ Goto(d, "validating")
  /\ count_valid' = [count_valid EXCEPT ![d] = FALSE]
  /\ UNCHANGED recount

\* Before every attempt the count is validated by another pass of _run.
Validate(d) ==
  /\ Goto(d, "validating")
  /\ count_valid' = [count_valid EXCEPT ![d] = FALSE]
  /\ recount' = [recount EXCEPT ![d] = TRUE]

TakeRequest(d) ==
  /\ pc[d] = "idle"
  /\ queue[d] > 0
  /\ queue' = [queue EXCEPT ![d] = @ - 1]
  /\ Validate(d)
  /\ UNCHANGED <<machine, counter, ball_count, counting, arrivals, waiting, tracker,
                 cancelled, ball, books>>

NoIncomingBalls(d) == awaited[d] = 0 /\ (d > 1 => ~UnderWay(d - 1))

\* With the playfield ahead, balls that come in would confirm the wrong eject.
Validated(d) ==
  /\ pc[d] = "validating"
  /\ count_valid[d]
  /\ (d = Last /\ ball_count[d] < Capacity[d]) => NoIncomingBalls(d)
  /\ IF ball_count[d] > 0
     THEN Goto(d, "waiting_for_target_ready") /\ UNCHANGED waiter
     ELSE Goto(d, "waiting_for_ball") /\ waiter' = [waiter EXCEPT ![d] = "waiting"]
  /\ UNCHANGED <<machine, counter, handler, noted, waiter_arrivals, tracker, queue,
                 cancelled, ball, books>>

LeaveWait(d, stage) ==
  /\ Goto(d, stage)
  /\ waiter' = [waiter EXCEPT ![d] = "off"]
  /\ noted' = [noted EXCEPT ![d] = 0]
  /\ waiter_arrivals' = [waiter_arrivals EXCEPT ![d] = 0]
  /\ cancelled' = [cancelled EXCEPT ![d] = FALSE]
  /\ UNCHANGED <<machine, counter, handler, tracker, queue, ball, books>>

BallCame(d) ==
  /\ pc[d] = "waiting_for_ball"
  /\ waiter[d] = "done"
  /\ ~cancelled[d]
  /\ LeaveWait(d, "waiting_for_target_ready")

EjectCancelled(d) ==
  /\ pc[d] = "waiting_for_ball"
  /\ cancelled[d]
  /\ LeaveWait(d, "idle")

Incoming(d) == awaited[d] + (IF d > 1 /\ UnderWay(d - 1) THEN 1 ELSE 0)
HasRoom(d) == Capacity[d] - ball_count[d] > Incoming(d)

\* wait_for_ready_to_receive() of the target.  Without room it sleeps until the
\* target's count changes; a target whose switches are moving or that ejects to
\* the playfield is waited for.
TargetReady(d) ==
  /\ pc[d] = "waiting_for_target_ready"
  /\ IF d = Last THEN Goto(d, "start_eject")
     ELSE IF ~HasRoom(d + 1) THEN Goto(d, "target_full")
     ELSE /\ stable[d + 1] /\ last_count[d + 1] # Capacity[d + 1]
          /\ d + 1 = Last => pc[d + 1] \notin InEject \cup {"start_eject", "checking"}
          /\ Goto(d, "start_eject")
  /\ UNCHANGED <<machine, counter, handler, waiting, tracker, queue, cancelled, ball, books>>

\* Mutant of StartEject: the pass of _run that follows the eject is forgotten.
StartEjectUncounted(d) ==
  /\ pc[d] = "start_eject"
  /\ counting[d] = "free"
  /\ counting' = [counting EXCEPT ![d] = "eject"]
  /\ num_balls_requested' = num_balls_requested + (IF d = Last THEN 1 ELSE 0)
  /\ recount' = [recount EXCEPT ![d] = FALSE]
  /\ Goto(d, "will_eject")
  /\ UNCHANGED <<machine, counter, ball_count, count_valid, arrivals, waiting, tracker,
                 queue, cancelled, ball, awaited, available_balls, playfield_balls, wanted>>

\* The eject holds the lock on counting from here to its end.
StartEject(d) ==
  /\ pc[d] = "start_eject"
  /\ counting[d] = "free"
  /\ counting' = [counting EXCEPT ![d] = "eject"]
  /\ num_balls_requested' = num_balls_requested + (IF d = Last THEN 1 ELSE 0)
  /\ recount' = [recount EXCEPT ![d] = TRUE]
  /\ Goto(d, "will_eject")
  /\ UNCHANGED <<machine, counter, ball_count, count_valid, arrivals, waiting, tracker,
                 queue, cancelled, ball, awaited, available_balls, playfield_balls, wanted>>

\* Once the count is stable the tracker waits for a switch to open and the coil
\* fires.  A device that turns out to be empty counts as having ejected.
WillEject(d) ==
  /\ pc[d] = "will_eject"
  /\ stable[d]
  /\ IF inside[d] > 0
     THEN Goto(d, "ejecting") /\ UNCHANGED ball
     ELSE Goto(d, "ball_left") /\ ball' = [ball EXCEPT ![d] = "left"]
  /\ UNCHANGED <<machine, counter, handler, waiting, tracker, queue, cancelled, books>>

-------------------------------------------------------------------------------
(* From the coil to the confirmation.                                       *)

\* _ball_left(): the count falls at once, before the switches are quiet.  What
\* left is on its way to the target.
BallLeaves(d) ==
  /\ pc[d] = "ejecting"
  /\ \E n \in 1..2 :
       /\ n <= inside[d]
       /\ n = 2 => "two_gone" \in Unusual /\ mishaps < MaxMishaps
       /\ inside' = [inside EXCEPT ![d] = @ - n]
       /\ flying' = [flying EXCEPT ![d] = @ + n]
       /\ mishaps' = mishaps + n - 1
  /\ last_count' = [last_count EXCEPT ![d] = @ - 1]
  /\ stable' = [stable EXCEPT ![d] = FALSE]
  /\ Goto(d, "ball_left")
  /\ ball' = [ball EXCEPT ![d] = "left"]
  /\ UNCHANGED <<loose, handler, waiting, tracker, queue, cancelled, books>>

\* Mutant of EjectFailed: every failed eject counts as one to the playfield.
EjectFailedAnywhere(d) ==
  /\ counting' = [counting EXCEPT ![d] = "free"]
  /\ surplus' = [surplus EXCEPT ![d] = 0]
  /\ unknown_balls' = [unknown_balls EXCEPT ![d] = FALSE]
  /\ heard' = [heard EXCEPT ![d] = FALSE]
  /\ ball' = [ball EXCEPT ![d] = "none"]
  /\ num_balls_requested' = num_balls_requested - 1
  /\ Validate(d)

\* end_eject(False) and the next attempt.
EjectFailed(d) ==
  /\ counting' = [counting EXCEPT ![d] = "free"]
  /\ surplus' = [surplus EXCEPT ![d] = 0]
  /\ unknown_balls' = [unknown_balls EXCEPT ![d] = FALSE]
  /\ heard' = [heard EXCEPT ![d] = FALSE]
  /\ ball' = [ball EXCEPT ![d] = "none"]
  /\ num_balls_requested' = num_balls_requested - (IF d = Last THEN 1 ELSE 0)
  /\ Validate(d)

\* eject_timeout: no ball left the device.
EjectTimeout(d) ==
  /\ pc[d] = "ejecting"
  /\ EjectFailed(d)
  /\ UNCHANGED <<machine, counter, ball_count, arrivals, waiting, queue, cancelled,
                 awaited, available_balls, playfield_balls, wanted>>

\* A switch or an event on the way confirms the eject; the target still awaits
\* the ball.
ExternalConfirm(d) ==
  /\ d \in ByEvent
  /\ UnderWay(d)
  /\ flying[d] > 0
  /\ ball' = [ball EXCEPT ![d] = "arrived"]
  /\ awaited' = [awaited EXCEPT ![d + 1] = @ + 1]
  /\ UNCHANGED <<machine, counter, handler, waiting, tracker, pc, queue, cancelled,
                 available_balls, playfield_balls, num_balls_requested, wanted>>

\* A switch of the playfield confirms the eject if no ball was there before.
PlayfieldHit ==
  /\ loose > 0
  /\ playfield_balls <= 0
  /\ UnderWay(Last)
  /\ ball' = [ball EXCEPT ![Last] = "arrived"]
  /\ UNCHANGED <<machine, counter, handler, waiting, tracker, pc, queue, cancelled, books>>

\* _handle_eject_success()
EjectSuccess(d) ==
  /\ Goto(d, "ending")
  /\ IF d = Last
     THEN /\ playfield_balls' = playfield_balls + 1
          /\ num_balls_requested' = num_balls_requested - 1
     ELSE UNCHANGED <<playfield_balls, num_balls_requested>>
  /\ UNCHANGED <<machine, counter, handler, waiting, tracker, queue, cancelled,
                 awaited, available_balls, wanted>>

Confirmed(d) ==
  /\ pc[d] \in {"ball_left", "recounting", "missing"}
  /\ pc[d] = "recounting" => count_valid[d + 1]
  /\ ball[d] = "arrived"
  /\ EjectSuccess(d)
  /\ UNCHANGED ball

\* No confirmation in time.  The target is asked to count again, or the
\* playfield gets another moment.
ConfirmTimeout(d) ==
  /\ pc[d] = "ball_left"
  /\ UnderWay(d)
  /\ heard' = [heard EXCEPT ![d] = unknown_balls[d]]
  /\ IF d = Last
     THEN Goto(d, "grace") /\ UNCHANGED <<count_valid, recount>>
     ELSE /\ Goto(d, "recounting")
          /\ count_valid' = [count_valid EXCEPT ![d + 1] = FALSE]
          /\ recount' = [recount EXCEPT ![d + 1] = TRUE]
  /\ UNCHANGED <<machine, counter, ball_count, counting, arrivals, waiting,
                 surplus, unknown_balls, queue, cancelled, ball, books>>

NotYetThere(d) ==
  /\ \/ pc[d] = "recounting" /\ count_valid[d + 1] /\ UnderWay(d)
     \/ pc[d] = "grace" /\ heard[d]
  /\ Goto(d, "missing")
  /\ UNCHANGED <<machine, counter, handler, waiting, tracker, queue, cancelled, ball, books>>

\* Nothing came back: the ball must be on the playfield.
PlayfieldTimeoutConfirm(d) ==
  /\ pc[d] = "grace"
  /\ ~heard[d]
  /\ EjectSuccess(d)
  /\ ball' = [ball EXCEPT ![d] = "arrived"]

\* A ball that the device cannot tell from the one that left came in: that one
\* is taken to have returned.
BallReturned(d) ==
  /\ pc[d] = "missing"
  /\ heard[d]
  /\ ball[d] = "arrived" => "both" \in Unusual /\ d \notin ByEvent
  /\ EjectFailed(d)
  /\ UNCHANGED <<machine, counter, ball_count, arrivals, waiting, queue, cancelled,
                 awaited, available_balls, playfield_balls, wanted>>

\* ball_missing_timeout: the ball neither arrived nor returned.
GiveUp(d) ==
  /\ pc[d] = "missing"
  /\ ~heard[d]
  /\ UnderWay(d)
  /\ Goto(d, "lost")
  /\ ball' = [ball EXCEPT ![d] = "lost"]
  /\ UNCHANGED <<machine, counter, handler, waiting, tracker, queue, cancelled, books>>

\* cancel_path_if_target_is(): all devices from t on wait for the lost ball.
Cancellable(t) == \A e \in t..Last : pc[e] = "waiting_for_ball" /\ ~cancelled[e]

\* find_available_ball_in_path(): the lost ball was to go somewhere all the same.
InPath(t) ==
  \E e \in t..Last :
    /\ \A f \in t..(e - 1) : HasTarget(f)
    /\ IF HasTarget(e) THEN e = Last ELSE available_balls[e] > 0

\* lost_ejected_ball() and lost_incoming_ball(): the ball was to reach t; s asks
\* for another one.  The lost one is booked to the playfield.
LostOnTheWay(s, t) ==
  /\ \/ /\ Cancellable(t)
        /\ \A e \in t..Last : waiter[e] = "arrivals" => "midway" \in Unusual
        /\ cancelled' = [e \in Devices |-> cancelled[e] \/ e >= t]
        /\ UNCHANGED <<available_balls, queue, wanted>>
     \/ /\ ~Cancellable(t)
        /\ InPath(t)
        /\ SetupOrQueue(s, t, [available_balls EXCEPT ![t] = @ - 1, ![Playfield] = @ + 1])
        /\ UNCHANGED cancelled
     \/ /\ ~Cancellable(t) /\ ~InPath(t)
        /\ "unpicked" \in Unusual
        /\ available_balls' = [available_balls EXCEPT ![Playfield] = @ + 1]
        /\ UNCHANGED <<cancelled, queue, wanted>>
  /\ playfield_balls' = playfield_balls + 1

LostEjectedBall(d) ==
  /\ pc[d] = "lost"
  /\ LostOnTheWay(d, d + 1)
  /\ Goto(d, "ending")
  /\ UNCHANGED <<machine, counter, handler, waiting, tracker, ball, awaited, num_balls_requested>>

\* The target's own timeout of a ball that was confirmed on the way.
LostIncomingBall(t) ==
  /\ awaited[t] > 0
  /\ counting[t] # "eject"
  /\ awaited' = [awaited EXCEPT ![t] = @ - 1]
  /\ LostOnTheWay(t, t)
  /\ UNCHANGED <<machine, counter, handler, waiting, tracker, pc, ball, num_balls_requested>>

\* end_eject(True).
EndEject(d) ==
  /\ pc[d] = "ending"
  /\ SetBallCount(d, ball_count[d] - 1, [pc EXCEPT ![d] = IF d = 1 THEN "idle" ELSE "checking"])
  /\ counting' = [counting EXCEPT ![d] = "free"]
  /\ surplus' = [surplus EXCEPT ![d] = 0]
  /\ unknown_balls' = [unknown_balls EXCEPT ![d] = FALSE]
  /\ heard' = [heard EXCEPT ![d] = FALSE]
  /\ ball' = [ball EXCEPT ![d] = "none"]
  /\ UNCHANGED <<machine, counter, recount, count_valid, arrivals, waiting, queue, cancelled, books>>

\* Except in a trough, more balls may have left than the one: they are lost, and
\* as many requests are dropped.
CheckLeft(d) ==
  /\ pc[d] = "checking"
  /\ stable[d]
  /\ LET gone == ball_count[d] - last_count[d]
     IN  IF gone > 0
         THEN /\ SetBallCount(d, last_count[d], [pc EXCEPT ![d] = "idle"])
              /\ available_balls' = [available_balls EXCEPT ![d] = @ - 1, ![Playfield] = @ + 1]
              /\ playfield_balls' = playfield_balls + 1
              /\ queue' = [queue EXCEPT ![d] = IF @ > gone THEN @ - gone ELSE 0]
         ELSE /\ Goto(d, "idle")
              /\ UNCHANGED <<ball_count, available_balls, playfield_balls, queue>>
  /\ UNCHANGED <<machine, counter, counting, recount, count_valid, arrivals, waiting, tracker,
                 cancelled, ball, awaited, num_balls_requested, wanted>>

-------------------------------------------------------------------------------
(* The balls.                                                               *)

\* A ball rolls into device d.
RollIn(d) ==
  /\ inside[d] < Capacity[d]
  /\ waiter[d] \in {"noted", "arrivals"} => "double_entry" \in Unusual
  /\ inside' = [inside EXCEPT ![d] = @ + 1]
  /\ stable' = [stable EXCEPT ![d] = FALSE]
  /\ UNCHANGED <<last_count, handler, waiting, tracker, outgoing, books>>

Arrive(d) ==
  /\ flying[d] > 0
  /\ flying' = [flying EXCEPT ![d] = @ - 1]
  /\ IF d = Last
     THEN /\ loose' = loose + 1
          /\ UNCHANGED <<inside, counter, handler, waiting, tracker, outgoing, books>>
     ELSE RollIn(d + 1) /\ UNCHANGED loose
  /\ UNCHANGED mishaps

Enter(d) ==
  /\ loose > 0
  /\ loose' = loose - 1
  /\ RollIn(d)
  /\ UNCHANGED <<flying, mishaps>>

FallBack(d) ==
  /\ flying[d] > 0
  /\ mishaps < MaxMishaps
  /\ mishaps' = mishaps + 1
  /\ flying' = [flying EXCEPT ![d] = @ - 1]
  /\ RollIn(d)
  /\ UNCHANGED loose

\* A ball misses its target, or finds it full.
GoAstray(d) ==
  /\ d < Last
  /\ flying[d] > 0
  /\ IF inside[d + 1] < Capacity[d + 1]
     THEN mishaps < MaxMishaps /\ mishaps' = mishaps + 1
     ELSE UNCHANGED mishaps
  /\ flying' = [flying EXCEPT ![d] = @ - 1]
  /\ loose' = loose + 1
  /\ UNCHANGED <<inside, counter, handler, waiting, tracker, outgoing, books>>

\* A ball leaves a device that does not eject.
Vanish(d) ==
  /\ inside[d] > 0
  /\ mishaps < MaxMishaps
  /\ pc[d] # "ejecting"
  /\ d > 1 => "two_gone" \in Unusual
  /\ waiter[d] = "waiting" /\ last_count[d] > 0 => "late_look" \in Unusual
  /\ mishaps' = mishaps + 1
  /\ inside' = [inside EXCEPT ![d] = @ - 1]
  /\ loose' = loose + 1
  /\ stable' = [stable EXCEPT ![d] = FALSE]
  /\ UNCHANGED <<flying, last_count, handler, waiting, tracker, outgoing, books>>

-------------------------------------------------------------------------------
CountTask(d) == BeginCount(d) \/ CountBalls(d) \/ CountArrival(d) \/ IdleBallLost(d)
WaitTask(d) == NoteBalls(d) \/ UpdateCount(d) \/ WaiterArrival(d)
EjectTask(d) ==
  \/ TakeRequest(d) \/ Validated(d) \/ BallCame(d) \/ EjectCancelled(d)
  \/ TargetReady(d) \/ StartEject(d) \/ WillEject(d) \/ EjectTimeout(d)
  \/ Confirmed(d) \/ ConfirmTimeout(d) \/ NotYetThere(d) \/ PlayfieldTimeoutConfirm(d)
  \/ BallReturned(d) \/ GiveUp(d) \/ LostEjectedBall(d) \/ EndEject(d) \/ CheckLeft(d)
Motion(d) ==
  Settle(d) \/ BallLeaves(d) \/ Arrive(d) \/ Enter(d) \/ FallBack(d) \/ GoAstray(d) \/ Vanish(d)

Next ==
  \/ AddBall
  \/ PlayfieldHit
  \/ \E d \in Devices :
       RequestBall(d) \/ EjectKept(d) \/ CountTask(d) \/ WaitTask(d) \/ EjectTask(d)
         \/ ExternalConfirm(d) \/ LostIncomingBall(d) \/ Motion(d)

Spec == Init /\ [][Next]_vars

\* The tasks run, coils fire and switches settle; a ball that flies arrives
\* somewhere.  Nobody has to ask for a ball, and a ball on the playfield may
\* stay there for good.
Fairness ==
  \A d \in Devices :
    /\ WF_vars(CountTask(d)) /\ WF_vars(WaitTask(d)) /\ WF_vars(EjectTask(d))
    /\ WF_vars(Settle(d)) /\ WF_vars(Arrive(d) \/ FallBack(d) \/ GoAstray(d))
    /\ WF_vars(LostIncomingBall(d)) /\ SF_vars(BallLeaves(d))
  /\ SF_vars(Enter(1))

FairSpec == Spec /\ Fairness

-------------------------------------------------------------------------------
(* Properties.                                                              *)

TypeOK ==
  /\ inside \in [Devices -> 0..Balls]
  /\ flying \in [Devices -> 0..Balls]
  /\ loose \in 0..Balls
  /\ mishaps \in 0..MaxMishaps
  /\ last_count \in [Devices -> 0..Balls]
  /\ stable \in [Devices -> BOOLEAN]
  /\ ball_count \in [Devices -> 0..Balls]
  /\ counting \in [Devices -> {"free", "eject", "count", "arrivals", "missing"}]
  /\ recount \in [Devices -> BOOLEAN]
  /\ count_valid \in [Devices -> BOOLEAN]
  /\ arrivals \in [Devices -> 0..Balls]
  /\ waiter \in [Devices -> {"off", "waiting", "noted", "arrivals", "done"}]
  /\ noted \in [Devices -> 0..Balls]
  /\ waiter_arrivals \in [Devices -> 0..Balls]
  /\ surplus \in [Devices -> Int]
  /\ unknown_balls \in [Devices -> BOOLEAN]
  /\ heard \in [Devices -> BOOLEAN]
  /\ pc \in [Devices -> {"idle", "validating", "waiting_for_ball", "waiting_for_target_ready",
                         "target_full", "start_eject", "checking"} \cup InEject]
  /\ queue \in [Devices -> Nat]
  /\ cancelled \in [Devices -> BOOLEAN]
  /\ ball \in [Devices -> {"none", "left", "arrived", "lost"}]
  /\ awaited \in [Devices -> Nat]
  /\ available_balls \in [Places -> Int]
  /\ playfield_balls \in Int
  /\ num_balls_requested \in Nat
  /\ wanted \in [Places -> Nat]

\* Ejects that a device owes and has not taken off its count.
Outbound(d) == queue[d] + (IF pc[d] \in {"idle", "checking"} \/ cancelled[d] THEN 0 ELSE 1)

\* Balls a device or the playfield has been promised and has not counted.
Inbound(p) ==
  LET d == p - 1
  IN  IF p = 1 THEN 0
      ELSE queue[d]
           + (IF pc[d] \in {"idle", "checking", "ending"} \/ cancelled[d] THEN 0
              ELSE IF d < Last /\ ball[d] = "arrived" THEN 0 ELSE 1)
           + (IF p \in Devices THEN awaited[p] ELSE 0)

\* Balls that were counted but not yet handled.
Pending(d) ==
  waiter_arrivals[d] + (IF counting[d] = "arrivals" THEN arrivals[d] ELSE 0)

\* "Number of balls that are available to be ejected.  This differs from balls
\* since it's possible that this device could have balls that are being used for
\* some other eject": what a place has, and is promised, less what it owes.
BooksBalance ==
  /\ \A d \in Devices :
       available_balls[d] = ball_count[d] - Pending(d) + Inbound(d) - Outbound(d)
  /\ available_balls[Playfield] = playfield_balls + Inbound(Playfield)

\* A ball that has been booked elsewhere while its source still counts it.
Doubled(d) == IF pc[d] = "ending" \/ (d < Last /\ ball[d] = "arrived") THEN 1 ELSE 0

\* "The number of balls the machine knows": no ball is lost from the books, and
\* none is in them twice, whatever way a ball that left takes.
BallsConserved ==
  playfield_balls
    + SumFunction([d \in Devices |-> ball_count[d] - Pending(d) - Doubled(d) + awaited[d]]) = Balls

Quiet ==
  /\ \A d \in Devices : /\ Idle(d) /\ counting[d] = "free" /\ ~recount[d]
                        /\ stable[d] /\ flying[d] = 0 /\ awaited[d] = 0

\* Once nothing moves and no task has anything to do, the books say where the
\* balls are.
QuietBooksAreTrue ==
  Quiet => /\ \A d \in Devices : ball_count[d] = inside[d]
           /\ playfield_balls = loose

\* Nobody sleeps in front of a place that has room.
NoSleepWithRoom == \A d \in 1..(Last - 1) : pc[d] = "target_full" => ~HasRoom(d + 1)

\* Every eject comes to its end.
EjectsEnd == \A d \in Devices : pc[d] # "idle" ~> pc[d] = "idle"

===============================================================================
