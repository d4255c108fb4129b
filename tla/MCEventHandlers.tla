--------------------------- MODULE MCEventHandlers ---------------------------
EXTENDS EventHandlers, TLC

CONSTANTS q1, q2, b1, r1,     \* postings
          h1, h2, h3,         \* handlers
          f1,                 \* a facility
          e1,                 \* an event
          v1, v2              \* values

\* The priorities 1, 0, 0: ties and order both matter.  h2 can be blocked, and h3,
\* which is called after it, cannot.
MCHandler == {h1, h2, h3}
MCPriority == (h1 :> 1) @@ (h2 :> 0) @@ (h3 :> 0)
MCFacilityOf == [h \in MCHandler |-> IF h = h2 THEN f1 ELSE NoFacility]
MCEventOf == [x \in {q1, q2, b1, r1} \cup MCHandler |-> e1]
\* h2 was added with a value of its own.
SomeOwnValue == [h \in MCHandler |-> IF h = h2 THEN v1 ELSE NoValue]

\* A boolean event and a relay event.
DispatchPosting == {b1, r1}

\* Two queue events with the same two handlers.
QueuePosting == {q1, q2}
PairHandler == {h1, h2}
PairPriority == (h1 :> 1) @@ (h2 :> 0)
PairFacilityOf == [h \in PairHandler |-> NoFacility]
NoOwnValueOfPair == [h \in PairHandler |-> NoValue]
===============================================================================
