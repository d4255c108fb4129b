-------------------------- MODULE DataManagersProofs --------------------------
(***************************************************************************)
(* Proofs about DataManagers, for any number of managers, versions, errors  *)
(* and restarts: the types, and that files only go forward.                 *)
(***************************************************************************)
EXTENDS DataManagers, TLAPS

\* The variables have their types: the stages of the threads, the versions.
THEOREM TypeCorrect == Spec => []TypeOK
<1>1. Init => TypeOK
  <2> SUFFICES ASSUME Init PROVE TypeOK
    OBVIOUS
  <2>1. 0 \in Versions
    BY DataAssumption DEF Versions
  <2>2. dirty \in [Managers -> BOOLEAN]
    BY Zenon DEF Init
  <2>3. made \in [Managers -> Versions]
    BY <2>1, Zenon DEF Init
  <2>4. /\ data \in [Managers -> Contents] /\ copied \in [Managers -> Contents]
        /\ temp \in [Managers -> Contents] /\ file \in [Managers -> Contents]
    BY <2>1 DEF Init, Contents
  <2> QED
    <3>1. pc \in [Managers -> Stages]
      BY DEF Init, Stages
    <3>2. up \in BOOLEAN /\ stopper \in BOOLEAN /\ client \in Managers \cup {"none"} /\ busy \in BOOLEAN
      BY DEF Init
    <3>3. failures \in 0..MaxFailures /\ restarts \in 0..MaxRestarts
      BY DataAssumption DEF Init
    <3> QED
      BY <2>2, <2>3, <2>4, <3>1, <3>2, <3>3 DEF TypeOK
<1>2. TypeOK /\ [Next]_vars => TypeOK'
  <2> SUFFICES ASSUME TypeOK, [Next]_vars PROVE TypeOK'
    OBVIOUS
  <2> USE DataAssumption DEF TypeOK, Stages, Contents, Versions, main, thread, At, GoTo
  <2>1. ASSUME NEW m \in Managers, SetData(m) PROVE TypeOK'
    BY <2>1 DEF SetData
  <2>2. ASSUME NEW m \in Managers, TriggerSave(m) PROVE TypeOK'
    BY <2>2 DEF TriggerSave
  <2>3. ASSUME NEW m \in Managers, Awake(m) PROVE TypeOK'
    BY <2>3 DEF Awake
  <2>4. ASSUME NEW m \in Managers, IsDirty(m) PROVE TypeOK'
    BY <2>4 DEF IsDirty
  <2>5. ASSUME NEW m \in Managers, NotBusy(m) PROVE TypeOK'
    BY <2>5 DEF NotBusy
  <2>6. ASSUME NEW m \in Managers, ClearDirty(m) PROVE TypeOK'
    BY <2>6 DEF ClearDirty
  <2>7. ASSUME NEW m \in Managers, BeginCopy(m) PROVE TypeOK'
    BY <2>7 DEF BeginCopy
  <2>8. ASSUME NEW m \in Managers, EndCopy(m) PROVE TypeOK'
    BY <2>8 DEF EndCopy
  <2>17. ASSUME NEW m \in Managers, CopyFails(m) PROVE TypeOK'
    BY <2>17 DEF CopyFails
  <2>9. ASSUME NEW m \in Managers, BeginSave(m) PROVE TypeOK'
    BY <2>9 DEF BeginSave
  <2>10. ASSUME NEW m \in Managers, EndWrite(m) PROVE TypeOK'
    BY <2>10 DEF EndWrite
  <2>11. ASSUME NEW m \in Managers, WriteFails(m) PROVE TypeOK'
    BY <2>11 DEF WriteFails
  <2>12. ASSUME NEW m \in Managers, Move(m) PROVE TypeOK'
    BY <2>12 DEF Move
  <2>13. CASE Shutdown
    BY <2>13 DEF Shutdown
  <2>14. CASE Exit
    BY <2>14 DEF Exit
  <2>15. CASE Restart
    <3>1. dirty' \in [Managers -> BOOLEAN]
      BY <2>15, Zenon DEF Restart
    <3>2. copied' \in [Managers -> Contents]
      BY <2>15 DEF Restart
    <3>3. pc' \in [Managers -> Stages]
      BY <2>15 DEF Restart
    <3>4. up' \in BOOLEAN /\ stopper' \in BOOLEAN /\ client' \in Managers \cup {"none"} /\ busy' \in BOOLEAN
      BY <2>15, Zenon DEF Restart
    <3>5. restarts' \in 0..MaxRestarts
      BY <2>15 DEF Restart
    <3>6. /\ data' \in [Managers -> Contents] /\ made' = made /\ temp' = temp /\ file' = file
          /\ failures' = failures
      BY <2>15 DEF Restart
    <3> QED
      BY <3>1, <3>2, <3>3, <3>4, <3>5, <3>6
  <2>16. CASE UNCHANGED vars
    BY <2>16 DEF vars
  <2> QED
    BY <2>1, <2>2, <2>3, <2>4, <2>5, <2>6, <2>7, <2>8, <2>9, <2>10, <2>11, <2>12,
       <2>13, <2>14, <2>15, <2>16, <2>17 DEF Next, Thread
<1> QED
  BY <1>1, <1>2, PTL DEF Spec

(***************************************************************************)
(* Files only go forward.  The property only speaks of the files; it holds  *)
(* because the copies that are on their way to a file, and the data they    *)
(* are made from, are in order with it.                                     *)
(***************************************************************************)
Loadable(m, x) == x # Broken /\ (m \notin Live => x # Torn)
NotNewer(x, y) == x \in Versions /\ y \in Versions => x <= y
Holding == {"reading", "saving", "writing", "moving"}

InOrder(m) ==
  /\ Loadable(m, file[m]) /\ Loadable(m, data[m])
  /\ NotNewer(file[m], data[m]) /\ NotNewer(file[m], made[m]) /\ NotNewer(data[m], made[m])
  /\ pc[m] \in Holding =>
       /\ Loadable(m, copied[m]) /\ NotNewer(file[m], copied[m])
       /\ NotNewer(copied[m], data[m]) /\ NotNewer(copied[m], made[m])
  /\ pc[m] = "moving" => temp[m] = copied[m]

FileInv == TypeOK /\ \A m \in Managers : InOrder(m)

LEMMA InitInOrder == Init => \A m \in Managers : InOrder(m)
<1> SUFFICES ASSUME Init, NEW m \in Managers PROVE InOrder(m)
  OBVIOUS
<1>1. file[m] = 0 /\ data[m] = 0 /\ made[m] = 0 /\ pc[m] = "asleep"
  BY DEF Init
<1> QED
  BY <1>1 DEF InOrder, Loadable, NotNewer, Holding, Torn, Broken

\* Every step of the main thread and of a writing thread keeps the order of the versions.
LEMMA StepInOrder ==
  ASSUME FileInv, [Next]_vars, NEW k \in Managers PROVE InOrder(k)'
<1> USE DataAssumption DEF FileInv, TypeOK, InOrder, Loadable, NotNewer, Holding, Stages, Contents,
        Versions, Torn, Broken, main, thread, At, GoTo
<1>1. ASSUME NEW m \in Managers, SetData(m) PROVE InOrder(k)'
  BY <1>1 DEF SetData
<1>2. ASSUME NEW m \in Managers, TriggerSave(m) PROVE InOrder(k)'
  BY <1>2 DEF TriggerSave
<1>3. ASSUME NEW m \in Managers, Awake(m) PROVE InOrder(k)'
  BY <1>3 DEF Awake
<1>4. ASSUME NEW m \in Managers, IsDirty(m) PROVE InOrder(k)'
  BY <1>4 DEF IsDirty
<1>5. ASSUME NEW m \in Managers, NotBusy(m) PROVE InOrder(k)'
  BY <1>5 DEF NotBusy
<1>6. ASSUME NEW m \in Managers, ClearDirty(m) PROVE InOrder(k)'
  BY <1>6 DEF ClearDirty
<1>7. ASSUME NEW m \in Managers, BeginCopy(m) PROVE InOrder(k)'
  BY <1>7 DEF BeginCopy
<1>8. ASSUME NEW m \in Managers, EndCopy(m) PROVE InOrder(k)'
  BY <1>8 DEF EndCopy
<1>17. ASSUME NEW m \in Managers, CopyFails(m) PROVE InOrder(k)'
  BY <1>17 DEF CopyFails
<1>9. ASSUME NEW m \in Managers, BeginSave(m) PROVE InOrder(k)'
  BY <1>9 DEF BeginSave
<1>10. ASSUME NEW m \in Managers, EndWrite(m) PROVE InOrder(k)'
  BY <1>10 DEF EndWrite
<1>11. ASSUME NEW m \in Managers, WriteFails(m) PROVE InOrder(k)'
  BY <1>11 DEF WriteFails
<1>12. ASSUME NEW m \in Managers, Move(m) PROVE InOrder(k)'
  BY <1>12 DEF Move
<1>13. CASE Shutdown
  BY <1>13 DEF Shutdown
<1>14. CASE Exit
  BY <1>14 DEF Exit
<1>15. CASE Restart
  BY <1>15 DEF Restart
<1>16. CASE UNCHANGED vars
  BY <1>16 DEF vars
<1> QED
  BY <1>1, <1>2, <1>3, <1>4, <1>5, <1>6, <1>7, <1>8, <1>9, <1>10, <1>11, <1>12,
     <1>13, <1>14, <1>15, <1>16, <1>17 DEF Next, Thread

\* DataManagers' FilesGoForward: whatever the order in which clients and threads run, where
\* they crash and what fails, a file is never broken, and never goes back.
THEOREM FilesGoForwardAlways == Spec => FilesGoForward
<1>1. FileInv /\ [Next]_vars => (\A k \in Managers : InOrder(k))'
  BY StepInOrder
<1>2. TypeOK /\ FileInv /\ TypeOK' /\ [Next]_vars => FileInv'
  BY <1>1 DEF FileInv
<1>3. Init => \A m \in Managers : InOrder(m)
  BY InitInOrder
<1>4. FileInv /\ FileInv' /\ [Next]_vars =>
        [\A m \in Managers :
           /\ file'[m] # Broken /\ (m \notin Live => file'[m] # Torn)
           /\ file[m] # Torn /\ file'[m] # Torn => file'[m] >= file[m]]_vars
  <2> SUFFICES ASSUME FileInv, FileInv', [Next]_vars, NEW m \in Managers
               PROVE /\ file'[m] # Broken /\ (m \notin Live => file'[m] # Torn)
                     /\ file[m] # Torn /\ file'[m] # Torn => file'[m] >= file[m]
    OBVIOUS
  <2>1. Loadable(m, file[m]) /\ Loadable(m, file'[m])
    BY DEF FileInv, InOrder
  <2>2. file[m] \in Contents /\ file'[m] \in Contents
    BY DEF FileInv, TypeOK
  <2>3. file'[m] = file[m] \/ NotNewer(file[m], file'[m])
    <3>1. CASE \E n \in Managers : Move(n)
      BY <3>1 DEF Move, FileInv, InOrder, Holding, TypeOK, At, GoTo
    <3>2. CASE ~\E n \in Managers : Move(n)
      BY <3>2 DEF Next, vars, main, thread, Thread, SetData, TriggerSave, Awake, IsDirty, NotBusy,
           ClearDirty, BeginCopy, EndCopy, CopyFails, BeginSave, EndWrite, WriteFails, Shutdown, Exit, Restart
    <3> QED
      BY <3>1, <3>2
  <2> QED
    BY <2>1, <2>2, <2>3, DataAssumption DEF Loadable, NotNewer, Contents, Versions, Torn, Broken
<1> QED
  BY <1>1, <1>2, <1>3, <1>4, TypeCorrect, PTL DEF Spec, FilesGoForward, FileInv
===============================================================================
