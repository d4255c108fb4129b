----------------------------- MODULE DataManagers -----------------------------
(***************************************************************************)
(* The data managers (mpf/core/data_manager.py) keep machine variables,     *)
(* high scores, earnings and audits in files.  The main thread hands over   *)
(* data; each manager has a thread that copies and writes it.  All share    *)
(* the flag is_busy of the FileManager (mpf/core/file_manager.py).          *)
(*                                                                         *)
(* Data and the contents of files are the numbers of the versions that the  *)
(* clients have made; 0 is what the file held in the beginning.             *)
(***************************************************************************)
EXTENDS Integers

CONSTANTS Managers,
          Live,         \* managers whose client goes on changing the data it has handed over
          MaxVersions,  \* bound on the versions of each manager's data
          MaxFailures,  \* bound on writes that raise an error
          MaxRestarts   \* bound on restarts of the machine

ASSUME DataAssumption ==
  /\ Live \subseteq Managers
  /\ MaxVersions \in Nat /\ MaxFailures \in Nat /\ MaxRestarts \in Nat

Versions == 0..MaxVersions
Torn == -1     \* parts of two versions
Broken == -2   \* a file that is being written
Contents == Versions \cup {Torn, Broken}

VARIABLES
  up,        \* the program runs
  stopper,   \* machine.thread_stopper
  client,    \* the manager whose data the main thread has set and not reported, or "none"
  made,      \* the newest version of each manager's data
  data,      \* self.data
  dirty,     \* _dirty
  pc,        \* of each _writing_thread
  copied,    \* its copy of the data; the version it began with while it copies
  busy,      \* FileManager.is_busy
  temp,      \* the temporary files
  file,      \* the files
  failures, restarts

main == <<up, stopper, client, made, data>>
thread == <<pc, copied, busy, temp, file, failures>>
vars == <<main, dirty, thread, restarts>>

Stages == {"asleep", "waiting", "checking", "clearing", "copying", "reading",
           "saving", "writing", "moving", "gone", "dead"}

TypeOK ==
  /\ up \in BOOLEAN /\ stopper \in BOOLEAN /\ client \in Managers \cup {"none"}
  /\ made \in [Managers -> Versions]
  /\ dirty \in [Managers -> BOOLEAN]
  /\ pc \in [Managers -> Stages]
  /\ busy \in BOOLEAN
  /\ data \in [Managers -> Contents] /\ copied \in [Managers -> Contents]
  /\ temp \in [Managers -> Contents] /\ file \in [Managers -> Contents]
  /\ failures \in 0..MaxFailures /\ restarts \in 0..MaxRestarts

Init ==
  /\ up = TRUE /\ stopper = FALSE /\ client = "none"
  /\ made = [m \in Managers |-> 0] /\ data = made /\ file = made /\ temp = made /\ copied = made
  /\ dirty = [m \in Managers |-> FALSE]
  /\ pc = [m \in Managers |-> "asleep"]
  /\ busy = FALSE /\ failures = 0 /\ restarts = 0

(***************************************************************************)
(* The main thread                                                          *)
(***************************************************************************)
\* save_all() sets the data; a client of Live has changed it before it calls save_all()
SetData(m) ==
  /\ up /\ client = "none" /\ made[m] < MaxVersions
  /\ client' = m
  /\ made' = [made EXCEPT ![m] = @ + 1]
  /\ data' = [data EXCEPT ![m] = made[m] + 1]
  /\ UNCHANGED <<up, stopper, dirty, thread, restarts>>

TriggerSave(m) ==
  /\ up /\ client = m
  /\ client' = "none"
  /\ dirty' = [dirty EXCEPT ![m] = TRUE]
  /\ UNCHANGED <<up, stopper, made, data, thread, restarts>>

\* MachineController.shutdown
Shutdown ==
  /\ up /\ client = "none" /\ ~stopper
  /\ stopper' = TRUE
  /\ UNCHANGED <<up, client, made, data, dirty, thread, restarts>>

\* The program ends after the shutdown, or crashes; the threads end with it.  What it has
\* written is with the system: a cut of the power, which may lose that, is not modelled.
Exit ==
  /\ up
  /\ up' = FALSE
  /\ UNCHANGED <<stopper, client, made, data, dirty, thread, restarts>>

\* the managers are made again and load their files
Restart ==
  /\ ~up /\ restarts < MaxRestarts
  /\ restarts' = restarts + 1
  /\ up' = TRUE /\ stopper' = FALSE /\ client' = "none"
  /\ data' = file
  /\ dirty' = [m \in Managers |-> FALSE]
  /\ pc' = [m \in Managers |-> "asleep"]
  /\ busy' = FALSE
  /\ copied' = [m \in Managers |-> 0]
  /\ UNCHANGED <<made, temp, file, failures>>

(***************************************************************************)
(* A writing thread                                                         *)
(***************************************************************************)
At(m, place) == up /\ pc[m] = place
GoTo(m, place) == pc' = [pc EXCEPT ![m] = place]

\* min_wait_secs are over, or the wait for _dirty timed out, and the loop looks at the
\* stopper.  The last write after the loop needs a copy, which each pass has dropped.
Awake(m) ==
  /\ At(m, "asleep") \/ (At(m, "waiting") /\ ~dirty[m] /\ stopper)
  /\ GoTo(m, IF stopper THEN "gone" ELSE "waiting")
  /\ UNCHANGED <<main, dirty, copied, busy, temp, file, failures, restarts>>

IsDirty(m) ==
  /\ At(m, "waiting") /\ dirty[m]
  /\ GoTo(m, "checking")
  /\ UNCHANGED <<main, dirty, copied, busy, temp, file, failures, restarts>>

NotBusy(m) ==
  /\ At(m, "checking") /\ ~busy
  /\ GoTo(m, "clearing")
  /\ UNCHANGED <<main, dirty, copied, busy, temp, file, failures, restarts>>

ClearDirty(m) ==
  /\ At(m, "clearing")
  /\ GoTo(m, "copying")
  /\ dirty' = [dirty EXCEPT ![m] = FALSE]
  /\ UNCHANGED <<main, copied, busy, temp, file, failures, restarts>>

\* deepcopy() reads the data item by item
BeginCopy(m) ==
  /\ At(m, "copying")
  /\ GoTo(m, "reading")
  /\ copied' = [copied EXCEPT ![m] = data[m]]
  /\ UNCHANGED <<main, dirty, busy, temp, file, failures, restarts>>

\* Mutant of EndCopy: _dirty is cleared after the copy.
EndCopyClearing(m) ==
  /\ At(m, "reading")
  /\ GoTo(m, "saving")
  /\ copied' = [copied EXCEPT ![m] = IF m \in Live /\ data[m] # @ THEN Torn ELSE @]
  /\ dirty' = [dirty EXCEPT ![m] = FALSE]
  /\ UNCHANGED <<main, busy, temp, file, failures, restarts>>

EndCopy(m) ==
  /\ At(m, "reading")
  /\ GoTo(m, "saving")
  /\ copied' = [copied EXCEPT ![m] = IF m \in Live /\ data[m] # @ THEN Torn ELSE @]
  /\ UNCHANGED <<main, dirty, busy, temp, file, failures, restarts>>

\* deepcopy() raises when the client of Live makes a dictionary larger or smaller that it
\* is reading.  It is not inside the try block: the thread is over, and nobody starts another.
CopyFails(m) ==
  /\ At(m, "reading") /\ m \in Live /\ data[m] # copied[m]
  /\ GoTo(m, "dead")
  /\ UNCHANGED <<main, dirty, copied, busy, temp, file, failures, restarts>>

\* Mutant of BeginSave: the file itself is opened.
BeginSaveInPlace(m) ==
  /\ At(m, "saving")
  /\ GoTo(m, "writing")
  /\ busy' = TRUE
  /\ temp' = [temp EXCEPT ![m] = Broken]
  /\ file' = [file EXCEPT ![m] = Broken]
  /\ UNCHANGED <<main, dirty, copied, failures, restarts>>

\* FileManager.save
BeginSave(m) ==
  /\ At(m, "saving")
  /\ GoTo(m, "writing")
  /\ busy' = TRUE
  /\ temp' = [temp EXCEPT ![m] = Broken]
  /\ UNCHANGED <<main, dirty, copied, file, failures, restarts>>

EndWrite(m) ==
  /\ At(m, "writing")
  /\ GoTo(m, "moving")
  /\ temp' = [temp EXCEPT ![m] = copied[m]]
  /\ UNCHANGED <<main, dirty, copied, busy, file, failures, restarts>>

\* An error of the writer or of os.replace: the thread logs it and goes on; is_busy stays.
WriteFails(m) ==
  /\ At(m, "writing") \/ At(m, "moving")
  /\ failures < MaxFailures
  /\ GoTo(m, "asleep")
  /\ failures' = failures + 1
  /\ UNCHANGED <<main, dirty, copied, busy, temp, file, restarts>>

Move(m) ==
  /\ At(m, "moving")
  /\ GoTo(m, "asleep")
  /\ file' = [file EXCEPT ![m] = temp[m]]
  /\ busy' = FALSE
  /\ UNCHANGED <<main, dirty, copied, temp, failures, restarts>>

Thread(m) ==
  \/ Awake(m) \/ IsDirty(m) \/ NotBusy(m) \/ ClearDirty(m) \/ BeginCopy(m)
  \/ EndCopy(m) \/ CopyFails(m) \/ BeginSave(m) \/ EndWrite(m) \/ WriteFails(m) \/ Move(m)

Next ==
  \/ \E m \in Managers : SetData(m) \/ TriggerSave(m) \/ Thread(m)
  \/ Shutdown \/ Exit \/ Restart

\* the threads run, and save_all() goes on to its end
Fairness == \A m \in Managers : WF_vars(Thread(m)) /\ WF_vars(TriggerSave(m))

Spec == Init /\ [][Next]_vars /\ Fairness

(***************************************************************************)
(* Properties                                                               *)
(***************************************************************************)
\* A file holds a version as a whole, or parts of two of them when the client changed the
\* data during the copy, and never goes back to an older version: a crash at any time,
\* also in the middle of a write, leaves data that a restart can load.
FilesGoForward ==
  [][\A m \in Managers :
       /\ file'[m] # Broken /\ (m \notin Live => file'[m] # Torn)
       /\ file[m] # Torn /\ file'[m] # Torn => file'[m] >= file[m]]_vars

\* What a client has saved is in the file in the end, whatever is saved while a thread
\* copies and writes, and whatever the other threads do with the flag they share: unless
\* the program stops, a write has failed, or the thread was ended by its copy.  The two
\* latter keep all later saves from the file too, see TriggeredWritesBegin.
SavesGetWritten ==
  \A m \in Managers :
    data[m] # file[m] ~> data[m] = file[m] \/ stopper \/ ~up \/ failures > 0 \/ pc[m] = "dead"

\* data_manager.py: "if dirty write data one last time during shutdown".
LastSaveWritten ==
  [][\A m \in Managers : pc'[m] = "gone" /\ pc[m] # "gone" => ~dirty[m]]_vars

\* _trigger_save: "Trigger a write of this DataManager's data to the disk."  A save that was
\* triggered is taken up by the thread, and "subsequent write attempts" do not "no-op" after
\* an error.  Not claimed by a run: TLC refutes it in two ways, is_busy stays up after an
\* error of the writer, and an error of the copy ends the thread.
TriggeredWritesBegin == \A m \in Managers : dirty[m] ~> ~dirty[m] \/ stopper \/ ~up

\* file_manager.py: "Set a flag to prevent multiple data writes concurrently."  Not
\* claimed by a run: TLC refutes it, two threads look at the flag before either sets it.
OneWriterAtATime ==
  \A m, n \in Managers : pc[m] = "writing" /\ pc[n] = "writing" => m = n
===============================================================================
