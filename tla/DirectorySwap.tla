--------------------------- MODULE DirectorySwap ---------------------------
(***************************************************************************)
(* How a command replaces an output directory by the tree it has built:    *)
(* `build` its dist (_run_build and _publish_dist in cli.py, with the same *)
(* steps as generate.py's _publish_tree and render.py's _staged_directory) *)
(* and `fetch` its destination (fetch_all and _replace_directory).  The    *)
(* command runs again and again on one destination; it may die, and every  *)
(* call to the file system may fail.                                       *)
(***************************************************************************)
EXTENDS Integers

CONSTANTS
  MaxRuns,      \* bound on the runs of the command
  FaultKinds,   \* "oserror": a call raises; "crash": the command dies
  MaxFaults,    \* bound on the number of faults
  None,         \* no directory
  Partial       \* a directory from which files are missing

ASSUME SwapAssumption ==
         /\ FaultKinds \subseteq {"oserror", "crash"}
         /\ MaxRuns \in Nat /\ MaxFaults \in Nat
         /\ None \notin Nat /\ Partial \notin Nat /\ None # Partial

VARIABLES
  command,      \* "build" or "fetch"
  destination,  \* a complete tree is the number of the run that built it
  stage,        \* the staging directory of the current run
  backup,       \* `.dist.previous`, or the backup directory of the current run
  strays,       \* trees in the backup directories of earlier runs
  pc,           \* the next step, or how the last run ended
  run,          \* number of the current run
  before,       \* history: the destination when the current run started
  installed,    \* history: the last run whose tree was moved to the destination, or 0
  errors,       \* history: the calls that have failed in the current run
  faults        \* faults so far

dirs == <<command, destination, stage, backup, strays>>
vars == <<dirs, pc, run, before, installed, errors, faults>>

\* Is the backup `.dist.previous`, or a new directory for every run?
FixedBackup == command = "build"

Trees == Nat \cup {None, Partial}
Ended == {"done", "failed", "crashed"}

TypeOK ==
  /\ command \in {"build", "fetch"}
  /\ destination \in Trees /\ stage \in Trees /\ backup \in Trees /\ before \in Trees
  /\ strays \subseteq Trees
  /\ pc \in Ended \cup {"build", "clear", "retire", "install", "restore", "drop", "discard"}
  /\ run \in 0..MaxRuns /\ installed \in 0..MaxRuns
  /\ faults \in 0..MaxFaults /\ errors \in 0..faults

Init ==
  /\ command \in {"build", "fetch"}
  /\ destination = None /\ stage = None /\ backup = None /\ strays = {}
  /\ pc = "done" /\ run = 0 /\ before = None /\ installed = 0 /\ errors = 0 /\ faults = 0

----------------------------------------------------------------------------
NoFault == UNCHANGED <<errors, faults>>
Fault(kind) ==
  /\ kind \in FaultKinds /\ faults < MaxFaults
  /\ faults' = faults + 1 /\ errors' = errors + 1

\* shutil.rmtree of a directory that holds `tree`: on an error files may be gone.
Rmtree(tree, after, raised) ==
  \/ after = None /\ ~raised /\ NoFault
  \/ after \in {tree, Partial} /\ raised /\ Fault("oserror")

----------------------------------------------------------------------------
\* mkdtemp gives every run a staging directory, and fetch a backup directory, of its own:
\* those of a run that died stay.
Start ==
  /\ pc \in Ended /\ run < MaxRuns
  /\ run' = run + 1 /\ before' = destination /\ stage' = Partial /\ pc' = "build"
  /\ errors' = 0
  /\ IF FixedBackup THEN UNCHANGED <<backup, strays>>
     ELSE backup' = None /\ strays' = strays \cup ({backup} \ {None})
  /\ UNCHANGED <<command, destination, installed, faults>>

\* The tree is complete: the swap starts.
Complete ==
  /\ pc = "build" /\ stage' = run
  /\ pc' = CASE FixedBackup                         -> "clear"
             [] ~FixedBackup /\ destination # None  -> "retire"
             [] ~FixedBackup /\ destination = None  -> "install"
  /\ UNCHANGED <<command, destination, backup, strays, run, before, installed, errors, faults>>

\* A source, a compiler or a check fails.
BuildFails ==
  /\ pc = "build" /\ pc' = "discard"
  /\ UNCHANGED <<dirs, run, before, installed, errors, faults>>

\* Mutant: the backup of a run that died is left where it is.
ClearBackup_Skipped ==
  /\ pc = "clear"
  /\ pc' = IF destination = None THEN "install" ELSE "retire"
  /\ UNCHANGED <<dirs, run, before, installed, errors, faults>>

\* The backup of a run that died is removed, outside the `try` of the swap.
ClearBackup ==
  /\ pc = "clear"
  /\ \E after \in {None, backup, Partial}, raised \in BOOLEAN :
       /\ Rmtree(backup, after, raised) /\ (raised => backup # None)
       /\ backup' = after
       /\ pc' = CASE raised                          -> "discard"
                  [] ~raised /\ destination = None   -> "install"
                  [] ~raised /\ destination # None   -> "retire"
  /\ UNCHANGED <<command, destination, stage, strays, run, before, installed>>

\* Mutant: the old tree is removed instead of renamed.
Retire_Removes ==
  /\ pc = "retire" /\ NoFault
  /\ destination' = None /\ pc' = "install"
  /\ UNCHANGED <<command, stage, backup, strays, run, before, installed>>

\* os.replace(destination, backup), which fails when the backup is there.
Retire ==
  /\ pc = "retire"
  /\ \/ /\ backup = None /\ NoFault
        /\ backup' = destination /\ destination' = None /\ pc' = "install"
     \/ /\ (backup # None /\ NoFault) \/ Fault("oserror")
        /\ pc' = "restore" /\ UNCHANGED <<backup, destination>>
  /\ UNCHANGED <<command, stage, strays, run, before, installed>>

\* os.replace(stage, destination).
Install ==
  /\ pc = "install"
  /\ \/ /\ NoFault /\ destination' = stage /\ stage' = None /\ installed' = run
        /\ pc' = IF backup = None THEN "done" ELSE "drop"
     \/ /\ Fault("oserror") /\ pc' = "restore" /\ UNCHANGED <<destination, stage, installed>>
  /\ UNCHANGED <<command, backup, strays, run, before>>

\* Mutant: the handler only re-raises.
Restore_Nothing ==
  /\ pc = "restore" /\ pc' = "discard"
  /\ UNCHANGED <<dirs, run, before, installed, errors, faults>>

\* The handler of the swap: os.replace(backup, destination) unless there is a destination.
Restore ==
  /\ pc = "restore" /\ pc' = "discard"
  /\ \/ /\ backup # None /\ destination = None /\ NoFault
        /\ destination' = backup /\ backup' = None
     \/ /\ IF backup # None /\ destination = None THEN Fault("oserror") ELSE NoFault
        /\ UNCHANGED <<destination, backup>>
  /\ UNCHANGED <<command, stage, strays, run, before, installed>>

\* The retired tree goes; an error here fails a run that has installed its tree.
DropBackup ==
  /\ pc = "drop"
  /\ \E after \in {None, backup, Partial}, raised \in BOOLEAN :
       /\ Rmtree(backup, after, raised) /\ backup' = after
       /\ pc' = IF raised THEN "discard" ELSE "done"
  /\ UNCHANGED <<command, destination, stage, strays, run, before, installed>>

\* shutil.rmtree(stage, ignore_errors=True).
DiscardStage ==
  /\ pc = "discard" /\ pc' = "failed"
  /\ \/ NoFault /\ stage' = None
     \/ Fault("oserror") /\ stage' \in {stage, Partial}
  /\ UNCHANGED <<command, destination, backup, strays, run, before, installed>>

\* Killed or interrupted, in the middle of an rmtree perhaps: no handler runs, for the
\* handlers catch Exception.
Crash ==
  /\ pc \notin Ended /\ Fault("crash") /\ pc' = "crashed"
  /\ \/ UNCHANGED backup
     \/ pc \in {"clear", "drop"} /\ backup # None /\ backup' = Partial
  /\ UNCHANGED <<command, destination, stage, strays, run, before, installed>>

Step == \/ Complete \/ BuildFails \/ ClearBackup \/ Retire \/ Install
        \/ Restore \/ DropBackup \/ DiscardStage
Next == Start \/ Step \/ Crash

Spec     == Init /\ [][Next]_vars
FairSpec == Spec /\ WF_vars(Step)

----------------------------------------------------------------------------
\* The destination never holds anything but the complete tree of the last run that got as
\* far as moving one there: not a partial one, nor an older one an earlier run left behind.
DestinationIsLast == destination \in {None, installed}

\* A run that fails leaves the tree it found, or its own when only the removal of the
\* retired one failed; if putting the old tree back failed too, the backup still holds it.
FailureKeepsTree ==
  pc = "failed" =>
    \/ destination \in {before, run}
    \/ destination = None /\ backup = before /\ errors >= 2

\* The last tree `fetch` has installed is never lost, however often it fails or dies: it is
\* the destination, or in a backup directory.
LastTreeSurvives == ~FixedBackup /\ installed # 0 => installed \in {destination, backup} \cup strays

\* Once the faults are over, a run that has completed its tree installs it, whatever
\* directories earlier runs have left behind.
InstallsOnceFaultsStop ==
  stage = run /\ run > 0 /\ pc \in {"clear", "retire"} /\ faults = MaxFaults
    ~> destination = run /\ pc = "done"
=============================================================================
