------------------------ MODULE DirectorySwapProofs ------------------------
(***************************************************************************)
(* The swap of a directory, for any number of runs and faults: what a      *)
(* failed run leaves, and that `fetch` never loses the last tree.          *)
(***************************************************************************)
EXTENDS DirectorySwap, TLAPS

\* What a run knows of the directories at each of its steps.
AtStep ==
  /\ pc \in {"build", "clear", "retire"} => destination = before
  /\ pc \in {"clear", "retire", "install"} => stage = run
  /\ pc = "build" /\ ~FixedBackup => backup = None
  /\ pc = "clear" => FixedBackup
  /\ pc = "retire" => backup = None
  /\ pc = "install" => destination = None /\ backup = before
  /\ pc = "restore" => \/ destination = before /\ backup = None
                       \/ destination = None /\ backup = before /\ errors >= 1
  /\ pc = "drop" => destination = run /\ installed = run
  /\ pc \in {"discard", "failed"} =>
       \/ destination \in {before, run}
       \/ destination = None /\ backup = before /\ errors >= 2

\* Until its own tree is moved in, the tree a run found is the last one installed.
FoundIsLast ==
  pc \in {"build", "clear", "retire", "install", "restore"} => before \in {None, installed}

SwapInv == TypeOK /\ DestinationIsLast /\ FoundIsLast /\ AtStep

\* The swap's inductive invariant holds initially and is kept by every step.
LEMMA SwapInvariant == Spec => []SwapInv
<1> USE SwapAssumption
<1>1. Init => SwapInv
  BY DEF Init, SwapInv, FixedBackup, TypeOK, DestinationIsLast, FoundIsLast, AtStep, Trees, Ended
<1>2. SwapInv /\ [Next]_vars => SwapInv'
  <2> SUFFICES ASSUME SwapInv, [Next]_vars PROVE SwapInv'
    OBVIOUS
  <2> USE DEF SwapInv, FixedBackup, TypeOK, DestinationIsLast, FoundIsLast, AtStep, Trees, Ended
  <2>1. CASE Start
    <3>1. TypeOK'
      <4>1. backup' \in Trees /\ strays' \subseteq Trees
        BY <2>1 DEF Start
      <4>2. QED
        BY <2>1, <4>1 DEF Start
    <3>2. DestinationIsLast' /\ FoundIsLast' /\ AtStep'
      BY <2>1 DEF Start
    <3>3. QED
      BY <3>1, <3>2
  <2>2. CASE Complete
    <3>1. pc' \in {"clear", "retire", "install"} /\ stage' = run
      BY <2>2 DEF Complete
    <3>2. /\ pc' = "clear" => FixedBackup
          /\ pc' = "retire" => ~FixedBackup
          /\ pc' = "install" => ~FixedBackup /\ destination = None
      BY <2>2 DEF Complete
    <3>3. QED
      BY <2>2, <3>1, <3>2 DEF Complete
  <2>3. CASE BuildFails
    BY <2>3 DEF BuildFails, dirs
  <2>4. CASE ClearBackup
    BY <2>4 DEF ClearBackup, Rmtree, NoFault, Fault
  <2>5. CASE Retire
    BY <2>5 DEF Retire, NoFault, Fault
  <2>6. CASE Install
    BY <2>6 DEF Install, NoFault, Fault
  <2>7. CASE Restore
    BY <2>7 DEF Restore, NoFault, Fault
  <2>8. CASE DropBackup
    BY <2>8 DEF DropBackup, Rmtree, NoFault, Fault
  <2>9. CASE DiscardStage
    BY <2>9 DEF DiscardStage, NoFault, Fault
  <2>10. CASE Crash
    BY <2>10 DEF Crash, Fault
  <2>11. CASE UNCHANGED vars
    BY <2>11 DEF vars, dirs
  <2>12. QED
    BY <2>1, <2>2, <2>3, <2>4, <2>5, <2>6, <2>7, <2>8, <2>9, <2>10, <2>11 DEF Next, Step
<1>3. QED
  BY <1>1, <1>2, PTL DEF Spec

\* The destination never holds anything but the last tree moved there: `build` and `fetch`
\* never show their caller a partial tree, nor an older one left behind by a dead run.
THEOREM DestinationIsAlwaysLast == Spec => []DestinationIsLast
<1>1. SwapInv => DestinationIsLast
  BY DEF SwapInv
<1>2. QED
  BY <1>1, SwapInvariant, PTL

\* A run of `build` or `fetch` that fails leaves the tree it found.
THEOREM FailuresKeepTree == Spec => []FailureKeepsTree
<1>1. SwapInv => FailureKeepsTree
  BY DEF SwapInv, AtStep, FailureKeepsTree
<1>2. QED
  BY <1>1, SwapInvariant, PTL

\* With a backup directory of its own for every run, as in `fetch`, the last tree installed
\* is never lost, whatever fails and however often the command dies.
THEOREM FetchedTreeSurvives == Spec => []LastTreeSurvives
<1> USE SwapAssumption
<1>1. Init => LastTreeSurvives
  BY DEF Init, LastTreeSurvives, FixedBackup
<1>2. ASSUME SwapInv, LastTreeSurvives, [Next]_vars PROVE LastTreeSurvives'
  <2> USE <1>2 DEF SwapInv, FixedBackup, TypeOK, DestinationIsLast, AtStep, LastTreeSurvives, Trees, Ended
  <2>1. CASE Start
    BY <2>1 DEF Start
  <2>2. CASE Complete \/ BuildFails \/ ClearBackup \/ DiscardStage
    BY <2>2 DEF Complete, BuildFails, ClearBackup, DiscardStage, dirs
  <2>3. CASE Retire
    BY <2>3 DEF Retire
  <2>4. CASE Install
    BY <2>4 DEF Install
  <2>5. CASE Restore
    BY <2>5 DEF Restore
  <2>6. CASE DropBackup
    BY <2>6 DEF DropBackup
  <2>7. CASE Crash
    BY <2>7 DEF Crash
  <2>8. CASE UNCHANGED vars
    BY <2>8 DEF vars, dirs
  <2>9. QED
    BY <1>2, <2>1, <2>2, <2>3, <2>4, <2>5, <2>6, <2>7, <2>8 DEF Next, Step
<1>3. QED
  BY <1>1, <1>2, SwapInvariant, PTL DEF Spec
=============================================================================
