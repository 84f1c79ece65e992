---------------------------- MODULE Publication ----------------------------
(***************************************************************************)
(* Publication and rollback of a packaged release: publish_release,        *)
(* rollback and _cleanup_failed_publication of src/ru_routing/publish.py,  *)
(* over the S3 bucket and the GitHub releases they write, as the hourly    *)
(* workflow and the `rollback` command start them.                         *)
(*                                                                         *)
(* Every call to the backend is one step, so the steps of two commands     *)
(* interleave, and a command may die between any two calls.  An object is  *)
(* abstracted to the version whose bytes it holds.                         *)
(***************************************************************************)
EXTENDS Integers, FiniteSets

CONSTANTS
  Publishers,    \* where `publish` runs (one slot in the workflow's concurrency group)
  Operators,     \* where `rollback` runs; may overlap Publishers
  Versions,      \* release versions
  Paths,         \* object paths of a release, in the order the code sorts them
  ManifestPath,  \* manifest.json inside a release tree
  IndexPath,     \* index.html
  Artifacts,     \* Artifacts[v]: the paths manifest.checksums of version v names
  ReleaseIds,    \* bound on the releases GitHub holds of one tag at a time
  MaxWorkers,    \* _S3_MAX_WORKERS
  FaultKinds,    \* what may go wrong, see AllFaults
  MaxFaults,     \* bound on the number of faults in a behaviour
  Republishing,  \* may `publish` be run again on the dist of a published version?
  None,          \* no object, no manifest
  Corrupt        \* bytes that are no version's

(***************************************************************************)
(* lost            a call raised and had no effect                         *)
(* ack             a call raised although its effect took place, as a      *)
(*                 timed-out subprocess may                                *)
(* corrupt         a PUT returned and stored other bytes                   *)
(* get             a GET raised or returned other bytes                    *)
(* pointer_ack, pointer_corrupt    the same, for publish's PUT of the root *)
(*                 manifest.json                                           *)
(* crash           the command dies: SIGKILL, job timeout, lost runner     *)
(***************************************************************************)
AllFaults == {"lost", "ack", "corrupt", "get", "pointer_ack", "pointer_corrupt",
              "crash"}

ASSUME PathsAssumption == /\ Paths \subseteq Nat /\ IsFiniteSet(Paths)
                          /\ ManifestPath \in Paths /\ IndexPath \in Paths
ASSUME ArtifactsAssumption ==
         Artifacts \in [Versions -> SUBSET (Paths \ {ManifestPath}) \ {{}}]
ASSUME ValuesAssumption == None \notin Versions /\ Corrupt \notin Versions /\ None # Corrupt
ASSUME BoundsAssumption == MaxWorkers \in Nat \ {0} /\ MaxFaults \in Nat
ASSUME FaultsAssumption == FaultKinds \subseteq AllFaults /\ Republishing \in BOOLEAN

Procs    == Publishers \cup Operators
Contents == Versions \cup {None, Corrupt}

\* A release GitHub holds of a tag.  It accepts a draft of a tag that has releases already.
Releases == [id : ReleaseIds, public : BOOLEAN, assets : SUBSET Paths]

VARIABLES
  tree,       \* tree[v][k]: the object releases/<v>/<k>
  latest,     \* latest[k]:  the object latest/<k>
  index,      \* the root index.html
  sums,       \* the root SHA256SUMS
  pointer,    \* the root manifest.json
  github,     \* github[v]: the GitHub releases tagged v
  pc,         \* the call a command makes next, or how it ended
  mode,       \* "publish", its "cleanup", or "rollback"
  version,    \* the version it publishes or rolls back to
  previous,   \* previous_manifest
  todo,       \* paths the current stage has still to handle
  busy,       \* paths a pool worker has put and not yet read back
  failed,     \* did a part of the current stage fail?
  drafted,    \* release_id is not None
  touched,    \* latest_overwritten
  problem,    \* cleanup_problems is not empty
  published,  \* history: versions the pointer has named
  allocated,  \* history: versions builds have produced
  faults      \* faults so far

bucket == <<tree, latest, index, sums, pointer, published>>
gh     == <<github>>
flags  == <<failed, drafted, touched, problem>>
work   == <<todo, busy>>
job    == <<mode, version, previous>>
vars   == <<bucket, gh, flags, work, job, pc, allocated, faults>>

Ended  == {"idle", "published", "unfinalized", "cleaned", "uncleaned",
           "rolled_back", "rollback_failed", "crashed"}
Stages == {"building", "draft", "assets", "tree", "manifest_put", "manifest_get", "latest",
           "index", "index_put", "index_get", "sums", "pointer", "finalize",
           "delete_draft", "list_tree", "delete_tree",
           "restore_read", "restore_put", "restore_get", "forget_index"}

StoreType ==
  /\ tree \in [Versions -> [Paths -> Contents]]
  /\ latest \in [Paths -> Contents]
  /\ index \in Contents /\ sums \in Contents /\ pointer \in Contents
  /\ github \in [Versions -> SUBSET Releases]
  /\ published \subseteq Versions /\ allocated \subseteq Versions
  /\ faults \in 0..MaxFaults

JobType ==
  /\ pc \in [Procs -> Ended \cup Stages]
  /\ mode \in [Procs -> {"publish", "cleanup", "rollback"}]
  /\ version \in [Procs -> Versions \cup {None}]
  /\ previous \in [Procs -> Versions \cup {None}]
  /\ todo \in [Procs -> SUBSET Paths] /\ busy \in [Procs -> SUBSET Paths]
  /\ failed \in [Procs -> BOOLEAN] /\ drafted \in [Procs -> BOOLEAN]
  /\ touched \in [Procs -> BOOLEAN] /\ problem \in [Procs -> BOOLEAN]

TypeOK == StoreType /\ JobType

Init ==
  /\ tree = [v \in Versions |-> [k \in Paths |-> None]]
  /\ latest = [k \in Paths |-> None]
  /\ index = None /\ sums = None /\ pointer = None
  /\ github = [v \in Versions |-> {}]
  /\ pc = [p \in Procs |-> "idle"]
  /\ mode = [p \in Procs |-> "publish"]
  /\ version = [p \in Procs |-> None]
  /\ previous = [p \in Procs |-> None]
  /\ todo = [p \in Procs |-> {}] /\ busy = [p \in Procs |-> {}]
  /\ failed = [p \in Procs |-> FALSE] /\ drafted = [p \in Procs |-> FALSE]
  /\ touched = [p \in Procs |-> FALSE] /\ problem = [p \in Procs |-> FALSE]
  /\ published = {} /\ allocated = {} /\ faults = 0

----------------------------------------------------------------------------
(***************************************************************************)
(* Backend calls.                                                          *)
(***************************************************************************)
Set(f, p, x) == [f EXCEPT ![p] = x]

NoFault == faults' = faults
Fault(kind) == kind \in FaultKinds /\ faults < MaxFaults /\ faults' = faults + 1

\* A call that should turn `stored` into `value`: it leaves `after`, and may raise.
Call(stored, value, after, raised) ==
  \/ after = value  /\ ~raised /\ NoFault
  \/ after = stored /\ raised  /\ Fault("lost")
  \/ after = value  /\ raised  /\ Fault("ack")

Put(stored, value, after, raised) ==
  \/ Call(stored, value, after, raised)
  \/ after = Corrupt /\ ~raised /\ Fault("corrupt")

\* publish's PUT of the pointer has faults of its own, so that a run can leave them out.
PutRootManifest(p, after, raised) ==
  \/ after = version[p] /\ ~raised /\ NoFault
  \/ after = pointer    /\ raised  /\ Fault("lost")
  \/ after = version[p] /\ raised  /\ Fault(IF mode[p] = "publish" THEN "pointer_ack" ELSE "ack")
  \/ after = Corrupt    /\ ~raised /\ Fault("pointer_corrupt")

\* A GET whose bytes are compared with the expected ones.
Matches(stored, value, good) ==
  \/ good = (stored = value) /\ NoFault
  \/ ~good /\ Fault("get")

\* gh looks a release up by its tag: it finds any one of the tag's, or none if there is none.
Found(v) == IF github[v] = {} THEN {{}} ELSE {{r} : r \in github[v]}

\* A gh command that should turn the release found, `held`, into `value`.  It may come to
\* `rest` and fail; on a tag without a release it fails.
Gh(v, held, rest, value, raised) ==
  LET others == github[v] \ held IN
  IF held = {} THEN raised /\ NoFault /\ UNCHANGED github
  ELSE \E after \in {others \cup rest, others \cup value} :
         /\ Call(others \cup rest, others \cup value, after, raised)
         /\ github' = Set(github, v, after)

----------------------------------------------------------------------------
(***************************************************************************)
(* Control.                                                                *)
(***************************************************************************)
Active(p) == pc[p] \notin Ended
Source(p) == IF mode[p] = "cleanup" THEN previous[p] ELSE version[p]
First(p, k) == k \in todo[p] /\ \A j \in todo[p] : k <= j

\* Objects of a release: what the upload stores and what a reader needs.
Objects(v) == Artifacts[v] \cup {ManifestPath}
Intact(v)  == \A k \in Objects(v) : tree[v][k] = v

Enter(p, stage, items) ==
  /\ pc' = Set(pc, p, stage)
  /\ todo' = Set(todo, p, items) /\ busy' = Set(busy, p, {})

\* The rest of a sequential stage, or the next stage.
Advance(p, k, stage, items) ==
  IF todo[p] = {k} THEN Enter(p, stage, items) ELSE Enter(p, pc[p], todo[p] \ {k})

\* An exception leaves the stage: publish_release's handler starts the cleanup,
\* the cleanup records a problem and is over, rollback has no handler.
Raise(p) ==
  /\ mode' = IF mode[p] = "publish" THEN Set(mode, p, "cleanup") ELSE mode
  /\ failed' = Set(failed, p, FALSE)
  /\ problem' = Set(problem, p, problem[p] \/ mode[p] = "cleanup")
  /\ Enter(p, CASE mode[p] = "publish" /\ drafted[p]  -> "delete_draft"
                [] mode[p] = "publish" /\ ~drafted[p] -> "list_tree"
                [] mode[p] = "cleanup"                -> "uncleaned"
                [] mode[p] = "rollback"               -> "rollback_failed", {})
  /\ UNCHANGED <<version, previous, drafted, touched>>

Continue(p, stage, items) == Enter(p, stage, items) /\ UNCHANGED <<job, flags>>

\* An exception, or on to the next stage.
RaiseOr(p, raised, stage, items) ==
  IF raised THEN Raise(p) ELSE Continue(p, stage, items)

----------------------------------------------------------------------------
(***************************************************************************)
(* The hourly workflow, up to the publish step.                            *)
(***************************************************************************)
\* Mutant: the body of a 404 answer is kept as the previous manifest.
ReadLiveManifest_KeepsErrorBody(p) ==
  /\ ~Active(p) /\ pointer # Corrupt
  /\ previous' = Set(previous, p, IF pointer = None THEN Corrupt ELSE pointer)
  /\ Enter(p, "building", {})
  /\ UNCHANGED <<bucket, gh, flags, mode, version, allocated, faults>>

ReadLiveManifest(p) ==
  /\ ~Active(p) /\ pointer # Corrupt
  /\ previous' = Set(previous, p, pointer)
  /\ Enter(p, "building", {})
  /\ UNCHANGED <<bucket, gh, flags, mode, version, allocated, faults>>

\* "no change", a failed build, or a dist that does not match its manifest.
NoRelease(p) ==
  /\ pc[p] = "building"
  /\ Enter(p, "idle", {})
  /\ UNCHANGED <<bucket, gh, flags, job, allocated, faults>>

\* Ids a further release of tag v may get.
FreshIds(v) == ReleaseIds \ {r.id : r \in github[v]}

StartPublish(p, v) ==
  /\ mode' = Set(mode, p, "publish") /\ version' = Set(version, p, v)
  /\ failed' = Set(failed, p, FALSE) /\ drafted' = Set(drafted, p, FALSE)
  /\ touched' = Set(touched, p, FALSE) /\ problem' = Set(problem, p, FALSE)
  /\ Enter(p, "draft", {})

BuildRelease(p) ==
  /\ pc[p] = "building"
  /\ \E v \in Versions \ allocated : StartPublish(p, v) /\ allocated' = allocated \cup {v}
  /\ UNCHANGED <<bucket, gh, previous, faults>>

\* `publish --dist` once more on a dist that has been published: no code refuses it.  The
\* bound on releases of one tag leaves out the repetitions that would exceed it.
Republish(p) ==
  /\ Republishing /\ ~Active(p) /\ pointer # Corrupt
  /\ previous' = Set(previous, p, pointer)
  /\ \E v \in published : FreshIds(v) # {} /\ StartPublish(p, v)
  /\ UNCHANGED <<bucket, gh, allocated, faults>>

----------------------------------------------------------------------------
(***************************************************************************)
(* publish_release.                                                        *)
(***************************************************************************)
Draft(i) == [id |-> i, public |-> FALSE, assets |-> {}]

\* `gh release create --draft`: it refuses no tag, and when it fails a draft may be there,
\* of which the command knows nothing.
CreateDraft(p) ==
  /\ pc[p] = "draft"
  /\ LET v == version[p] IN
     \E i \in FreshIds(v), raised \in BOOLEAN : \E after \in {github[v], github[v] \cup {Draft(i)}} :
       /\ Call(github[v], github[v] \cup {Draft(i)}, after, raised)
       /\ github' = Set(github, v, after)
       /\ IF raised THEN Raise(p)
          ELSE /\ drafted' = Set(drafted, p, TRUE)
               /\ Enter(p, "assets", Artifacts[v])
               /\ UNCHANGED <<job, failed, touched, problem>>
  /\ UNCHANGED <<bucket, allocated>>

WithAsset(held, k)    == {[r EXCEPT !.assets = r.assets \cup {k}] : r \in held}
WithoutAsset(held, k) == {[r EXCEPT !.assets = r.assets \ {k}] : r \in held}

\* Mutant: a failed upload is logged and skipped.
UploadAsset_IgnoresFailure(p, k) ==
  /\ pc[p] = "assets" /\ First(p, k)
  /\ LET v == version[p] IN
     \E held \in Found(v), raised \in BOOLEAN :
       /\ Gh(v, held, held, WithAsset(held, k), raised)
       /\ Advance(p, k, "tree", Artifacts[v]) /\ UNCHANGED <<job, flags>>
  /\ UNCHANGED <<bucket, allocated>>

\* --clobber deletes an asset of that name before it uploads the new one.
UploadAsset(p, k) ==
  /\ pc[p] = "assets" /\ First(p, k)
  /\ LET v == version[p] IN
     \E held \in Found(v), raised \in BOOLEAN :
       /\ \E rest \in {held, WithoutAsset(held, k)} : Gh(v, held, rest, WithAsset(held, k), raised)
       /\ IF raised THEN Raise(p)
          ELSE Advance(p, k, "tree", Artifacts[v]) /\ UNCHANGED <<job, flags>>
  /\ UNCHANGED <<bucket, allocated>>

\* The executor starts specs in order and runs MaxWorkers of them at a time:
\* a spec may be running once fewer than MaxWorkers earlier ones are unfinished.
Running(p, k) ==
  /\ k \in todo[p]
  /\ Cardinality({j \in todo[p] \cup busy[p] : j < k}) < MaxWorkers

\* A worker has finished, or given up, its spec.
Worked(p, k, ok) ==
  /\ todo' = Set(todo, p, todo[p] \ {k}) /\ busy' = Set(busy, p, busy[p] \ {k})
  /\ failed' = Set(failed, p, failed[p] \/ ~ok)
  /\ UNCHANGED <<pc, drafted, touched, problem>>

PutTreeObject(p, k) ==
  /\ pc[p] = "tree" /\ Running(p, k)
  /\ LET v == version[p] IN
     \E after \in Contents, raised \in BOOLEAN :
       /\ Put(tree[v][k], v, after, raised)
       /\ tree' = [tree EXCEPT ![v][k] = after]
       /\ IF raised THEN Worked(p, k, FALSE)
          ELSE /\ todo' = Set(todo, p, todo[p] \ {k})
               /\ busy' = Set(busy, p, busy[p] \cup {k})
               /\ UNCHANGED <<pc, flags>>
  /\ UNCHANGED <<latest, index, sums, pointer, published, gh, job, allocated>>

\* Mutant: the bytes read back are not compared.
VerifyTreeObject_NoCompare(p, k) ==
  /\ pc[p] = "tree" /\ k \in busy[p] /\ Worked(p, k, TRUE)
  /\ UNCHANGED <<bucket, gh, job, allocated, faults>>

VerifyTreeObject(p, k) ==
  /\ pc[p] = "tree" /\ k \in busy[p]
  /\ \E good \in BOOLEAN :
       Matches(tree[version[p]][k], version[p], good) /\ Worked(p, k, good)
  /\ UNCHANGED <<bucket, gh, job, allocated>>

\* Mutant: the futures' results are never asked for.
JoinTree_DropsErrors(p) ==
  /\ pc[p] = "tree" /\ todo[p] \cup busy[p] = {}
  /\ Continue(p, "manifest_put", {})
  /\ UNCHANGED <<bucket, gh, allocated, faults>>

\* Mutant: the pool is joined only when every spec has succeeded.
JoinTree_WaitsForSuccess(p) ==
  /\ pc[p] = "tree" /\ todo[p] \cup busy[p] = {} /\ ~failed[p]
  /\ Continue(p, "manifest_put", {})
  /\ UNCHANGED <<bucket, gh, allocated, faults>>

\* _run_parallel_specs returns, or raises what a future raised, when all futures are done.
JoinTree(p) ==
  /\ pc[p] = "tree" /\ todo[p] \cup busy[p] = {}
  /\ RaiseOr(p, failed[p], "manifest_put", {})
  /\ UNCHANGED <<bucket, gh, allocated, faults>>

PutReleaseManifest(p) ==
  /\ pc[p] = "manifest_put"
  /\ LET v == version[p] IN
     \E after \in Contents, raised \in BOOLEAN :
       /\ Put(tree[v][ManifestPath], v, after, raised)
       /\ tree' = [tree EXCEPT ![v][ManifestPath] = after]
       /\ RaiseOr(p, raised, "manifest_get", {})
  /\ UNCHANGED <<latest, index, sums, pointer, published, gh, allocated>>

\* Mutant: the release manifest is not read back.
VerifyReleaseManifest_Skipped(p) ==
  /\ pc[p] = "manifest_get"
  /\ touched' = Set(touched, p, TRUE)
  /\ Enter(p, "latest", Artifacts[version[p]])
  /\ UNCHANGED <<bucket, gh, job, failed, drafted, problem, allocated, faults>>

VerifyReleaseManifest(p) ==
  /\ pc[p] = "manifest_get"
  /\ \E good \in BOOLEAN :
       /\ Matches(tree[version[p]][ManifestPath], version[p], good)
       /\ IF ~good THEN Raise(p)
          ELSE /\ touched' = Set(touched, p, TRUE)
               /\ Enter(p, "latest", Artifacts[version[p]])
               /\ UNCHANGED <<job, failed, drafted, problem>>
  /\ UNCHANGED <<bucket, gh, allocated>>

\* _copy_specs_to_latest puts the local bytes and reads nothing back.
CopyToLatest(p, k) ==
  /\ pc[p] = "latest" /\ Running(p, k)
  /\ \E after \in Contents, raised \in BOOLEAN :
       /\ Put(latest[k], version[p], after, raised)
       /\ latest' = Set(latest, k, after)
       /\ Worked(p, k, ~raised)
  /\ UNCHANGED <<tree, index, sums, pointer, published, gh, job, allocated>>

\* Mutant: the futures' results are never asked for.
JoinLatest_DropsErrors(p) ==
  /\ pc[p] = "latest" /\ todo[p] \cup busy[p] = {}
  /\ Enter(p, "index", {}) /\ failed' = Set(failed, p, FALSE)
  /\ UNCHANGED <<bucket, gh, job, drafted, touched, problem, allocated, faults>>

JoinLatest(p) ==
  /\ pc[p] = "latest" /\ todo[p] \cup busy[p] = {}
  /\ RaiseOr(p, failed[p], "index", {})
  /\ UNCHANGED <<bucket, gh, allocated, faults>>

----------------------------------------------------------------------------
(***************************************************************************)
(* _copy_index_to_root, which publish, cleanup and rollback share.         *)
(***************************************************************************)
IndexDone(p) ==
  IF mode[p] # "cleanup" THEN Continue(p, "sums", {})
  ELSE Continue(p, IF problem[p] THEN "uncleaned" ELSE "cleaned", {})

ReadIndex(p) ==
  /\ pc[p] = "index" /\ IndexPath \in Artifacts[Source(p)]
  /\ \E good \in BOOLEAN :
       /\ Matches(tree[Source(p)][IndexPath], Source(p), good)
       /\ RaiseOr(p, ~good, "index_put", {})
  /\ UNCHANGED <<bucket, gh, allocated>>

\* Mutant: deleting a root index page that is not there is taken for an error.
DeleteRootIndex_NeedsOne(p) ==
  /\ pc[p] = "index" /\ IndexPath \notin Artifacts[Source(p)]
  /\ IF index = None THEN Raise(p) /\ NoFault /\ UNCHANGED index
     ELSE \E after \in Contents, raised \in BOOLEAN :
            /\ Call(index, None, after, raised)
            /\ index' = after
            /\ IF raised THEN Raise(p) ELSE IndexDone(p)
  /\ UNCHANGED <<tree, latest, sums, pointer, published, gh, allocated>>

DeleteRootIndex(p) ==
  /\ pc[p] = "index" /\ IndexPath \notin Artifacts[Source(p)]
  /\ \E after \in Contents, raised \in BOOLEAN :
       /\ Call(index, None, after, raised)
       /\ index' = after
       /\ IF raised THEN Raise(p) ELSE IndexDone(p)
  /\ UNCHANGED <<tree, latest, sums, pointer, published, gh, allocated>>

PutRootIndex(p) ==
  /\ pc[p] = "index_put"
  /\ \E after \in Contents, raised \in BOOLEAN :
       /\ Put(index, Source(p), after, raised)
       /\ index' = after
       /\ RaiseOr(p, raised, "index_get", {})
  /\ UNCHANGED <<tree, latest, sums, pointer, published, gh, allocated>>

VerifyRootIndex(p) ==
  /\ pc[p] = "index_get"
  /\ \E good \in BOOLEAN :
       /\ Matches(index, Source(p), good)
       /\ IF good THEN IndexDone(p) ELSE Raise(p)
  /\ UNCHANGED <<bucket, gh, allocated>>

----------------------------------------------------------------------------
(***************************************************************************)
(* _write_manifest: SHA256SUMS, then the pointer.                          *)
(***************************************************************************)
PutSums(p) ==
  /\ pc[p] = "sums"
  /\ \E after \in Contents, raised \in BOOLEAN :
       /\ Put(sums, version[p], after, raised)
       /\ sums' = after
       /\ RaiseOr(p, raised, "pointer", {})
  /\ UNCHANGED <<tree, latest, index, pointer, published, gh, allocated>>

PutPointer(p) ==
  /\ pc[p] = "pointer"
  /\ \E after \in Contents, raised \in BOOLEAN :
       /\ PutRootManifest(p, after, raised)
       /\ pointer' = after
       /\ published' = IF after = version[p] THEN published \cup {after} ELSE published
       /\ RaiseOr(p, raised, IF mode[p] = "publish" THEN "finalize" ELSE "rolled_back", {})
  /\ UNCHANGED <<tree, latest, index, sums, gh, allocated>>

Public(held) == {[r EXCEPT !.public = TRUE] : r \in held}

\* Mutant: a failed finalization is cleaned up after like any other failure.
Finalize_CleansUp(p) ==
  /\ pc[p] = "finalize"
  /\ \E held \in Found(version[p]), raised \in BOOLEAN :
       /\ Gh(version[p], held, held, Public(held), raised)
       /\ RaiseOr(p, raised, "published", {})
  /\ UNCHANGED <<bucket, allocated>>

\* `gh release edit --draft=false`.  GitHub may refuse a second public release of one tag.
Finalize(p) ==
  /\ pc[p] = "finalize"
  /\ LET v == version[p] IN
     \E held \in Found(v), raised \in BOOLEAN :
       /\ \/ Gh(v, held, held, Public(held), raised)
          \/ raised /\ NoFault /\ UNCHANGED github /\ \E r \in github[v] \ held : r.public
       /\ Continue(p, IF raised THEN "unfinalized" ELSE "published", {})
  /\ UNCHANGED <<bucket, allocated>>

----------------------------------------------------------------------------
(***************************************************************************)
(* _cleanup_failed_publication.                                            *)
(***************************************************************************)
DeleteDraft(p) ==
  /\ pc[p] = "delete_draft"
  /\ LET v == version[p] IN
     \E held \in Found(v), raised \in BOOLEAN :
       /\ Gh(v, held, held, {}, raised)
       /\ problem' = Set(problem, p, problem[p] \/ raised)
       /\ Enter(p, "list_tree", {})
  /\ UNCHANGED <<bucket, job, failed, drafted, touched, allocated>>

\* Mutant: a failure of delete_prefix is swallowed.
AfterDelete_Swallows(p, raised) ==
  /\ \/ ~touched[p] /\ Enter(p, IF problem[p] THEN "uncleaned" ELSE "cleaned", {})
     \/ touched[p] /\ previous[p] = None /\ Enter(p, "forget_index", {})
     \/ touched[p] /\ previous[p] # None /\ Enter(p, "restore_read", Artifacts[previous[p]])
  /\ UNCHANGED flags

\* delete_prefix has returned, or raised: now /latest, if it was overwritten.
AfterDelete(p, raised) ==
  /\ problem' = Set(problem, p, problem[p] \/ raised)
  /\ \/ ~touched[p] /\ Enter(p, IF problem[p] \/ raised THEN "uncleaned" ELSE "cleaned", {})
     \/ touched[p] /\ previous[p] = None /\ Enter(p, "forget_index", {})
     \/ touched[p] /\ previous[p] # None /\ Enter(p, "restore_read", Artifacts[previous[p]])
  /\ UNCHANGED <<failed, drafted, touched>>

\* delete_prefix collects the keys of every page before it deletes any.
ListTree(p) ==
  /\ pc[p] = "list_tree"
  /\ LET keys == {k \in Paths : tree[version[p]][k] # None} IN
     \/ /\ NoFault
        /\ IF keys = {} THEN AfterDelete(p, FALSE)
           ELSE Enter(p, "delete_tree", keys) /\ UNCHANGED flags
     \/ Fault("lost") /\ AfterDelete(p, TRUE)
  /\ UNCHANGED <<bucket, gh, job, allocated>>

DeleteTreeObject(p, k) ==
  /\ pc[p] = "delete_tree" /\ First(p, k)
  /\ \E after \in Contents, raised \in BOOLEAN :
       /\ Call(tree[version[p]][k], None, after, raised)
       /\ tree' = [tree EXCEPT ![version[p]][k] = after]
       /\ IF raised \/ todo[p] = {k} THEN AfterDelete(p, raised)
          ELSE Enter(p, "delete_tree", todo[p] \ {k}) /\ UNCHANGED flags
  /\ UNCHANGED <<latest, index, sums, pointer, published, gh, job, allocated>>

\* The first publication has nothing to restore from, which is a problem by itself.
ForgetIndex(p) ==
  /\ pc[p] = "forget_index"
  /\ \E after \in Contents, raised \in BOOLEAN :
       Call(index, None, after, raised) /\ index' = after
  /\ problem' = Set(problem, p, TRUE)
  /\ Enter(p, "uncleaned", {})
  /\ UNCHANGED <<tree, latest, sums, pointer, published, gh, job, failed, drafted, touched,
                 allocated>>

----------------------------------------------------------------------------
(***************************************************************************)
(* rollback, and _copy_prefix_to_latest, which the cleanup shares.         *)
(***************************************************************************)
\* Mutant: any built version is accepted as the target.
StartRollback_AnyVersion(p) ==
  /\ ~Active(p)
  /\ \E v \in allocated :
       /\ mode' = Set(mode, p, "rollback") /\ version' = Set(version, p, v)
       /\ Enter(p, "restore_read", Artifacts[v])
  /\ failed' = Set(failed, p, FALSE) /\ drafted' = Set(drafted, p, FALSE)
  /\ touched' = Set(touched, p, FALSE) /\ problem' = Set(problem, p, FALSE)
  /\ UNCHANGED <<bucket, gh, previous, allocated, faults>>

\* The manifest passed to `rollback` is that of a prior release, as its documentation asks:
\* _validate_rollback_target checks the manifest, not that its version was ever live.
StartRollback(p) ==
  /\ ~Active(p)
  /\ \E v \in published :
       /\ mode' = Set(mode, p, "rollback") /\ version' = Set(version, p, v)
       /\ Enter(p, "restore_read", Artifacts[v])
  /\ failed' = Set(failed, p, FALSE) /\ drafted' = Set(drafted, p, FALSE)
  /\ touched' = Set(touched, p, FALSE) /\ problem' = Set(problem, p, FALSE)
  /\ UNCHANGED <<bucket, gh, previous, allocated, faults>>

\* Mutant: a published tree is immutable, so its objects are not verified once more.
ReadRestoreSource_TrustsTree(p, k) ==
  /\ pc[p] = "restore_read" /\ First(p, k)
  /\ Advance(p, k, "restore_put", Artifacts[Source(p)])
  /\ UNCHANGED <<bucket, gh, job, flags, allocated, faults>>

\* Every source is read and verified before anything is overwritten.
ReadRestoreSource(p, k) ==
  /\ pc[p] = "restore_read" /\ First(p, k)
  /\ \E good \in BOOLEAN :
       /\ Matches(tree[Source(p)][k], Source(p), good)
       /\ IF good
          THEN Advance(p, k, "restore_put", Artifacts[Source(p)]) /\ UNCHANGED <<job, flags>>
          ELSE Raise(p)
  /\ UNCHANGED <<bucket, gh, allocated>>

\* One object is handled; a failure does not stop the loop but raises after it.
Restored(p, k, ok) ==
  \/ /\ todo[p] # {k}
     /\ Enter(p, "restore_put", todo[p] \ {k})
     /\ failed' = Set(failed, p, failed[p] \/ ~ok)
     /\ UNCHANGED <<job, drafted, touched, problem>>
  \/ todo[p] = {k} /\ RaiseOr(p, failed[p] \/ ~ok, "index", {})

PutRestored(p, k) ==
  /\ pc[p] = "restore_put" /\ First(p, k)
  /\ \E after \in Contents, raised \in BOOLEAN :
       /\ Put(latest[k], Source(p), after, raised)
       /\ latest' = Set(latest, k, after)
       /\ IF raised THEN Restored(p, k, FALSE) ELSE Continue(p, "restore_get", todo[p])
  /\ UNCHANGED <<tree, index, sums, pointer, published, gh, allocated>>

VerifyRestored(p, k) ==
  /\ pc[p] = "restore_get" /\ First(p, k)
  /\ \E good \in BOOLEAN :
       Matches(latest[k], Source(p), good) /\ Restored(p, k, good)
  /\ UNCHANGED <<bucket, gh, allocated>>

----------------------------------------------------------------------------
\* The command dies between two calls; nothing of it cleans up.
Crash(p) ==
  /\ Active(p) /\ Fault("crash")
  /\ Enter(p, "crashed", {})
  /\ UNCHANGED <<bucket, gh, flags, job, allocated>>

Publish(p) ==
  \/ NoRelease(p) \/ BuildRelease(p) \/ CreateDraft(p)
  \/ \E k \in Paths : \/ UploadAsset(p, k) \/ PutTreeObject(p, k) \/ VerifyTreeObject(p, k)
                      \/ CopyToLatest(p, k)
  \/ JoinTree(p) \/ PutReleaseManifest(p) \/ VerifyReleaseManifest(p) \/ JoinLatest(p)
  \/ Finalize(p)

Cleanup(p) ==
  \/ DeleteDraft(p) \/ ListTree(p) \/ ForgetIndex(p)
  \/ \E k \in Paths : DeleteTreeObject(p, k)

Shared(p) ==
  \/ \E k \in Paths : ReadRestoreSource(p, k) \/ PutRestored(p, k) \/ VerifyRestored(p, k)
  \/ ReadIndex(p) \/ DeleteRootIndex(p) \/ PutRootIndex(p) \/ VerifyRootIndex(p)
  \/ PutSums(p) \/ PutPointer(p)

\* A command that has started makes its next call.
Step(p) == Publish(p) \/ Cleanup(p) \/ Shared(p)

Next ==
  \/ \E p \in Publishers : ReadLiveManifest(p) \/ Republish(p)
  \/ \E p \in Operators : StartRollback(p)
  \/ \E p \in Procs : Step(p) \/ Crash(p)

Spec == Init /\ [][Next]_vars

\* A command that is alive goes on to its next call: each is bounded by a timeout
\* (_S3_SUBPROCESS_TIMEOUT_SECONDS, ToolRunner's) and a bounded number of retries.
FairSpec == Spec /\ \A p \in Procs : WF_vars(Step(p))

----------------------------------------------------------------------------
(***************************************************************************)
(* Properties.                                                             *)
(***************************************************************************)
\* Every version the pointer has ever named keeps its complete, correct tree under
\* releases/<v>/, whatever publications, cleanups and rollbacks run, fail or die, so
\* that the version the pointer names can be read and the others rolled back to.
PublishedIntact ==
  /\ pointer \in published \cup {None, Corrupt}
  /\ \A v \in published : Intact(v)

\* A public GitHub release was live before it became public, and has all its assets: gh
\* finds no other release under the tag a publication uploads to and finalizes.  For
\* versions published once.
PublicReleaseIsLive ==
  \A v \in Versions : \A r \in github[v] :
    r.public => v \in published /\ r.assets = Artifacts[v]

\* A GitHub release that has become public is never withdrawn: not by a cleanup, which
\* deletes by tag, and not after `gh release edit` has failed with its effect in place.  For
\* versions published once.
PublicStaysPublic ==
  [][\A v \in Versions : \A r \in github[v] :
       r.public => \E s \in github'[v] : s.id = r.id /\ s.public]_vars

\* latest/<k> is only ever given bytes of a version whose whole tree has been verified.
LatestFromIntact ==
  [][\A k \in Paths : latest'[k] # latest[k] /\ latest'[k] \in Versions
                        => Intact(latest'[k])]_vars

IndexOf(v) == IF IndexPath \in Artifacts[v] THEN v ELSE None
RestoredTo(v) == (\A k \in Artifacts[v] : latest[k] = v) /\ index = IndexOf(v)

\* When a failed publication reports "was cleaned up", nothing of it is left: no draft it
\* knows of, no object of its tree, and latest/ and the root index page are those of
\* previous_manifest.  For a command that runs alone.
CleanedUp ==
  \A p \in Procs : pc[p] = "cleaned" =>
    /\ drafted[p] => github[version[p]] = {}
    /\ \A k \in Paths : tree[version[p]][k] = None
    /\ touched[p] => previous[p] # None /\ RestoredTo(previous[p])

\* The pointer moves last: when it does, latest/, the root index page and SHA256SUMS are
\* already those of its version.  What publish does not read back may be corrupt; a
\* rollback has read everything back but SHA256SUMS.  For a command that runs alone.
PointerLast ==
  [][pointer' \in Versions \ {pointer} =>
       /\ sums' \in {pointer', Corrupt}
       /\ index' = IndexOf(pointer')
       /\ \A k \in Artifacts[pointer'] :
            latest'[k] \in {pointer'} \cup
              {c \in {Corrupt} : \E p \in Procs : pc[p] = "pointer" /\ mode[p] = "publish"}]_vars

\* Whenever the pointer comes to name another version, every artifact of that version can be
\* read below releases/: what a failed repetition of `publish` has done to a published tree
\* is never made live again, not by a rollback and not by a later publication.  For a
\* command that runs alone.
PointerToReadable ==
  [][pointer' \in Versions \ {pointer} =>
       \A k \in Artifacts[pointer'] : tree[pointer'][k] = pointer']_vars

\* Publication implements ReleasePointer: a version is available once it has been
\* published and its tree is intact.
Pointer == INSTANCE ReleasePointer
             WITH current <- pointer, available <- {v \in published : Intact(v)}
ImplementsPointer == Pointer!Spec

\* Every command that does not die ends.
CommandsEnd == \A p \in Procs : Active(p) ~> ~Active(p)

\* Whatever earlier failures and crashes left behind, a publication that meets no fault
\* succeeds.  For a command that runs alone.
PublishesOnceFaultsStop ==
  \A p \in Procs : pc[p] = "draft" /\ faults = MaxFaults ~> pc[p] = "published"

----------------------------------------------------------------------------
(***************************************************************************)
(* Statements of the documentation that the code does not live up to: each *)
(* is refuted by a run, under the fault or the interleaving the runs above *)
(* leave out.                                                              *)
(***************************************************************************)
\* "an exception from that PUT itself can only mean the pointer never moved": a cleanup
\* never runs for the version the pointer names (while a command builds its next release
\* its mode is still that of its last one).
CleanupNeverOfLive ==
  \A p \in Procs : mode[p] = "cleanup" /\ Active(p) /\ pc[p] # "building"
                    => pointer # version[p]

\* "complete immutable /releases/<version>/ tree (never overwritten once published)":
\* no object of a published version changes or goes away.
ReleaseTreeImmutable == [][\A v \in published : tree'[v] = tree[v]]_vars
=============================================================================
