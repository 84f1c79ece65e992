---------------------------- MODULE BuildPipeline ----------------------------
(***************************************************************************)
(* The `build` command from a resolved build on: generate_all, whose       *)
(* compilers run in a thread pool; validate_build, with the second         *)
(* compilation it compares with the first; the release decision;           *)
(* render_examples; package_build, which writes the archive next to dist;  *)
(* and the replacement of dist.  Builds follow each other; compilers fail  *)
(* or misbehave, file-system calls fail and the command dies.              *)
(*                                                                         *)
(* A file's content is the dataset it was compiled from and a state:       *)
(* "good", "other" (it loads, but another compilation gives other bytes)   *)
(* or "garbage" (no engine loads it).  The text files the command writes   *)
(* itself are left out; the steps of the swaps are those of DirectorySwap. *)
(***************************************************************************)
EXTENDS Integers, SequencesExt

CONSTANTS
  Kinds,      \* Kinds[d][c]: the kinds of rules in category c of dataset d
  Workers,    \* size of the pool for more than one category
  FaultKinds, \* see AllFaults
  MaxBuilds,  \* bound on the number of builds
  MaxFaults,  \* bound on the number of faults
  None

\* A compiler fails or times out; it succeeds without writing anything; it writes "other" or
\* "garbage"; a file-system call, an engine or the decision fails; the command dies.
AllFaults == {"fails", "silent", "other", "garbage", "error", "crash"}

Datasets   == {"lite", "server"}
InDataset(d) == DOMAIN Kinds[d]

ASSUME BuildAssumption ==
         /\ DOMAIN Kinds = Datasets
         /\ \A d \in Datasets : IsFiniteSet(InDataset(d))
         /\ Workers \in Nat \ {0} /\ MaxBuilds \in Nat /\ MaxFaults \in Nat
         /\ FaultKinds \subseteq AllFaults /\ None \notin Nat

VARIABLES
  pc,        \* the next stage of the command, or how the last build ended
  run,       \* number of the build
  step,      \* the compilation generate_all is at
  rebuild,   \* is it the second compilation, of _validate_determinism?
  tree,      \* the generation stage: the content of its files; None when it is gone
  waiting,   \* categories of the current pool no worker has begun
  running,   \* [category -> files its worker has still to compile]
  raised,    \* has a worker of the pool failed?
  stage,     \* the outer stage: files, checksums and manifest
  version,   \* the version decided on, or Unreleased
  dist,      \* the output directory, or None
  archives,  \* [archive name -> the build it was made of] next to dist, or Partial
  faults

pool == <<waiting, running, raised>>
vars == <<pc, run, step, rebuild, tree, pool, stage, version, dist, archives, faults>>

Ended   == {"done", "failed", "crashed"}
Partial == 0
Unreleased == 0   \* the archive of a build without a version is `unreleased.tar.gz`
Content(d, state) == [dataset |-> d, state |-> state]
NoStage == [files |-> <<>>, sums |-> {}, manifest |-> None]

Init ==
  /\ pc = "done" /\ run = 0 /\ step = 1 /\ rebuild = FALSE /\ tree = None
  /\ waiting = {} /\ running = <<>> /\ raised = FALSE
  /\ stage = NoStage /\ version = Unreleased /\ dist = None /\ archives = <<>> /\ faults = 0

----------------------------------------------------------------------------
NoFault     == faults' = faults
Fault(kind) == kind \in FaultKinds /\ faults < MaxFaults /\ faults' = faults + 1

With(f, x, value) == [y \in DOMAIN f \cup {x} |-> IF y = x THEN value ELSE f[y]]
Without(f, x)     == [y \in DOMAIN f \ {x} |-> f[y]]

\* mihomo_mrs_behaviors: the binary rule sets a category has without loss.
MrsBehaviors(kinds) ==
  {b \in {"domain", "ipcidr"} :
     \/ /\ b = "domain" /\ kinds \cap {"domain", "domain_suffix"} # {}
        /\ kinds \cap {"domain_keyword", "domain_regex"} = {}
     \/ b = "ipcidr" /\ "cidr" \in kinds}

\* The binary files a worker compiles for a category, in its order.
Outputs(tool, d, c) ==
  CASE tool = "sing-box" -> << <<tool, d, c, "srs">> >>
    [] tool = "mihomo"   ->
         LET If(b) == IF b \in MrsBehaviors(Kinds[d][c]) THEN << <<tool, d, c, b>> >> ELSE <<>>
         IN  If("domain") \o If("ipcidr")

\* _required_artifacts.
Geosite(d)   == <<"xray", IF d = "lite" THEN "geosite-lite.dat" ELSE "geosite.dat">>
Geoip(d)     == <<"xray", IF d = "lite" THEN "geoip-lite.dat" ELSE "geoip.dat">>
XrayFiles    == {Geosite(d) : d \in Datasets} \cup {Geoip(d) : d \in Datasets}
RequiredArtifacts ==
  XrayFiles \cup UNION {UNION {ToSet(Outputs(tool, d, c)) :
                               tool \in {"sing-box", "mihomo"}, c \in InDataset(d)} : d \in Datasets}

\* The order of generate_all.
Compilations ==
  << <<"dlc", "lite">>, <<"geoip", "lite">>, <<"dlc", "server">>, <<"geoip", "server">>,
     <<"sing-box", "lite">>, <<"sing-box", "server">>, <<"mihomo", "lite">>, <<"mihomo", "server">> >>
Tool    == Compilations[step][1]
Dataset == Compilations[step][2]
Pooled  == Tool \in {"sing-box", "mihomo"}

\* The categories the compilation number n hands to its pool.
Queue(n) == IF n \in DOMAIN Compilations /\ Compilations[n][1] \in {"sing-box", "mihomo"}
            THEN InDataset(Compilations[n][2]) ELSE {}

EnterStep(n) == step' = n /\ waiting' = Queue(n) /\ raised' = FALSE

\* What an exception leaves: the handlers remove both stages.
Cleared == /\ EnterStep(1) /\ rebuild' = FALSE /\ tree' = None /\ stage' = NoStage
           /\ version' = Unreleased
Fail    == pc' = "failed" /\ Cleared /\ UNCHANGED <<run, running, dist, archives>>

----------------------------------------------------------------------------
StartBuild ==
  /\ pc \in Ended /\ run < MaxBuilds /\ run' = run + 1
  /\ pc' = "generate" /\ EnterStep(1) /\ rebuild' = FALSE /\ tree' = <<>>
  /\ stage' = NoStage /\ version' = Unreleased
  /\ UNCHANGED <<running, dist, archives, faults>>

\* One run of a compiler that should write `file` from dataset d, after which that file is in
\* `after`; the check of _run_compiler is all that notices one that has written nothing.
Compiles(file, d, after, ok) ==
  \/ after = With(tree, file, Content(d, "good")) /\ ok /\ NoFault
  \/ \E state \in {"other", "garbage"} :
       after = With(tree, file, Content(d, state)) /\ ok /\ Fault(state)
  \/ after = tree /\ ok = (file \in DOMAIN tree) /\ Fault("silent")
  \/ after \in {tree, With(tree, file, Content(d, "garbage"))} /\ ~ok /\ Fault("fails")

\* What the tree can be after it.
Compiled(file, d) ==
  {tree} \cup {With(tree, file, Content(d, state)) : state \in {"good", "other", "garbage"}}

\* Mutant: the file of lite is copied instead of renamed.
CompileXray_Copies ==
  /\ pc = "generate" /\ step \in DOMAIN Compilations /\ ~Pooled
  /\ LET file == IF Tool = "dlc" THEN Geosite(Dataset) ELSE Geoip("server") IN
     \E after \in Compiled(file, Dataset), ok \in BOOLEAN :
       /\ Compiles(file, Dataset, after, ok)
       /\ IF ok
          THEN /\ tree' = IF Tool = "geoip" /\ Dataset = "lite"
                          THEN With(after, Geoip("lite"), after[Geoip("server")]) ELSE after
               /\ EnterStep(step + 1)
               /\ UNCHANGED <<pc, run, rebuild, running, stage, version, dist, archives>>
          ELSE Fail

\* _compile_xray: both datasets compile geoip.dat, and lite's is renamed before server's.
CompileXray ==
  /\ pc = "generate" /\ step \in DOMAIN Compilations /\ ~Pooled
  /\ LET file == IF Tool = "dlc" THEN Geosite(Dataset) ELSE Geoip("server") IN
     \E after \in Compiled(file, Dataset), ok \in BOOLEAN :
       /\ Compiles(file, Dataset, after, ok)
       /\ IF ok
          THEN /\ tree' = IF Tool = "geoip" /\ Dataset = "lite"
                          THEN Without(With(after, Geoip("lite"), after[file]), file)
                          ELSE after
               /\ EnterStep(step + 1)
               /\ UNCHANGED <<pc, run, rebuild, running, stage, version, dist, archives>>
          ELSE Fail

----------------------------------------------------------------------------
(* _run_parallel. *)
InPool == pc = "generate" /\ step \in DOMAIN Compilations /\ Pooled

\* A worker with `files` left to compile for category c.
Goes(c, files) == running' = IF files = <<>> THEN Without(running, c) ELSE With(running, c, files)

\* A worker takes a category and writes the compilers' input.
StartItem ==
  /\ InPool /\ Cardinality(DOMAIN running) < Workers
  /\ \E c \in waiting : waiting' = waiting \ {c} /\ Goes(c, Outputs(Tool, Dataset, c))
  /\ UNCHANGED <<pc, run, step, rebuild, tree, raised, stage, version, dist, archives, faults>>

\* It compiles its next file; its future fails with the first that is not there.  That the
\* main thread has gone on stops no worker, only the directory being gone does.
CompileItem ==
  /\ tree # None
  /\ \E c \in DOMAIN running :
       LET file == Head(running[c]) IN
       \E after \in Compiled(file, file[2]), ok \in BOOLEAN :
         /\ Compiles(file, file[2], after, ok) /\ tree' = after
         /\ Goes(c, IF ok THEN Tail(running[c]) ELSE <<>>)
         /\ raised' = (raised \/ ~ok)
  /\ UNCHANGED <<pc, run, step, rebuild, waiting, stage, version, dist, archives>>

\* The main thread meets a failed future: nothing else is begun.
CancelPending ==
  /\ InPool /\ raised /\ waiting # {} /\ waiting' = {}
  /\ UNCHANGED <<pc, run, step, rebuild, tree, running, raised, stage, version, dist, archives, faults>>

\* Mutant: the pool is left only when every future has succeeded.
JoinPool_WaitsForSuccess ==
  /\ InPool /\ waiting = {} /\ DOMAIN running = {} /\ ~raised /\ NoFault
  /\ EnterStep(step + 1)
  /\ UNCHANGED <<pc, run, rebuild, running, tree, stage, version, dist, archives>>

\* Mutant: an executor without `with`, whose shutdown(wait=False) is all that ends it.
JoinPool_NoWait ==
  /\ InPool /\ waiting = {} /\ (raised \/ DOMAIN running = {}) /\ NoFault
  /\ \/ raised /\ Fail
     \/ /\ ~raised /\ EnterStep(step + 1)
        /\ UNCHANGED <<pc, run, rebuild, running, tree, stage, version, dist, archives>>

\* The `with` of the executor is left when every worker has returned, also by an exception.
JoinPool ==
  /\ InPool /\ waiting = {} /\ DOMAIN running = {} /\ NoFault
  /\ \/ raised /\ Fail
     \/ /\ ~raised /\ EnterStep(step + 1)
        /\ UNCHANGED <<pc, run, rebuild, running, tree, stage, version, dist, archives>>

----------------------------------------------------------------------------
\* An error of a file-system call, an engine or the decision.
StageFails == pc \notin Ended \cup {"generate"} /\ Fault("error") /\ Fail

Generated == pc = "generate" /\ step \notin DOMAIN Compilations

\* _publish_tree, into the outer stage.
PublishTree ==
  /\ Generated /\ ~rebuild /\ NoFault
  /\ stage' = [stage EXCEPT !.files = tree] /\ tree' = None /\ pc' = "validate"
  /\ UNCHANGED <<run, step, rebuild, pool, version, dist, archives>>

\* validate_build: the artifacts are there and load; then all is compiled again.
ValidateArtifacts ==
  /\ pc = "validate" /\ NoFault
  /\ IF /\ RequiredArtifacts \subseteq DOMAIN stage.files
        /\ \A file \in DOMAIN stage.files : stage.files[file].state # "garbage"
     THEN /\ pc' = "generate" /\ EnterStep(1) /\ rebuild' = TRUE /\ tree' = <<>>
          /\ UNCHANGED <<run, running, stage, version, dist, archives>>
     ELSE Fail

\* _validate_determinism: the same files with the same bytes, and no other ones.
CompareRebuild ==
  /\ Generated /\ rebuild /\ NoFault
  /\ IF tree = stage.files
     THEN /\ pc' = "decide" /\ tree' = None /\ rebuild' = FALSE
          /\ UNCHANGED <<run, step, pool, stage, version, dist, archives>>
     ELSE Fail

\* Mutant: the version is that of the first build.
Decide_ReusesVersion ==
  /\ pc = "decide" /\ NoFault
  /\ version' \in {Unreleased, 1} /\ pc' = "render"
  /\ UNCHANGED <<run, step, rebuild, tree, pool, stage, dist, archives>>

\* plan_release: "no change", or a version of this build.
Decide ==
  /\ pc = "decide" /\ NoFault
  /\ version' \in {Unreleased, run} /\ pc' = "render"
  /\ UNCHANGED <<run, step, rebuild, tree, pool, stage, dist, archives>>

RenderExamples ==
  /\ pc = "render" /\ NoFault /\ pc' = "package"
  /\ stage' = [stage EXCEPT !.files = With(@, <<"examples">>, Content("both", "good"))]
  /\ UNCHANGED <<run, step, rebuild, tree, pool, version, dist, archives>>

\* The files with the license material and the index page.
WithMaterial(files) ==
  With(With(files, <<"LICENSES.md">>, Content("both", "good")), <<"index.html">>, Content("both", "good"))

\* Mutant: the index page is written after the checksums.
PackageTree_IndexLast ==
  /\ pc = "package" /\ NoFault /\ pc' = "archive"
  /\ stage' = [files    |-> WithMaterial(stage.files),
               sums     |-> DOMAIN stage.files \cup {<<"LICENSES.md">>},
               manifest |-> [version |-> version, archive |-> None]]
  /\ UNCHANGED <<run, step, rebuild, tree, pool, version, dist, archives>>

\* package_build: license material and index page, SHA256SUMS over all files, the manifest.
PackageTree ==
  /\ pc = "package" /\ NoFault /\ pc' = "archive"
  /\ LET files == WithMaterial(stage.files) IN
     stage' = [files    |-> files,
               sums     |-> DOMAIN files,
               manifest |-> [version |-> version, archive |-> None]]
  /\ UNCHANGED <<run, step, rebuild, tree, pool, version, dist, archives>>

\* _create_archive, next to dist: what it has written stays when the build fails after it.
CreateArchive ==
  /\ pc = "archive"
  /\ \/ NoFault /\ archives' = With(archives, version, run) /\ pc' = "manifest"
        /\ UNCHANGED <<run, step, rebuild, tree, pool, stage, version, dist>>
     \/ /\ Fault("error") /\ archives' = With(archives, version, Partial)
        /\ pc' = "failed" /\ Cleared /\ UNCHANGED <<run, running, dist>>

\* The manifest again, with the name and the checksum of the archive.
FinishManifest ==
  /\ pc = "manifest" /\ NoFault /\ pc' = "swap"
  /\ stage' = [stage EXCEPT !.manifest.archive = archives[version]]
  /\ UNCHANGED <<run, step, rebuild, tree, pool, version, dist, archives>>

\* _publish_dist.
SwapIn ==
  /\ pc = "swap" /\ NoFault /\ pc' = "done"
  /\ dist' = stage /\ stage' = NoStage /\ version' = Unreleased /\ EnterStep(1)
  /\ UNCHANGED <<run, rebuild, running, tree, archives>>

\* SIGKILL or the end of the job: threads die with the process.
Crash ==
  /\ pc \notin Ended /\ Fault("crash") /\ pc' = "crashed" /\ Cleared /\ running' = <<>>
  /\ \/ archives' = archives
     \/ pc = "archive" /\ archives' = With(archives, version, Partial)
  /\ UNCHANGED <<run, dist>>

Step ==
  \/ CompileXray \/ StartItem \/ CompileItem \/ CancelPending \/ JoinPool
  \/ PublishTree \/ ValidateArtifacts \/ CompareRebuild \/ Decide \/ RenderExamples
  \/ PackageTree \/ CreateArchive \/ FinishManifest \/ SwapIn \/ StageFails
Next == StartBuild \/ Step \/ Crash

Spec     == Init /\ [][Next]_vars
FairSpec == Spec /\ WF_vars(Step)

----------------------------------------------------------------------------
TypeOK ==
  /\ pc \in Ended \cup {"generate", "validate", "decide", "render", "package", "archive",
                        "manifest", "swap"}
  /\ run \in 0..MaxBuilds /\ step \in 1..Len(Compilations) + 1
  /\ rebuild \in BOOLEAN /\ raised \in BOOLEAN
  /\ version \in {Unreleased} \cup 1..MaxBuilds
  /\ faults \in 0..MaxFaults

\* No worker outlives its compilation: a worker that is at work belongs to the pool the main
\* thread is at, so that the stage is not published, compared or removed, and the build does
\* not end, before those have returned that were running when another one failed.
WorkersEndFirst ==
  \A c \in DOMAIN running :
    InPool /\ \A i \in DOMAIN running[c] : /\ running[c][i][1] = Tool
                                          /\ running[c][i][2] = Dataset

\* dist, once there, has every artifact and checksums of all its files, its manifest has an
\* archive, and every engine loads what it has.
DistComplete ==
  dist # None =>
    /\ RequiredArtifacts \subseteq DOMAIN dist.files /\ DOMAIN dist.files = dist.sums
    /\ dist.manifest.archive # None
    /\ \A file \in DOMAIN dist.files : dist.files[file].state # "garbage"

\* lite and server are never mixed up: each file of dist was compiled from the dataset it is
\* named for, though both compile geoip.dat under the same name.
DatasetsKeptApart ==
  dist # None =>
    \A d \in Datasets :
      /\ dist.files[Geosite(d)].dataset = d /\ dist.files[Geoip(d)].dataset = d
      /\ \A file \in RequiredArtifacts \ XrayFiles : dist.files[file].dataset = file[2]

\* The archive of the dist that is there is the archive of its own build: whatever later
\* builds fail and leave behind, `publish` uploads what the manifest describes.
ReleasedArchiveMatches ==
  dist # None /\ dist.manifest.version # Unreleased =>
    archives[dist.manifest.version] = dist.manifest.archive

\* A build ends.
BuildEnds == pc \notin Ended ~> pc \in Ended
=============================================================================
