-------------------------- MODULE PublicationTypes --------------------------
(***************************************************************************)
(* Type correctness of Publication.  TypeOK is not inductive by itself:    *)
(* a cleanup restores from Artifacts[previous[p]], which needs to know     *)
(* that there is a previous version, and a stage belongs to some modes     *)
(* only.  TypeInv adds that, and that a command which has started has a    *)
(* version.                                                                *)
(***************************************************************************)
EXTENDS Publication, TLAPS

\* A command that has chosen its version.
Working(p) == Active(p) /\ pc[p] # "building"

\* Every other command is where it was.
Others(p) ==
  \A q \in Procs \ {p} :
    /\ pc'[q] = pc[q] /\ mode'[q] = mode[q] /\ version'[q] = version[q]
    /\ previous'[q] = previous[q] /\ todo'[q] = todo[q] /\ busy'[q] = busy[q]
    /\ failed'[q] = failed[q]

PublishStages == {"draft", "assets", "tree", "manifest_put", "manifest_get", "latest", "finalize"}
CleanupStages == {"delete_draft", "list_tree", "delete_tree", "forget_index"}
RestoreStages == {"restore_read", "restore_put", "restore_get"}
IndexStages   == {"index", "index_put", "index_get"}
RootStages    == {"sums", "pointer"}

\* Which stages a publication, a cleanup and a rollback can be in.
StageInv(p) ==
  /\ pc[p] \in PublishStages => mode[p] = "publish"
  /\ pc[p] \in CleanupStages => mode[p] = "cleanup"
  /\ pc[p] \in RestoreStages => mode[p] # "publish"
  /\ pc[p] \in RootStages    => mode[p] # "cleanup"
  /\ pc[p] \in RestoreStages \cup IndexStages /\ mode[p] = "cleanup" => previous[p] # None

Bound(p) == Working(p) => version[p] \in Versions

TypeInv == TypeOK /\ \A p \in Procs : StageInv(p) /\ Bound(p)

\* Enter moves one command to a stage and leaves the others where they are: the
\* stages of publish_release and rollback are the command's own.
LEMMA EnterEffect ==
  ASSUME JobType, NEW p \in Procs, NEW stage \in Ended \cup Stages, NEW items \in SUBSET Paths,
         Enter(p, stage, items)
  PROVE  /\ pc' \in [Procs -> Ended \cup Stages]
         /\ todo' \in [Procs -> SUBSET Paths] /\ busy' \in [Procs -> SUBSET Paths]
         /\ pc'[p] = stage /\ todo'[p] = items /\ busy'[p] = {}
         /\ \A q \in Procs \ {p} : pc'[q] = pc[q] /\ todo'[q] = todo[q] /\ busy'[q] = busy[q]
BY DEF JobType, Enter, Set

\* The stages a publication starts in and its cleanup comes to after the draft.
LEMMA EntryStages == "draft" \in Ended \cup Stages /\ "list_tree" \in Ended \cup Stages
BY DEF Stages

\* An exception sends a publication to its cleanup, ends a cleanup with a problem and
\* ends a rollback, and touches no other command.
LEMMA RaiseEffect ==
  ASSUME JobType, NEW p \in Procs, Raise(p)
  PROVE  /\ JobType' /\ Others(p)
         /\ version' = version /\ previous' = previous
         /\ mode[p] = "publish"  => mode'[p] = "cleanup" /\ pc'[p] \in {"delete_draft", "list_tree"}
         /\ mode[p] = "cleanup"  => mode'[p] = "cleanup" /\ pc'[p] = "uncleaned"
         /\ mode[p] = "rollback" => mode'[p] = "rollback" /\ pc'[p] = "rollback_failed"
<1> DEFINE stage == CASE mode[p] = "publish" /\ drafted[p]  -> "delete_draft"
                      [] mode[p] = "publish" /\ ~drafted[p] -> "list_tree"
                      [] mode[p] = "cleanup"                -> "uncleaned"
                      [] mode[p] = "rollback"               -> "rollback_failed"
<1>1. mode[p] \in {"publish", "cleanup", "rollback"} /\ drafted[p] \in BOOLEAN
  BY DEF JobType
<1>2. /\ stage \in Ended \cup Stages
      /\ mode[p] = "publish"  => stage \in {"delete_draft", "list_tree"}
      /\ mode[p] = "cleanup"  => stage = "uncleaned"
      /\ mode[p] = "rollback" => stage = "rollback_failed"
  BY <1>1 DEF Ended, Stages
<1>3. Enter(p, stage, {})
  BY DEF Raise
<1> HIDE DEF stage
<1>4. /\ pc' \in [Procs -> Ended \cup Stages]
      /\ todo' \in [Procs -> SUBSET Paths] /\ busy' \in [Procs -> SUBSET Paths]
      /\ pc'[p] = stage
      /\ \A q \in Procs \ {p} : pc'[q] = pc[q] /\ todo'[q] = todo[q] /\ busy'[q] = busy[q]
  BY <1>2, <1>3, EnterEffect
<1>5. /\ mode' \in [Procs -> {"publish", "cleanup", "rollback"}]
      /\ \A q \in Procs \ {p} : mode'[q] = mode[q]
      /\ mode'[p] = IF mode[p] = "publish" THEN "cleanup" ELSE mode[p]
  BY DEF Raise, Set, JobType
<1>6. /\ failed' \in [Procs -> BOOLEAN] /\ problem' \in [Procs -> BOOLEAN]
      /\ \A q \in Procs \ {p} : failed'[q] = failed[q]
  BY DEF Raise, Set, JobType
<1>7. UNCHANGED <<version, previous, drafted, touched>>
  BY DEF Raise
<1> QED
  BY <1>1, <1>2, <1>4, <1>5, <1>6, <1>7 DEF JobType, Others

\* Going on to a next stage changes nothing but the command's own stage.
LEMMA ContinueEffect ==
  ASSUME JobType, NEW p \in Procs, NEW stage \in Ended \cup Stages, NEW items \in SUBSET Paths,
         Continue(p, stage, items)
  PROVE  /\ JobType' /\ Others(p)
         /\ version' = version /\ previous' = previous /\ mode' = mode /\ failed' = failed
         /\ pc'[p] = stage /\ todo'[p] = items /\ busy'[p] = {}
<1>1. Enter(p, stage, items) /\ UNCHANGED <<job, flags>>
  BY DEF Continue
<1> QED
  BY <1>1, EnterEffect DEF JobType, Others, job, flags

\* A pool worker of _run_parallel_specs that is done changes its command's sets only.
LEMMA WorkedEffect ==
  ASSUME JobType, NEW p \in Procs, NEW k \in Paths, NEW ok \in BOOLEAN, Worked(p, k, ok),
         UNCHANGED job
  PROVE  /\ JobType' /\ Others(p)
         /\ version' = version /\ previous' = previous /\ mode' = mode /\ pc' = pc
         /\ todo'[p] = todo[p] \ {k} /\ busy'[p] = busy[p] \ {k}
         /\ failed'[p] <=> failed[p] \/ ~ok
<1>1. /\ todo' \in [Procs -> SUBSET Paths] /\ busy' \in [Procs -> SUBSET Paths]
      /\ \A q \in Procs \ {p} : todo'[q] = todo[q] /\ busy'[q] = busy[q]
      /\ todo'[p] = todo[p] \ {k} /\ busy'[p] = busy[p] \ {k}
  BY DEF JobType, Worked, Set
<1>2. /\ failed' \in [Procs -> BOOLEAN]
      /\ \A q \in Procs \ {p} : failed'[q] = failed[q]
      /\ failed'[p] <=> failed[p] \/ ~ok
  BY DEF JobType, Worked, Set
<1>3. UNCHANGED <<pc, drafted, touched, problem, mode, version, previous>>
  BY DEF Worked, job
<1> QED
  BY <1>1, <1>2, <1>3 DEF JobType, Others

\* The typing invariant is a matter of the bucket's types and of each command by itself:
\* it is enough to look at the command that moved.
LEMMA TypeFrame ==
  ASSUME TypeInv, NEW p \in Procs, StoreType', JobType', Others(p), StageInv(p)', Bound(p)'
  PROVE  TypeInv'
BY DEF TypeInv, TypeOK, Others, StageInv, Bound, Working, Active

\* An exception anywhere after the start of a command keeps the typing invariant.
LEMMA RaiseType ==
  ASSUME TypeInv, NEW p \in Procs, Working(p), StoreType', Raise(p)
  PROVE  TypeInv'
<1>1. JobType /\ mode[p] \in {"publish", "cleanup", "rollback"} /\ version[p] \in Versions
  BY DEF TypeInv, TypeOK, JobType, Bound
<1>2. /\ JobType' /\ Others(p) /\ version' = version
      /\ mode[p] = "publish"  => mode'[p] = "cleanup" /\ pc'[p] \in {"delete_draft", "list_tree"}
      /\ mode[p] = "cleanup"  => mode'[p] = "cleanup" /\ pc'[p] = "uncleaned"
      /\ mode[p] = "rollback" => mode'[p] = "rollback" /\ pc'[p] = "rollback_failed"
  BY <1>1, RaiseEffect
<1>3. StageInv(p)' /\ Bound(p)'
  BY <1>1, <1>2 DEF StageInv, Bound, Working, Active, Ended, PublishStages, CleanupStages,
                    RestoreStages, IndexStages, RootStages
<1> QED
  BY <1>2, <1>3, TypeFrame

\* So does going on to a stage that fits the command's mode.
LEMMA ContinueType ==
  ASSUME TypeInv, NEW p \in Procs, Working(p), StoreType',
         NEW stage \in Ended \cup Stages, NEW items \in SUBSET Paths,
         Continue(p, stage, items),
         stage \in PublishStages => mode[p] = "publish",
         stage \in CleanupStages => mode[p] = "cleanup",
         stage \in RestoreStages => mode[p] # "publish",
         stage \in RootStages    => mode[p] # "cleanup",
         stage \in RestoreStages \cup IndexStages /\ mode[p] = "cleanup" => previous[p] # None
  PROVE  TypeInv'
<1>1. JobType /\ version[p] \in Versions
  BY DEF TypeInv, TypeOK, Bound
<1>2. /\ JobType' /\ Others(p) /\ version' = version /\ previous' = previous /\ mode' = mode
      /\ pc'[p] = stage
  BY <1>1, ContinueEffect
<1>3. StageInv(p)' /\ Bound(p)'
  BY <1>1, <1>2 DEF StageInv, Bound
<1> QED
  BY <1>2, <1>3, TypeFrame

\* The typing invariant holds before the first publication.
LEMMA TypeInit == Init => TypeInv
BY PathsAssumption, BoundsAssumption
   DEF Init, TypeInv, TypeOK, StoreType, JobType, StageInv, Bound, Working, Active, Ended, Stages,
       Contents, PublishStages, CleanupStages, RestoreStages, IndexStages, RootStages

\* The count of faults stays within its bound, whatever fault is injected.
LEMMA FaultType ==
  ASSUME faults \in 0..MaxFaults, NoFault \/ \E kind \in AllFaults : Fault(kind)
  PROVE  faults' \in 0..MaxFaults
BY BoundsAssumption DEF NoFault, Fault

\* The same for a backend call that writes: a PUT, a DELETE, a gh command.
LEMMA CallFaults ==
  ASSUME faults \in 0..MaxFaults, NEW stored, NEW value, NEW after, NEW raised,
         Call(stored, value, after, raised) \/ Put(stored, value, after, raised)
  PROVE  faults' \in 0..MaxFaults
BY BoundsAssumption DEF Call, Put, NoFault, Fault

\* The same for a GET that is compared, as in _upload_and_verify_release_tree.
LEMMA MatchesFaults ==
  ASSUME faults \in 0..MaxFaults, NEW stored, NEW value, NEW good, Matches(stored, value, good)
  PROVE  faults' \in 0..MaxFaults
BY BoundsAssumption DEF Matches, NoFault, Fault

\* What a command does to a GitHub release of a tag leaves a release: an asset comes or
\* goes, or the draft becomes public.
LEMMA ReleaseTypes ==
  ASSUME NEW held \in SUBSET Releases, NEW k \in Paths
  PROVE  WithAsset(held, k) \subseteq Releases /\ WithoutAsset(held, k) \subseteq Releases
         /\ Public(held) \subseteq Releases
<1>1. ASSUME NEW r \in held
      PROVE  /\ [r EXCEPT !.assets = r.assets \cup {k}] \in Releases
             /\ [r EXCEPT !.assets = r.assets \ {k}] \in Releases
             /\ [r EXCEPT !.public = TRUE] \in Releases
  BY DEF Releases
<1> QED
  BY <1>1 DEF WithAsset, WithoutAsset, Public

\* A gh command changes the releases of its tag only: it leaves them, or exchanges the one
\* it has found for its result, or for what it may leave when it fails.
LEMMA GhEffect ==
  ASSUME StoreType, NEW v \in Versions, NEW held \in Found(v), NEW rest \in SUBSET Releases,
         NEW value \in SUBSET Releases, NEW raised \in BOOLEAN, Gh(v, held, rest, value, raised)
  PROVE  /\ held \subseteq github[v] /\ held \subseteq Releases
         /\ faults' \in 0..MaxFaults /\ github' \in [Versions -> SUBSET Releases]
         /\ \A w \in Versions \ {v} : github'[w] = github[w]
         /\ github'[v] \in {github[v], (github[v] \ held) \cup rest, (github[v] \ held) \cup value}
         /\ ~raised => github'[v] = (github[v] \ held) \cup value /\ held # {}
<1>1. held \subseteq github[v] /\ github[v] \in SUBSET Releases /\ faults \in 0..MaxFaults
      /\ github \in [Versions -> SUBSET Releases]
  BY DEF Found, StoreType
<1>2. CASE held = {}
  BY <1>1, <1>2 DEF Gh, NoFault
<1>3. CASE held # {}
  <2>1. PICK after : /\ after \in {(github[v] \ held) \cup rest, (github[v] \ held) \cup value}
                     /\ Call((github[v] \ held) \cup rest, (github[v] \ held) \cup value, after, raised)
                     /\ github' = Set(github, v, after)
    BY <1>3 DEF Gh
  <2>2. faults' \in 0..MaxFaults
    BY <1>1, <2>1, CallFaults
  <2>3. ~raised => after = (github[v] \ held) \cup value
    BY <2>1 DEF Call
  <2>4. after \in SUBSET Releases
    BY <1>1, <2>1
  <2> QED
    BY <1>1, <1>3, <2>1, <2>2, <2>3, <2>4 DEF Set
<1> QED
  BY <1>2, <1>3

\* A release names some paths, never its own manifest.json (_release_object_specs).
LEMMA ArtifactPaths ==
  ASSUME NEW v \in Versions
  PROVE  Artifacts[v] \subseteq Paths /\ ManifestPath \notin Artifacts[v]
BY ArtifactsAssumption

\* Every call of every command keeps the typing invariant.
LEMMA TypeNext == TypeInv /\ [Next]_vars => TypeInv'
<1> SUFFICES ASSUME TypeInv, [Next]_vars PROVE TypeInv'
  OBVIOUS
<1>t. StoreType /\ JobType
  BY DEF TypeInv, TypeOK
<1>f. faults \in 0..MaxFaults
  BY <1>t DEF StoreType
<1>0. CASE UNCHANGED vars
  BY <1>0 DEF vars, bucket, gh, flags, work, job, TypeInv, TypeOK, StoreType, JobType, StageInv, Bound,
              Working, Active
<1>1. ASSUME NEW p \in Publishers, ReadLiveManifest(p) PROVE TypeInv'
  <2>1. p \in Procs /\ Enter(p, "building", {}) /\ "building" \in Stages
    BY <1>1 DEF ReadLiveManifest, Procs, Stages
  <2>2. StoreType'
    BY <1>1, <1>t DEF ReadLiveManifest, bucket, gh, StoreType
  <2>3. previous' \in [Procs -> Versions \cup {None}]
        /\ \A q \in Procs \ {p} : previous'[q] = previous[q]
    BY <1>1, <1>t DEF ReadLiveManifest, Set, StoreType, JobType, Contents
  <2>4. JobType' /\ Others(p) /\ pc'[p] = "building"
    BY <1>1, <1>t, <2>1, <2>3, EnterEffect DEF ReadLiveManifest, JobType, Others, flags
  <2>5. StageInv(p)' /\ Bound(p)'
    BY <2>4 DEF StageInv, Bound, Working, PublishStages, CleanupStages, RestoreStages, IndexStages,
                RootStages
  <2> QED
    BY <2>1, <2>2, <2>4, <2>5, TypeFrame
<1>2. ASSUME NEW p \in Procs, NEW v \in Versions, StartPublish(p, v), StoreType',
             previous' \in [Procs -> Versions \cup {None}],
             \A q \in Procs \ {p} : previous'[q] = previous[q]
      PROVE  TypeInv'
  <2>1. Enter(p, "draft", {}) /\ "draft" \in Stages
    BY <1>2 DEF StartPublish, Stages
  <2>2. /\ pc' \in [Procs -> Ended \cup Stages]
        /\ todo' \in [Procs -> SUBSET Paths] /\ busy' \in [Procs -> SUBSET Paths]
        /\ pc'[p] = "draft"
        /\ \A q \in Procs \ {p} : pc'[q] = pc[q] /\ todo'[q] = todo[q] /\ busy'[q] = busy[q]
    BY <1>t, <2>1, EnterEffect
  <2>3. /\ mode' \in [Procs -> {"publish", "cleanup", "rollback"}] /\ mode'[p] = "publish"
        /\ version' \in [Procs -> Versions \cup {None}] /\ version'[p] = v
        /\ \A q \in Procs \ {p} : mode'[q] = mode[q] /\ version'[q] = version[q]
    BY <1>2, <1>t DEF StartPublish, Set, JobType
  <2>4. /\ failed' \in [Procs -> BOOLEAN] /\ drafted' \in [Procs -> BOOLEAN]
        /\ touched' \in [Procs -> BOOLEAN] /\ problem' \in [Procs -> BOOLEAN]
        /\ \A q \in Procs \ {p} : failed'[q] = failed[q]
    BY <1>2, <1>t DEF StartPublish, Set, JobType
  <2>5. JobType' /\ Others(p)
    BY <1>2, <2>2, <2>3, <2>4 DEF JobType, Others
  <2>6. StageInv(p)' /\ Bound(p)'
    BY <2>2, <2>3 DEF StageInv, Bound, CleanupStages, RestoreStages, IndexStages, RootStages
  <2> QED
    BY <1>2, <2>5, <2>6, TypeFrame
<1>3. ASSUME NEW p \in Publishers, Republish(p) PROVE TypeInv'
  <2>1. StoreType' /\ p \in Procs
    BY <1>3, <1>t DEF Republish, bucket, gh, StoreType, Procs
  <2>2. previous' \in [Procs -> Versions \cup {None}]
        /\ \A q \in Procs \ {p} : previous'[q] = previous[q]
    BY <1>3, <1>t DEF Republish, Set, StoreType, JobType, Contents
  <2>3. PICK v \in published : StartPublish(p, v)
    BY <1>3 DEF Republish
  <2> QED
    BY <1>t, <1>2, <2>1, <2>2, <2>3 DEF StoreType
<1>4. ASSUME NEW p \in Procs, BuildRelease(p) PROVE TypeInv'
  <2>1. PICK v \in Versions \ allocated : StartPublish(p, v) /\ allocated' = allocated \cup {v}
    BY <1>4 DEF BuildRelease
  <2>2. StoreType' /\ previous' = previous
    BY <1>4, <1>t, <2>1 DEF BuildRelease, bucket, gh, StoreType
  <2> QED
    BY <1>t, <1>2, <2>1, <2>2 DEF JobType
<1>5. ASSUME NEW p \in Operators, StartRollback(p) PROVE TypeInv'
  <2>1. PICK v \in published : /\ mode' = Set(mode, p, "rollback") /\ version' = Set(version, p, v)
                              /\ Enter(p, "restore_read", Artifacts[v])
    BY <1>5 DEF StartRollback
  <2>2. p \in Procs /\ v \in Versions /\ StoreType' /\ "restore_read" \in Stages
    BY <1>5, <1>t DEF StartRollback, bucket, gh, StoreType, Procs, Stages
  <2>3. /\ pc' \in [Procs -> Ended \cup Stages]
        /\ todo' \in [Procs -> SUBSET Paths] /\ busy' \in [Procs -> SUBSET Paths]
        /\ pc'[p] = "restore_read"
        /\ \A q \in Procs \ {p} : pc'[q] = pc[q] /\ todo'[q] = todo[q] /\ busy'[q] = busy[q]
    BY <1>t, <2>1, <2>2, EnterEffect, ArtifactPaths
  <2>4. /\ mode' \in [Procs -> {"publish", "cleanup", "rollback"}] /\ mode'[p] = "rollback"
        /\ version' \in [Procs -> Versions \cup {None}] /\ version'[p] = v
        /\ \A q \in Procs \ {p} : mode'[q] = mode[q] /\ version'[q] = version[q]
    BY <1>t, <2>1, <2>2 DEF Set, JobType
  <2>5. /\ failed' \in [Procs -> BOOLEAN] /\ drafted' \in [Procs -> BOOLEAN]
        /\ touched' \in [Procs -> BOOLEAN] /\ problem' \in [Procs -> BOOLEAN]
        /\ \A q \in Procs \ {p} : failed'[q] = failed[q]
        /\ previous' = previous
    BY <1>5, <1>t DEF StartRollback, Set, JobType
  <2>6. JobType' /\ Others(p)
    BY <1>t, <2>3, <2>4, <2>5 DEF JobType, Others
  <2>7. StageInv(p)' /\ Bound(p)'
    BY <2>2, <2>3, <2>4 DEF StageInv, Bound, PublishStages, CleanupStages, RestoreStages, RootStages
  <2> QED
    BY <2>2, <2>6, <2>7, TypeFrame
<1>6. ASSUME NEW p \in Procs, NoRelease(p) \/ Crash(p) PROVE TypeInv'
  <2>1. PICK stage \in {"idle", "crashed"} : Enter(p, stage, {})
    BY <1>6 DEF NoRelease, Crash
  <2>2. StoreType' /\ UNCHANGED <<flags, job>>
    BY <1>6, <1>t, BoundsAssumption DEF NoRelease, Crash, bucket, gh, StoreType, Fault
  <2>3. stage \in Ended
    BY DEF Ended
  <2>4. JobType' /\ Others(p) /\ pc'[p] = stage
    BY <1>t, <2>1, <2>2, <2>3, EnterEffect DEF JobType, Others, flags, job
  <2>5. StageInv(p)' /\ Bound(p)'
    BY <2>3, <2>4 DEF StageInv, Bound, Working, Active, Ended, PublishStages, CleanupStages, RestoreStages,
                IndexStages, RootStages
  <2> QED
    BY <2>2, <2>4, <2>5, TypeFrame
<1>w. ASSUME NEW p \in Procs, pc[p] \in Stages \ {"building"}
      PROVE  /\ Working(p) /\ version[p] \in Versions
             /\ Artifacts[version[p]] \subseteq Paths
  <2>1. Working(p)
    BY <1>w DEF Working, Active, Ended, Stages
  <2> QED
    BY <1>w, <2>1, ArtifactPaths DEF TypeInv, Bound
<1>7. ASSUME NEW p \in Procs, CreateDraft(p) PROVE TypeInv'
  <2> DEFINE v == version[p]
  <2>1. Working(p) /\ v \in Versions /\ Artifacts[v] \subseteq Paths /\ mode[p] = "publish"
    BY <1>7, <1>w, ArtifactPaths DEF CreateDraft, Stages, TypeInv, StageInv, PublishStages
  <2>2. UNCHANGED <<bucket, allocated>>
    BY <1>7 DEF CreateDraft
  <2>3. PICK i \in FreshIds(v), raised \in BOOLEAN :
          \E after \in {github[v], github[v] \cup {Draft(i)}} :
            /\ Call(github[v], github[v] \cup {Draft(i)}, after, raised)
            /\ github' = Set(github, v, after)
            /\ IF raised THEN Raise(p)
               ELSE /\ drafted' = Set(drafted, p, TRUE)
                    /\ Enter(p, "assets", Artifacts[v])
                    /\ UNCHANGED <<job, failed, touched, problem>>
    BY <1>7 DEF CreateDraft
  <2>a. PICK after \in {github[v], github[v] \cup {Draft(i)}} :
          /\ Call(github[v], github[v] \cup {Draft(i)}, after, raised)
          /\ github' = Set(github, v, after)
          /\ IF raised THEN Raise(p)
             ELSE /\ drafted' = Set(drafted, p, TRUE)
                  /\ Enter(p, "assets", Artifacts[v])
                  /\ UNCHANGED <<job, failed, touched, problem>>
    BY <2>3
  <2>4. faults' \in 0..MaxFaults
    BY <1>f, <2>a, CallFaults
  <2>5. StoreType'
    <3>1. Draft(i) \in Releases
      BY DEF Releases, Draft, FreshIds
    <3>2. after \in SUBSET Releases
      BY <1>t, <2>1, <2>a, <3>1 DEF StoreType
    <3> QED
      BY <1>t, <2>2, <2>a, <2>4, <3>2 DEF StoreType, bucket, Set
  <2>6. CASE raised
    BY <2>1, <2>a, <2>5, <2>6, RaiseType
  <2>7. CASE ~raised
    <3>1. /\ drafted' = Set(drafted, p, TRUE) /\ Enter(p, "assets", Artifacts[v])
          /\ UNCHANGED <<job, failed, touched, problem>> /\ "assets" \in Stages
      BY <2>a, <2>7 DEF Stages
    <3>2. JobType' /\ Others(p) /\ pc'[p] = "assets" /\ mode' = mode /\ version' = version
      BY <1>t, <2>1, <3>1, EnterEffect DEF JobType, Others, job, Set
    <3>3. StageInv(p)' /\ Bound(p)'
      BY <2>1, <3>2 DEF StageInv, Bound, CleanupStages, RestoreStages, IndexStages, RootStages
    <3> QED
      BY <2>5, <3>2, <3>3, TypeFrame
  <2> QED
    BY <2>6, <2>7
<1>8. ASSUME NEW p \in Procs, NEW k \in Paths, UploadAsset(p, k) PROVE TypeInv'
  <2> DEFINE v == version[p]
  <2>1. Working(p) /\ v \in Versions /\ Artifacts[v] \subseteq Paths /\ mode[p] = "publish"
    BY <1>8, <1>w, ArtifactPaths DEF UploadAsset, Stages, TypeInv, StageInv, PublishStages
  <2>2. PICK held \in Found(v), raised \in BOOLEAN :
          /\ \E rest \in {held, WithoutAsset(held, k)} : Gh(v, held, rest, WithAsset(held, k), raised)
          /\ IF raised THEN Raise(p)
             ELSE Advance(p, k, "tree", Artifacts[v]) /\ UNCHANGED <<job, flags>>
    BY <1>8 DEF UploadAsset
  <2>a. PICK rest \in {held, WithoutAsset(held, k)} : Gh(v, held, rest, WithAsset(held, k), raised)
    BY <2>2
  <2>3. held \subseteq Releases
    BY <1>t, <2>1 DEF Found, StoreType
  <2>4. rest \in SUBSET Releases /\ WithAsset(held, k) \in SUBSET Releases
    BY <2>2, <2>3, ReleaseTypes
  <2>5. faults' \in 0..MaxFaults /\ github' \in [Versions -> SUBSET Releases]
    <3> HIDE DEF v
    <3>1. v \in Versions /\ StoreType
      BY <1>t, <2>1
    <3>2. WithAsset(held, k) \in SUBSET Releases /\ rest \in SUBSET Releases
      BY <2>4
    <3> QED
      BY <2>a, <3>1, <3>2, GhEffect
  <2>6. StoreType'
    BY <1>8, <1>t, <2>5 DEF UploadAsset, StoreType, bucket
  <2>7. CASE raised
    BY <2>1, <2>2, <2>6, <2>7, RaiseType
  <2>8. CASE ~raised
    <3>1. PICK stage \in {"assets", "tree"}, items \in SUBSET Paths : Continue(p, stage, items)
      BY <1>8, <1>t, <2>1, <2>2, <2>8 DEF UploadAsset, Advance, Continue, JobType
    <3> QED
      BY <2>1, <2>6, <3>1, ContinueType
         DEF Stages, PublishStages, CleanupStages, RestoreStages, IndexStages, RootStages
  <2> QED
    BY <2>7, <2>8
<1>9. ASSUME NEW p \in Procs, NEW k \in Paths, PutTreeObject(p, k) PROVE TypeInv'
  <2>1. Working(p) /\ version[p] \in Versions /\ pc[p] = "tree"
    BY <1>9, <1>w DEF PutTreeObject, Stages
  <2>2. PICK after \in Contents, raised \in BOOLEAN :
          /\ Put(tree[version[p]][k], version[p], after, raised)
          /\ tree' = [tree EXCEPT ![version[p]][k] = after]
          /\ IF raised THEN Worked(p, k, FALSE)
             ELSE /\ todo' = Set(todo, p, todo[p] \ {k})
                  /\ busy' = Set(busy, p, busy[p] \cup {k})
                  /\ UNCHANGED <<pc, flags>>
    BY <1>9 DEF PutTreeObject
  <2>3. faults' \in 0..MaxFaults
    BY <1>f, <2>2, CallFaults
  <2>4. StoreType'
    BY <1>9, <1>t, <2>1, <2>2, <2>3 DEF PutTreeObject, StoreType, gh
  <2>5. UNCHANGED job
    BY <1>9 DEF PutTreeObject
  <2>6. JobType' /\ Others(p) /\ version' = version /\ mode' = mode /\ pc' = pc /\ previous' = previous
    <3>1. CASE raised
      BY <1>t, <2>2, <2>5, <3>1, WorkedEffect
    <3>2. CASE ~raised
      BY <1>t, <2>2, <2>5, <3>2 DEF JobType, Others, Set, job, flags
    <3> QED
      BY <3>1, <3>2
  <2>7. StageInv(p)' /\ Bound(p)'
    BY <2>6 DEF TypeInv, StageInv, Bound, Working, Active
  <2> QED
    BY <2>4, <2>6, <2>7, TypeFrame
<1>10. ASSUME NEW p \in Procs, NEW k \in Paths, VerifyTreeObject(p, k) PROVE TypeInv'
  <2>1. PICK good \in BOOLEAN : Matches(tree[version[p]][k], version[p], good) /\ Worked(p, k, good)
    BY <1>10 DEF VerifyTreeObject
  <2>2. StoreType'
    BY <1>10, <1>t, <1>f, <2>1, MatchesFaults DEF VerifyTreeObject, StoreType, bucket, gh
  <2>3. JobType' /\ Others(p) /\ version' = version /\ mode' = mode /\ pc' = pc /\ previous' = previous
    BY <1>10, <1>t, <2>1, WorkedEffect DEF VerifyTreeObject
  <2>4. StageInv(p)' /\ Bound(p)'
    BY <2>3 DEF TypeInv, StageInv, Bound, Working, Active
  <2> QED
    BY <2>2, <2>3, <2>4, TypeFrame
<1>11. ASSUME NEW p \in Procs, JoinTree(p) \/ JoinLatest(p) PROVE TypeInv'
  <2>1. Working(p) /\ mode[p] = "publish"
    BY <1>11, <1>w DEF JoinTree, JoinLatest, Stages, TypeInv, StageInv, PublishStages
  <2>2. PICK stage \in {"manifest_put", "index"} : RaiseOr(p, failed[p], stage, {})
    BY <1>11 DEF JoinTree, JoinLatest
  <2>3. StoreType'
    BY <1>11, <1>t DEF JoinTree, JoinLatest, StoreType, bucket, gh
  <2>4. CASE failed[p]
    BY <2>1, <2>2, <2>3, <2>4, RaiseType DEF RaiseOr
  <2>5. CASE ~failed[p]
    BY <2>1, <2>2, <2>3, <2>5, ContinueType
       DEF RaiseOr, Stages, PublishStages, CleanupStages, RestoreStages, IndexStages, RootStages
  <2> QED
    BY <2>4, <2>5
<1>12. ASSUME NEW p \in Procs, PutReleaseManifest(p) PROVE TypeInv'
  <2>1. Working(p) /\ version[p] \in Versions /\ mode[p] = "publish"
    BY <1>12, <1>w DEF PutReleaseManifest, Stages, TypeInv, StageInv, PublishStages
  <2>2. PICK after \in Contents, raised \in BOOLEAN :
          /\ Put(tree[version[p]][ManifestPath], version[p], after, raised)
          /\ tree' = [tree EXCEPT ![version[p]][ManifestPath] = after]
          /\ RaiseOr(p, raised, "manifest_get", {})
    BY <1>12 DEF PutReleaseManifest
  <2>3. StoreType'
    BY <1>12, <1>t, <1>f, <2>1, <2>2, CallFaults DEF PutReleaseManifest, StoreType, gh
  <2>4. CASE raised
    BY <2>1, <2>2, <2>3, <2>4, RaiseType DEF RaiseOr
  <2>5. CASE ~raised
    BY <2>1, <2>2, <2>3, <2>5, ContinueType
       DEF RaiseOr, Stages, PublishStages, CleanupStages, RestoreStages, IndexStages, RootStages
  <2> QED
    BY <2>4, <2>5
<1>13. ASSUME NEW p \in Procs, VerifyReleaseManifest(p) PROVE TypeInv'
  <2>1. Working(p) /\ version[p] \in Versions /\ Artifacts[version[p]] \subseteq Paths
        /\ mode[p] = "publish"
    BY <1>13, <1>w DEF VerifyReleaseManifest, Stages, TypeInv, StageInv, PublishStages
  <2>2. PICK good \in BOOLEAN :
          /\ Matches(tree[version[p]][ManifestPath], version[p], good)
          /\ IF ~good THEN Raise(p)
             ELSE /\ touched' = Set(touched, p, TRUE)
                  /\ Enter(p, "latest", Artifacts[version[p]])
                  /\ UNCHANGED <<job, failed, drafted, problem>>
    BY <1>13 DEF VerifyReleaseManifest
  <2>3. StoreType'
    BY <1>13, <1>t, <1>f, <2>2, MatchesFaults DEF VerifyReleaseManifest, StoreType, bucket, gh
  <2>4. CASE ~good
    BY <2>1, <2>2, <2>3, <2>4, RaiseType
  <2>5. CASE good
    <3>1. /\ touched' = Set(touched, p, TRUE) /\ Enter(p, "latest", Artifacts[version[p]])
          /\ UNCHANGED <<job, failed, drafted, problem>> /\ "latest" \in Stages
      BY <2>2, <2>5 DEF Stages
    <3>2. JobType' /\ Others(p) /\ pc'[p] = "latest" /\ mode' = mode /\ version' = version
      BY <1>t, <2>1, <3>1, EnterEffect DEF JobType, Others, job, Set
    <3>3. StageInv(p)' /\ Bound(p)'
      BY <2>1, <3>2 DEF StageInv, Bound, CleanupStages, RestoreStages, IndexStages, RootStages
    <3> QED
      BY <2>3, <3>2, <3>3, TypeFrame
  <2> QED
    BY <2>4, <2>5
<1>14. ASSUME NEW p \in Procs, NEW k \in Paths, CopyToLatest(p, k) PROVE TypeInv'
  <2>1. PICK after \in Contents, raised \in BOOLEAN :
          /\ Put(latest[k], version[p], after, raised) /\ latest' = Set(latest, k, after)
          /\ Worked(p, k, ~raised)
    BY <1>14 DEF CopyToLatest
  <2>2. StoreType'
    BY <1>14, <1>t, <1>f, <2>1, CallFaults DEF CopyToLatest, StoreType, gh, Set
  <2>3. JobType' /\ Others(p) /\ version' = version /\ mode' = mode /\ pc' = pc /\ previous' = previous
    BY <1>14, <1>t, <2>1, WorkedEffect DEF CopyToLatest
  <2>4. StageInv(p)' /\ Bound(p)'
    BY <2>3 DEF TypeInv, StageInv, Bound, Working, Active
  <2> QED
    BY <2>2, <2>3, <2>4, TypeFrame
<1>s. ASSUME NEW p \in Procs, pc[p] \in RestoreStages \cup IndexStages
      PROVE  /\ Source(p) \in Versions /\ Artifacts[Source(p)] \subseteq Paths /\ Working(p)
             /\ pc[p] \in Stages \ {"building"}
  <2>1. Working(p) /\ version[p] \in Versions /\ pc[p] \in Stages \ {"building"}
    BY <1>s, <1>w DEF RestoreStages, IndexStages, Stages
  <2>2. mode[p] = "cleanup" => previous[p] \in Versions
    BY <1>s, <1>t DEF TypeInv, StageInv, JobType
  <2> QED
    BY <2>1, <2>2, ArtifactPaths DEF Source
<1>i. ASSUME NEW p \in Procs, Working(p), StoreType', IndexDone(p) PROVE TypeInv'
  <2>1. CASE mode[p] # "cleanup"
    BY <1>i, <2>1, ContinueType
       DEF IndexDone, Stages, PublishStages, CleanupStages, RestoreStages, IndexStages, RootStages
  <2>2. CASE mode[p] = "cleanup"
    <3>1. PICK stage \in {"uncleaned", "cleaned"} : Continue(p, stage, {})
      BY <1>i, <2>2 DEF IndexDone
    <3> QED
      BY <1>i, <3>1, ContinueType
         DEF Ended, PublishStages, CleanupStages, RestoreStages, IndexStages, RootStages
  <2> QED
    BY <2>1, <2>2
<1>15. ASSUME NEW p \in Procs, ReadIndex(p) PROVE TypeInv'
  <2>1. Working(p) /\ pc[p] \in IndexStages
    BY <1>15, <1>s DEF ReadIndex, IndexStages
  <2>2. PICK good \in BOOLEAN :
          Matches(tree[Source(p)][IndexPath], Source(p), good) /\ RaiseOr(p, ~good, "index_put", {})
    BY <1>15 DEF ReadIndex
  <2>3. StoreType'
    BY <1>15, <1>t, <1>f, <2>2, MatchesFaults DEF ReadIndex, StoreType, bucket, gh
  <2>4. CASE ~good
    BY <2>1, <2>2, <2>3, <2>4, RaiseType DEF RaiseOr
  <2>5. CASE good
    <3>1. mode[p] = "cleanup" => previous[p] # None
      BY <2>1 DEF TypeInv, StageInv
    <3> QED
      BY <2>1, <2>2, <2>3, <2>5, <3>1, ContinueType
         DEF RaiseOr, Stages, PublishStages, CleanupStages, RestoreStages, IndexStages, RootStages
  <2> QED
    BY <2>4, <2>5
<1>16. ASSUME NEW p \in Procs, DeleteRootIndex(p) PROVE TypeInv'
  <2>1. Working(p)
    BY <1>16, <1>s DEF DeleteRootIndex, IndexStages
  <2>2. PICK after \in Contents, raised \in BOOLEAN :
          /\ Call(index, None, after, raised) /\ index' = after
          /\ IF raised THEN Raise(p) ELSE IndexDone(p)
    BY <1>16 DEF DeleteRootIndex
  <2>3. StoreType'
    BY <1>16, <1>t, <1>f, <2>2, CallFaults DEF DeleteRootIndex, StoreType, gh
  <2> QED
    BY <1>i, <2>1, <2>2, <2>3, RaiseType
<1>17. ASSUME NEW p \in Procs, PutRootIndex(p) PROVE TypeInv'
  <2>1. Working(p) /\ pc[p] \in IndexStages
    BY <1>17, <1>s DEF PutRootIndex, IndexStages
  <2>2. PICK after \in Contents, raised \in BOOLEAN :
          /\ Put(index, Source(p), after, raised) /\ index' = after
          /\ RaiseOr(p, raised, "index_get", {})
    BY <1>17 DEF PutRootIndex
  <2>3. StoreType'
    BY <1>17, <1>t, <1>f, <2>2, CallFaults DEF PutRootIndex, StoreType, gh
  <2>4. CASE raised
    BY <2>1, <2>2, <2>3, <2>4, RaiseType DEF RaiseOr
  <2>5. CASE ~raised
    <3>1. mode[p] = "cleanup" => previous[p] # None
      BY <2>1 DEF TypeInv, StageInv
    <3> QED
      BY <2>1, <2>2, <2>3, <2>5, <3>1, ContinueType
         DEF RaiseOr, Stages, PublishStages, CleanupStages, RestoreStages, IndexStages, RootStages
  <2> QED
    BY <2>4, <2>5
<1>18. ASSUME NEW p \in Procs, VerifyRootIndex(p) PROVE TypeInv'
  <2>1. Working(p)
    BY <1>18, <1>s DEF VerifyRootIndex, IndexStages
  <2>2. PICK good \in BOOLEAN :
          Matches(index, Source(p), good) /\ IF good THEN IndexDone(p) ELSE Raise(p)
    BY <1>18 DEF VerifyRootIndex
  <2>3. StoreType'
    BY <1>18, <1>t, <1>f, <2>2, MatchesFaults DEF VerifyRootIndex, StoreType, bucket, gh
  <2> QED
    BY <1>i, <2>1, <2>2, <2>3, RaiseType
<1>19. ASSUME NEW p \in Procs, PutSums(p) PROVE TypeInv'
  <2>1. Working(p) /\ mode[p] # "cleanup"
    BY <1>19, <1>w DEF PutSums, Stages, TypeInv, StageInv, RootStages
  <2>2. PICK after \in Contents, raised \in BOOLEAN :
          /\ Put(sums, version[p], after, raised) /\ sums' = after
          /\ RaiseOr(p, raised, "pointer", {})
    BY <1>19 DEF PutSums
  <2>3. StoreType'
    BY <1>19, <1>t, <1>f, <2>2, CallFaults DEF PutSums, StoreType, gh
  <2>4. CASE raised
    BY <2>1, <2>2, <2>3, <2>4, RaiseType DEF RaiseOr
  <2>5. CASE ~raised
    BY <2>1, <2>2, <2>3, <2>5, ContinueType
       DEF RaiseOr, Stages, PublishStages, CleanupStages, RestoreStages, IndexStages, RootStages
  <2> QED
    BY <2>4, <2>5
<1>20. ASSUME NEW p \in Procs, PutPointer(p) PROVE TypeInv'
  <2>1. Working(p) /\ version[p] \in Versions
    BY <1>20, <1>w DEF PutPointer, Stages
  <2>2. PICK after \in Contents, raised \in BOOLEAN :
          /\ PutRootManifest(p, after, raised) /\ pointer' = after
          /\ published' = IF after = version[p] THEN published \cup {after} ELSE published
          /\ RaiseOr(p, raised, IF mode[p] = "publish" THEN "finalize" ELSE "rolled_back", {})
    BY <1>20 DEF PutPointer
  <2>3. faults' \in 0..MaxFaults
    BY <1>f, <2>2, BoundsAssumption DEF PutRootManifest, NoFault, Fault
  <2>4. StoreType'
    BY <1>20, <1>t, <2>1, <2>2, <2>3 DEF PutPointer, StoreType, gh
  <2>5. CASE raised
    BY <2>1, <2>2, <2>4, <2>5, RaiseType DEF RaiseOr
  <2>6. CASE ~raised
    BY <2>1, <2>2, <2>4, <2>6, ContinueType
       DEF RaiseOr, Ended, Stages, PublishStages, CleanupStages, RestoreStages, IndexStages, RootStages
  <2> QED
    BY <2>5, <2>6
<1>21. ASSUME NEW p \in Procs, Finalize(p) PROVE TypeInv'
  <2> DEFINE v == version[p]
  <2>1. Working(p) /\ v \in Versions
    BY <1>21, <1>w DEF Finalize, Stages
  <2>2. PICK held \in Found(v), raised \in BOOLEAN :
          /\ Gh(v, held, held, Public(held), raised) \/ (NoFault /\ UNCHANGED github)
          /\ Continue(p, IF raised THEN "unfinalized" ELSE "published", {})
    BY <1>21 DEF Finalize
  <2>3. held \subseteq Releases
    BY <1>t, <2>1 DEF Found, StoreType
  <2>4. Public(held) \in SUBSET Releases
    BY <2>3, PathsAssumption, ReleaseTypes
  <2>5. faults' \in 0..MaxFaults /\ github' \in [Versions -> SUBSET Releases]
    <3>1. CASE Gh(v, held, held, Public(held), raised)
      BY <1>t, <2>1, <2>3, <2>4, <3>1, GhEffect
    <3>2. CASE NoFault /\ UNCHANGED github
      BY <1>t, <3>2 DEF NoFault, StoreType
    <3> QED
      BY <2>2, <3>1, <3>2
  <2>6. StoreType'
    BY <1>21, <1>t, <2>5 DEF Finalize, StoreType, bucket
  <2> QED
    BY <2>1, <2>2, <2>6, ContinueType
       DEF Ended, PublishStages, CleanupStages, RestoreStages, IndexStages, RootStages
<1>22. ASSUME NEW p \in Procs, DeleteDraft(p) PROVE TypeInv'
  <2> DEFINE v == version[p]
  <2>1. Working(p) /\ v \in Versions /\ mode[p] = "cleanup"
    BY <1>22, <1>w DEF DeleteDraft, Stages, TypeInv, StageInv, CleanupStages
  <2>2. PICK held \in Found(v), raised \in BOOLEAN :
          /\ Gh(v, held, held, {}, raised)
          /\ problem' = Set(problem, p, problem[p] \/ raised)
          /\ Enter(p, "list_tree", {})
    BY <1>22 DEF DeleteDraft
  <2>3. StoreType'
    <3>1. held \subseteq Releases
      BY <1>t, <2>1 DEF Found, StoreType
    <3>2. faults' \in 0..MaxFaults /\ github' \in [Versions -> SUBSET Releases]
      BY <1>t, <2>1, <2>2, <3>1, GhEffect
    <3> QED
      BY <1>22, <1>t, <3>2 DEF DeleteDraft, StoreType, bucket
  <2>4. problem' \in [Procs -> BOOLEAN]
    BY <1>t, <2>2 DEF JobType, Set
  <2>5. JobType' /\ Others(p) /\ pc'[p] = "list_tree" /\ mode' = mode /\ version' = version
    BY <1>22, <1>t, <2>2, <2>4, EntryStages, EnterEffect DEF DeleteDraft, JobType, Others, job
  <2>6. StageInv(p)' /\ Bound(p)'
    BY <2>1, <2>5 DEF StageInv, Bound, PublishStages, RestoreStages, IndexStages, RootStages
  <2> QED
    BY <2>3, <2>5, <2>6, TypeFrame
<1>d. ASSUME NEW p \in Procs, Working(p), mode[p] = "cleanup", StoreType', UNCHANGED job,
             NEW raised \in BOOLEAN, AfterDelete(p, raised)
      PROVE  TypeInv'
  <2>1. problem' \in [Procs -> BOOLEAN] /\ UNCHANGED <<failed, drafted, touched>>
    BY <1>d, <1>t DEF AfterDelete, JobType, Set
  <2>2. PICK stage \in {"uncleaned", "cleaned", "forget_index", "restore_read"},
             items \in SUBSET Paths :
          Enter(p, stage, items) /\ (stage = "restore_read" => previous[p] # None)
    <3>1. previous[p] # None => Artifacts[previous[p]] \subseteq Paths
      BY <1>t, ArtifactPaths DEF JobType
    <3> QED
      BY <1>d, <3>1 DEF AfterDelete
  <2>3. stage \in Ended \cup Stages
    BY DEF Ended, Stages
  <2>4. JobType' /\ Others(p) /\ pc'[p] = stage /\ mode' = mode /\ version' = version
        /\ previous' = previous
    BY <1>d, <1>t, <2>1, <2>2, <2>3, EnterEffect DEF JobType, Others, job
  <2>5. StageInv(p)' /\ Bound(p)'
    BY <1>d, <2>2, <2>4 DEF TypeInv, StageInv, Bound, PublishStages, CleanupStages, RestoreStages,
                            IndexStages, RootStages
  <2> QED
    BY <1>d, <2>4, <2>5, TypeFrame
<1>23. ASSUME NEW p \in Procs, ListTree(p) PROVE TypeInv'
  <2> DEFINE keys == {k \in Paths : tree[version[p]][k] # None}
  <2>1. Working(p) /\ mode[p] = "cleanup"
    BY <1>23, <1>w DEF ListTree, Stages, TypeInv, StageInv, CleanupStages
  <2>u. UNCHANGED <<bucket, gh, job, allocated>>
    BY <1>23 DEF ListTree
  <2>c. \/ NoFault /\ (AfterDelete(p, FALSE) \/ (Enter(p, "delete_tree", keys) /\ UNCHANGED flags))
        \/ Fault("lost") /\ AfterDelete(p, TRUE)
    BY <1>23 DEF ListTree
  <2>f. faults' \in 0..MaxFaults
    BY <1>f, <2>c, FaultType DEF AllFaults
  <2>2. UNCHANGED job /\ StoreType'
    BY <1>t, <2>u, <2>f DEF StoreType, bucket, gh
  <2>3. CASE AfterDelete(p, FALSE) \/ AfterDelete(p, TRUE)
    BY <1>d, <2>1, <2>2, <2>3
  <2>4. CASE Enter(p, "delete_tree", keys) /\ UNCHANGED flags
    <3>1. Continue(p, "delete_tree", keys) /\ keys \in SUBSET Paths
      BY <2>2, <2>4 DEF Continue
    <3> QED
      BY <2>1, <2>2, <3>1, ContinueType
         DEF Stages, PublishStages, CleanupStages, RestoreStages, IndexStages, RootStages
  <2> QED
    BY <2>3, <2>4, <2>c
<1>24. ASSUME NEW p \in Procs, NEW k \in Paths, DeleteTreeObject(p, k) PROVE TypeInv'
  <2>1. Working(p) /\ mode[p] = "cleanup" /\ version[p] \in Versions
    BY <1>24, <1>w DEF DeleteTreeObject, Stages, TypeInv, StageInv, CleanupStages
  <2>2. PICK after \in Contents, raised \in BOOLEAN :
          /\ Call(tree[version[p]][k], None, after, raised)
          /\ tree' = [tree EXCEPT ![version[p]][k] = after]
          /\ IF raised \/ todo[p] = {k} THEN AfterDelete(p, raised)
             ELSE Enter(p, "delete_tree", todo[p] \ {k}) /\ UNCHANGED flags
    BY <1>24 DEF DeleteTreeObject
  <2>3. UNCHANGED job /\ StoreType'
    BY <1>24, <1>t, <1>f, <2>1, <2>2, CallFaults DEF DeleteTreeObject, StoreType, gh
  <2>4. CASE raised \/ todo[p] = {k}
    BY <1>d, <2>1, <2>2, <2>3, <2>4
  <2>5. CASE ~(raised \/ todo[p] = {k})
    <3>1. Continue(p, "delete_tree", todo[p] \ {k}) /\ todo[p] \ {k} \in SUBSET Paths
      BY <1>t, <2>2, <2>3, <2>5 DEF Continue, JobType
    <3> QED
      BY <2>1, <2>3, <3>1, ContinueType
         DEF Stages, PublishStages, CleanupStages, RestoreStages, IndexStages, RootStages
  <2> QED
    BY <2>4, <2>5
<1>25. ASSUME NEW p \in Procs, ForgetIndex(p) PROVE TypeInv'
  <2>1. PICK after \in Contents, raised \in BOOLEAN :
          Call(index, None, after, raised) /\ index' = after
    BY <1>25 DEF ForgetIndex
  <2>2. StoreType'
    BY <1>25, <1>t, <1>f, <2>1, CallFaults DEF ForgetIndex, StoreType, gh
  <2>3. problem' \in [Procs -> BOOLEAN] /\ "uncleaned" \in Ended /\ Enter(p, "uncleaned", {})
    BY <1>25, <1>t DEF ForgetIndex, JobType, Set, Ended
  <2>u. UNCHANGED <<job, failed, drafted, touched>>
    BY <1>25 DEF ForgetIndex
  <2>e. /\ pc' \in [Procs -> Ended \cup Stages]
        /\ todo' \in [Procs -> SUBSET Paths] /\ busy' \in [Procs -> SUBSET Paths]
        /\ pc'[p] = "uncleaned"
        /\ \A q \in Procs \ {p} : pc'[q] = pc[q] /\ todo'[q] = todo[q] /\ busy'[q] = busy[q]
    BY <1>t, <2>3, EnterEffect
  <2>4. JobType' /\ Others(p) /\ pc'[p] = "uncleaned"
    BY <1>t, <2>3, <2>u, <2>e DEF JobType, Others, job
  <2>5. StageInv(p)' /\ Bound(p)'
    BY <2>4 DEF StageInv, Bound, Working, Active, Ended, PublishStages, CleanupStages, RestoreStages,
                IndexStages, RootStages
  <2> QED
    BY <2>2, <2>4, <2>5, TypeFrame
<1>26. ASSUME NEW p \in Procs, NEW k \in Paths, ReadRestoreSource(p, k) PROVE TypeInv'
  <2>1. Working(p) /\ pc[p] \in RestoreStages /\ Artifacts[Source(p)] \subseteq Paths
    BY <1>26, <1>s DEF ReadRestoreSource, RestoreStages
  <2>2. PICK good \in BOOLEAN :
          /\ Matches(tree[Source(p)][k], Source(p), good)
          /\ IF good
             THEN Advance(p, k, "restore_put", Artifacts[Source(p)]) /\ UNCHANGED <<job, flags>>
             ELSE Raise(p)
    BY <1>26 DEF ReadRestoreSource
  <2>3. StoreType'
    BY <1>26, <1>t, <1>f, <2>2, MatchesFaults DEF ReadRestoreSource, StoreType, bucket, gh
  <2>4. CASE ~good
    BY <2>1, <2>2, <2>3, <2>4, RaiseType
  <2>5. CASE good
    <3>1. PICK stage \in {"restore_read", "restore_put"}, items \in SUBSET Paths :
            Continue(p, stage, items)
      BY <1>26, <1>t, <2>1, <2>2, <2>5 DEF ReadRestoreSource, Advance, Continue, JobType
    <3>2. mode[p] # "publish" /\ (mode[p] = "cleanup" => previous[p] # None)
      BY <2>1 DEF TypeInv, StageInv
    <3> QED
      BY <2>1, <2>3, <3>1, <3>2, ContinueType
         DEF Stages, PublishStages, CleanupStages, RestoreStages, IndexStages, RootStages
  <2> QED
    BY <2>4, <2>5
<1>r. ASSUME NEW p \in Procs, NEW k \in Paths, pc[p] \in RestoreStages, StoreType',
             NEW ok \in BOOLEAN, Restored(p, k, ok)
      PROVE  TypeInv'
  <2>1. Working(p) /\ mode[p] # "publish" /\ (mode[p] = "cleanup" => previous[p] # None)
    BY <1>r, <1>s DEF TypeInv, StageInv
  <2>2. CASE RaiseOr(p, failed[p] \/ ~ok, "index", {})
    <3>1. CASE failed[p] \/ ~ok
      BY <1>r, <2>1, <2>2, <3>1, RaiseType DEF RaiseOr
    <3>2. CASE ~(failed[p] \/ ~ok)
      BY <1>r, <2>1, <2>2, <3>2, ContinueType
         DEF RaiseOr, Stages, PublishStages, CleanupStages, RestoreStages, IndexStages, RootStages
    <3> QED
      BY <3>1, <3>2
  <2>3. CASE /\ Enter(p, "restore_put", todo[p] \ {k})
             /\ failed' = Set(failed, p, failed[p] \/ ~ok)
             /\ UNCHANGED <<job, drafted, touched, problem>>
    <3>1. failed' \in [Procs -> BOOLEAN] /\ \A q \in Procs \ {p} : failed'[q] = failed[q]
      BY <1>t, <2>3 DEF JobType, Set
    <3>2. todo[p] \ {k} \in SUBSET Paths /\ "restore_put" \in Stages
      BY <1>t DEF JobType, Stages
    <3>3. JobType' /\ Others(p) /\ pc'[p] = "restore_put" /\ mode' = mode /\ version' = version
          /\ previous' = previous
      BY <1>t, <2>3, <3>1, <3>2, EnterEffect DEF JobType, Others, job
    <3>4. StageInv(p)' /\ Bound(p)'
      BY <2>1, <3>3 DEF TypeInv, StageInv, Bound, PublishStages, CleanupStages, RootStages
    <3> QED
      BY <1>r, <3>3, <3>4, TypeFrame
  <2> QED
    BY <1>r, <2>2, <2>3 DEF Restored
<1>27. ASSUME NEW p \in Procs, NEW k \in Paths, PutRestored(p, k) PROVE TypeInv'
  <2>1. pc[p] \in RestoreStages /\ Working(p) /\ mode[p] # "publish"
        /\ (mode[p] = "cleanup" => previous[p] # None)
    BY <1>27, <1>s DEF PutRestored, RestoreStages, TypeInv, StageInv
  <2>2. PICK after \in Contents, raised \in BOOLEAN :
          /\ Put(latest[k], Source(p), after, raised) /\ latest' = Set(latest, k, after)
          /\ IF raised THEN Restored(p, k, FALSE) ELSE Continue(p, "restore_get", todo[p])
    BY <1>27 DEF PutRestored
  <2>3. StoreType'
    BY <1>27, <1>t, <1>f, <2>2, CallFaults DEF PutRestored, StoreType, gh, Set
  <2>4. CASE raised
    BY <1>r, <2>1, <2>2, <2>3, <2>4
  <2>5. CASE ~raised
    <3>1. todo[p] \in SUBSET Paths
      BY <1>t DEF JobType
    <3> QED
      BY <2>1, <2>2, <2>3, <2>5, <3>1, ContinueType
         DEF Stages, PublishStages, CleanupStages, RestoreStages, IndexStages, RootStages
  <2> QED
    BY <2>4, <2>5
<1>28. ASSUME NEW p \in Procs, NEW k \in Paths, VerifyRestored(p, k) PROVE TypeInv'
  <2>1. PICK good \in BOOLEAN : Matches(latest[k], Source(p), good) /\ Restored(p, k, good)
    BY <1>28 DEF VerifyRestored
  <2>2. StoreType' /\ pc[p] \in RestoreStages
    BY <1>28, <1>t, <1>f, <2>1, MatchesFaults DEF VerifyRestored, StoreType, bucket, gh, RestoreStages
  <2> QED
    BY <1>r, <2>1, <2>2
<1> QED
  BY <1>0, <1>1, <1>3, <1>4, <1>5, <1>6, <1>7, <1>8, <1>9, <1>10, <1>11, <1>12, <1>13, <1>14, <1>15,
     <1>16, <1>17, <1>18, <1>19, <1>20, <1>21, <1>22, <1>23, <1>24, <1>25, <1>26, <1>27, <1>28
     DEF Next, Step, Publish, Cleanup, Shared

\* Type correctness, for all versions, artifacts, fault bounds and numbers of commands.
THEOREM TypeCorrect == Spec => []TypeOK
<1>1. TypeInv => TypeOK
  BY DEF TypeInv
<1> QED
  BY <1>1, TypeInit, TypeNext, PTL DEF Spec
=============================================================================
