-------------------------- MODULE PublicationProofs --------------------------
(***************************************************************************)
(* Published versions stay intact, what the commands do with GitHub        *)
(* releases, and what a command that runs alone brings about and has read: *)
(* the inductive invariants SafeInv, GithubInv, CommandInv and TreeRead.   *)
(***************************************************************************)
EXTENDS PublicationTypes

\* What the runs named ambiguous_pointer and republish show to be necessary.
PointerAssumption == "pointer_ack" \notin FaultKinds /\ ~Republishing

Publishing(p) == Working(p) /\ mode[p] # "rollback"

\* A publication has a version of its own, which is not published before the pointer has
\* moved; a rollback has one that is.
VersionInv(p) ==
  /\ Publishing(p) => version[p] \in allocated /\ (pc[p] # "finalize" => version[p] \notin published)
  /\ Working(p) /\ mode[p] = "rollback" => version[p] \in published
  /\ previous[p] \in published \cup {None}

Uploaded(p, items) == \A k \in items : tree[version[p]][k] = version[p]

\* What a publication has verified so far.
ProgressInv(p) ==
  /\ pc[p] = "tree" /\ ~failed[p] => Uploaded(p, Artifacts[version[p]] \ (todo[p] \cup busy[p]))
  /\ pc[p] \in {"manifest_put", "manifest_get"} => Uploaded(p, Artifacts[version[p]])
  /\ pc[p] \in {"latest"} \cup IndexStages \cup RootStages /\ mode[p] = "publish"
     => Intact(version[p])

\* No two publications, or their cleanups, work on one version.
Distinct ==
  \A p, q \in Procs : p # q /\ Publishing(p) /\ Publishing(q) => version[p] # version[q]

SafeInv ==
  /\ PublishedIntact
  /\ published \subseteq allocated
  /\ \A p \in Procs : VersionInv(p) /\ ProgressInv(p)
  /\ Distinct

\* The tree is as it was but for one object of the version p publishes.
TreeStep(p) ==
  \/ tree' = tree
  \/ /\ Publishing(p) /\ pc[p] # "finalize"
     /\ \E k \in Paths, after \in Contents : tree' = [tree EXCEPT ![version[p]][k] = after]

\* A publication or its cleanup writes below releases/<its version>/ only.
LEMMA TreeStepElsewhere ==
  ASSUME TypeInv, NEW p \in Procs, TreeStep(p), NEW v \in Versions,
         Publishing(p) => v # version[p]
  PROVE  tree'[v] = tree[v]
BY DEF TreeStep, TypeInv, TypeOK, StoreType

\* The invariant after a step of one command that writes at most its own tree and leaves
\* the pointer alone: only what the invariant says of that command is left to show.
LEMMA SafeFrame ==
  ASSUME TypeInv, SafeInv, NEW p \in Procs, Others(p), TreeStep(p),
         UNCHANGED <<pointer, published, allocated>>,
         VersionInv(p)', ProgressInv(p)',
         Publishing(p)' => Publishing(p) /\ version'[p] = version[p]
  PROVE  SafeInv'
<1>1. published \subseteq Versions
  BY DEF TypeInv, TypeOK, StoreType
<1>2. PublishedIntact'
  <2>1. ASSUME NEW v \in published PROVE Intact(v)'
    <3>1. CASE tree' = tree
      BY <2>1, <3>1 DEF SafeInv, PublishedIntact, Intact
    <3>2. CASE Publishing(p) /\ pc[p] # "finalize"
      <4>1. tree'[v] = tree[v]
        BY <1>1, <2>1, <3>2, TreeStepElsewhere DEF SafeInv, VersionInv
      <4> QED
        BY <2>1, <4>1 DEF SafeInv, PublishedIntact, Intact
    <3> QED
      BY <3>1, <3>2 DEF TreeStep
  <2> QED
    BY <2>1 DEF SafeInv, PublishedIntact
<1>3. ASSUME NEW q \in Procs \ {p} PROVE VersionInv(q)' /\ ProgressInv(q)'
  <2>1. /\ pc'[q] = pc[q] /\ mode'[q] = mode[q] /\ version'[q] = version[q]
        /\ previous'[q] = previous[q] /\ todo'[q] = todo[q] /\ busy'[q] = busy[q]
        /\ failed'[q] = failed[q]
    BY <1>3 DEF Others
  <2>2. VersionInv(q)'
    BY <2>1 DEF SafeInv, VersionInv, Publishing, Working, Active
  <2>3. CASE Publishing(q) /\ mode[q] = "publish"
    <3>1. version[q] \in Versions /\ (Publishing(p) => version[q] # version[p])
      BY <1>3, <2>3 DEF SafeInv, Distinct, TypeInv, Bound, Publishing
    <3>2. tree'[version[q]] = tree[version[q]]
      BY <3>1, TreeStepElsewhere
    <3>3. ProgressInv(q)
      BY DEF SafeInv
    <3> QED
      BY <2>1, <2>2, <3>2, <3>3 DEF ProgressInv, Uploaded, Intact
  <2>4. CASE ~(Publishing(q) /\ mode[q] = "publish")
    <3>1. StageInv(q)
      BY DEF TypeInv
    <3>2. pc[q] \notin {"tree", "manifest_put", "manifest_get", "latest"}
      BY <2>4, <3>1 DEF StageInv, PublishStages, Publishing, Working, Active, Ended
    <3>3. pc[q] \in IndexStages \cup RootStages => mode[q] # "publish"
      BY <2>4 DEF Publishing, Working, Active, Ended, IndexStages, RootStages
    <3> QED
      BY <2>1, <2>2, <3>2, <3>3 DEF ProgressInv
  <2> QED
    BY <2>3, <2>4
<1>4. Distinct'
  BY DEF SafeInv, Distinct, Others, Publishing, Working, Active
<1>5. (published \subseteq allocated)'
  BY DEF SafeInv
<1> QED
  BY <1>2, <1>3, <1>4, <1>5 DEF SafeInv

\* A failed publication goes over to its cleanup with the version it was publishing, which
\* the pointer has not named: _cleanup_failed_publication deletes no live tree.
LEMMA RaiseSafe ==
  ASSUME TypeInv, SafeInv, NEW p \in Procs, Working(p), pc[p] # "finalize", Raise(p), TreeStep(p),
         UNCHANGED <<pointer, published, allocated>>
  PROVE  SafeInv'
<1>1. JobType /\ mode[p] \in {"publish", "cleanup", "rollback"} /\ VersionInv(p)
  BY DEF TypeInv, TypeOK, JobType, SafeInv
<1>2. /\ Others(p) /\ version' = version /\ previous' = previous
      /\ mode[p] = "publish"  => mode'[p] = "cleanup" /\ pc'[p] \in {"delete_draft", "list_tree"}
      /\ mode[p] = "cleanup"  => mode'[p] = "cleanup" /\ pc'[p] = "uncleaned"
      /\ mode[p] = "rollback" => mode'[p] = "rollback" /\ pc'[p] = "rollback_failed"
  BY <1>1, RaiseEffect
<1>3. VersionInv(p)' /\ ProgressInv(p)'
  BY <1>1, <1>2 DEF VersionInv, ProgressInv, Publishing, Working, Active, Ended, IndexStages, RootStages
<1>4. Publishing(p)' => Publishing(p) /\ version'[p] = version[p]
  BY <1>1, <1>2 DEF Publishing, Working, Active, Ended
<1> QED
  BY <1>2, <1>3, <1>4, SafeFrame

\* Going on to the next stage keeps the invariant when the new stage's progress is shown.
LEMMA ContinueSafe ==
  ASSUME TypeInv, SafeInv, NEW p \in Procs, Working(p), pc[p] # "finalize",
         NEW stage \in Ended \cup Stages, NEW items \in SUBSET Paths,
         Continue(p, stage, items), TreeStep(p), UNCHANGED <<pointer, published, allocated>>,
         ProgressInv(p)'
  PROVE  SafeInv'
<1>1. JobType /\ VersionInv(p)
  BY DEF TypeInv, TypeOK, SafeInv
<1>2. Others(p) /\ version' = version /\ previous' = previous /\ mode' = mode
  BY <1>1, ContinueEffect
<1>3. VersionInv(p)' /\ (Publishing(p)' => Publishing(p))
  BY <1>1, <1>2 DEF VersionInv, Publishing
<1> QED
  BY <1>2, <1>3, SafeFrame

\* A stage in which a publication has nothing to show for its tree.
Unproven == Ended \cup {"building", "draft", "assets", "finalize"} \cup CleanupStages \cup RestoreStages

\* The invariant holds of an empty bucket.
LEMMA SafeInit == Init => SafeInv
BY DEF Init, SafeInv, PublishedIntact, VersionInv, ProgressInv, Distinct, Publishing, Working, Active,
       Ended, IndexStages, RootStages

\* Stages before the upload, of the cleanup and of a restore claim nothing of the tree.
LEMMA NoProgress ==
  ASSUME NEW p, pc'[p] \in Unproven
  PROVE  ProgressInv(p)'
BY DEF Unproven, ProgressInv, Ended, CleanupStages, RestoreStages, IndexStages, RootStages

\* A rollback or a cleanup in _copy_index_to_root or _write_manifest claims nothing of the
\* tree it would have uploaded.
LEMMA NotPublish ==
  ASSUME NEW p, pc'[p] \in IndexStages \cup RootStages, mode'[p] # "publish"
  PROVE  ProgressInv(p)'
BY DEF ProgressInv, IndexStages, RootStages

\* Once publish_release has verified its whole tree, it leaves it alone.
LEMMA IntactStays ==
  ASSUME NEW p, Intact(version[p]), tree' = tree, version'[p] = version[p],
         pc'[p] \in {"latest"} \cup IndexStages \cup RootStages
  PROVE  ProgressInv(p)'
BY DEF ProgressInv, Intact, IndexStages, RootStages

\* A build takes a version that no build has had, so that no two publications share one.
LEMMA StartPublishSafe ==
  ASSUME TypeInv, SafeInv, NEW p \in Procs, NEW v \in Versions \ allocated, StartPublish(p, v),
         allocated' = allocated \cup {v}, UNCHANGED <<bucket, previous>>
  PROVE  SafeInv'
<1>1. JobType /\ VersionInv(p)
  BY DEF TypeInv, TypeOK, SafeInv
<1>2. UNCHANGED <<tree, pointer, published, previous>>
  BY DEF bucket
<1>3. v \notin published
  BY DEF SafeInv
<1>4. /\ pc'[p] = "draft"
      /\ \A q \in Procs \ {p} : pc'[q] = pc[q] /\ todo'[q] = todo[q] /\ busy'[q] = busy[q]
  BY <1>1, EntryStages, EnterEffect DEF StartPublish
<1>5. /\ mode'[p] = "publish" /\ version'[p] = v
      /\ \A q \in Procs \ {p} :
           mode'[q] = mode[q] /\ version'[q] = version[q] /\ failed'[q] = failed[q]
  BY <1>1 DEF StartPublish, Set, JobType
<1>6. VersionInv(p)' /\ ProgressInv(p)'
  <2>1. VersionInv(p)'
    BY <1>1, <1>2, <1>3, <1>4, <1>5 DEF VersionInv, Publishing, Working, Active, Ended
  <2>2. ProgressInv(p)'
    BY <1>4, NoProgress DEF Unproven
  <2> QED
    BY <2>1, <2>2
<1>7. ASSUME NEW q \in Procs \ {p} PROVE VersionInv(q)' /\ ProgressInv(q)'
  BY <1>2, <1>4, <1>5, <1>7
     DEF SafeInv, VersionInv, ProgressInv, Uploaded, Intact, Publishing, Working, Active
<1>8. Distinct'
  <2>1. ASSUME NEW q \in Procs \ {p}, Publishing(q)' PROVE version'[q] # version'[p]
    <3>1. Publishing(q) /\ version'[q] = version[q]
      BY <1>4, <1>5, <2>1 DEF Publishing, Working, Active
    <3> QED
      BY <1>5, <3>1 DEF SafeInv, VersionInv
  <2>2. ASSUME NEW q \in Procs \ {p}, NEW r \in Procs \ {p}, q # r, Publishing(q)', Publishing(r)'
        PROVE  version'[q] # version'[r]
    BY <1>4, <1>5, <2>2 DEF SafeInv, Distinct, Publishing, Working, Active
  <2> QED
    BY <2>1, <2>2 DEF Distinct
<1>9. PublishedIntact' /\ (published \subseteq allocated)'
  BY <1>2 DEF SafeInv, PublishedIntact, Intact
<1> QED
  BY <1>6, <1>7, <1>8, <1>9 DEF SafeInv

\* Every call of every command keeps the invariant, as long as the PUT of the pointer is
\* not reported failed when it took effect and a published dist is not published again.
THEOREM SafeNext ==
  ASSUME PointerAssumption
  PROVE  TypeInv /\ SafeInv /\ [Next]_vars => SafeInv'
<1> SUFFICES ASSUME TypeInv, SafeInv, [Next]_vars PROVE SafeInv'
  OBVIOUS
<1>t. JobType /\ StoreType
  BY DEF TypeInv, TypeOK
<1>0. CASE UNCHANGED vars
  BY <1>0 DEF vars, bucket, job, work, flags, SafeInv, PublishedIntact, VersionInv, ProgressInv, Distinct,
              Uploaded, Intact, Publishing, Working, Active
<1>w. ASSUME NEW p \in Procs, pc[p] \in Stages \ {"building"} PROVE Working(p) /\ version[p] \in Versions
  BY <1>w DEF Working, Active, Ended, Stages, TypeInv, Bound
<1>1. ASSUME NEW p \in Publishers, ReadLiveManifest(p) PROVE SafeInv'
  <2>1. p \in Procs /\ Enter(p, "building", {}) /\ "building" \in Stages /\ pointer # Corrupt
        /\ UNCHANGED <<tree, pointer, published, allocated, failed, mode, version>>
    BY <1>1 DEF ReadLiveManifest, Procs, Stages, bucket, flags
  <2>2. previous'[p] = pointer /\ \A q \in Procs \ {p} : previous'[q] = previous[q]
    BY <1>1, <1>t, <2>1 DEF ReadLiveManifest, Set, JobType
  <2>3. Others(p) /\ pc'[p] = "building"
    BY <1>t, <2>1, <2>2, EnterEffect DEF Others
  <2>4. VersionInv(p)' /\ ProgressInv(p)'
    BY <2>1, <2>2, <2>3, NoProgress DEF VersionInv, Publishing, Working, Unproven, SafeInv, PublishedIntact
  <2> QED
    BY <2>1, <2>3, <2>4, SafeFrame DEF Publishing, Working, TreeStep
<1>2. ASSUME NEW p \in Publishers, Republish(p) PROVE SafeInv'
  BY <1>2 DEF Republish, PointerAssumption
<1>3. ASSUME NEW p \in Procs, BuildRelease(p) PROVE SafeInv'
  BY <1>3, StartPublishSafe DEF BuildRelease
<1>4. ASSUME NEW p \in Operators, StartRollback(p) PROVE SafeInv'
  <2>1. PICK v \in published : /\ mode' = Set(mode, p, "rollback") /\ version' = Set(version, p, v)
                              /\ Enter(p, "restore_read", Artifacts[v])
    BY <1>4 DEF StartRollback
  <2>2. p \in Procs /\ "restore_read" \in Stages /\ Artifacts[v] \in SUBSET Paths
        /\ UNCHANGED <<tree, pointer, published, allocated, previous>>
    BY <1>4, <1>t, ArtifactPaths DEF StartRollback, bucket, StoreType, Procs, Stages
  <2>3. /\ pc'[p] = "restore_read"
        /\ \A q \in Procs \ {p} : pc'[q] = pc[q] /\ todo'[q] = todo[q] /\ busy'[q] = busy[q]
    BY <1>t, <2>1, <2>2, EnterEffect
  <2>4. /\ mode'[p] = "rollback" /\ version'[p] = v
        /\ \A q \in Procs \ {p} : mode'[q] = mode[q] /\ version'[q] = version[q]
    BY <1>t, <2>1, <2>2 DEF Set, JobType
  <2>5. \A q \in Procs \ {p} : failed'[q] = failed[q]
    BY <1>4, <1>t DEF StartRollback, Set, JobType
  <2>6. VersionInv(p)' /\ ProgressInv(p)'
    BY <2>2, <2>3, <2>4, NoProgress DEF VersionInv, Publishing, Unproven, RestoreStages, SafeInv
  <2> QED
    BY <2>2, <2>3, <2>4, <2>5, <2>6, SafeFrame DEF Others, Publishing, TreeStep
<1>5. ASSUME NEW p \in Procs, NoRelease(p) \/ Crash(p) PROVE SafeInv'
  <2>1. PICK stage \in {"idle", "crashed"} : Enter(p, stage, {})
    BY <1>5 DEF NoRelease, Crash
  <2>2. stage \in Ended
    BY DEF Ended
  <2>3. UNCHANGED <<tree, pointer, published, allocated, failed, mode, version, previous>>
    BY <1>5 DEF NoRelease, Crash, bucket, flags, job
  <2>4. Others(p) /\ pc'[p] = stage
    BY <1>t, <2>1, <2>2, <2>3, EnterEffect DEF Others
  <2>5. VersionInv(p)' /\ ProgressInv(p)' /\ ~Publishing(p)'
    BY <2>2, <2>3, <2>4, NoProgress DEF VersionInv, Publishing, Working, Active, Unproven, SafeInv
  <2> QED
    BY <2>3, <2>4, <2>5, SafeFrame DEF TreeStep
<1>6. ASSUME NEW p \in Procs, CreateDraft(p) PROVE SafeInv'
  <2>1. Working(p) /\ pc[p] = "draft" /\ version[p] \in Versions
        /\ Artifacts[version[p]] \in SUBSET Paths
    BY <1>6, <1>w, ArtifactPaths DEF CreateDraft, Stages
  <2>2. UNCHANGED <<tree, pointer, published, allocated>>
    BY <1>6 DEF CreateDraft, bucket
  <2>3. CASE Raise(p)
    BY <2>1, <2>2, <2>3, RaiseSafe DEF TreeStep
  <2>4. CASE Enter(p, "assets", Artifacts[version[p]]) /\ UNCHANGED <<job, failed>>
    <3>1. Others(p) /\ pc'[p] = "assets" /\ UNCHANGED <<mode, version, previous>>
      BY <1>t, <2>1, <2>4, EnterEffect DEF Others, job, Stages
    <3>2. VersionInv(p)' /\ ProgressInv(p)' /\ (Publishing(p)' => Publishing(p))
      BY <2>1, <2>2, <3>1, NoProgress DEF VersionInv, Publishing, Unproven, SafeInv
    <3> QED
      BY <2>2, <3>1, <3>2, SafeFrame DEF TreeStep
  <2> QED
    BY <1>6, <2>3, <2>4 DEF CreateDraft
<1>7. ASSUME NEW p \in Procs, NEW k \in Paths, UploadAsset(p, k) PROVE SafeInv'
  <2>1. Working(p) /\ pc[p] = "assets" /\ version[p] \in Versions
        /\ Artifacts[version[p]] \in SUBSET Paths
    BY <1>7, <1>w, ArtifactPaths DEF UploadAsset, Stages
  <2>2. UNCHANGED <<tree, pointer, published, allocated>>
    BY <1>7 DEF UploadAsset, bucket
  <2>3. CASE Raise(p)
    BY <2>1, <2>2, <2>3, RaiseSafe DEF TreeStep
  <2>4. CASE Advance(p, k, "tree", Artifacts[version[p]]) /\ UNCHANGED <<job, flags>>
    <3>1. PICK stage \in {"assets", "tree"}, items \in SUBSET Paths :
            Continue(p, stage, items) /\ (stage = "tree" => items = Artifacts[version[p]])
      BY <1>t, <2>1, <2>4 DEF Advance, Continue, JobType
    <3>2. pc'[p] = stage /\ todo'[p] = items /\ version' = version
      BY <1>t, <3>1, ContinueEffect DEF Stages
    <3>3. ProgressInv(p)'
      BY <3>1, <3>2 DEF ProgressInv, Uploaded, IndexStages, RootStages
    <3> QED
      BY <2>1, <2>2, <3>1, <3>3, ContinueSafe DEF TreeStep, Stages
  <2> QED
    BY <1>7, <2>3, <2>4 DEF UploadAsset
<1>k. ASSUME NEW p \in Procs, NEW k \in Paths, NEW ok \in BOOLEAN, Worked(p, k, ok), UNCHANGED job,
             pc[p] = "tree", TreeStep(p), UNCHANGED <<pointer, published, allocated>>,
             \A j \in Paths \ {k} : tree'[version[p]][j] = tree[version[p]][j],
             ok => tree'[version[p]][k] = version[p]
      PROVE  SafeInv'
  <2>1. /\ Others(p) /\ UNCHANGED <<version, previous, mode, pc>>
        /\ todo'[p] = todo[p] \ {k} /\ busy'[p] = busy[p] \ {k}
        /\ failed'[p] <=> failed[p] \/ ~ok
    BY <1>k, <1>t, WorkedEffect
  <2>2. VersionInv(p)' /\ (Publishing(p)' => Publishing(p))
    BY <1>k, <2>1 DEF SafeInv, VersionInv, Publishing, Working, Active
  <2>3. version[p] \in Versions /\ Artifacts[version[p]] \subseteq Paths /\ ProgressInv(p)
    BY <1>k, <1>w, ArtifactPaths DEF Stages, SafeInv
  <2>4. ProgressInv(p)'
    BY <1>k, <2>1, <2>3 DEF ProgressInv, Uploaded, IndexStages, RootStages
  <2> QED
    BY <1>k, <2>1, <2>2, <2>4, SafeFrame
<1>8. ASSUME NEW p \in Procs, NEW k \in Paths, PutTreeObject(p, k) PROVE SafeInv'
  <2>1. Working(p) /\ pc[p] = "tree" /\ version[p] \in Versions /\ Publishing(p) /\ k \in todo[p]
    BY <1>8, <1>w DEF PutTreeObject, Running, Stages, TypeInv, StageInv, PublishStages, Publishing
  <2>2. UNCHANGED <<pointer, published, allocated, job>>
    BY <1>8 DEF PutTreeObject
  <2>3. PICK after \in Contents, raised \in BOOLEAN :
          /\ tree' = [tree EXCEPT ![version[p]][k] = after]
          /\ IF raised THEN Worked(p, k, FALSE)
             ELSE /\ todo' = Set(todo, p, todo[p] \ {k})
                  /\ busy' = Set(busy, p, busy[p] \cup {k})
                  /\ UNCHANGED <<pc, flags>>
    BY <1>8 DEF PutTreeObject
  <2>4. TreeStep(p) /\ \A j \in Paths \ {k} : tree'[version[p]][j] = tree[version[p]][j]
    BY <1>t, <2>1, <2>3 DEF TreeStep, StoreType
  <2>5. CASE raised
    BY <1>k, <2>1, <2>2, <2>3, <2>4, <2>5
  <2>6. CASE ~raised
    <3>1. /\ Others(p) /\ UNCHANGED <<version, previous, mode, pc, failed>>
          /\ todo'[p] = todo[p] \ {k} /\ busy'[p] = busy[p] \cup {k}
      BY <1>t, <2>2, <2>3, <2>6 DEF Others, Set, JobType, job, flags
    <3>2. VersionInv(p)' /\ (Publishing(p)' => Publishing(p))
      BY <2>2, <3>1 DEF SafeInv, VersionInv, Publishing, Working, Active
    <3>3. Artifacts[version[p]] \subseteq Paths /\ ProgressInv(p)
      BY <2>1, ArtifactPaths DEF SafeInv
    <3>4. ProgressInv(p)'
      BY <2>1, <2>4, <3>1, <3>3 DEF ProgressInv, Uploaded, IndexStages, RootStages
    <3> QED
      BY <2>2, <2>4, <3>1, <3>2, <3>4, SafeFrame
  <2> QED
    BY <2>5, <2>6
<1>9. ASSUME NEW p \in Procs, NEW k \in Paths, VerifyTreeObject(p, k) PROVE SafeInv'
  <2>1. pc[p] = "tree" /\ UNCHANGED <<tree, pointer, published, allocated, job>>
    BY <1>9 DEF VerifyTreeObject, bucket
  <2>2. PICK good \in BOOLEAN : Matches(tree[version[p]][k], version[p], good) /\ Worked(p, k, good)
    BY <1>9 DEF VerifyTreeObject
  <2>3. good => tree'[version[p]][k] = version[p]
    BY <2>1, <2>2 DEF Matches
  <2> QED
    BY <1>k, <2>1, <2>2, <2>3 DEF TreeStep
<1>10. ASSUME NEW p \in Procs, JoinTree(p) PROVE SafeInv'
  <2>1. Working(p) /\ pc[p] = "tree" /\ todo[p] \cup busy[p] = {} /\ ProgressInv(p)
        /\ UNCHANGED <<tree, pointer, published, allocated>>
        /\ RaiseOr(p, failed[p], "manifest_put", {})
    BY <1>10, <1>w DEF JoinTree, Stages, SafeInv, bucket
  <2>2. CASE failed[p]
    BY <2>1, <2>2, RaiseSafe DEF RaiseOr, TreeStep
  <2>3. CASE ~failed[p]
    <3>1. Continue(p, "manifest_put", {}) /\ "manifest_put" \in Stages
      BY <2>1, <2>3 DEF RaiseOr, Stages
    <3>2. pc'[p] = "manifest_put" /\ version' = version
      BY <1>t, <3>1, ContinueEffect
    <3>3. ProgressInv(p)'
      BY <2>1, <2>3, <3>2 DEF ProgressInv, Uploaded, IndexStages, RootStages
    <3> QED
      BY <2>1, <3>1, <3>3, ContinueSafe DEF TreeStep
  <2> QED
    BY <2>2, <2>3
<1>11. ASSUME NEW p \in Procs, PutReleaseManifest(p) PROVE SafeInv'
  <2>1. Working(p) /\ pc[p] = "manifest_put" /\ version[p] \in Versions /\ Publishing(p)
    BY <1>11, <1>w DEF PutReleaseManifest, Stages, TypeInv, StageInv, PublishStages, Publishing
  <2>2. PICK after \in Contents, raised \in BOOLEAN :
          /\ tree' = [tree EXCEPT ![version[p]][ManifestPath] = after]
          /\ RaiseOr(p, raised, "manifest_get", {})
    BY <1>11 DEF PutReleaseManifest
  <2>3. UNCHANGED <<pointer, published, allocated>> /\ TreeStep(p)
    BY <1>11, <2>1, <2>2, PathsAssumption DEF PutReleaseManifest, TreeStep
  <2>4. CASE raised
    BY <2>1, <2>2, <2>3, <2>4, RaiseSafe DEF RaiseOr
  <2>5. CASE ~raised
    <3>1. Continue(p, "manifest_get", {}) /\ "manifest_get" \in Stages
      BY <2>2, <2>5 DEF RaiseOr, Stages
    <3>2. pc'[p] = "manifest_get" /\ version' = version
      BY <1>t, <3>1, ContinueEffect
    <3>3. Uploaded(p, Artifacts[version[p]])
      BY <2>1 DEF SafeInv, ProgressInv
    <3>4. \A k \in Artifacts[version[p]] : tree'[version[p]][k] = tree[version[p]][k]
      BY <1>t, <2>1, <2>2, ArtifactPaths DEF StoreType
    <3>5. ProgressInv(p)'
      BY <3>2, <3>3, <3>4 DEF ProgressInv, Uploaded, IndexStages, RootStages
    <3> QED
      BY <2>1, <2>3, <3>1, <3>5, ContinueSafe
  <2> QED
    BY <2>4, <2>5
<1>12. ASSUME NEW p \in Procs, VerifyReleaseManifest(p) PROVE SafeInv'
  <2>1. Working(p) /\ pc[p] = "manifest_get" /\ version[p] \in Versions
        /\ Artifacts[version[p]] \in SUBSET Paths /\ Uploaded(p, Artifacts[version[p]])
        /\ UNCHANGED <<tree, pointer, published, allocated>>
    BY <1>12, <1>w, ArtifactPaths
       DEF VerifyReleaseManifest, Stages, SafeInv, ProgressInv, bucket
  <2>2. PICK good \in BOOLEAN :
          /\ Matches(tree[version[p]][ManifestPath], version[p], good)
          /\ IF ~good THEN Raise(p)
             ELSE /\ touched' = Set(touched, p, TRUE)
                  /\ Enter(p, "latest", Artifacts[version[p]])
                  /\ UNCHANGED <<job, failed, drafted, problem>>
    BY <1>12 DEF VerifyReleaseManifest
  <2>3. CASE ~good
    BY <2>1, <2>2, <2>3, RaiseSafe DEF TreeStep
  <2>4. CASE good
    <3>1. Others(p) /\ pc'[p] = "latest" /\ UNCHANGED <<mode, version, previous>>
      BY <1>t, <2>1, <2>2, <2>4, EnterEffect DEF Others, job, Stages
    <3>2. Intact(version[p])
      BY <2>1, <2>2, <2>4 DEF Matches, Intact, Objects, Uploaded
    <3>3. VersionInv(p)' /\ ProgressInv(p)' /\ (Publishing(p)' => Publishing(p))
      BY <2>1, <3>1, <3>2, IntactStays DEF VersionInv, Publishing, SafeInv
    <3> QED
      BY <2>1, <3>1, <3>3, SafeFrame DEF TreeStep
  <2> QED
    BY <2>3, <2>4
<1>13. ASSUME NEW p \in Procs, NEW k \in Paths, CopyToLatest(p, k) PROVE SafeInv'
  <2>1. PICK raised \in BOOLEAN : Worked(p, k, ~raised)
    BY <1>13 DEF CopyToLatest
  <2>2. pc[p] = "latest" /\ UNCHANGED <<tree, pointer, published, allocated, job>>
    BY <1>13 DEF CopyToLatest
  <2>3. Others(p) /\ UNCHANGED <<version, previous, mode, pc>>
    BY <1>t, <2>1, <2>2, WorkedEffect
  <2>4. mode[p] = "publish" /\ Intact(version[p])
    BY <2>2 DEF TypeInv, StageInv, PublishStages, SafeInv, ProgressInv
  <2>5. VersionInv(p)' /\ ProgressInv(p)' /\ (Publishing(p)' => Publishing(p))
    BY <2>2, <2>3, <2>4, IntactStays DEF SafeInv, VersionInv, Publishing, Working, Active
  <2> QED
    BY <2>2, <2>3, <2>5, SafeFrame DEF TreeStep
<1>14. ASSUME NEW p \in Procs, JoinLatest(p) PROVE SafeInv'
  <2>1. Working(p) /\ pc[p] = "latest" /\ UNCHANGED <<tree, pointer, published, allocated>>
        /\ RaiseOr(p, failed[p], "index", {})
    BY <1>14, <1>w DEF JoinLatest, Stages, bucket
  <2>2. CASE failed[p]
    BY <2>1, <2>2, RaiseSafe DEF RaiseOr, TreeStep
  <2>3. CASE ~failed[p]
    <3>1. Continue(p, "index", {}) /\ "index" \in Stages
      BY <2>1, <2>3 DEF RaiseOr, Stages
    <3>2. pc'[p] = "index" /\ version' = version
      BY <1>t, <3>1, ContinueEffect
    <3>3. Intact(version[p])
      BY <2>1 DEF TypeInv, StageInv, PublishStages, SafeInv, ProgressInv
    <3>4. ProgressInv(p)'
      BY <2>1, <3>2, <3>3, IntactStays DEF IndexStages
    <3> QED
      BY <2>1, <3>1, <3>4, ContinueSafe DEF TreeStep
  <2> QED
    BY <2>2, <2>3
<1>c. ASSUME NEW p \in Procs, pc[p] \in RestoreStages \cup IndexStages \cup RootStages,
             NEW stage \in (Ended \cup Stages) \cap (Unproven \cup IndexStages \cup RootStages),
             NEW items \in SUBSET Paths, Continue(p, stage, items),
             UNCHANGED <<tree, pointer, published, allocated>>
      PROVE  SafeInv'
  <2>1. Working(p) /\ pc[p] # "finalize"
    BY <1>c, <1>w DEF RestoreStages, IndexStages, RootStages, Stages
  <2>2. pc'[p] = stage /\ UNCHANGED <<version, mode>>
    BY <1>c, <1>t, ContinueEffect
  <2>3. mode[p] = "publish" => Intact(version[p])
    BY <1>c DEF TypeInv, StageInv, SafeInv, ProgressInv
  <2>4. ProgressInv(p)'
    BY <1>c, <2>2, <2>3, NoProgress, NotPublish, IntactStays
  <2> QED
    BY <1>c, <2>1, <2>4, ContinueSafe DEF TreeStep
<1>x. ASSUME NEW p \in Procs, pc[p] \in Stages \ {"building", "finalize"}, Raise(p),
             UNCHANGED <<tree, pointer, published, allocated>>
      PROVE  SafeInv'
  BY <1>x, <1>w, RaiseSafe DEF TreeStep
<1>i. ASSUME NEW p \in Procs, pc[p] \in IndexStages, IndexDone(p),
             UNCHANGED <<tree, pointer, published, allocated>>
      PROVE  SafeInv'
  <2>1. PICK stage \in {"sums", "uncleaned", "cleaned"} : Continue(p, stage, {})
    BY <1>i DEF IndexDone
  <2> QED
    BY <1>c, <1>i, <2>1 DEF Unproven, Ended, Stages, RootStages
<1>15. ASSUME NEW p \in Procs, ReadIndex(p) \/ PutRootIndex(p) PROVE SafeInv'
  <2>1. pc[p] \in IndexStages /\ pc[p] \in Stages \ {"building", "finalize"}
        /\ UNCHANGED <<tree, pointer, published, allocated>>
    BY <1>15 DEF ReadIndex, PutRootIndex, IndexStages, Stages, bucket
  <2>2. Raise(p) \/ Continue(p, "index_put", {}) \/ Continue(p, "index_get", {})
    BY <1>15 DEF ReadIndex, PutRootIndex, RaiseOr
  <2> QED
    BY <1>c, <1>x, <2>1, <2>2 DEF IndexStages, Stages
<1>16. ASSUME NEW p \in Procs, DeleteRootIndex(p) \/ VerifyRootIndex(p) PROVE SafeInv'
  <2>1. pc[p] \in IndexStages /\ pc[p] \in Stages \ {"building", "finalize"}
        /\ UNCHANGED <<tree, pointer, published, allocated>>
    BY <1>16 DEF DeleteRootIndex, VerifyRootIndex, IndexStages, Stages, bucket
  <2>2. Raise(p) \/ IndexDone(p)
    BY <1>16 DEF DeleteRootIndex, VerifyRootIndex
  <2> QED
    BY <1>i, <1>x, <2>1, <2>2
<1>17. ASSUME NEW p \in Procs, PutSums(p) PROVE SafeInv'
  <2>1. pc[p] \in RootStages /\ pc[p] \in Stages \ {"building", "finalize"}
        /\ UNCHANGED <<tree, pointer, published, allocated>>
    BY <1>17 DEF PutSums, RootStages, Stages
  <2>2. Raise(p) \/ Continue(p, "pointer", {})
    BY <1>17 DEF PutSums, RaiseOr
  <2> QED
    BY <1>c, <1>x, <2>1, <2>2 DEF RootStages, Stages
<1>18. ASSUME NEW p \in Procs, PutPointer(p) PROVE SafeInv'
  <2>1. /\ Working(p) /\ pc[p] = "pointer" /\ version[p] \in Versions /\ mode[p] \in {"publish", "rollback"}
        /\ VersionInv(p) /\ ProgressInv(p) /\ UNCHANGED <<tree, allocated>>
    BY <1>18, <1>w, <1>t DEF PutPointer, Stages, TypeInv, StageInv, RootStages, JobType, SafeInv
  <2>2. PICK after \in Contents, raised \in BOOLEAN :
          /\ PutRootManifest(p, after, raised)
          /\ pointer' = after
          /\ published' = IF after = version[p] THEN published \cup {after} ELSE published
          /\ RaiseOr(p, raised, IF mode[p] = "publish" THEN "finalize" ELSE "rolled_back", {})
    BY <1>18 DEF PutPointer
  <2>3. CASE raised /\ mode[p] = "publish"
    <3>1. after = pointer
      BY <2>2, <2>3 DEF PutRootManifest, PointerAssumption, Fault
    <3>2. version[p] \notin published /\ version[p] # None /\ version[p] # Corrupt
      BY <2>1, <2>3, ValuesAssumption DEF VersionInv, Publishing
    <3>3. pointer' = pointer /\ published' = published
      BY <2>2, <3>1, <3>2 DEF SafeInv, PublishedIntact
    <3> QED
      BY <1>x, <2>1, <2>2, <2>3, <3>3 DEF RaiseOr, Stages
  <2>4. CASE ~(raised /\ mode[p] = "publish")
    <3> DEFINE stage == IF mode[p] = "publish" THEN "finalize"
                        ELSE IF raised THEN "rollback_failed" ELSE "rolled_back"
    <3>1. after \in {version[p], pointer, Corrupt}
      BY <2>2 DEF PutRootManifest
    <3>2. /\ Others(p) /\ UNCHANGED <<version, previous, mode>> /\ pc'[p] = stage
      <4>1. CASE raised
        <5>1. Raise(p) /\ mode[p] = "rollback"
          BY <2>1, <2>2, <2>4, <4>1 DEF RaiseOr
        <5>2. mode' = mode
          BY <5>1 DEF Raise
        <5> QED
          BY <1>t, <4>1, <5>1, <5>2, RaiseEffect
      <4>2. CASE ~raised
        BY <1>t, <2>2, <4>2, ContinueEffect DEF RaiseOr, Stages, Ended
      <4> QED
        BY <4>1, <4>2
    <3>3. mode[p] = "publish" => Intact(version[p])
      BY <2>1 DEF ProgressInv, RootStages
    <3>4. mode[p] = "rollback" => version[p] \in published
      BY <2>1 DEF VersionInv
    <3>5. mode[p] = "publish" => version[p] \in allocated
      BY <2>1 DEF VersionInv, Publishing
    <3>6. PublishedIntact' /\ (published \subseteq allocated)'
      BY <2>1, <2>2, <3>1, <3>3, <3>4, <3>5 DEF SafeInv, PublishedIntact, Intact
    <3>7. VersionInv(p)' /\ ProgressInv(p)'
      <4>1. stage \in Unproven
        BY DEF Unproven, Ended
      <4>2. published \subseteq published'
        BY <2>2
      <4>3. mode[p] = "rollback" => stage \in Ended
        BY DEF Ended
      <4> HIDE DEF stage
      <4>4. mode[p] = "publish" => stage = "finalize"
        BY DEF stage
      <4> QED
        BY <2>1, <3>2, <3>5, <4>1, <4>2, <4>3, <4>4, NoProgress
           DEF VersionInv, Publishing, Working, Active
    <3>8. ASSUME NEW q \in Procs \ {p} PROVE VersionInv(q)' /\ ProgressInv(q)'
      <4>1. /\ pc'[q] = pc[q] /\ mode'[q] = mode[q] /\ version'[q] = version[q]
            /\ previous'[q] = previous[q] /\ todo'[q] = todo[q] /\ busy'[q] = busy[q]
            /\ failed'[q] = failed[q] /\ VersionInv(q) /\ ProgressInv(q)
        BY <3>2 DEF Others, SafeInv
      <4>2. ProgressInv(q)'
        BY <2>1, <4>1 DEF ProgressInv, Uploaded, Intact
      <4>3. published \subseteq published' /\ published' \subseteq published \cup {version[p]}
        BY <2>2
      <4>4. Publishing(q) /\ version[q] \in published' => version[q] \in published
        <5>1. CASE mode[p] = "rollback"
          BY <3>4, <4>3, <5>1
        <5>2. CASE mode[p] = "publish"
          BY <2>1, <4>3, <5>2 DEF SafeInv, Distinct, Publishing
        <5> QED
          BY <2>1, <5>1, <5>2
      <4> QED
        BY <2>1, <4>1, <4>2, <4>3, <4>4 DEF VersionInv, Publishing, Working, Active
    <3>9. Publishing(p)' => Publishing(p)
      BY <2>1, <3>2 DEF Publishing
    <3>10. Distinct'
      BY <3>2, <3>9 DEF SafeInv, Distinct, Others, Publishing, Working, Active
    <3> QED
      BY <3>6, <3>7, <3>8, <3>10 DEF SafeInv
  <2> QED
    BY <2>3, <2>4
<1>19. ASSUME NEW p \in Procs, Finalize(p) PROVE SafeInv'
  <2>1. UNCHANGED <<tree, pointer, published, allocated>>
    BY <1>19 DEF Finalize, bucket
  <2>2. PICK stage \in {"unfinalized", "published"} : Continue(p, stage, {})
    BY <1>19 DEF Finalize
  <2>3. stage \in Ended
    BY DEF Ended
  <2>4. Others(p) /\ UNCHANGED <<version, previous, mode>> /\ pc'[p] = stage
    BY <1>t, <2>2, <2>3, ContinueEffect
  <2>5. VersionInv(p)' /\ ProgressInv(p)' /\ ~Publishing(p)'
    BY <2>1, <2>3, <2>4, NoProgress DEF SafeInv, VersionInv, Publishing, Working, Active, Unproven
  <2> QED
    BY <2>1, <2>4, <2>5, SafeFrame DEF TreeStep
<1>20. ASSUME NEW p \in Procs, DeleteDraft(p) \/ ForgetIndex(p) PROVE SafeInv'
  <2>1. UNCHANGED <<tree, pointer, published, allocated, job, failed>>
        /\ Working(p)
    BY <1>20, <1>w DEF DeleteDraft, ForgetIndex, bucket, Stages
  <2>2. PICK stage \in {"list_tree", "uncleaned"} : Enter(p, stage, {})
    BY <1>20 DEF DeleteDraft, ForgetIndex
  <2>3. Others(p) /\ pc'[p] = stage /\ UNCHANGED <<mode, version, previous>>
    BY <1>t, <2>1, <2>2, EnterEffect DEF Others, job, Ended, Stages
  <2>4. pc[p] # "finalize" /\ VersionInv(p)
    BY <1>20 DEF DeleteDraft, ForgetIndex, SafeInv
  <2>5. VersionInv(p)' /\ ProgressInv(p)' /\ (Publishing(p)' => Publishing(p))
    BY <2>1, <2>3, <2>4, NoProgress DEF VersionInv, Publishing, Unproven, Ended, CleanupStages
  <2> QED
    BY <2>1, <2>3, <2>5, SafeFrame DEF TreeStep
<1>d. ASSUME NEW p \in Procs, pc[p] \in {"list_tree", "delete_tree"}, TreeStep(p),
             UNCHANGED <<job, failed, pointer, published, allocated>>,
             NEW stage \in Ended \cup CleanupStages \cup {"restore_read"}, NEW items \in SUBSET Paths,
             Enter(p, stage, items)
      PROVE  SafeInv'
  <2>1. Working(p) /\ pc[p] # "finalize" /\ VersionInv(p)
    BY <1>d, <1>w DEF Stages, SafeInv
  <2>2. stage \in Ended \cup Stages /\ stage \in Unproven
    BY DEF CleanupStages, Stages, Ended, Unproven, RestoreStages
  <2>3. Others(p) /\ pc'[p] = stage /\ UNCHANGED <<mode, version, previous>>
    BY <1>d, <1>t, <2>2, EnterEffect DEF Others, job
  <2>4. VersionInv(p)' /\ ProgressInv(p)' /\ (Publishing(p)' => Publishing(p))
    BY <1>d, <2>1, <2>2, <2>3, NoProgress DEF VersionInv, Publishing
  <2> QED
    BY <1>d, <2>3, <2>4, SafeFrame
<1>a. ASSUME NEW p \in Procs, NEW raised \in BOOLEAN, AfterDelete(p, raised)
      PROVE  /\ failed' = failed
             /\ \E stage \in Ended \cup CleanupStages \cup {"restore_read"}, items \in SUBSET Paths :
                  Enter(p, stage, items)
  <2>1. previous[p] # None => Artifacts[previous[p]] \in SUBSET Paths
    BY <1>t, ArtifactPaths DEF JobType
  <2>2. CASE ~touched[p]
    <3>1. PICK stage \in {"uncleaned", "cleaned"} : Enter(p, stage, {})
      BY <1>a, <2>2 DEF AfterDelete
    <3> QED
      BY <1>a, <3>1 DEF AfterDelete, Ended
  <2>3. CASE touched[p]
    BY <1>a, <2>1, <2>3 DEF AfterDelete, CleanupStages
  <2> QED
    BY <2>2, <2>3
<1>21. ASSUME NEW p \in Procs, ListTree(p) PROVE SafeInv'
  <2> DEFINE keys == {k \in Paths : tree[version[p]][k] # None}
  <2>1. pc[p] = "list_tree" /\ UNCHANGED <<tree, pointer, published, allocated, job>>
    BY <1>21 DEF ListTree, bucket
  <2>2. \/ AfterDelete(p, FALSE) \/ AfterDelete(p, TRUE)
        \/ (Enter(p, "delete_tree", keys) /\ UNCHANGED flags)
    BY <1>21 DEF ListTree
  <2>3. /\ failed' = failed
        /\ \E stage \in Ended \cup CleanupStages \cup {"restore_read"}, items \in SUBSET Paths :
             Enter(p, stage, items)
    <3>1. CASE AfterDelete(p, FALSE) \/ AfterDelete(p, TRUE)
      BY <1>a, <3>1
    <3>2. CASE Enter(p, "delete_tree", keys) /\ UNCHANGED flags
      BY <3>2 DEF flags, CleanupStages
    <3> QED
      BY <2>2, <3>1, <3>2
  <2> QED
    BY <1>d, <2>1, <2>3 DEF TreeStep
<1>22. ASSUME NEW p \in Procs, NEW k \in Paths, DeleteTreeObject(p, k) PROVE SafeInv'
  <2>1. pc[p] = "delete_tree" /\ UNCHANGED <<pointer, published, allocated, job>>
    BY <1>22 DEF DeleteTreeObject
  <2>2. PICK after \in Contents, raised \in BOOLEAN :
          /\ tree' = [tree EXCEPT ![version[p]][k] = after]
          /\ IF raised \/ todo[p] = {k} THEN AfterDelete(p, raised)
             ELSE Enter(p, "delete_tree", todo[p] \ {k}) /\ UNCHANGED flags
    BY <1>22 DEF DeleteTreeObject
  <2>3. Publishing(p) /\ TreeStep(p)
    BY <1>w, <2>1, <2>2 DEF Publishing, TypeInv, StageInv, CleanupStages, TreeStep, Stages
  <2>4. todo[p] \ {k} \in SUBSET Paths
    BY <1>t DEF JobType
  <2>5. /\ failed' = failed
        /\ \E stage \in Ended \cup CleanupStages \cup {"restore_read"}, items \in SUBSET Paths :
             Enter(p, stage, items)
    <3>1. CASE AfterDelete(p, raised)
      BY <1>a, <3>1
    <3>2. CASE Enter(p, "delete_tree", todo[p] \ {k}) /\ UNCHANGED flags
      BY <2>4, <3>2 DEF flags, CleanupStages
    <3> QED
      BY <2>2, <3>1, <3>2
  <2> QED
    BY <1>d, <2>1, <2>3, <2>5
<1>23. ASSUME NEW p \in Procs, NEW k \in Paths,
              ReadRestoreSource(p, k) \/ PutRestored(p, k) \/ VerifyRestored(p, k)
       PROVE  SafeInv'
  <2>1. pc[p] \in RestoreStages /\ pc[p] \in Stages \ {"building", "finalize"}
        /\ UNCHANGED <<tree, pointer, published, allocated>>
    BY <1>23 DEF ReadRestoreSource, PutRestored, VerifyRestored, RestoreStages, Stages, bucket
  <2>2. Source(p) \in Versions
    BY <1>w, <1>t, <2>1 DEF Source, TypeInv, StageInv, JobType
  <2>3. Artifacts[Source(p)] \in SUBSET Paths /\ todo[p] \in SUBSET Paths /\ todo[p] \ {k} \in SUBSET Paths
    BY <1>t, <2>2, ArtifactPaths DEF JobType
  <2>4. \/ Raise(p)
        \/ \E stage \in RestoreStages \cup {"index"}, items \in SUBSET Paths : Continue(p, stage, items)
        \/ Enter(p, "restore_put", todo[p] \ {k}) /\ UNCHANGED job
            /\ \E b \in BOOLEAN : failed' = Set(failed, p, b)
    <3>1. CASE ReadRestoreSource(p, k)
      BY <2>3, <3>1 DEF ReadRestoreSource, Advance, Continue, RestoreStages
    <3>2. ASSUME NEW ok \in BOOLEAN, Restored(p, k, ok)
          PROVE  \/ Raise(p) \/ Continue(p, "index", {})
                 \/ Enter(p, "restore_put", todo[p] \ {k}) /\ UNCHANGED job
                     /\ \E b \in BOOLEAN : failed' = Set(failed, p, b)
      BY <3>2 DEF Restored, RaiseOr
    <3>3. CASE PutRestored(p, k)
      BY <2>3, <3>2, <3>3 DEF PutRestored, RestoreStages
    <3>4. CASE VerifyRestored(p, k)
      BY <2>3, <3>2, <3>4 DEF VerifyRestored, RestoreStages
    <3> QED
      BY <1>23, <3>1, <3>3, <3>4
  <2>5. CASE Raise(p)
    BY <1>x, <2>1, <2>5
  <2>6. CASE \E stage \in RestoreStages \cup {"index"}, items \in SUBSET Paths : Continue(p, stage, items)
    BY <1>c, <2>1, <2>6 DEF Unproven, RestoreStages, IndexStages, Stages
  <2>7. CASE Enter(p, "restore_put", todo[p] \ {k}) /\ UNCHANGED job
             /\ \E b \in BOOLEAN : failed' = Set(failed, p, b)
    <3>1. Others(p) /\ pc'[p] = "restore_put" /\ UNCHANGED <<mode, version, previous>>
      <4>1. UNCHANGED <<mode, version, previous>>
        BY <2>7 DEF job
      <4>2. \A q \in Procs \ {p} : failed'[q] = failed[q]
        BY <1>t, <2>7 DEF Set, JobType
      <4>3. /\ pc'[p] = "restore_put"
            /\ \A q \in Procs \ {p} : pc'[q] = pc[q] /\ todo'[q] = todo[q] /\ busy'[q] = busy[q]
        BY <1>t, <2>3, <2>7, EnterEffect DEF Stages
      <4> QED
        BY <4>1, <4>2, <4>3 DEF Others
    <3>2. Working(p) /\ pc[p] # "finalize" /\ VersionInv(p)
      BY <1>w, <2>1 DEF SafeInv
    <3>3. VersionInv(p)' /\ ProgressInv(p)' /\ (Publishing(p)' => Publishing(p))
      BY <2>1, <3>1, <3>2, NoProgress DEF VersionInv, Publishing, Unproven, RestoreStages
    <3> QED
      BY <2>1, <3>1, <3>3, SafeFrame DEF TreeStep
  <2> QED
    BY <2>4, <2>5, <2>6, <2>7
<1> QED
  BY <1>0, <1>1, <1>2, <1>3, <1>4, <1>5, <1>6, <1>7, <1>8, <1>9, <1>10, <1>11, <1>12, <1>13, <1>14,
     <1>15, <1>16, <1>17, <1>18, <1>19, <1>20, <1>21, <1>22, <1>23
     DEF Next, Step, Publish, Cleanup, Shared

\* Published versions stay complete and correct under releases/, for all versions,
\* artifacts, numbers of concurrent publications and rollbacks, and faults but an
\* ambiguous PUT of the pointer.
THEOREM PublishedStaysIntact ==
  ASSUME PointerAssumption
  PROVE  Spec => []PublishedIntact
<1>1. Init => TypeInv /\ SafeInv
  BY TypeInit, SafeInit
<1>2. TypeInv /\ SafeInv /\ [Next]_vars => (TypeInv /\ SafeInv)'
  BY TypeNext, SafeNext
<1>3. SafeInv => PublishedIntact
  BY DEF SafeInv
<1> QED
  BY <1>1, <1>2, <1>3, PTL DEF Spec

\* latest/ is written by _copy_specs_to_latest and _copy_prefix_to_latest only.
LEMMA LatestWriters ==
  ASSUME [Next]_vars
  PROVE  \/ latest' = latest
         \/ \E p \in Procs, k \in Paths : CopyToLatest(p, k) \/ PutRestored(p, k)
<1>1. CASE UNCHANGED vars
  BY <1>1 DEF vars, bucket
<1>2. ASSUME NEW p \in Publishers, ReadLiveManifest(p) \/ Republish(p) PROVE latest' = latest
  BY <1>2 DEF ReadLiveManifest, Republish, bucket
<1>3. ASSUME NEW p \in Operators, StartRollback(p) PROVE latest' = latest
  BY <1>3 DEF StartRollback, bucket
<1>4. ASSUME NEW p \in Procs, Publish(p)
      PROVE  latest' = latest \/ \E k \in Paths : CopyToLatest(p, k)
  <2>1. CASE NoRelease(p) \/ BuildRelease(p) \/ CreateDraft(p) \/ JoinTree(p) \/ JoinLatest(p)
             \/ VerifyReleaseManifest(p) \/ Finalize(p)
    BY <2>1 DEF NoRelease, BuildRelease, CreateDraft, JoinTree, JoinLatest,
                VerifyReleaseManifest, Finalize, bucket
  <2>2. CASE PutReleaseManifest(p)
    BY <2>2 DEF PutReleaseManifest
  <2>3. ASSUME NEW k \in Paths, UploadAsset(p, k) \/ PutTreeObject(p, k) \/ VerifyTreeObject(p, k)
        PROVE  latest' = latest
    BY <2>3 DEF UploadAsset, PutTreeObject, VerifyTreeObject, bucket
  <2> QED
    BY <1>4, <2>1, <2>2, <2>3 DEF Publish
<1>5. ASSUME NEW p \in Procs, Cleanup(p) PROVE latest' = latest
  BY <1>5 DEF Cleanup, DeleteDraft, ListTree, ForgetIndex, DeleteTreeObject, bucket
<1>6. ASSUME NEW p \in Procs, Shared(p)
      PROVE  latest' = latest \/ \E k \in Paths : PutRestored(p, k)
  <2>1. ASSUME NEW k \in Paths, ReadRestoreSource(p, k) \/ VerifyRestored(p, k)
        PROVE  latest' = latest
    BY <2>1 DEF ReadRestoreSource, VerifyRestored, bucket
  <2>2. CASE ReadIndex(p) \/ DeleteRootIndex(p) \/ PutRootIndex(p) \/ VerifyRootIndex(p)
    BY <2>2 DEF ReadIndex, DeleteRootIndex, PutRootIndex, VerifyRootIndex, bucket
  <2>3. CASE PutSums(p) \/ PutPointer(p)
    BY <2>3 DEF PutSums, PutPointer
  <2> QED
    BY <1>6, <2>1, <2>2, <2>3 DEF Shared
<1>7. ASSUME NEW p \in Procs, Crash(p) PROVE latest' = latest
  BY <1>7 DEF Crash, bucket
<1> QED
  BY <1>1, <1>2, <1>3, <1>4, <1>5, <1>6, <1>7 DEF Next, Step

\* The version a command copies to latest/ from is complete under releases/: publish has
\* verified it, and a rollback and a cleanup take one that has been published.
LEMMA SourceIntact ==
  ASSUME TypeInv, SafeInv, NEW p \in Procs, pc[p] \in {"latest", "restore_put"}
  PROVE  Source(p) \in Versions => Intact(Source(p))
<1>1. JobType /\ StoreType /\ StageInv(p) /\ VersionInv(p) /\ ProgressInv(p)
  BY DEF TypeInv, TypeOK, SafeInv
<1>2. CASE pc[p] = "latest"
  BY <1>1, <1>2 DEF StageInv, PublishStages, ProgressInv, Source
<1>3. CASE pc[p] = "restore_put" /\ mode[p] = "cleanup"
  BY <1>1, <1>3, ValuesAssumption DEF VersionInv, Source, SafeInv, PublishedIntact
<1>4. CASE pc[p] = "restore_put" /\ mode[p] = "rollback"
  BY <1>1, <1>4 DEF VersionInv, Source, SafeInv, PublishedIntact, Working, Active, Ended
<1>5. mode[p] \in {"publish", "cleanup", "rollback"}
  BY <1>1 DEF JobType
<1> QED
  BY <1>1, <1>2, <1>3, <1>4, <1>5 DEF StageInv, RestoreStages

\* One step gives latest/<k> bytes of a version only if that version's tree is complete.
LEMMA LatestStep ==
  ASSUME TypeInv, SafeInv, [Next]_vars, NEW k \in Paths,
         latest'[k] # latest[k], latest'[k] \in Versions
  PROVE  Intact(latest'[k])
<1>1. StoreType
  BY DEF TypeInv, TypeOK
<1>2. PICK p \in Procs, j \in Paths : CopyToLatest(p, j) \/ PutRestored(p, j)
  BY LatestWriters
<1>3. PICK after \in Contents : /\ latest' = Set(latest, j, after)
                                /\ after \in {latest[j], Source(p), Corrupt}
  <2>1. CASE CopyToLatest(p, j)
    <3>1. Source(p) = version[p]
      BY <2>1 DEF CopyToLatest, Source, TypeInv, StageInv, PublishStages
    <3> QED
      BY <2>1, <3>1 DEF CopyToLatest, Put, Call
  <2>2. CASE PutRestored(p, j)
    BY <2>2 DEF PutRestored, Put, Call
  <2> QED
    BY <1>2, <2>1, <2>2
<1>4. k = j /\ latest'[k] = after
  BY <1>1, <1>3 DEF Set, StoreType
<1>5. after = Source(p)
  BY <1>3, <1>4, ValuesAssumption
<1>6. pc[p] \in {"latest", "restore_put"}
  BY <1>2 DEF CopyToLatest, PutRestored
<1> QED
  BY <1>4, <1>5, <1>6, SourceIntact

\* latest/ is only ever given bytes of a version whose whole tree is in place, for all
\* versions, artifacts, fault bounds and numbers of commands.
THEOREM LatestIsFromIntact ==
  ASSUME PointerAssumption
  PROVE  Spec => LatestFromIntact
<1>1. Init => TypeInv /\ SafeInv
  BY TypeInit, SafeInit
<1>2. TypeInv /\ SafeInv /\ [Next]_vars => (TypeInv /\ SafeInv)'
  BY TypeNext, SafeNext
<1>3. TypeInv /\ SafeInv /\ [Next]_vars
      => [\A k \in Paths : latest'[k] # latest[k] /\ latest'[k] \in Versions
                             => Intact(latest'[k])]_vars
  BY LatestStep
<1> QED
  BY <1>1, <1>2, <1>3, PTL DEF Spec, LatestFromIntact

\* The pointer and the history of what it named change with the PUT of _write_manifest only.
LEMMA PointerWriters ==
  ASSUME [Next]_vars
  PROVE  \/ UNCHANGED <<pointer, published>>
         \/ \E p \in Procs : PutPointer(p)
<1>1. CASE UNCHANGED vars
  BY <1>1 DEF vars, bucket
<1>2. ASSUME NEW p \in Publishers, ReadLiveManifest(p) \/ Republish(p)
      PROVE  UNCHANGED <<pointer, published>>
  BY <1>2 DEF ReadLiveManifest, Republish, bucket
<1>3. ASSUME NEW p \in Operators, StartRollback(p) PROVE UNCHANGED <<pointer, published>>
  BY <1>3 DEF StartRollback, bucket
<1>4. ASSUME NEW p \in Procs, Publish(p) PROVE UNCHANGED <<pointer, published>>
  <2>1. CASE NoRelease(p) \/ BuildRelease(p) \/ CreateDraft(p) \/ JoinTree(p) \/ JoinLatest(p)
             \/ VerifyReleaseManifest(p) \/ Finalize(p)
    BY <2>1 DEF NoRelease, BuildRelease, CreateDraft, JoinTree, JoinLatest,
                VerifyReleaseManifest, Finalize, bucket
  <2>2. CASE PutReleaseManifest(p)
    BY <2>2 DEF PutReleaseManifest
  <2>3. ASSUME NEW k \in Paths, \/ UploadAsset(p, k) \/ PutTreeObject(p, k)
                                \/ VerifyTreeObject(p, k) \/ CopyToLatest(p, k)
        PROVE  UNCHANGED <<pointer, published>>
    BY <2>3 DEF UploadAsset, PutTreeObject, VerifyTreeObject, CopyToLatest, bucket
  <2> QED
    BY <1>4, <2>1, <2>2, <2>3 DEF Publish
<1>5. ASSUME NEW p \in Procs, Cleanup(p) PROVE UNCHANGED <<pointer, published>>
  BY <1>5 DEF Cleanup, DeleteDraft, ListTree, ForgetIndex, DeleteTreeObject, bucket
<1>6. ASSUME NEW p \in Procs, Shared(p)
      PROVE  UNCHANGED <<pointer, published>> \/ PutPointer(p)
  <2>1. ASSUME NEW k \in Paths, ReadRestoreSource(p, k) \/ PutRestored(p, k) \/ VerifyRestored(p, k)
        PROVE  UNCHANGED <<pointer, published>>
    BY <2>1 DEF ReadRestoreSource, PutRestored, VerifyRestored, bucket
  <2>2. CASE \/ ReadIndex(p) \/ DeleteRootIndex(p) \/ PutRootIndex(p) \/ VerifyRootIndex(p)
             \/ PutSums(p)
    BY <2>2 DEF ReadIndex, DeleteRootIndex, PutRootIndex, VerifyRootIndex, PutSums, bucket
  <2> QED
    BY <1>6, <2>1, <2>2 DEF Shared
<1>7. ASSUME NEW p \in Procs, Crash(p) PROVE UNCHANGED <<pointer, published>>
  BY <1>7 DEF Crash, bucket
<1> QED
  BY <1>1, <1>2, <1>3, <1>4, <1>5, <1>6, <1>7 DEF Next, Step

\* The versions ReleasePointer calls available.
Available == {v \in published : Intact(v)}

\* A PUT of the pointer publishes a version that is new to it, or goes back to one.
LEMMA PointerStep ==
  ASSUME PointerAssumption, "pointer_corrupt" \notin FaultKinds,
         TypeInv, SafeInv, SafeInv', [Next]_vars
  PROVE  Pointer!Next \/ UNCHANGED <<pointer, Available>>
<1>1. Available = published /\ Available' = published'
  BY DEF Available, SafeInv, PublishedIntact
<1>2. CASE UNCHANGED <<pointer, published>>
  BY <1>1, <1>2
<1>3. ASSUME NEW p \in Procs, PutPointer(p)
      PROVE  Pointer!Next \/ UNCHANGED <<pointer, Available>>
  <2>1. PICK after \in Contents, raised \in BOOLEAN :
          /\ PutRootManifest(p, after, raised)
          /\ pointer' = after
          /\ published' = IF after = version[p] THEN published \cup {after} ELSE published
    BY <1>3 DEF PutPointer
  <2>2. pc[p] = "pointer" /\ version[p] \in Versions /\ JobType
    BY <1>3 DEF PutPointer, TypeInv, TypeOK, Bound, Working, Active, Ended
  <2>3. after = version[p] \/ after = pointer
    BY <2>1 DEF PutRootManifest, Fault
  <2>4. CASE after = version[p] /\ version[p] \in published
    BY <1>1, <2>1, <2>2, <2>4 DEF Pointer!Next, Pointer!Rollback, Available
  <2>5. CASE after = version[p] /\ version[p] \notin published
    BY <1>1, <2>1, <2>2, <2>5 DEF Pointer!Next, Pointer!Publish, Available
  <2>6. CASE after = pointer /\ after # version[p]
    BY <1>1, <2>1, <2>6
  <2> QED
    BY <2>3, <2>4, <2>5, <2>6
<1> QED
  BY <1>2, <1>3, PointerWriters

\* Publication implements ReleasePointer: a client that follows the pointer finds a complete
\* release, and one it could find stays, whatever runs, fails or dies.
THEOREM PublicationImplementsPointer ==
  ASSUME PointerAssumption, "pointer_corrupt" \notin FaultKinds
  PROVE  Spec => ImplementsPointer
<1>1. Init => TypeInv /\ SafeInv
  BY TypeInit, SafeInit
<1>2. TypeInv /\ SafeInv /\ [Next]_vars => (TypeInv /\ SafeInv)'
  BY TypeNext, SafeNext
<1>3. Init => Pointer!Init
  BY DEF Init, Pointer!Init
<1>4. TypeInv /\ SafeInv /\ SafeInv' /\ [Next]_vars
      => [Pointer!Next]_<<pointer, {v \in published : Intact(v)}>>
  BY PointerStep DEF Available
<1> QED
  BY <1>1, <1>2, <1>3, <1>4, PTL DEF Spec, ImplementsPointer, Pointer!Spec

----------------------------------------------------------------------------
\* The stages a publication is in after it has uploaded its assets.
UploadedStages == {"tree", "manifest_put", "manifest_get", "latest", "finalize"}
                    \cup IndexStages \cup RootStages

\* The calls a cleanup makes after it has deleted its draft, and after it has deleted its tree.
AfterTree  == RestoreStages \cup IndexStages \cup {"cleaned"}
AfterDraft == {"list_tree", "delete_tree"} \cup AfterTree

\* A cleanup without a problem so far.
Clean(p, stages) == mode[p] = "cleanup" /\ ~problem[p] /\ pc[p] \in stages

PointerIsSound == "pointer_corrupt" \notin FaultKinds

\* The version is the command's own: it was built for its publication.
Owner(p) == mode[p] # "rollback" /\ version[p] # None

\* What a publication knows of the GitHub releases of its version: there is none before it
\* creates its draft, none is public before it finalizes it, the one there may be has the
\* assets uploaded so far, and none is left when the cleanup has deleted it.
HeldInv(p) ==
  /\ pc[p] = "draft" => github[version[p]] = {}
  /\ Working(p) => \A r \in github[version[p]] : ~r.public
  /\ pc[p] = "assets" => /\ todo[p] \subseteq Artifacts[version[p]]
                         /\ \A r \in github[version[p]] :
                              Artifacts[version[p]] \ todo[p] \subseteq r.assets
  /\ pc[p] \in UploadedStages /\ mode[p] = "publish"
     => \A r \in github[version[p]] : Artifacts[version[p]] \subseteq r.assets
  /\ Clean(p, AfterDraft) /\ drafted[p] => github[version[p]] = {}

ReleaseInv(p) ==
  /\ Working(p) => version[p] \in allocated
  /\ pc[p] = "finalize" /\ PointerIsSound => version[p] \in published
  /\ Owner(p) => version[p] \in allocated /\ HeldInv(p)

\* There is at most one GitHub release of a tag, and a public one is complete and was live.
TagInv(v) ==
  /\ github[v] # {} => v \in allocated
  /\ \A r, s \in github[v] : r = s
  /\ \A r \in github[v] :
       /\ r.assets \subseteq Artifacts[v]
       /\ r.public => r.assets = Artifacts[v] /\ (PointerIsSound => v \in published)

GithubInv ==
  /\ published \subseteq allocated
  /\ \A v \in Versions : TagInv(v)
  /\ \A p \in Procs : ReleaseInv(p)
  /\ \A p, q \in Procs : p # q /\ Owner(p) /\ Owner(q) => version[p] # version[q]

\* The invariant after a step of one command that changes no other GitHub release than
\* those of its own version.
LEMMA GithubFrame ==
  ASSUME TypeInv, GithubInv, NEW p \in Procs, Others(p),
         \A q \in Procs \ {p} : drafted'[q] = drafted[q] /\ problem'[q] = problem[q],
         allocated \subseteq allocated', published \subseteq published', published' \subseteq allocated',
         \A w \in Versions : github'[w] = github[w] \/ (w = version[p] /\ Owner(p) /\ TagInv(w)'),
         ReleaseInv(p)',
         Owner(p)' => (Owner(p) /\ version'[p] = version[p]) \/ version'[p] \notin allocated
  PROVE  GithubInv'
<1>1. ASSUME NEW w \in Versions PROVE TagInv(w)'
  <2>1. CASE github'[w] = github[w]
    BY <2>1 DEF GithubInv, TagInv
  <2> QED
    BY <2>1
<1>2. ASSUME NEW q \in Procs \ {p}
      PROVE  /\ pc'[q] = pc[q] /\ mode'[q] = mode[q] /\ version'[q] = version[q]
             /\ todo'[q] = todo[q] /\ drafted'[q] = drafted[q] /\ problem'[q] = problem[q]
             /\ (Owner(q)' <=> Owner(q)) /\ (Working(q)' <=> Working(q))
             /\ (Clean(q, AfterDraft)' <=> Clean(q, AfterDraft))
             /\ (Owner(q) => version[q] \in Versions /\ version[q] \in allocated)
  <2>1. ReleaseInv(q) /\ version[q] \in Versions \cup {None}
    BY DEF GithubInv, TypeInv, TypeOK, JobType
  <2> QED
    BY <1>2, <2>1 DEF Others, Owner, Working, Active, Clean, ReleaseInv
<1>3. ASSUME NEW q \in Procs \ {p} PROVE ReleaseInv(q)'
  <2>1. ReleaseInv(q)
    BY DEF GithubInv
  <2>2. Owner(q) => github'[version[q]] = github[version[q]]
    <3>1. Owner(q) /\ Owner(p) => version[q] # version[p]
      BY DEF GithubInv
    <3> QED
      BY <1>2, <3>1
  <2>3. Owner(q) => HeldInv(q)'
    BY <1>2, <2>1, <2>2 DEF ReleaseInv, HeldInv
  <2> QED
    BY <1>2, <2>1, <2>3 DEF ReleaseInv
<1>4. ASSUME NEW q \in Procs, NEW r \in Procs, q # r, Owner(q)', Owner(r)'
      PROVE  version'[q] # version'[r]
  <2>1. CASE q # p /\ r # p
    BY <1>2, <1>4, <2>1 DEF GithubInv
  <2>2. ASSUME NEW o \in Procs \ {p}, Owner(o)', Owner(p)' PROVE version'[o] # version'[p]
    <3>1. Owner(o) /\ version'[o] = version[o] /\ version[o] \in allocated
      BY <1>2, <2>2
    <3>2. Owner(p) => version[o] # version[p]
      BY <3>1 DEF GithubInv
    <3> QED
      BY <2>2, <3>1, <3>2
  <2> QED
    BY <1>4, <2>1, <2>2
<1> QED
  BY <1>1, <1>3, <1>4 DEF GithubInv

\* The same when the command works on as before and leaves GitHub alone.
LEMMA GithubStays ==
  ASSUME TypeInv, GithubInv, NEW p \in Procs, Others(p), Working(p),
         UNCHANGED <<gh, drafted, allocated>>, \A q \in Procs \ {p} : problem'[q] = problem[q],
         published \subseteq published', published' \subseteq allocated',
         version'[p] = version[p], mode'[p] = "rollback" <=> mode[p] = "rollback",
         pc'[p] \notin {"draft", "assets"},
         pc'[p] \in UploadedStages /\ mode'[p] = "publish"
           => pc[p] \in UploadedStages /\ mode[p] = "publish",
         Clean(p, AfterDraft)' /\ drafted[p] => Clean(p, AfterDraft),
         pc'[p] = "finalize" /\ PointerIsSound => version[p] \in published'
  PROVE  GithubInv'
<1>1. github' = github
  BY DEF gh
<1>2. ReleaseInv(p) /\ (Owner(p)' <=> Owner(p))
  BY DEF GithubInv, Owner
<1>3. Owner(p) => HeldInv(p)'
  BY <1>1, <1>2 DEF ReleaseInv, HeldInv
<1>4. ReleaseInv(p)'
  BY <1>2, <1>3 DEF ReleaseInv
<1> QED
  BY <1>1, <1>2, <1>4, GithubFrame

\* An exception: only a publication that has not created its draft goes on to its tree.
LEMMA RaiseToTree ==
  ASSUME JobType, NEW p \in Procs, Raise(p), mode[p] = "publish"
  PROVE  drafted' = drafted /\ (pc'[p] = "list_tree" => ~drafted[p])
<1>1. drafted' = drafted
  BY DEF Raise
<1>2. drafted[p] => pc'[p] = "delete_draft"
  <2>1. drafted[p] => Enter(p, "delete_draft", {})
    BY DEF Raise
  <2>2. "delete_draft" \in Ended \cup Stages
    BY DEF Stages
  <2> QED
    BY <2>1, <2>2, EnterEffect
<1> QED
  BY <1>1, <1>2

LEMMA GithubRaise ==
  ASSUME TypeInv, GithubInv, NEW p \in Procs, Working(p), Raise(p), UNCHANGED <<gh, allocated>>,
         published \subseteq published', published' \subseteq allocated'
  PROVE  GithubInv'
<1>1. JobType /\ mode[p] \in {"publish", "cleanup", "rollback"}
  BY DEF TypeInv, TypeOK, JobType
<1>2. /\ Others(p) /\ version' = version
      /\ mode[p] = "publish"  => mode'[p] = "cleanup" /\ pc'[p] \in {"delete_draft", "list_tree"}
      /\ mode[p] = "cleanup"  => mode'[p] = "cleanup" /\ pc'[p] = "uncleaned"
      /\ mode[p] = "rollback" => mode'[p] = "rollback" /\ pc'[p] = "rollback_failed"
  BY <1>1, RaiseEffect
<1>3. UNCHANGED drafted /\ \A q \in Procs \ {p} : problem'[q] = problem[q]
  BY <1>1 DEF Raise, Set, JobType
<1>4. Clean(p, AfterDraft)' => ~drafted[p]
  BY <1>1, <1>2, RaiseToTree DEF Clean, AfterDraft, AfterTree, RestoreStages, IndexStages
<1>5. pc'[p] \notin UploadedStages \cup {"draft", "assets", "finalize"}
  BY <1>1, <1>2 DEF UploadedStages, IndexStages, RootStages
<1> QED
  BY <1>1, <1>2, <1>3, <1>4, <1>5, GithubStays

\* On to a next stage.
LEMMA GithubContinue ==
  ASSUME TypeInv, GithubInv, NEW p \in Procs, Working(p),
         NEW stage \in Ended \cup Stages, NEW items \in SUBSET Paths, Continue(p, stage, items),
         UNCHANGED <<gh, allocated>>, published \subseteq published', published' \subseteq allocated',
         stage \notin {"draft", "assets"},
         stage \in UploadedStages /\ mode[p] = "publish" => pc[p] \in UploadedStages,
         stage \in AfterDraft /\ mode[p] = "cleanup" => pc[p] \in AfterDraft,
         stage = "finalize" /\ PointerIsSound => version[p] \in published'
  PROVE  GithubInv'
<1>1. JobType
  BY DEF TypeInv, TypeOK
<1>2. Others(p) /\ version' = version /\ mode' = mode /\ pc'[p] = stage
  BY <1>1, ContinueEffect
<1>3. UNCHANGED <<drafted, problem>>
  BY DEF Continue, flags
<1>4. Clean(p, AfterDraft)' => Clean(p, AfterDraft)
  BY <1>2, <1>3 DEF Clean
<1> QED
  BY <1>2, <1>3, <1>4, GithubStays

\* The invariant holds while there is no release.
LEMMA GithubInit == Init => GithubInv
BY DEF Init, GithubInv, TagInv, ReleaseInv, Owner, Working, Active, Ended

\* With one release of a tag, or none, a gh command leaves it, or it leaves its result, or
\* what it may come to when it fails.
GhResult(v, rest, value, raised) ==
  /\ \A w \in Versions \ {v} : github'[w] = github[w]
  /\ \/ raised /\ github'[v] = github[v]
     \/ raised /\ github'[v] = rest
     \/ github'[v] = value

LEMMA GhOfOne ==
  ASSUME StoreType, NEW v \in Versions, NEW held \in Found(v), held = github[v],
         NEW rest \in SUBSET Releases, NEW value \in SUBSET Releases,
         NEW raised \in BOOLEAN, Gh(v, held, rest, value, raised)
  PROVE  GhResult(v, rest, value, raised)
<1>1. CASE held = {}
  BY <1>1 DEF Gh, GhResult
<1>2. CASE held # {}
  <2>1. (github[v] \ held) \cup rest = rest /\ (github[v] \ held) \cup value = value
    OBVIOUS
  <2>2. PICK after : /\ Call(rest, value, after, raised)
                     /\ github' = Set(github, v, after)
    BY <1>2, <2>1 DEF Gh
  <2>3. github'[v] = after /\ \A w \in Versions \ {v} : github'[w] = github[w]
    BY <2>2 DEF Set, StoreType
  <2> QED
    BY <2>2, <2>3 DEF Call, GhResult
<1> QED
  BY <1>1, <1>2

\* Of a tag with one release gh finds that one.
LEMMA FoundOne ==
  ASSUME NEW v \in Versions, TagInv(v), NEW held \in Found(v)
  PROVE  held = github[v] /\ \A r, s \in held : r = s
BY DEF Found, TagInv

\* Every call of every command keeps what is known of the GitHub releases, unless `publish`
\* is run again on the dist of a published version.
LEMMA GithubNext ==
  ASSUME ~Republishing
  PROVE  TypeInv /\ GithubInv /\ [Next]_vars => GithubInv'
<1> SUFFICES ASSUME TypeInv, GithubInv, [Next]_vars PROVE GithubInv'
  OBVIOUS
<1>t. JobType /\ StoreType
  BY DEF TypeInv, TypeOK
<1>p. published \subseteq allocated
  BY DEF GithubInv
<1>0. CASE UNCHANGED vars
  BY <1>0 DEF vars, bucket, gh, job, work, flags, GithubInv, TagInv, ReleaseInv, HeldInv, Owner,
              Working, Active, Clean
<1>w. ASSUME NEW p \in Procs, pc[p] \in Stages \ {"building"} PROVE Working(p) /\ version[p] \in Versions
  BY <1>w DEF Working, Active, Ended, Stages, TypeInv, Bound
<1>x. ASSUME NEW p \in Procs, pc[p] \in Stages \ {"building"}, Raise(p),
             UNCHANGED <<gh, published, allocated>>
      PROVE  GithubInv'
  BY <1>x, <1>w, <1>p, GithubRaise
<1>c. ASSUME NEW p \in Procs, pc[p] \in Stages \ {"building"},
             NEW stage \in (Ended \cup Stages) \ {"draft", "assets", "finalize"},
             NEW items \in SUBSET Paths, Continue(p, stage, items),
             stage \in UploadedStages /\ mode[p] = "publish" => pc[p] \in UploadedStages,
             stage \in AfterDraft /\ mode[p] = "cleanup" => pc[p] \in AfterDraft,
             UNCHANGED <<gh, published, allocated>>
      PROVE  GithubInv'
  BY <1>c, <1>w, <1>p, GithubContinue
<1>e. ASSUME NEW p \in Procs, NEW stage \in {"idle", "crashed", "building"}, Enter(p, stage, {}),
             UNCHANGED <<gh, mode, version, drafted, failed, problem, published, allocated>>,
             \A q \in Procs \ {p} : previous'[q] = previous[q]
      PROVE  GithubInv'
  <2>1. stage \in Ended \cup Stages
    BY DEF Ended, Stages
  <2>2. Others(p) /\ pc'[p] = stage
    BY <1>e, <1>t, <2>1, EnterEffect DEF Others
  <2>3. ~Working(p)' /\ ~Clean(p, AfterDraft)'
    BY <2>2 DEF Working, Active, Ended, Clean, AfterDraft, AfterTree, RestoreStages, IndexStages
  <2>4. pc'[p] \notin UploadedStages \cup {"draft", "assets", "finalize"}
    BY <2>2 DEF UploadedStages, IndexStages, RootStages
  <2>5. Owner(p)' <=> Owner(p)
    BY <1>e DEF Owner
  <2>6. ReleaseInv(p)'
    BY <1>e, <2>3, <2>4, <2>5 DEF GithubInv, ReleaseInv, HeldInv
  <2>7. github' = github
    BY <1>e DEF gh
  <2> QED
    BY <1>e, <1>p, <2>2, <2>5, <2>6, <2>7, GithubFrame
<1>1. ASSUME NEW p \in Publishers, ReadLiveManifest(p) PROVE GithubInv'
  <2>1. p \in Procs /\ Enter(p, "building", {})
        /\ UNCHANGED <<gh, published, allocated, failed, drafted, problem, mode, version>>
    BY <1>1 DEF ReadLiveManifest, Procs, bucket, flags
  <2>2. \A q \in Procs \ {p} : previous'[q] = previous[q]
    BY <1>1, <1>t, <2>1 DEF ReadLiveManifest, Set, JobType
  <2> QED
    BY <1>e, <2>1, <2>2
<1>3. ASSUME NEW p \in Procs, BuildRelease(p) PROVE GithubInv'
  <2>1. PICK v \in Versions \ allocated : StartPublish(p, v) /\ allocated' = allocated \cup {v}
    BY <1>3 DEF BuildRelease
  <2>2. UNCHANGED <<gh, published, previous>> /\ github' = github
    BY <1>3 DEF BuildRelease, bucket, gh
  <2>3. /\ pc'[p] = "draft"
        /\ \A q \in Procs \ {p} : pc'[q] = pc[q] /\ todo'[q] = todo[q] /\ busy'[q] = busy[q]
    BY <1>t, <2>1, EntryStages, EnterEffect DEF StartPublish
  <2>4. /\ mode'[p] = "publish" /\ version'[p] = v /\ drafted'[p] = FALSE
        /\ \A q \in Procs \ {p} : /\ mode'[q] = mode[q] /\ version'[q] = version[q]
                                  /\ failed'[q] = failed[q] /\ drafted'[q] = drafted[q]
                                  /\ problem'[q] = problem[q]
    BY <1>t, <2>1 DEF StartPublish, Set, JobType
  <2>5. Others(p)
    BY <2>2, <2>3, <2>4 DEF Others
  <2>6. github'[v] = {} /\ v # None
    BY <2>1, <2>2, ValuesAssumption DEF GithubInv, TagInv
  <2>7. ReleaseInv(p)'
    BY <2>1, <2>3, <2>4, <2>6 DEF ReleaseInv, HeldInv
  <2>8. published' \subseteq allocated' /\ allocated \subseteq allocated'
    BY <1>p, <2>1, <2>2
  <2> QED
    BY <2>1, <2>2, <2>4, <2>5, <2>7, <2>8, GithubFrame
<1>4. ASSUME NEW p \in Operators, StartRollback(p) PROVE GithubInv'
  <2>1. PICK v \in published : /\ mode' = Set(mode, p, "rollback") /\ version' = Set(version, p, v)
                              /\ Enter(p, "restore_read", Artifacts[v])
    BY <1>4 DEF StartRollback
  <2>2. p \in Procs /\ "restore_read" \in Stages /\ Artifacts[v] \in SUBSET Paths /\ v \in allocated
        /\ UNCHANGED <<gh, published, allocated, previous>> /\ github' = github
    BY <1>4, <1>t, <1>p, ArtifactPaths DEF StartRollback, bucket, gh, StoreType, Procs, Stages
  <2>3. /\ pc'[p] = "restore_read"
        /\ \A q \in Procs \ {p} : pc'[q] = pc[q] /\ todo'[q] = todo[q] /\ busy'[q] = busy[q]
    BY <1>t, <2>1, <2>2, EnterEffect
  <2>4. /\ mode'[p] = "rollback" /\ version'[p] = v
        /\ \A q \in Procs \ {p} : mode'[q] = mode[q] /\ version'[q] = version[q]
    BY <1>t, <2>1, <2>2 DEF Set, JobType
  <2>5. \A q \in Procs \ {p} : /\ failed'[q] = failed[q] /\ drafted'[q] = drafted[q]
                               /\ problem'[q] = problem[q]
    BY <1>4, <1>t DEF StartRollback, Set, JobType
  <2>6. Others(p) /\ ~Owner(p)'
    BY <2>2, <2>3, <2>4, <2>5 DEF Others, Owner
  <2>7. ReleaseInv(p)'
    BY <2>2, <2>3, <2>4, <2>6 DEF ReleaseInv
  <2> QED
    BY <1>p, <2>2, <2>5, <2>6, <2>7, GithubFrame
<1>5. ASSUME NEW p \in Procs, NoRelease(p) \/ Crash(p) PROVE GithubInv'
  <2>1. PICK stage \in {"idle", "crashed"} : Enter(p, stage, {})
    BY <1>5 DEF NoRelease, Crash
  <2>2. UNCHANGED <<gh, published, allocated, failed, drafted, problem, mode, version, previous>>
    BY <1>5 DEF NoRelease, Crash, bucket, flags, job
  <2> QED
    BY <1>e, <2>1, <2>2
\* What a command working on its own version may do to that version's GitHub release.
<1>g. ASSUME NEW p \in Procs, NEW v \in Versions, v = version[p], Owner(p), Others(p), version' = version,
             \A q \in Procs \ {p} : drafted'[q] = drafted[q] /\ problem'[q] = problem[q],
             UNCHANGED <<published, allocated>>,
             \A w \in Versions \ {v} : github'[w] = github[w],
             TagInv(v)', HeldInv(p)', pc'[p] # "finalize"
      PROVE  GithubInv'
  <2>1. v \in allocated
    BY <1>g DEF GithubInv, ReleaseInv
  <2>2. ReleaseInv(p)'
    BY <1>g, <2>1 DEF ReleaseInv
  <2>3. \A w \in Versions : github'[w] = github[w] \/ (w = version[p] /\ Owner(p) /\ TagInv(w)')
    BY <1>g
  <2> QED
    BY <1>g, <1>p, <2>2, <2>3, GithubFrame
<1>o. ASSUME NEW p \in Procs, pc[p] \in {"draft", "assets", "finalize", "delete_draft"}
      PROVE  /\ Working(p) /\ version[p] \in Versions /\ Artifacts[version[p]] \in SUBSET Paths
             /\ Owner(p) /\ HeldInv(p) /\ TagInv(version[p]) /\ version[p] \in allocated
             /\ github[version[p]] \in SUBSET Releases
             /\ pc[p] # "delete_draft" => mode[p] = "publish"
             /\ pc[p] = "delete_draft" => mode[p] = "cleanup"
  <2>1. Working(p) /\ version[p] \in Versions
    BY <1>o, <1>w DEF Stages
  <2>2. mode[p] = IF pc[p] = "delete_draft" THEN "cleanup" ELSE "publish"
    BY <1>o DEF TypeInv, StageInv, PublishStages, CleanupStages
  <2>3. Owner(p)
    BY <2>1, <2>2, ValuesAssumption DEF Owner
  <2> QED
    BY <1>t, <2>1, <2>2, <2>3, ArtifactPaths DEF GithubInv, ReleaseInv, StoreType
<1>6. ASSUME NEW p \in Procs, CreateDraft(p) PROVE GithubInv'
  <2>0. PICK v \in Versions : v = version[p]
    BY <1>6, <1>o DEF CreateDraft
  <2>1. /\ pc[p] = "draft" /\ v \in Versions /\ Artifacts[v] \in SUBSET Paths /\ v \in allocated
        /\ Owner(p) /\ mode[p] = "publish" /\ github[v] = {}
        /\ UNCHANGED <<published, allocated>>
    BY <2>0, <1>6, <1>o DEF CreateDraft, bucket, HeldInv
  <2>2. PICK i \in FreshIds(v), raised \in BOOLEAN :
          \E after \in {github[v], github[v] \cup {Draft(i)}} :
            /\ github' = Set(github, v, after)
            /\ IF raised THEN Raise(p)
               ELSE /\ drafted' = Set(drafted, p, TRUE)
                    /\ Enter(p, "assets", Artifacts[v])
                    /\ UNCHANGED <<job, failed, touched, problem>>
    BY <2>0, <1>6 DEF CreateDraft
  <2>3. github'[v] \subseteq {Draft(i)} /\ \A w \in Versions \ {v} : github'[w] = github[w]
    BY <2>0, <1>t, <2>1, <2>2 DEF Set, StoreType
  <2>4. TagInv(v)'
    <3>1. Draft(i).assets = {} /\ ~Draft(i).public
      BY DEF Draft
    <3> QED
      BY <2>1, <2>3, <3>1 DEF TagInv
  <2>5. \A r \in github'[v] : ~r.public
    BY <2>3 DEF Draft
  <2>6. CASE raised
    <3>1. /\ Others(p) /\ version' = version /\ mode'[p] = "cleanup"
          /\ pc'[p] \in {"delete_draft", "list_tree"}
      BY <2>0, <1>t, <2>1, <2>2, <2>6, RaiseEffect
    <3>2. drafted' = drafted /\ (pc'[p] = "list_tree" => ~drafted[p])
      BY <2>0, <1>t, <2>1, <2>2, <2>6, RaiseToTree
    <3>3. \A q \in Procs \ {p} : problem'[q] = problem[q]
      BY <2>0, <1>t, <2>2, <2>6 DEF Raise, Set, JobType
    <3>4. HeldInv(p)'
      BY <2>0, <2>5, <3>1, <3>2 DEF HeldInv, Clean, AfterDraft, AfterTree, RestoreStages, UploadedStages,
                              IndexStages, RootStages
    <3> QED
      BY <2>0, <1>g, <2>1, <2>3, <2>4, <3>1, <3>2, <3>3, <3>4
  <2>7. CASE ~raised
    <3>1. Enter(p, "assets", Artifacts[v]) /\ UNCHANGED <<mode, version, previous, failed, problem>>
          /\ drafted' = Set(drafted, p, TRUE)
      BY <2>2, <2>7 DEF job
    <3>2. /\ pc'[p] = "assets" /\ todo'[p] = Artifacts[v]
          /\ \A q \in Procs \ {p} : pc'[q] = pc[q] /\ todo'[q] = todo[q] /\ busy'[q] = busy[q]
      <4>1. "assets" \in Ended \cup Stages
        BY DEF Stages
      <4> QED
        BY <2>0, <1>t, <2>1, <3>1, <4>1, EnterEffect
    <3>3. Others(p) /\ \A q \in Procs \ {p} : drafted'[q] = drafted[q]
      BY <2>0, <1>t, <3>1, <3>2 DEF Others, Set, JobType
    <3>4. HeldInv(p)'
      BY <2>0, <2>5, <3>1, <3>2 DEF HeldInv, Clean, AfterDraft, AfterTree, RestoreStages, UploadedStages,
                              IndexStages, RootStages
    <3> QED
      BY <2>0, <1>g, <2>1, <2>3, <2>4, <3>1, <3>2, <3>3, <3>4
  <2> QED
    BY <2>6, <2>7
<1>7. ASSUME NEW p \in Procs, NEW k \in Paths, UploadAsset(p, k) PROVE GithubInv'
  <2>0. PICK v \in Versions : v = version[p]
    BY <1>7, <1>o DEF UploadAsset
  <2>1. /\ pc[p] = "assets" /\ v \in Versions /\ Artifacts[v] \in SUBSET Paths /\ v \in allocated
        /\ Owner(p) /\ mode[p] = "publish" /\ Working(p) /\ HeldInv(p) /\ TagInv(v)
        /\ github[v] \in SUBSET Releases
        /\ UNCHANGED <<published, allocated>> /\ k \in todo[p] /\ todo[p] \in SUBSET Paths
    BY <2>0, <1>7, <1>o, <1>t DEF UploadAsset, First, bucket, JobType
  <2>2. PICK held \in Found(v), raised \in BOOLEAN :
          /\ \E rest \in {held, WithoutAsset(held, k)} : Gh(v, held, rest, WithAsset(held, k), raised)
          /\ IF raised THEN Raise(p)
             ELSE Advance(p, k, "tree", Artifacts[v]) /\ UNCHANGED <<job, flags>>
    BY <2>0, <1>7 DEF UploadAsset
  <2>a. PICK rest \in {held, WithoutAsset(held, k)} : Gh(v, held, rest, WithAsset(held, k), raised)
    BY <2>2
  <2>3. held = github[v] /\ held \in SUBSET Releases /\ \A r, s \in held : r = s
    BY <2>1, FoundOne
  <2>b. rest = held \/ rest = WithoutAsset(held, k)
    BY <2>a
  <2>4. /\ \A w \in Versions \ {v} : github'[w] = github[w]
        /\ \/ raised /\ github'[v] = github[v]
           \/ raised /\ github'[v] = rest
           \/ github'[v] = WithAsset(held, k)
    <3>1. rest \in SUBSET Releases /\ WithAsset(held, k) \in SUBSET Releases
      BY <2>3, <2>b, ReleaseTypes
    <3>2. GhResult(v, rest, WithAsset(held, k), raised)
      BY <1>t, <2>a, <2>2, <2>3, <3>1, GhOfOne
    <3> QED
      BY <3>2 DEF GhResult
  <2>7. github'[v] = github[v] \/ github'[v] = WithoutAsset(held, k) \/ github'[v] = WithAsset(held, k)
    BY <2>3, <2>4, <2>b
  <2>8. ASSUME NEW r \in github'[v]
        PROVE  \E o \in github[v] : /\ r.public = o.public
                                    /\ r.assets \in {o.assets, o.assets \ {k}, o.assets \cup {k}}
                                    /\ ~raised => r.assets = o.assets \cup {k}
    <3>1. \A o \in held : /\ [o EXCEPT !.assets = o.assets \cup {k}].public = o.public
                          /\ [o EXCEPT !.assets = o.assets \cup {k}].assets = o.assets \cup {k}
                          /\ [o EXCEPT !.assets = o.assets \ {k}].public = o.public
                          /\ [o EXCEPT !.assets = o.assets \ {k}].assets = o.assets \ {k}
      BY <2>1, <2>3 DEF Releases
    <3>2. CASE r \in github[v] /\ raised
      BY <3>2
    <3>3. CASE r \in WithoutAsset(held, k) /\ raised
      BY <2>3, <3>1, <3>3 DEF WithoutAsset
    <3>4. CASE r \in WithAsset(held, k)
      <4>1. PICK o \in held : r = [o EXCEPT !.assets = o.assets \cup {k}]
        BY <3>4 DEF WithAsset
      <4>2. r.public = o.public /\ r.assets = o.assets \cup {k}
        BY <3>1, <4>1
      <4> QED
        BY <2>3, <4>1, <4>2
    <3>5. CASE github'[v] = WithAsset(held, k)
      BY <2>8, <3>4, <3>5
    <3>6. CASE raised /\ (github'[v] = github[v] \/ github'[v] = rest)
      BY <2>3, <2>8, <2>b, <3>2, <3>3, <3>6
    <3> QED
      BY <2>4, <3>5, <3>6
  <2>9. \A r, s \in github'[v] : r = s
    <3>1. \A r, s \in WithAsset(held, k) : r = s
      BY <2>3 DEF WithAsset
    <3>2. \A r, s \in WithoutAsset(held, k) : r = s
      BY <2>3 DEF WithoutAsset
    <3>3. CASE github'[v] = github[v]
      BY <2>3, <3>3
    <3>4. CASE github'[v] = WithoutAsset(held, k)
      BY <3>2, <3>4
    <3>5. CASE github'[v] = WithAsset(held, k)
      BY <3>1, <3>5
    <3> QED
      BY <2>7, <3>3, <3>4, <3>5
  <2>10. todo[p] \subseteq Artifacts[v] /\ \A r \in github[v] : ~r.public /\ Artifacts[v] \ todo[p] \subseteq r.assets
    BY <2>0, <2>1 DEF HeldInv
  <2>11. \A r \in github'[v] : ~r.public /\ r.assets \subseteq Artifacts[v]
    BY <2>1, <2>8, <2>10 DEF TagInv
  <2>12. TagInv(v)'
    BY <2>1, <2>9, <2>11 DEF TagInv
  <2>13. ~raised => \A r \in github'[v] : Artifacts[v] \ (todo[p] \ {k}) \subseteq r.assets
    BY <2>8, <2>10
  <2>14. CASE raised
    <3>1. /\ Others(p) /\ version' = version /\ mode'[p] = "cleanup"
          /\ pc'[p] \in {"delete_draft", "list_tree"}
      BY <2>0, <1>t, <2>1, <2>2, <2>14, RaiseEffect
    <3>2. drafted' = drafted /\ (pc'[p] = "list_tree" => ~drafted[p])
      BY <2>0, <1>t, <2>1, <2>2, <2>14, RaiseToTree
    <3>3. \A q \in Procs \ {p} : problem'[q] = problem[q]
      BY <2>0, <1>t, <2>2, <2>14 DEF Raise, Set, JobType
    <3>4. HeldInv(p)'
      BY <2>0, <2>11, <3>1, <3>2 DEF HeldInv, Clean, AfterDraft, AfterTree, RestoreStages, UploadedStages,
                               IndexStages, RootStages
    <3> QED
      BY <2>0, <1>g, <2>1, <2>4, <2>12, <3>1, <3>2, <3>3, <3>4
  <2>15. CASE ~raised
    <3>1. PICK stage \in {"assets", "tree"}, items \in SUBSET Paths :
            /\ Continue(p, stage, items)
            /\ stage = "assets" => items = todo[p] \ {k}
            /\ stage = "tree" => todo[p] = {k}
      BY <2>1, <2>2, <2>15 DEF Advance, Continue
    <3>2. Others(p) /\ version' = version /\ mode' = mode /\ pc'[p] = stage /\ todo'[p] = items
      BY <2>0, <1>t, <3>1, ContinueEffect DEF Stages
    <3>3. UNCHANGED <<drafted, problem>>
      BY <3>1 DEF Continue, flags
    <3>4. HeldInv(p)'
      <4>1. pc'[p] = "assets" => todo'[p] = todo[p] \ {k}
        BY <3>1, <3>2
      <4>2. pc'[p] = "tree" => todo[p] \ {k} = {}
        BY <3>1, <3>2
      <4>3. ~Clean(p, AfterDraft)' /\ pc'[p] # "draft"
        BY <2>1, <3>2 DEF Clean
      <4>4. pc'[p] \in UploadedStages => pc'[p] = "tree"
        BY <3>2 DEF UploadedStages, IndexStages, RootStages
      <4>5. version'[p] = v
        BY <2>0, <3>2
      <4> QED
        BY <2>10, <2>11, <2>13, <2>15, <4>1, <4>2, <4>3, <4>4, <4>5 DEF HeldInv
    <3> QED
      BY <2>0, <1>g, <2>1, <2>4, <2>12, <3>1, <3>2, <3>3, <3>4
  <2> QED
    BY <2>14, <2>15
<1>k. ASSUME NEW p \in Procs, NEW k \in Paths, NEW ok \in BOOLEAN, Worked(p, k, ok),
             pc[p] \in {"tree", "latest"}, UNCHANGED <<gh, job, published, allocated>>
      PROVE  GithubInv'
  <2>1. Others(p) /\ UNCHANGED <<version, mode, pc>>
    BY <1>k, <1>t, WorkedEffect
  <2>2. Working(p) /\ drafted' = drafted /\ problem' = problem
    BY <1>k, <1>w DEF Stages, Worked
  <2>3. Clean(p, AfterDraft)' => Clean(p, AfterDraft)
    BY <2>1, <2>2 DEF Clean
  <2> QED
    BY <1>k, <1>p, <2>1, <2>2, <2>3, GithubStays
<1>8. ASSUME NEW p \in Procs, NEW k \in Paths,
             PutTreeObject(p, k) \/ VerifyTreeObject(p, k) \/ CopyToLatest(p, k)
      PROVE  GithubInv'
  <2>1. pc[p] \in {"tree", "latest"} /\ UNCHANGED <<gh, job, published, allocated>>
    BY <1>8 DEF PutTreeObject, VerifyTreeObject, CopyToLatest, bucket
  <2>2. \/ \E ok \in BOOLEAN : Worked(p, k, ok)
        \/ /\ todo' = Set(todo, p, todo[p] \ {k}) /\ busy' = Set(busy, p, busy[p] \cup {k})
           /\ UNCHANGED <<pc, flags>>
    BY <1>8 DEF PutTreeObject, VerifyTreeObject, CopyToLatest
  <2>3. CASE \E ok \in BOOLEAN : Worked(p, k, ok)
    BY <1>k, <2>1, <2>3
  <2>4. CASE /\ todo' = Set(todo, p, todo[p] \ {k}) /\ busy' = Set(busy, p, busy[p] \cup {k})
             /\ UNCHANGED <<pc, flags>>
    <3>1. UNCHANGED <<pc, mode, version, previous, failed, drafted, problem>>
      BY <2>1, <2>4 DEF job, flags
    <3>2. Others(p)
      BY <1>t, <2>4, <3>1 DEF Others, Set, JobType
    <3>3. Working(p)
      BY <1>w, <2>1 DEF Stages
    <3>4. Clean(p, AfterDraft)' => Clean(p, AfterDraft)
      BY <3>1 DEF Clean
    <3> QED
      BY <1>p, <2>1, <3>1, <3>2, <3>3, <3>4, GithubStays
  <2> QED
    BY <2>2, <2>3, <2>4
<1>r. ASSUME NEW p \in Procs, pc[p] \in Stages \ {"building"}, NEW raised \in BOOLEAN,
             NEW stage \in (Ended \cup Stages) \ {"draft", "assets", "finalize"},
             RaiseOr(p, raised, stage, {}),
             stage \in UploadedStages /\ mode[p] = "publish" => pc[p] \in UploadedStages,
             stage \in AfterDraft /\ mode[p] = "cleanup" => pc[p] \in AfterDraft,
             UNCHANGED <<gh, published, allocated>>
      PROVE  GithubInv'
  BY <1>r, <1>x, <1>c DEF RaiseOr
<1>9. ASSUME NEW p \in Procs, JoinTree(p) \/ PutReleaseManifest(p) \/ JoinLatest(p) PROVE GithubInv'
  <2>1. pc[p] \in UploadedStages /\ pc[p] \in Stages \ {"building"} /\ mode[p] = "publish"
        /\ UNCHANGED <<gh, published, allocated>>
    BY <1>9 DEF JoinTree, PutReleaseManifest, JoinLatest, UploadedStages, Stages, bucket,
                TypeInv, StageInv, PublishStages
  <2>2. \E raised \in BOOLEAN, stage \in {"manifest_put", "manifest_get", "index"} : RaiseOr(p, raised, stage, {})
    <3>1. failed[p] \in BOOLEAN
      BY <1>t DEF JobType
    <3> QED
      BY <1>9, <3>1 DEF JoinTree, PutReleaseManifest, JoinLatest
  <2> QED
    BY <1>r, <2>1, <2>2 DEF Stages
<1>10. ASSUME NEW p \in Procs, VerifyReleaseManifest(p) PROVE GithubInv'
  <2>1. /\ Working(p) /\ pc[p] = "manifest_get" /\ Artifacts[version[p]] \in SUBSET Paths
        /\ UNCHANGED <<gh, published, allocated>>
    BY <1>10, <1>w, ArtifactPaths DEF VerifyReleaseManifest, Stages, bucket
  <2>2. CASE Raise(p)
    BY <1>x, <2>1, <2>2 DEF Stages
  <2>3. CASE Enter(p, "latest", Artifacts[version[p]]) /\ UNCHANGED <<job, failed, drafted, problem>>
    <3>1. Others(p) /\ pc'[p] = "latest" /\ UNCHANGED <<mode, version>>
      BY <1>t, <2>1, <2>3, EnterEffect DEF Others, job, Stages
    <3>2. pc[p] \in UploadedStages /\ mode[p] = "publish"
      BY <2>1 DEF UploadedStages, TypeInv, StageInv, PublishStages
    <3>3. ~Clean(p, AfterDraft)'
      BY <3>1, <3>2 DEF Clean
    <3> QED
      BY <1>p, <2>1, <2>3, <3>1, <3>2, <3>3, GithubStays
  <2> QED
    BY <1>10, <2>2, <2>3 DEF VerifyReleaseManifest
<1>i. ASSUME NEW p \in Procs, pc[p] \in IndexStages, IndexDone(p), UNCHANGED <<gh, published, allocated>>
      PROVE  GithubInv'
  <2>1. PICK stage \in {"sums", "uncleaned", "cleaned"} : Continue(p, stage, {})
    BY <1>i DEF IndexDone
  <2>2. pc[p] \in UploadedStages /\ pc[p] \in Stages \ {"building"}
    BY <1>i DEF UploadedStages, IndexStages, Stages
  <2>3. pc[p] \in AfterDraft
    BY <1>i DEF AfterDraft, AfterTree
  <2> QED
    BY <1>c, <1>i, <2>1, <2>2, <2>3 DEF Ended, Stages
<1>11. ASSUME NEW p \in Procs, ReadIndex(p) \/ PutRootIndex(p) \/ PutSums(p) PROVE GithubInv'
  <2>1. pc[p] \in UploadedStages /\ pc[p] \in Stages \ {"building"} /\ UNCHANGED <<gh, published, allocated>>
        /\ (pc[p] \in AfterDraft \/ mode[p] # "cleanup")
    BY <1>11 DEF ReadIndex, PutRootIndex, PutSums, UploadedStages, IndexStages, RootStages, Stages, bucket,
                 AfterDraft, AfterTree, TypeInv, StageInv
  <2>2. \E raised \in BOOLEAN, stage \in {"index_put", "index_get", "pointer"} : RaiseOr(p, raised, stage, {})
    BY <1>11 DEF ReadIndex, PutRootIndex, PutSums
  <2> QED
    BY <1>r, <2>1, <2>2 DEF Stages
<1>12. ASSUME NEW p \in Procs, DeleteRootIndex(p) \/ VerifyRootIndex(p) PROVE GithubInv'
  <2>1. pc[p] \in IndexStages /\ pc[p] \in Stages \ {"building"} /\ UNCHANGED <<gh, published, allocated>>
    BY <1>12 DEF DeleteRootIndex, VerifyRootIndex, IndexStages, Stages, bucket
  <2>2. Raise(p) \/ IndexDone(p)
    BY <1>12 DEF DeleteRootIndex, VerifyRootIndex
  <2> QED
    BY <1>i, <1>x, <2>1, <2>2
<1>13. ASSUME NEW p \in Procs, PutPointer(p) PROVE GithubInv'
  <2>1. /\ Working(p) /\ pc[p] = "pointer" /\ version[p] \in Versions
        /\ mode[p] \in {"publish", "rollback"} /\ UNCHANGED <<gh, allocated>> /\ version[p] \in allocated
        /\ pc[p] \in UploadedStages
    BY <1>13, <1>w, <1>t
       DEF PutPointer, Stages, TypeInv, StageInv, RootStages, JobType, GithubInv, ReleaseInv, UploadedStages
  <2>2. PICK after \in Contents, raised \in BOOLEAN :
          /\ PutRootManifest(p, after, raised)
          /\ published' = IF after = version[p] THEN published \cup {after} ELSE published
          /\ RaiseOr(p, raised, IF mode[p] = "publish" THEN "finalize" ELSE "rolled_back", {})
    BY <1>13 DEF PutPointer
  <2>3. published \subseteq published' /\ published' \subseteq allocated'
    BY <1>p, <2>1, <2>2
  <2>4. CASE raised
    BY <2>1, <2>2, <2>3, <2>4, GithubRaise DEF RaiseOr
  <2>5. CASE ~raised
    <3> DEFINE stage == IF mode[p] = "publish" THEN "finalize" ELSE "rolled_back"
    <3>1. stage \in Ended \cup Stages /\ stage \notin AfterDraft \cup {"draft", "assets"}
      BY DEF Ended, Stages, AfterDraft, AfterTree, RestoreStages, IndexStages
    <3>2. Continue(p, stage, {})
      BY <2>2, <2>5 DEF RaiseOr
    <3>3. PointerIsSound => version[p] \in published'
      BY <2>2, <2>5 DEF PutRootManifest, Fault, PointerIsSound
    <3> HIDE DEF stage
    <3> QED
      BY <2>1, <2>3, <3>1, <3>2, <3>3, GithubContinue
  <2> QED
    BY <2>4, <2>5
<1>14. ASSUME NEW p \in Procs, Finalize(p) PROVE GithubInv'
  <2>0. PICK v \in Versions : v = version[p]
    BY <1>14, <1>o DEF Finalize
  <2>1. /\ pc[p] = "finalize" /\ v \in Versions /\ v \in allocated /\ Working(p)
        /\ Owner(p) /\ mode[p] = "publish" /\ HeldInv(p) /\ TagInv(v) /\ github[v] \in SUBSET Releases
        /\ UNCHANGED <<published, allocated>> /\ ReleaseInv(p)
    BY <2>0, <1>14, <1>o DEF Finalize, bucket, GithubInv
  <2>2. PICK held \in Found(v), raised \in BOOLEAN :
          /\ Gh(v, held, held, Public(held), raised) \/ UNCHANGED github
          /\ Continue(p, IF raised THEN "unfinalized" ELSE "published", {})
    BY <2>0, <1>14 DEF Finalize
  <2>3. PICK stage \in {"unfinalized", "published"} : Continue(p, stage, {}) /\ stage \in Ended \cup Stages
    BY <2>2 DEF Ended
  <2>4. Others(p) /\ UNCHANGED <<version, mode>> /\ pc'[p] = stage
    BY <2>0, <1>t, <2>3, ContinueEffect
  <2>5. UNCHANGED <<drafted, problem>>
    BY <2>3 DEF Continue, flags
  <2>6. held = github[v] /\ \A r, s \in github[v] : r = s
    BY <2>1, FoundOne
  <2>7. /\ \A w \in Versions \ {v} : github'[w] = github[w]
        /\ github'[v] = github[v] \/ github'[v] = Public(held)
    <3>1. CASE Gh(v, held, held, Public(held), raised)
      <4>1. held \in SUBSET Releases /\ Public(held) \in SUBSET Releases
        BY <2>1, <2>6, PathsAssumption, ReleaseTypes
      <4>2. GhResult(v, held, Public(held), raised)
        BY <1>t, <2>2, <2>6, <3>1, <4>1, GhOfOne
      <4> QED
        BY <2>6, <4>2 DEF GhResult
    <3>2. CASE UNCHANGED github
      BY <3>2
    <3> QED
      BY <2>2, <3>1, <3>2
  <2>8. /\ PointerIsSound => v \in published
        /\ \A r \in github[v] : Artifacts[v] \subseteq r.assets
    BY <2>0, <2>1 DEF ReleaseInv, HeldInv, UploadedStages
  <2>9. \A r \in github'[v] : \E o \in github[v] : r.assets = o.assets
    <3>1. \A o \in held : [o EXCEPT !.public = TRUE].assets = o.assets
      BY <2>1, <2>6 DEF Releases
    <3>2. \A r \in Public(held) : \E o \in held : r.assets = o.assets
      BY <3>1 DEF Public
    <3> QED
      BY <2>6, <2>7, <3>2
  <2>10. \A r, s \in github'[v] : r = s
    <3>1. \A r, s \in Public(held) : r = s
      BY <2>6 DEF Public
    <3> QED
      BY <2>6, <2>7, <3>1
  <2>11. TagInv(v)'
    <3>1. \A r \in github'[v] : r.assets \subseteq Artifacts[v] /\ Artifacts[v] \subseteq r.assets
      BY <2>1, <2>8, <2>9 DEF TagInv
    <3> QED
      BY <2>1, <2>8, <2>10, <3>1 DEF TagInv
  <2>12. HeldInv(p)'
    <3>1. ~Working(p)' /\ ~Clean(p, AfterDraft)'
      BY <2>1, <2>4 DEF Working, Active, Ended, Clean
    <3>2. pc'[p] \notin UploadedStages \cup {"draft", "assets"}
      BY <2>4 DEF UploadedStages, IndexStages, RootStages
    <3> QED
      BY <3>1, <3>2 DEF HeldInv
  <2> QED
    BY <2>0, <1>g, <2>1, <2>4, <2>5, <2>7, <2>11, <2>12
<1>15. ASSUME NEW p \in Procs, DeleteDraft(p) PROVE GithubInv'
  <2>0. PICK v \in Versions : v = version[p]
    BY <1>15, <1>o DEF DeleteDraft
  <2>1. /\ pc[p] = "delete_draft" /\ v \in Versions /\ v \in allocated /\ Working(p)
        /\ Owner(p) /\ mode[p] = "cleanup" /\ HeldInv(p) /\ TagInv(v) /\ github[v] \in SUBSET Releases
        /\ UNCHANGED <<published, allocated, mode, version, previous, failed, drafted>>
    BY <2>0, <1>15, <1>o DEF DeleteDraft, bucket, job
  <2>2. PICK held \in Found(v), raised \in BOOLEAN :
          /\ Gh(v, held, held, {}, raised)
          /\ problem' = Set(problem, p, problem[p] \/ raised)
          /\ Enter(p, "list_tree", {})
    BY <2>0, <1>15 DEF DeleteDraft
  <2>3. Others(p) /\ pc'[p] = "list_tree"
    BY <2>0, <1>t, <2>1, <2>2, EntryStages, EnterEffect DEF Others
  <2>4. held = github[v]
    BY <2>1, FoundOne
  <2>5. /\ \A w \in Versions \ {v} : github'[w] = github[w]
        /\ github'[v] \subseteq github[v]
        /\ ~raised => github'[v] = {}
    <3>1. held \in SUBSET Releases
      BY <2>1, <2>4
    <3>2. {} \in SUBSET Releases
      OBVIOUS
    <3>3. GhResult(v, held, {}, raised)
      BY <1>t, <2>2, <2>4, <3>1, <3>2, GhOfOne
    <3> QED
      BY <2>4, <3>3 DEF GhResult
  <2>6. /\ \A q \in Procs \ {p} : problem'[q] = problem[q]
        /\ ~problem'[p] => ~raised
    BY <2>0, <1>t, <2>2 DEF Set, JobType
  <2>7. TagInv(v)'
    BY <2>1, <2>5 DEF TagInv
  <2>8. HeldInv(p)'
    <3>1. \A r \in github'[v] : ~r.public
      BY <2>0, <2>1, <2>5 DEF HeldInv
    <3>2. Clean(p, AfterDraft)' => github'[v] = {}
      BY <2>5, <2>6 DEF Clean
    <3>3. pc'[p] \notin UploadedStages \cup {"draft", "assets"}
      BY <2>3 DEF UploadedStages, IndexStages, RootStages
    <3> QED
      BY <2>0, <2>1, <3>1, <3>2, <3>3 DEF HeldInv
  <2> QED
    BY <2>0, <1>g, <2>1, <2>3, <2>5, <2>6, <2>7, <2>8
<1>a. ASSUME NEW p \in Procs, NEW raised \in BOOLEAN, AfterDelete(p, raised)
      PROVE  /\ UNCHANGED <<failed, drafted>>
             /\ \E stage \in {"uncleaned", "cleaned", "forget_index", "restore_read"}, items \in SUBSET Paths :
                  Enter(p, stage, items)
  <2>1. previous[p] # None => Artifacts[previous[p]] \in SUBSET Paths
    BY <1>t, ArtifactPaths DEF JobType
  <2> QED
    BY <1>a, <2>1 DEF AfterDelete
<1>16. ASSUME NEW p \in Procs, \/ ListTree(p) \/ ForgetIndex(p)
                               \/ \E k \in Paths : DeleteTreeObject(p, k)
       PROVE  GithubInv'
  <2>1. pc[p] \in Stages \ {"building"} /\ UNCHANGED <<gh, job, published, allocated>>
    BY <1>16 DEF ListTree, ForgetIndex, DeleteTreeObject, Stages, bucket
  <2>2. \/ \E raised \in BOOLEAN : AfterDelete(p, raised) /\ pc[p] \in {"list_tree", "delete_tree"}
        \/ UNCHANGED <<failed, drafted>> /\ Enter(p, "uncleaned", {})
            /\ problem' = Set(problem, p, TRUE)
        \/ /\ UNCHANGED flags /\ pc[p] \in {"list_tree", "delete_tree"}
           /\ \E items \in SUBSET Paths : Enter(p, "delete_tree", items)
    <3>1. CASE ListTree(p)
      BY <3>1 DEF ListTree
    <3>2. CASE ForgetIndex(p)
      BY <3>2 DEF ForgetIndex
    <3>3. ASSUME NEW k \in Paths, DeleteTreeObject(p, k)
          PROVE  \/ \E raised \in BOOLEAN : AfterDelete(p, raised) /\ pc[p] = "delete_tree"
                 \/ /\ UNCHANGED flags /\ pc[p] = "delete_tree"
                    /\ \E items \in SUBSET Paths : Enter(p, "delete_tree", items)
      <4>1. todo[p] \ {k} \in SUBSET Paths
        BY <1>t DEF JobType
      <4> QED
        BY <3>3, <4>1 DEF DeleteTreeObject
    <3> QED
      BY <1>16, <3>1, <3>2, <3>3
  <2>3. PICK stage \in {"uncleaned", "cleaned", "forget_index", "restore_read", "delete_tree"},
             items \in SUBSET Paths :
          /\ UNCHANGED <<failed, drafted>> /\ Enter(p, stage, items)
          /\ stage = "uncleaned" \/ pc[p] \in {"list_tree", "delete_tree"}
    <3>1. CASE \E raised \in BOOLEAN : AfterDelete(p, raised) /\ pc[p] \in {"list_tree", "delete_tree"}
      BY <1>a, <3>1
    <3>2. CASE UNCHANGED <<failed, drafted>> /\ Enter(p, "uncleaned", {})
      BY <3>2
    <3>3. CASE /\ UNCHANGED flags /\ pc[p] \in {"list_tree", "delete_tree"}
               /\ \E items \in SUBSET Paths : Enter(p, "delete_tree", items)
      BY <3>3 DEF flags
    <3> QED
      BY <2>2, <3>1, <3>2, <3>3
  <2>6. /\ \A q \in Procs \ {p} : problem'[q] = problem[q]
        /\ ~problem'[p] => ~problem[p]
    <3>1. ASSUME NEW raised \in BOOLEAN, AfterDelete(p, raised)
          PROVE  problem' = Set(problem, p, problem[p] \/ raised)
      BY <3>1 DEF AfterDelete
    <3>2. \/ problem' = problem
          \/ \E raised \in BOOLEAN : problem' = Set(problem, p, problem[p] \/ raised)
          \/ problem' = Set(problem, p, TRUE)
      BY <2>2, <3>1 DEF flags
    <3> QED
      BY <1>t, <3>2 DEF Set, JobType
  <2>4. /\ stage \in Ended \cup Stages
        /\ stage \notin UploadedStages \cup {"draft", "assets", "finalize"}
    BY DEF Ended, Stages, UploadedStages, IndexStages, RootStages
  <2>5. Others(p) /\ pc'[p] = stage /\ UNCHANGED <<mode, version>>
    BY <1>t, <2>1, <2>3, <2>4, EnterEffect DEF Others, job
  <2>7. Clean(p, AfterDraft)' => Clean(p, AfterDraft)
    <3>1. stage = "uncleaned" => stage \notin AfterDraft
      BY DEF AfterDraft, AfterTree, RestoreStages, IndexStages
    <3> QED
      BY <2>3, <2>5, <2>6, <3>1 DEF Clean, AfterDraft
  <2> QED
    BY <1>p, <1>w, <2>1, <2>3, <2>4, <2>5, <2>6, <2>7, GithubStays
<1>17. ASSUME NEW p \in Procs, NEW k \in Paths,
              ReadRestoreSource(p, k) \/ PutRestored(p, k) \/ VerifyRestored(p, k)
       PROVE  GithubInv'
  <2>1. pc[p] \in RestoreStages /\ pc[p] \in Stages \ {"building"} /\ mode[p] # "publish"
        /\ UNCHANGED <<gh, published, allocated>>
    BY <1>17 DEF ReadRestoreSource, PutRestored, VerifyRestored, RestoreStages, Stages, bucket,
                 TypeInv, StageInv
  <2>2. Artifacts[Source(p)] \in SUBSET Paths /\ todo[p] \in SUBSET Paths /\ todo[p] \ {k} \in SUBSET Paths
    <3>1. Source(p) \in Versions
      BY <1>w, <1>t, <2>1 DEF Source, TypeInv, StageInv, JobType
    <3> QED
      BY <1>t, <3>1, ArtifactPaths DEF JobType
  <2>3. \/ Raise(p)
        \/ \E stage \in RestoreStages \cup {"index"}, items \in SUBSET Paths : Continue(p, stage, items)
        \/ Enter(p, "restore_put", todo[p] \ {k}) /\ UNCHANGED <<job, drafted, problem>>
            /\ \E b \in BOOLEAN : failed' = Set(failed, p, b)
    <3>1. CASE ReadRestoreSource(p, k)
      BY <2>2, <3>1 DEF ReadRestoreSource, Advance, Continue, RestoreStages
    <3>2. ASSUME NEW ok \in BOOLEAN, Restored(p, k, ok)
          PROVE  \/ Raise(p) \/ Continue(p, "index", {})
                 \/ Enter(p, "restore_put", todo[p] \ {k}) /\ UNCHANGED <<job, drafted, problem>>
                     /\ \E b \in BOOLEAN : failed' = Set(failed, p, b)
      BY <3>2 DEF Restored, RaiseOr
    <3>3. CASE PutRestored(p, k)
      BY <2>2, <3>2, <3>3 DEF PutRestored, RestoreStages
    <3>4. CASE VerifyRestored(p, k)
      BY <2>2, <3>2, <3>4 DEF VerifyRestored, RestoreStages
    <3> QED
      BY <1>17, <3>1, <3>3, <3>4
  <2>4. CASE Raise(p)
    BY <1>x, <2>1, <2>4
  <2>5. CASE \E stage \in RestoreStages \cup {"index"}, items \in SUBSET Paths : Continue(p, stage, items)
    <3>1. RestoreStages \cup {"index"} \subseteq (Ended \cup Stages) \ {"draft", "assets", "finalize"}
      BY DEF RestoreStages, Stages
    <3>2. pc[p] \in AfterDraft
      BY <2>1 DEF AfterDraft, AfterTree
    <3> QED
      BY <1>c, <2>1, <2>5, <3>1, <3>2
  <2>6. CASE Enter(p, "restore_put", todo[p] \ {k}) /\ UNCHANGED <<job, drafted, problem>>
             /\ \E b \in BOOLEAN : failed' = Set(failed, p, b)
    <3>1. \A q \in Procs \ {p} : failed'[q] = failed[q]
      BY <1>t, <2>6 DEF Set, JobType
    <3>2. /\ pc'[p] = "restore_put"
          /\ \A q \in Procs \ {p} : pc'[q] = pc[q] /\ todo'[q] = todo[q] /\ busy'[q] = busy[q]
      BY <1>t, <2>2, <2>6, EnterEffect DEF Stages
    <3>3. Others(p) /\ UNCHANGED <<mode, version>> /\ Working(p)
      BY <1>w, <2>1, <2>6, <3>1, <3>2 DEF Others, job
    <3>4. pc'[p] \notin UploadedStages
      BY <3>2 DEF UploadedStages, IndexStages, RootStages
    <3>5. Clean(p, AfterDraft)' => Clean(p, AfterDraft)
      BY <2>1, <2>6, <3>3 DEF Clean, AfterDraft, AfterTree
    <3> QED
      BY <1>p, <2>1, <2>6, <3>2, <3>3, <3>4, <3>5, GithubStays
  <2> QED
    BY <2>3, <2>4, <2>5, <2>6
<1> QED
  BY <1>0, <1>1, <1>3, <1>4, <1>5, <1>6, <1>7, <1>8, <1>9, <1>10, <1>11, <1>12, <1>13, <1>14,
     <1>15, <1>16, <1>17
     DEF Next, Step, Publish, Cleanup, Shared, Republish

\* A public GitHub release was live and has all its assets, however many publications of
\* however many versions run, fail and die, as long as the pointer's bytes arrive and no
\* published dist is published again: gh, which looks releases up by tag, then finds one only.
THEOREM PublicReleasesWereLive ==
  ASSUME PointerIsSound, ~Republishing
  PROVE  Spec => []PublicReleaseIsLive
<1>1. Init => TypeInv /\ GithubInv
  BY TypeInit, GithubInit
<1>2. TypeInv /\ GithubInv /\ [Next]_vars => (TypeInv /\ GithubInv)'
  BY TypeNext, GithubNext
<1>3. GithubInv => PublicReleaseIsLive
  BY DEF GithubInv, TagInv, PublicReleaseIsLive, PointerIsSound
<1> QED
  BY <1>1, <1>2, <1>3, PTL DEF Spec

\* The GitHub releases change with the four calls of `gh release` on them only.
LEMMA GithubWriters ==
  ASSUME [Next]_vars
  PROVE  \/ github' = github
         \/ \E p \in Procs : \/ CreateDraft(p) \/ Finalize(p) \/ DeleteDraft(p)
                             \/ \E k \in Paths : UploadAsset(p, k)
<1>1. CASE UNCHANGED vars
  BY <1>1 DEF vars, gh
<1>2. ASSUME NEW p \in Publishers, ReadLiveManifest(p) \/ Republish(p) PROVE github' = github
  BY <1>2 DEF ReadLiveManifest, Republish, gh
<1>3. ASSUME NEW p \in Operators, StartRollback(p) PROVE github' = github
  BY <1>3 DEF StartRollback, gh
<1>4. ASSUME NEW p \in Procs, Publish(p)
      PROVE  github' = github \/ CreateDraft(p) \/ Finalize(p) \/ \E k \in Paths : UploadAsset(p, k)
  <2>1. CASE NoRelease(p) \/ BuildRelease(p) \/ JoinTree(p) \/ JoinLatest(p) \/ VerifyReleaseManifest(p)
             \/ PutReleaseManifest(p)
    BY <2>1 DEF NoRelease, BuildRelease, JoinTree, JoinLatest, VerifyReleaseManifest,
                PutReleaseManifest, gh
  <2>2. ASSUME NEW k \in Paths, PutTreeObject(p, k) \/ VerifyTreeObject(p, k) \/ CopyToLatest(p, k)
        PROVE  github' = github
    BY <2>2 DEF PutTreeObject, VerifyTreeObject, CopyToLatest, gh
  <2> QED
    BY <1>4, <2>1, <2>2 DEF Publish
<1>5. ASSUME NEW p \in Procs, Cleanup(p) PROVE github' = github \/ DeleteDraft(p)
  BY <1>5 DEF Cleanup, ListTree, ForgetIndex, DeleteTreeObject, gh
<1>6. ASSUME NEW p \in Procs, Shared(p) PROVE github' = github
  <2>1. ASSUME NEW k \in Paths, ReadRestoreSource(p, k) \/ PutRestored(p, k) \/ VerifyRestored(p, k)
        PROVE  github' = github
    BY <2>1 DEF ReadRestoreSource, PutRestored, VerifyRestored, gh
  <2>2. CASE ReadIndex(p) \/ DeleteRootIndex(p) \/ PutRootIndex(p) \/ VerifyRootIndex(p)
    BY <2>2 DEF ReadIndex, DeleteRootIndex, PutRootIndex, VerifyRootIndex, gh
  <2>3. CASE PutSums(p) \/ PutPointer(p)
    BY <2>3 DEF PutSums, PutPointer, gh
  <2> QED
    BY <1>6, <2>1, <2>2, <2>3 DEF Shared
<1>7. ASSUME NEW p \in Procs, Crash(p) PROVE github' = github
  BY <1>7 DEF Crash, gh
<1> QED
  BY <1>1, <1>2, <1>3, <1>4, <1>5, <1>6, <1>7 DEF Next, Step

\* One step leaves a public release public: the tag a command's gh calls name is that of its
\* own version, which has no public release while the command works on it.
LEMMA PublicStep ==
  ASSUME TypeInv, GithubInv, [Next]_vars, NEW v \in Versions, NEW r \in github[v], r.public
  PROVE  r \in github'[v]
<1>1. JobType /\ StoreType
  BY DEF TypeInv, TypeOK
<1>2. ASSUME NEW p \in Procs, pc[p] \in {"draft", "assets", "finalize", "delete_draft"}
      PROVE  version[p] \in Versions \ {v} /\ github[version[p]] \in SUBSET Releases
  <2>1. Working(p) /\ version[p] \in Versions /\ mode[p] # "rollback"
    BY <1>2 DEF Working, Active, Ended, TypeInv, Bound, StageInv, PublishStages, CleanupStages
  <2>2. ReleaseInv(p) /\ Owner(p)
    BY <2>1, ValuesAssumption DEF GithubInv, Owner
  <2> QED
    BY <1>1, <2>1, <2>2 DEF ReleaseInv, HeldInv, StoreType
<1>3. ASSUME NEW p \in Procs, CreateDraft(p) PROVE r \in github'[v]
  BY <1>1, <1>2, <1>3 DEF CreateDraft, Set, StoreType
<1>4. ASSUME NEW p \in Procs, pc[p] \in {"draft", "assets", "finalize", "delete_draft"},
             NEW held \in Found(version[p]), NEW rest \in SUBSET Releases, NEW value \in SUBSET Releases,
             NEW raised \in BOOLEAN, Gh(version[p], held, rest, value, raised)
      PROVE  r \in github'[v]
  <2>1. version[p] \in Versions /\ v \in Versions \ {version[p]}
    BY <1>2, <1>4
  <2>2. github'[v] = github[v]
    BY <1>1, <1>4, <2>1, GhEffect
  <2> QED
    BY <2>2
<1>h. ASSUME NEW p \in Procs, pc[p] \in {"draft", "assets", "finalize", "delete_draft"},
             NEW held \in Found(version[p])
      PROVE  held \in SUBSET Releases
  BY <1>2, <1>h DEF Found
<1>5. ASSUME NEW p \in Procs, NEW k \in Paths, UploadAsset(p, k) PROVE r \in github'[v]
  <2>1. pc[p] = "assets"
    BY <1>5 DEF UploadAsset
  <2>2. PICK held \in Found(version[p]), raised \in BOOLEAN :
          \E rest \in {held, WithoutAsset(held, k)} :
            Gh(version[p], held, rest, WithAsset(held, k), raised)
    BY <1>5 DEF UploadAsset
  <2>3. {held, WithoutAsset(held, k)} \subseteq SUBSET Releases /\ WithAsset(held, k) \in SUBSET Releases
    BY <1>h, <2>1, ReleaseTypes
  <2> QED
    BY <1>4, <2>1, <2>2, <2>3
<1>6. ASSUME NEW p \in Procs, Finalize(p) PROVE r \in github'[v]
  <2>1. pc[p] = "finalize"
    BY <1>6 DEF Finalize
  <2>2. PICK held \in Found(version[p]), raised \in BOOLEAN :
          Gh(version[p], held, held, Public(held), raised) \/ UNCHANGED github
    BY <1>6 DEF Finalize
  <2>3. held \in SUBSET Releases /\ Public(held) \in SUBSET Releases
    BY <1>h, <2>1, PathsAssumption, ReleaseTypes
  <2> QED
    BY <1>4, <2>1, <2>2, <2>3
<1>7. ASSUME NEW p \in Procs, DeleteDraft(p) PROVE r \in github'[v]
  <2>1. pc[p] = "delete_draft"
    BY <1>7 DEF DeleteDraft
  <2>2. PICK held \in Found(version[p]), raised \in BOOLEAN : Gh(version[p], held, held, {}, raised)
    BY <1>7 DEF DeleteDraft
  <2> QED
    BY <1>4, <1>h, <2>1, <2>2
<1> QED
  BY <1>3, <1>5, <1>6, <1>7, GithubWriters

\* A public GitHub release is never withdrawn, whatever fails and whoever runs, unless
\* `publish` is run again on a published dist: no cleanup runs under the tag of a release
\* that may be public.
THEOREM PublicReleasesStay ==
  ASSUME ~Republishing
  PROVE  Spec => PublicStaysPublic
<1>1. Init => TypeInv /\ GithubInv
  BY TypeInit, GithubInit
<1>2. TypeInv /\ GithubInv /\ [Next]_vars => (TypeInv /\ GithubInv)'
  BY TypeNext, GithubNext
<1>3. TypeInv /\ GithubInv /\ [Next]_vars
      => [\A v \in Versions : \A r \in github[v] :
            r.public => \E s \in github'[v] : s.id = r.id /\ s.public]_vars
  BY PublicStep
<1> QED
  BY <1>1, <1>2, <1>3, PTL DEF Spec, PublicStaysPublic

----------------------------------------------------------------------------
\* What a command brings about, when no other one runs meanwhile.

\* What a publication puts without reading it back may be corrupt.
Unread(p) == IF mode[p] = "publish" THEN {Corrupt} ELSE {}

TreeGone(p) ==
  /\ Clean(p, {"delete_tree"}) => \A k \in Paths \ todo[p] : tree[version[p]][k] = None
  /\ Clean(p, AfterTree) => \A k \in Paths : tree[version[p]][k] = None

LatestWritten(p) ==
  /\ pc[p] = "latest" /\ ~failed[p]
     => \A k \in Artifacts[version[p]] \ todo[p] : latest[k] \in {version[p], Corrupt}
  /\ pc[p] \in {"restore_put", "restore_get"} /\ ~failed[p]
     => \A k \in Artifacts[Source(p)] \ todo[p] : latest[k] = Source(p)
  /\ pc[p] \in IndexStages \cup RootStages
     => \A k \in Artifacts[Source(p)] : latest[k] \in {Source(p)} \cup Unread(p)

RootWritten(p) ==
  /\ pc[p] \in {"index_put", "index_get"} => IndexPath \in Artifacts[Source(p)]
  /\ pc[p] \in RootStages => index = IndexOf(version[p])
  /\ pc[p] = "pointer" => sums \in {version[p], Corrupt}

CleanupDone(p) ==
  pc[p] = "cleaned" =>
    /\ mode[p] = "cleanup" /\ ~problem[p] /\ version[p] # None
    /\ touched[p] => previous[p] # None /\ RestoredTo(previous[p])

CommandInv(p) ==
  TreeGone(p) /\ LatestWritten(p) /\ RootWritten(p) /\ CleanupDone(p)

\* The other stages tell nothing.
Telling == AfterDraft \cup RootStages \cup {"latest"}

\* What is known of a command is a matter of where it is: nothing where it tells nothing.
LEMMA QuietCommand ==
  ASSUME NEW p \in Procs, pc'[p] \notin Telling
  PROVE  CommandInv(p)'
<1>1. TreeGone(p)'
  BY DEF Telling, TreeGone, Clean, AfterDraft, AfterTree
<1>2. LatestWritten(p)'
  BY DEF Telling, LatestWritten, AfterDraft, AfterTree, RestoreStages
<1>3. RootWritten(p)' /\ CleanupDone(p)'
  BY DEF Telling, RootWritten, CleanupDone, AfterDraft, AfterTree, IndexStages, RootStages
<1> QED
  BY <1>1, <1>2, <1>3 DEF CommandInv

\* They are those of a publication up to the upload, its end, and the start of a cleanup.
LEMMA QuietStages ==
  (Ended \cup Stages) \ Telling = (Ended \ {"cleaned"}) \cup
    {"building", "draft", "assets", "tree", "manifest_put", "manifest_get", "finalize",
     "delete_draft", "forget_index"}
BY DEF Ended, Stages, Telling, AfterDraft, AfterTree, RestoreStages, IndexStages, RootStages

\* An exception.
LEMMA CommandRaise ==
  ASSUME TypeInv, NEW p \in Procs, Raise(p)
  PROVE  CommandInv(p)'
<1>1. JobType /\ mode[p] \in {"publish", "cleanup", "rollback"} /\ drafted[p] \in BOOLEAN
  BY DEF TypeInv, TypeOK, JobType
<1>2. pc'[p] \in {"delete_draft", "list_tree", "uncleaned", "rollback_failed"}
  BY <1>1, RaiseEffect DEF Raise
<1>3. CASE pc'[p] # "list_tree"
  BY <1>2, <1>3, QuietStages, QuietCommand DEF Ended
<1>4. CASE pc'[p] = "list_tree"
  BY <1>4 DEF CommandInv, TreeGone, Clean, LatestWritten, RootWritten, CleanupDone,
              AfterTree, RestoreStages, IndexStages, RootStages
<1> QED
  BY <1>3, <1>4

\* Once a cleanup has deleted the tree, it stays away: what is left of the cleanup is written
\* below latest/ and to the root.
LEMMA RemovedStays ==
  ASSUME NEW p \in Procs, CommandInv(p), UNCHANGED tree,
         UNCHANGED <<mode, version, drafted, problem>>,
         mode[p] = "cleanup" => pc[p] \in AfterTree, pc'[p] # "delete_tree"
  PROVE  TreeGone(p)'
BY DEF CommandInv, TreeGone, Clean

\* delete_prefix is over.
LEMMA DeletedStep ==
  ASSUME TypeInv, NEW p \in Procs, CommandInv(p), pc[p] \in {"list_tree", "delete_tree"},
         UNCHANGED job, NEW raised \in BOOLEAN, AfterDelete(p, raised),
         ~problem[p] /\ ~raised => \A k \in Paths : tree'[version[p]][k] = None
  PROVE  CommandInv(p)'
<1>t. JobType /\ mode[p] = "cleanup" /\ version[p] \in Versions
  BY DEF TypeInv, TypeOK, StageInv, CleanupStages, Bound, Working, Active, Ended
<1>u. UNCHANGED <<mode, version, previous, drafted, touched>>
      /\ (problem'[p] <=> problem[p] \/ raised)
  BY <1>t DEF AfterDelete, job, Set, JobType
<1>1. CASE ~touched[p]
  <2>1. Enter(p, IF problem[p] \/ raised THEN "uncleaned" ELSE "cleaned", {})
    BY <1>1 DEF AfterDelete
  <2>2. pc'[p] = IF problem[p] \/ raised THEN "uncleaned" ELSE "cleaned"
    BY <1>t, <2>1, EnterEffect DEF Ended
  <2>3. CASE pc'[p] = "uncleaned"
    BY <2>3, QuietStages, QuietCommand DEF Ended
  <2>4. CASE pc'[p] = "cleaned"
    BY <1>t, <1>u, <1>1, <2>2, <2>4, ValuesAssumption
       DEF CommandInv, TreeGone, Clean, LatestWritten, RootWritten, CleanupDone,
           IndexStages, RootStages
  <2> QED
    BY <2>2, <2>3, <2>4
<1>2. CASE touched[p] /\ previous[p] = None
  <2>1. pc'[p] = "forget_index"
    BY <1>t, <1>2, EnterEffect DEF AfterDelete, Stages
  <2> QED
    BY <2>1, QuietStages, QuietCommand DEF Ended
<1>3. CASE touched[p] /\ previous[p] # None
  <2>1. previous[p] \in Versions
    BY <1>t, <1>3 DEF JobType
  <2>2. pc'[p] = "restore_read"
    BY <1>t, <1>3, <2>1, ArtifactPaths, EnterEffect DEF AfterDelete, Stages
  <2> QED
    BY <1>t, <1>u, <2>2
       DEF CommandInv, TreeGone, Clean, LatestWritten, RootWritten, CleanupDone,
           IndexStages, RootStages
<1> QED
  BY <1>1, <1>2, <1>3

\* One object of latest/ is handled: either it holds what it should, or the copy will raise.
LEMMA RestoredStep ==
  ASSUME TypeInv, NEW p \in Procs, CommandInv(p), pc[p] \in {"restore_put", "restore_get"},
         NEW k \in todo[p], NEW ok \in BOOLEAN, UNCHANGED tree, Restored(p, k, ok),
         \A j \in Paths \ {k} : latest'[j] = latest[j], ok => latest'[k] = Source(p)
  PROVE  CommandInv(p)'
<1>t. /\ JobType /\ Source(p) \in Versions /\ Artifacts[Source(p)] \subseteq Paths
      /\ failed[p] \in BOOLEAN /\ todo[p] \in SUBSET Paths
  <2>1. JobType /\ StageInv(p) /\ version[p] \in Versions
    BY DEF TypeInv, TypeOK, Bound, Working, Active, Ended
  <2>2. Source(p) \in Versions
    BY <2>1 DEF Source, StageInv, RestoreStages, JobType
  <2> QED
    BY <2>1, <2>2, ArtifactPaths DEF JobType
<1>r. ~failed[p] /\ ok => \A j \in Artifacts[Source(p)] \ (todo[p] \ {k}) : latest'[j] = Source(p)
  BY <1>t DEF CommandInv, LatestWritten
<1>1. CASE todo[p] # {k}
  <2>1. /\ Enter(p, "restore_put", todo[p] \ {k}) /\ failed' = Set(failed, p, failed[p] \/ ~ok)
        /\ UNCHANGED <<mode, version, previous, drafted, touched, problem>>
    BY <1>1 DEF Restored, job
  <2>2. pc'[p] = "restore_put" /\ todo'[p] = todo[p] \ {k} /\ (failed'[p] <=> failed[p] \/ ~ok)
    <3>1. todo[p] \ {k} \in SUBSET Paths /\ "restore_put" \in Stages
      BY <1>t DEF Stages
    <3>2. failed'[p] <=> failed[p] \/ ~ok
      BY <1>t, <2>1 DEF Set, JobType
    <3> QED
      BY <1>t, <2>1, <3>1, <3>2, EnterEffect
  <2>3. TreeGone(p)'
    BY <2>1, <2>2, RemovedStays DEF AfterTree, RestoreStages
  <2>4. Source(p)' = Source(p)
    BY <2>1 DEF Source
  <2>5. LatestWritten(p)'
    BY <1>r, <2>2, <2>4 DEF LatestWritten, IndexStages, RootStages
  <2> QED
    BY <2>2, <2>3, <2>5 DEF CommandInv, RootWritten, CleanupDone, RootStages
<1>2. CASE todo[p] = {k} /\ (failed[p] \/ ~ok)
  BY <1>2, CommandRaise DEF Restored, RaiseOr
<1>3. CASE todo[p] = {k} /\ ~failed[p] /\ ok
  <2>1. Continue(p, "index", {})
    BY <1>3 DEF Restored, RaiseOr
  <2>2. pc'[p] = "index" /\ UNCHANGED <<mode, version, previous, drafted, touched, problem>>
    <3>1. UNCHANGED <<mode, version, previous, drafted, touched, problem>>
      BY <2>1 DEF Continue, job, flags
    <3>2. Enter(p, "index", {}) /\ "index" \in Ended \cup Stages
      BY <2>1 DEF Continue, Stages
    <3> QED
      BY <1>t, <3>1, <3>2, EnterEffect
  <2>3. TreeGone(p)'
    BY <2>2, RemovedStays DEF AfterTree, RestoreStages
  <2>4. Source(p)' = Source(p)
    BY <2>2 DEF Source
  <2>5. LatestWritten(p)'
    BY <1>3, <1>r, <2>2, <2>4 DEF LatestWritten
  <2> QED
    BY <2>2, <2>3, <2>5 DEF CommandInv, RootWritten, CleanupDone, RootStages
<1> QED
  BY <1>1, <1>2, <1>3

\* The root index page is written, or rightly absent, when _copy_index_to_root returns.
LEMMA IndexStep ==
  ASSUME TypeInv, NEW p \in Procs, CommandInv(p), pc[p] \in IndexStages,
         UNCHANGED <<tree, latest>>, index' = IndexOf(Source(p)), IndexDone(p)
  PROVE  CommandInv(p)'
<1>t. JobType /\ StageInv(p) /\ mode[p] \in {"publish", "cleanup", "rollback"}
      /\ \A k \in Artifacts[Source(p)] : latest[k] \in {Source(p)} \cup Unread(p)
  BY DEF TypeInv, TypeOK, JobType, CommandInv, LatestWritten
<1>v. version[p] # None
  BY ValuesAssumption DEF TypeInv, Bound, Working, Active, Ended, IndexStages
<1>1. PICK stage \in {"sums", "cleaned", "uncleaned"} :
        /\ Continue(p, stage, {})
        /\ stage = "sums" <=> mode[p] # "cleanup"
        /\ stage = "cleaned" => ~problem[p]
  BY <1>t DEF IndexDone
<1>2. pc'[p] = stage /\ UNCHANGED <<mode, version, previous, drafted, touched, problem>>
  <2>1. UNCHANGED <<mode, version, previous, drafted, touched, problem>>
    BY <1>1 DEF Continue, job, flags
  <2>2. Enter(p, stage, {}) /\ stage \in Ended \cup Stages
    BY <1>1 DEF Continue, Stages, Ended
  <2> QED
    BY <1>t, <2>1, <2>2, EnterEffect
<1>3. TreeGone(p)'
  BY <1>1, <1>2, RemovedStays DEF AfterTree
<1>4. Source(p)' = Source(p) /\ Unread(p)' = Unread(p)
  BY <1>2 DEF Source, Unread
<1>5. CASE stage = "sums"
  <2>1. Source(p) = version[p]
    BY <1>1, <1>5 DEF Source
  <2>2. LatestWritten(p)' /\ RootWritten(p)'
    BY <1>t, <1>2, <1>4, <1>5, <2>1 DEF LatestWritten, RootWritten, IndexOf
  <2> QED
    BY <1>2, <1>3, <1>5, <2>2 DEF CommandInv, CleanupDone
<1>6. CASE stage = "cleaned"
  <2>1. mode[p] = "cleanup" /\ Source(p) = previous[p] /\ previous[p] # None /\ Unread(p) = {}
    BY <1>t, <1>1, <1>6 DEF Source, StageInv, Unread
  <2>2. CleanupDone(p)'
    BY <1>t, <1>v, <1>1, <1>2, <1>6, <2>1 DEF CleanupDone, RestoredTo, IndexOf
  <2> QED
    BY <1>2, <1>3, <1>6, <2>2 DEF CommandInv, LatestWritten, RootWritten, IndexStages, RootStages
<1>7. CASE stage = "uncleaned"
  BY <1>2, <1>7, QuietStages, QuietCommand DEF Ended
<1> QED
  BY <1>5, <1>6, <1>7

\* Whatever a command does itself keeps what it has brought about.
LEMMA CommandStep ==
  ASSUME TypeInv, NEW p \in Procs, CommandInv(p), Step(p) \/ Crash(p)
  PROVE  CommandInv(p)'
<1>t. /\ JobType /\ StoreType /\ StageInv(p) /\ failed[p] \in BOOLEAN /\ todo[p] \in SUBSET Paths
      /\ mode[p] \in {"publish", "cleanup", "rollback"}
  BY DEF TypeInv, TypeOK, JobType
<1>w. ASSUME pc[p] \in Stages \ {"building"}
      PROVE  version[p] \in Versions /\ Artifacts[version[p]] \in SUBSET Paths
  <2>1. Working(p)
    BY <1>w DEF Working, Active, Ended, Stages
  <2> QED
    BY <2>1, ArtifactPaths DEF TypeInv, Bound
<1>q. ASSUME NEW stage \in (Ended \ {"cleaned"}) \cup
               {"building", "draft", "assets", "tree", "manifest_put", "manifest_get", "finalize",
                "delete_draft", "forget_index"},
             NEW items \in SUBSET Paths, Enter(p, stage, items)
      PROVE  CommandInv(p)'
  <2>1. stage \in (Ended \cup Stages) \ Telling
    BY QuietStages
  <2>2. pc'[p] = stage
    BY <1>t, <1>q, <2>1, EnterEffect
  <2> QED
    BY <2>1, <2>2, QuietCommand
<1>r. ASSUME NEW raised \in BOOLEAN, NEW stage \in {"manifest_put", "manifest_get", "finalize", "rolled_back"},
             RaiseOr(p, raised, stage, {})
      PROVE  CommandInv(p)'
  <2>1. raised => Raise(p)
    BY <1>r DEF RaiseOr
  <2>2. ~raised => Enter(p, stage, {})
    BY <1>r DEF RaiseOr, Continue
  <2>3. stage \in Ended \ {"cleaned"} \/ stage \in {"manifest_put", "manifest_get", "finalize"}
    BY DEF Ended
  <2> QED
    BY <1>q, <2>1, <2>2, <2>3, CommandRaise
<1>1. CASE NoRelease(p) \/ BuildRelease(p) \/ Crash(p)
  <2>1. PICK stage \in {"idle", "draft", "crashed"} : Enter(p, stage, {})
    BY <1>1 DEF NoRelease, BuildRelease, StartPublish, Crash
  <2>2. stage \in Ended \ {"cleaned"} \/ stage = "draft"
    BY DEF Ended
  <2> QED
    BY <1>q, <2>1, <2>2
<1>2. CASE CreateDraft(p)
  <2>1. Raise(p) \/ Enter(p, "assets", Artifacts[version[p]])
    BY <1>2 DEF CreateDraft
  <2>2. Artifacts[version[p]] \in SUBSET Paths
    BY <1>2, <1>w DEF CreateDraft, Stages
  <2> QED
    BY <1>q, <2>1, <2>2, CommandRaise
<1>3. ASSUME NEW k \in Paths, UploadAsset(p, k) PROVE CommandInv(p)'
  <2>1. \/ Raise(p) \/ Enter(p, "tree", Artifacts[version[p]])
        \/ Enter(p, "assets", todo[p] \ {k})
    BY <1>3 DEF UploadAsset, Advance
  <2>2. Artifacts[version[p]] \in SUBSET Paths /\ todo[p] \ {k} \in SUBSET Paths
    BY <1>3, <1>t, <1>w DEF UploadAsset, Stages
  <2> QED
    BY <1>q, <2>1, <2>2, CommandRaise
<1>4. ASSUME NEW k \in Paths, PutTreeObject(p, k) \/ VerifyTreeObject(p, k) PROVE CommandInv(p)'
  <2>1. pc[p] = "tree" /\ pc' = pc
    BY <1>4 DEF PutTreeObject, VerifyTreeObject, Worked
  <2>2. "tree" \notin Telling
    BY QuietStages DEF Stages
  <2> QED
    BY <2>1, <2>2, QuietCommand
<1>5. CASE JoinTree(p) \/ PutReleaseManifest(p)
  <2>1. \E raised \in BOOLEAN, stage \in {"manifest_put", "manifest_get"} : RaiseOr(p, raised, stage, {})
    BY <1>5, <1>t DEF JoinTree, PutReleaseManifest
  <2> QED
    BY <1>r, <2>1
<1>6. CASE VerifyReleaseManifest(p)
  <2> DEFINE v == version[p]
  <2>1. pc[p] = "manifest_get" /\ v \in Versions /\ Artifacts[v] \in SUBSET Paths /\ mode[p] = "publish"
    BY <1>6, <1>t, <1>w DEF VerifyReleaseManifest, Stages, StageInv, PublishStages
  <2>2. CASE Raise(p)
    BY <2>2, CommandRaise
  <2>3. CASE Enter(p, "latest", Artifacts[v]) /\ UNCHANGED job
    <3>1. pc'[p] = "latest" /\ todo'[p] = Artifacts[v] /\ UNCHANGED <<mode, version>>
      <4>1. "latest" \in Ended \cup Stages
        BY DEF Stages
      <4> QED
        BY <1>t, <2>1, <2>3, <4>1, EnterEffect DEF job
    <3> QED
      BY <2>1, <3>1 DEF CommandInv, TreeGone, Clean, LatestWritten, RootWritten, CleanupDone,
                        IndexStages, RootStages
  <2> QED
    BY <1>6, <2>2, <2>3 DEF VerifyReleaseManifest
<1>7. ASSUME NEW k \in Paths, CopyToLatest(p, k) PROVE CommandInv(p)'
  <2> DEFINE v == version[p]
  <2>1. pc[p] = "latest" /\ v \in Versions /\ Artifacts[v] \in SUBSET Paths /\ mode[p] = "publish"
    BY <1>7, <1>t, <1>w DEF CopyToLatest, Stages, StageInv, PublishStages
  <2>2. PICK after \in Contents, raised \in BOOLEAN :
          /\ Put(latest[k], v, after, raised)
          /\ latest' = Set(latest, k, after)
          /\ Worked(p, k, ~raised)
    BY <1>7 DEF CopyToLatest
  <2>3. UNCHANGED job /\ UNCHANGED <<mode, version>>
    BY <1>7 DEF CopyToLatest, job
  <2>4. pc' = pc /\ todo'[p] = todo[p] \ {k} /\ (failed'[p] <=> failed[p] \/ raised)
    BY <1>t, <2>2, <2>3, WorkedEffect
  <2>5. ~raised => after \in {v, Corrupt}
    BY <2>2 DEF Put, Call
  <2>6. latest'[k] = after /\ \A j \in Paths \ {k} : latest'[j] = latest[j]
    BY <1>t, <2>2 DEF Set, StoreType
  <2>7. ~failed[p] => \A j \in Artifacts[v] \ todo[p] : latest[j] \in {v, Corrupt}
    BY <2>1 DEF CommandInv, LatestWritten
  <2>8. ~failed'[p] => \A j \in Artifacts[v] \ todo'[p] : latest'[j] \in {v, Corrupt}
    BY <2>1, <2>4, <2>5, <2>6, <2>7
  <2> QED
    BY <2>1, <2>3, <2>4, <2>8
       DEF CommandInv, TreeGone, Clean, LatestWritten, RootWritten, CleanupDone,
           RestoreStages, IndexStages, RootStages
<1>8. CASE JoinLatest(p)
  <2> DEFINE v == version[p]
  <2>1. pc[p] = "latest" /\ todo[p] = {} /\ mode[p] = "publish" /\ UNCHANGED latest
    BY <1>8, <1>t DEF JoinLatest, StageInv, PublishStages, bucket
  <2>2. CASE failed[p]
    BY <1>8, <2>2, CommandRaise DEF JoinLatest, RaiseOr
  <2>3. CASE ~failed[p]
    <3>1. Continue(p, "index", {})
      BY <1>8, <2>3 DEF JoinLatest, RaiseOr
    <3>2. pc'[p] = "index" /\ UNCHANGED <<mode, version>>
      BY <1>t, <3>1, ContinueEffect DEF Stages
    <3>3. \A k \in Artifacts[v] : latest[k] \in {v, Corrupt}
      BY <2>1, <2>3 DEF CommandInv, LatestWritten
    <3>4. Source(p)' = v /\ Unread(p)' = {Corrupt}
      BY <2>1, <3>2 DEF Source, Unread
    <3>5. LatestWritten(p)'
      BY <2>1, <3>2, <3>3, <3>4 DEF LatestWritten
    <3> QED
      BY <2>1, <3>2, <3>5 DEF CommandInv, TreeGone, Clean, RootWritten, CleanupDone,
                              RootStages
  <2> QED
    BY <2>2, <2>3
<1>9. CASE Finalize(p)
  <2>1. PICK stage \in {"unfinalized", "published"} : Enter(p, stage, {})
    BY <1>9 DEF Finalize, Continue
  <2>2. stage \in Ended \ {"cleaned"}
    BY DEF Ended
  <2> QED
    BY <1>q, <2>1, <2>2
<1>10. CASE DeleteDraft(p)
  <2>1. pc'[p] = "list_tree"
    BY <1>10, <1>t, EntryStages, EnterEffect DEF DeleteDraft
  <2> QED
    BY <2>1 DEF CommandInv, TreeGone, Clean, LatestWritten, RootWritten, CleanupDone,
                AfterTree, RestoreStages, IndexStages, RootStages
<1>11. CASE ListTree(p)
  <2> DEFINE v    == version[p]
             keys == {k \in Paths : tree[v][k] # None}
  <2>1. pc[p] = "list_tree" /\ mode[p] = "cleanup" /\ UNCHANGED <<tree, job>>
    BY <1>11, <1>t DEF ListTree, StageInv, CleanupStages, bucket
  <2>2. CASE \E raised \in BOOLEAN : AfterDelete(p, raised) /\ (raised \/ keys = {})
    BY <2>1, <2>2, DeletedStep
  <2>3. CASE Enter(p, "delete_tree", keys) /\ UNCHANGED flags
    <3>1. pc'[p] = "delete_tree" /\ todo'[p] = keys
      <4>1. "delete_tree" \in Ended \cup Stages /\ keys \in SUBSET Paths
        BY DEF Stages
      <4> HIDE DEF keys
      <4> QED
        BY <1>t, <2>3, <4>1, EnterEffect
    <3>2. UNCHANGED <<mode, version, drafted, problem>>
      BY <2>1, <2>3 DEF job, flags
    <3> QED
      BY <2>1, <3>1, <3>2
         DEF CommandInv, TreeGone, Clean, LatestWritten, RootWritten, CleanupDone,
             AfterDraft, AfterTree, RestoreStages, IndexStages, RootStages
  <2> QED
    BY <1>11, <2>2, <2>3 DEF ListTree
<1>12. ASSUME NEW k \in Paths, DeleteTreeObject(p, k) PROVE CommandInv(p)'
  <2> DEFINE v == version[p]
  <2>1. /\ pc[p] = "delete_tree" /\ mode[p] = "cleanup" /\ v \in Versions /\ k \in todo[p]
        /\ UNCHANGED job
    BY <1>12, <1>t, <1>w DEF DeleteTreeObject, First, StageInv, CleanupStages, Stages
  <2>2. PICK after \in Contents, raised \in BOOLEAN :
          /\ Call(tree[v][k], None, after, raised)
          /\ tree' = [tree EXCEPT ![v][k] = after]
          /\ IF raised \/ todo[p] = {k} THEN AfterDelete(p, raised)
             ELSE Enter(p, "delete_tree", todo[p] \ {k}) /\ UNCHANGED flags
    BY <1>12 DEF DeleteTreeObject
  <2>3. ~raised => after = None
    BY <2>2 DEF Call
  <2>4. tree'[v][k] = after /\ \A j \in Paths \ {k} : tree'[v][j] = tree[v][j]
    BY <1>t, <2>1, <2>2 DEF StoreType
  <2>5. ~problem[p] => \A j \in Paths \ todo[p] : tree[v][j] = None
    BY <2>1 DEF CommandInv, TreeGone, Clean
  <2>6. ~problem[p] /\ ~raised => \A j \in Paths \ (todo[p] \ {k}) : tree'[v][j] = None
    BY <2>3, <2>4, <2>5
  <2>7. CASE raised \/ todo[p] = {k}
    BY <2>1, <2>2, <2>6, <2>7, DeletedStep
  <2>8. CASE ~raised /\ todo[p] # {k}
    <3>1. Enter(p, "delete_tree", todo[p] \ {k}) /\ UNCHANGED flags /\ todo[p] \ {k} \in SUBSET Paths
      BY <1>t, <2>2, <2>8
    <3>2. pc'[p] = "delete_tree" /\ todo'[p] = todo[p] \ {k}
      BY <1>t, <3>1, EnterEffect DEF Stages
    <3>3. UNCHANGED <<mode, version, drafted, problem>>
      BY <2>1, <3>1 DEF job, flags
    <3> QED
      BY <2>1, <2>6, <2>8, <3>2, <3>3
         DEF CommandInv, TreeGone, Clean, LatestWritten, RootWritten, CleanupDone,
             AfterDraft, AfterTree, RestoreStages, IndexStages, RootStages
  <2> QED
    BY <2>7, <2>8
<1>13. CASE ForgetIndex(p)
  <2>1. Enter(p, "uncleaned", {}) /\ "uncleaned" \in Ended \ {"cleaned"}
    BY <1>13 DEF ForgetIndex, Ended
  <2> QED
    BY <1>q, <2>1
<1>u. ASSUME pc[p] \in RestoreStages \cup IndexStages
      PROVE  /\ Source(p) \in Versions /\ Artifacts[Source(p)] \in SUBSET Paths
             /\ mode[p] = "cleanup" => pc[p] \in AfterTree
  <2>1. version[p] \in Versions
    BY <1>u, <1>w DEF RestoreStages, IndexStages, Stages
  <2>2. Source(p) \in Versions
    BY <1>t, <1>u, <2>1 DEF Source, StageInv, JobType
  <2> QED
    BY <1>u, <2>2, ArtifactPaths DEF AfterTree
<1>c. ASSUME NEW stage \in {"restore_read", "restore_put", "restore_get", "index_put", "index_get"},
             NEW items \in SUBSET Paths,
             Enter(p, stage, items), UNCHANGED <<job, flags, tree>>,
             pc[p] \in RestoreStages \cup IndexStages,
             LatestWritten(p)', stage \in IndexStages => IndexPath \in Artifacts[Source(p)]
      PROVE  CommandInv(p)'
  <2>0. stage \in Stages
    BY DEF Stages
  <2>1. pc'[p] = stage
    BY <1>t, <1>c, <2>0, EnterEffect
  <2>2. UNCHANGED <<mode, version, previous, drafted, touched, problem>>
    BY <1>c DEF job, flags
  <2>3. TreeGone(p)'
    BY <1>c, <1>u, <2>1, <2>2, RemovedStays
  <2>4. Source(p)' = Source(p)
    BY <2>2 DEF Source
  <2>5. RootWritten(p)' /\ CleanupDone(p)'
    BY <1>c, <2>1, <2>4 DEF RootWritten, CleanupDone, IndexStages, RootStages
  <2> QED
    BY <1>c, <2>3, <2>5 DEF CommandInv
<1>14. ASSUME NEW k \in Paths, ReadRestoreSource(p, k) PROVE CommandInv(p)'
  <2>1. pc[p] = "restore_read" /\ pc[p] \in RestoreStages /\ k \in todo[p] /\ UNCHANGED tree
    BY <1>14 DEF ReadRestoreSource, First, RestoreStages, bucket
  <2>2. Artifacts[Source(p)] \in SUBSET Paths /\ todo[p] \ {k} \in SUBSET Paths
    BY <1>t, <1>u, <2>1
  <2>3. CASE Raise(p)
    BY <2>3, CommandRaise
  <2>4. CASE Advance(p, k, "restore_put", Artifacts[Source(p)]) /\ UNCHANGED <<job, flags>>
    <3>1. CASE todo[p] = {k}
      <4>1. Enter(p, "restore_put", Artifacts[Source(p)])
        BY <2>4, <3>1 DEF Advance
      <4>2. pc'[p] = "restore_put" /\ todo'[p] = Artifacts[Source(p)]
        <5>1. "restore_put" \in Ended \cup Stages
          BY DEF Stages
        <5> QED
          BY <1>t, <2>2, <4>1, <5>1, EnterEffect
      <4>3. Source(p)' = Source(p)
        BY <2>4 DEF Source, job
      <4>4. LatestWritten(p)'
        BY <4>2, <4>3 DEF LatestWritten, IndexStages, RootStages
      <4> QED
        BY <1>c, <2>1, <2>2, <2>4, <4>1, <4>4 DEF IndexStages
    <3>2. CASE todo[p] # {k}
      <4>1. Enter(p, "restore_read", todo[p] \ {k})
        BY <2>1, <2>4, <3>2 DEF Advance
      <4>2. pc'[p] = "restore_read"
        BY <1>t, <2>2, <4>1, EnterEffect DEF Stages
      <4>3. LatestWritten(p)'
        BY <4>2 DEF LatestWritten, IndexStages, RootStages
      <4> QED
        BY <1>c, <2>1, <2>2, <2>4, <4>1, <4>3 DEF IndexStages
    <3> QED
      BY <3>1, <3>2
  <2> QED
    BY <1>14, <2>3, <2>4 DEF ReadRestoreSource
<1>15. ASSUME NEW k \in Paths, PutRestored(p, k) PROVE CommandInv(p)'
  <2>1. pc[p] = "restore_put" /\ pc[p] \in RestoreStages /\ k \in todo[p] /\ UNCHANGED tree
    BY <1>15 DEF PutRestored, First, RestoreStages
  <2>2. PICK after \in Contents, raised \in BOOLEAN :
          /\ latest' = Set(latest, k, after)
          /\ IF raised THEN Restored(p, k, FALSE) ELSE Continue(p, "restore_get", todo[p])
    BY <1>15 DEF PutRestored
  <2>3. \A j \in Paths \ {k} : latest'[j] = latest[j]
    BY <1>t, <2>2 DEF Set, StoreType
  <2>4. CASE raised
    BY <2>1, <2>2, <2>3, <2>4, RestoredStep
  <2>5. CASE ~raised
    <3>1. Enter(p, "restore_get", todo[p]) /\ UNCHANGED <<job, flags>>
      BY <2>2, <2>5 DEF Continue
    <3>2. pc'[p] = "restore_get" /\ todo'[p] = todo[p]
      BY <1>t, <3>1, EnterEffect DEF Stages
    <3>3. Source(p)' = Source(p) /\ failed' = failed
      BY <3>1 DEF Source, job, flags
    <3>4. ~failed[p] => \A j \in Artifacts[Source(p)] \ todo[p] : latest[j] = Source(p)
      BY <2>1 DEF CommandInv, LatestWritten
    <3>5. ~failed[p] => \A j \in Artifacts[Source(p)] \ todo[p] : latest'[j] = Source(p)
      BY <1>u, <2>1, <2>3, <3>4
    <3>6. LatestWritten(p)'
      BY <3>2, <3>3, <3>5 DEF LatestWritten, IndexStages, RootStages
    <3> QED
      BY <1>c, <1>t, <2>1, <3>1, <3>6 DEF IndexStages
  <2> QED
    BY <2>4, <2>5
<1>16. ASSUME NEW k \in Paths, VerifyRestored(p, k) PROVE CommandInv(p)'
  <2>1. pc[p] = "restore_get" /\ k \in todo[p] /\ UNCHANGED <<tree, latest>>
    BY <1>16 DEF VerifyRestored, First, bucket
  <2>2. PICK good \in BOOLEAN : Matches(latest[k], Source(p), good) /\ Restored(p, k, good)
    BY <1>16 DEF VerifyRestored
  <2>3. good => latest[k] = Source(p)
    BY <2>2 DEF Matches
  <2> QED
    BY <2>1, <2>2, <2>3, RestoredStep
<1>i. ASSUME pc[p] \in IndexStages
      PROVE  \A k \in Artifacts[Source(p)] : latest[k] \in {Source(p)} \cup Unread(p)
  BY <1>i DEF CommandInv, LatestWritten
<1>j. ASSUME pc[p] \in IndexStages, NEW stage \in {"index_put", "index_get"}, NEW raised \in BOOLEAN,
             RaiseOr(p, raised, stage, {}), UNCHANGED <<tree, latest>>,
             IndexPath \in Artifacts[Source(p)]
      PROVE  CommandInv(p)'
  <2>1. CASE raised
    BY <1>j, <2>1, CommandRaise DEF RaiseOr
  <2>2. CASE ~raised
    <3>1. Enter(p, stage, {}) /\ UNCHANGED <<job, flags>>
      BY <1>j, <2>2 DEF RaiseOr, Continue
    <3>2. pc'[p] = stage
      BY <1>t, <3>1, EnterEffect DEF Stages
    <3>3. Source(p)' = Source(p) /\ Unread(p)' = Unread(p)
      BY <3>1 DEF Source, Unread, job
    <3>4. LatestWritten(p)'
      BY <1>i, <1>j, <3>2, <3>3 DEF LatestWritten
    <3> QED
      BY <1>c, <1>j, <3>1, <3>4
  <2> QED
    BY <2>1, <2>2
<1>17. CASE ReadIndex(p)
  <2>1. /\ pc[p] \in IndexStages /\ IndexPath \in Artifacts[Source(p)] /\ UNCHANGED <<tree, latest>>
        /\ \E good \in BOOLEAN : RaiseOr(p, ~good, "index_put", {})
    BY <1>17 DEF ReadIndex, IndexStages, bucket
  <2> QED
    BY <1>j, <2>1
<1>18. CASE DeleteRootIndex(p)
  <2>1. pc[p] \in IndexStages /\ IndexPath \notin Artifacts[Source(p)] /\ UNCHANGED <<tree, latest>>
    BY <1>18 DEF DeleteRootIndex, IndexStages
  <2>2. PICK after \in Contents, raised \in BOOLEAN :
          /\ Call(index, None, after, raised)
          /\ index' = after
          /\ IF raised THEN Raise(p) ELSE IndexDone(p)
    BY <1>18 DEF DeleteRootIndex
  <2>3. CASE raised
    BY <2>2, <2>3, CommandRaise
  <2>4. CASE ~raised
    <3>1. index' = IndexOf(Source(p)) /\ IndexDone(p)
      BY <2>1, <2>2, <2>4 DEF Call, IndexOf
    <3> QED
      BY <2>1, <3>1, IndexStep
  <2> QED
    BY <2>3, <2>4
<1>19. CASE PutRootIndex(p)
  <2>1. /\ pc[p] \in IndexStages /\ UNCHANGED <<tree, latest>>
        /\ \E raised \in BOOLEAN : RaiseOr(p, raised, "index_get", {})
    BY <1>19 DEF PutRootIndex, IndexStages
  <2>2. IndexPath \in Artifacts[Source(p)]
    BY <1>19 DEF PutRootIndex, CommandInv, RootWritten
  <2> QED
    BY <1>j, <2>1, <2>2
<1>20. CASE VerifyRootIndex(p)
  <2>1. /\ pc[p] \in IndexStages /\ UNCHANGED <<tree, latest, index>>
        /\ IndexPath \in Artifacts[Source(p)]
    BY <1>20 DEF VerifyRootIndex, IndexStages, bucket, CommandInv, RootWritten
  <2>2. PICK good \in BOOLEAN : /\ Matches(index, Source(p), good)
                               /\ IF good THEN IndexDone(p) ELSE Raise(p)
    BY <1>20 DEF VerifyRootIndex
  <2>3. CASE good
    <3>1. index' = IndexOf(Source(p)) /\ IndexDone(p)
      BY <2>1, <2>2, <2>3 DEF Matches, IndexOf
    <3> QED
      BY <2>1, <3>1, IndexStep
  <2>4. CASE ~good
    BY <2>2, <2>4, CommandRaise
  <2> QED
    BY <2>3, <2>4
<1>21. CASE PutSums(p)
  <2>1. pc[p] = "sums" /\ mode[p] # "cleanup" /\ UNCHANGED <<latest, index>>
    BY <1>21, <1>t DEF PutSums, StageInv, RootStages
  <2>2. PICK after \in Contents, raised \in BOOLEAN :
          /\ Put(sums, version[p], after, raised)
          /\ sums' = after
          /\ RaiseOr(p, raised, "pointer", {})
    BY <1>21 DEF PutSums
  <2>3. CASE raised
    BY <2>2, <2>3, CommandRaise DEF RaiseOr
  <2>4. CASE ~raised
    <3>1. pc'[p] = "pointer" /\ UNCHANGED <<mode, version>>
      BY <1>t, <2>2, <2>4, ContinueEffect DEF RaiseOr, Stages
    <3>2. Source(p) = version[p] /\ Source(p)' = Source(p) /\ Unread(p)' = Unread(p)
      BY <2>1, <3>1 DEF Source, Unread
    <3>3. after \in {version[p], Corrupt}
      BY <2>2, <2>4 DEF Put, Call
    <3>4. \A k \in Artifacts[Source(p)] : latest[k] \in {Source(p)} \cup Unread(p)
      BY <2>1 DEF CommandInv, LatestWritten, RootStages
    <3>5. index = IndexOf(version[p])
      BY <2>1 DEF CommandInv, RootWritten, RootStages
    <3>6. LatestWritten(p)'
      BY <2>1, <3>1, <3>2, <3>4 DEF LatestWritten
    <3>7. RootWritten(p)'
      BY <2>1, <2>2, <3>1, <3>3, <3>5 DEF RootWritten, IndexOf
    <3> QED
      BY <2>1, <3>1, <3>6, <3>7 DEF CommandInv, TreeGone, Clean, CleanupDone
  <2> QED
    BY <2>3, <2>4
<1>22. CASE PutPointer(p)
  <2>1. \E raised \in BOOLEAN, stage \in {"finalize", "rolled_back"} : RaiseOr(p, raised, stage, {})
    BY <1>22 DEF PutPointer
  <2> QED
    BY <1>r, <2>1
<1> QED
  BY <1>1, <1>2, <1>3, <1>4, <1>5, <1>6, <1>7, <1>8, <1>9, <1>10, <1>11, <1>12, <1>13, <1>14, <1>15,
     <1>16, <1>17, <1>18, <1>19, <1>20, <1>21, <1>22
     DEF Step, Publish, Cleanup, Shared

\* A command that starts has brought about nothing yet, and moves no other one.
LEMMA CommandStarts ==
  ASSUME TypeInv, NEW p \in Procs, ReadLiveManifest(p) \/ Republish(p) \/ StartRollback(p)
  PROVE  CommandInv(p)' /\ Active(p)' /\ \A q \in Procs \ {p} : pc'[q] = pc[q]
<1>t. JobType /\ StoreType
  BY DEF TypeInv, TypeOK
<1>1. CASE ReadLiveManifest(p) \/ Republish(p)
  <2>1. PICK stage \in {"building", "draft"} : Enter(p, stage, {})
    BY <1>1 DEF ReadLiveManifest, Republish, StartPublish
  <2>2. stage \in (Ended \cup Stages) \ Telling
    BY QuietStages
  <2>3. pc'[p] = stage /\ \A q \in Procs \ {p} : pc'[q] = pc[q]
    BY <1>t, <2>1, <2>2, EnterEffect
  <2>4. Active(p)'
    BY <2>3 DEF Active, Ended
  <2> QED
    BY <2>2, <2>3, <2>4, QuietCommand
<1>2. CASE StartRollback(p)
  <2>1. PICK v \in published : /\ mode' = Set(mode, p, "rollback")
                              /\ Enter(p, "restore_read", Artifacts[v])
    BY <1>2 DEF StartRollback
  <2>2. Artifacts[v] \in SUBSET Paths /\ "restore_read" \in Ended \cup Stages
    BY <1>t, ArtifactPaths DEF StoreType, Stages
  <2>3. pc'[p] = "restore_read" /\ mode'[p] = "rollback" /\ \A q \in Procs \ {p} : pc'[q] = pc[q]
    BY <1>t, <2>1, <2>2, EnterEffect DEF Set, JobType
  <2>4. Active(p)'
    BY <2>3 DEF Active, Ended
  <2> QED
    BY <2>3, <2>4 DEF CommandInv, TreeGone, Clean, LatestWritten, RootWritten, CleanupDone,
                      IndexStages, RootStages
<1> QED
  BY <1>1, <1>2

\* A call, or the death, of a command that runs moves no other one.
LEMMA StepMoves ==
  ASSUME TypeInv, NEW p \in Procs, Step(p) \/ Crash(p)
  PROVE  Active(p) /\ \A q \in Procs \ {p} : pc'[q] = pc[q]
<1>t. JobType
  BY DEF TypeInv, TypeOK
<1>m. ASSUME pc' = pc \/ (\E stage, items : Enter(p, stage, items)) \/ Raise(p)
      PROVE  \A q \in Procs \ {p} : pc'[q] = pc[q]
  <2>1. pc' = pc \/ \E stage, items : Enter(p, stage, items)
    BY <1>m DEF Raise
  <2> QED
    BY <1>t, <2>1 DEF Enter, Set, JobType
<1>a. pc[p] \in Stages => Active(p)
  BY DEF Stages, Active, Ended
<1>1. CASE Crash(p)
  BY <1>1, <1>m DEF Crash
<1>2. CASE NoRelease(p) \/ BuildRelease(p) \/ CreateDraft(p)
  BY <1>2, <1>a, <1>m DEF NoRelease, BuildRelease, StartPublish, CreateDraft, Stages
<1>3. CASE JoinTree(p) \/ PutReleaseManifest(p) \/ VerifyReleaseManifest(p) \/ JoinLatest(p) \/ Finalize(p)
  BY <1>3, <1>a, <1>m DEF JoinTree, PutReleaseManifest, VerifyReleaseManifest, JoinLatest, Finalize,
                         RaiseOr, Continue, Stages
<1>4. ASSUME NEW k \in Paths, \/ UploadAsset(p, k) \/ PutTreeObject(p, k) \/ VerifyTreeObject(p, k)
                              \/ CopyToLatest(p, k)
      PROVE  Active(p) /\ \A q \in Procs \ {p} : pc'[q] = pc[q]
  <2>1. CASE UploadAsset(p, k)
    BY <1>a, <1>m, <2>1 DEF UploadAsset, Advance, Stages
  <2>2. CASE PutTreeObject(p, k) \/ VerifyTreeObject(p, k) \/ CopyToLatest(p, k)
    BY <1>a, <1>m, <2>2 DEF PutTreeObject, VerifyTreeObject, CopyToLatest, Worked, Stages
  <2> QED
    BY <1>4, <2>1, <2>2
<1>5. CASE DeleteDraft(p) \/ ListTree(p) \/ ForgetIndex(p)
  BY <1>5, <1>a, <1>m DEF DeleteDraft, ListTree, ForgetIndex, AfterDelete, Stages
<1>6. ASSUME NEW k \in Paths, DeleteTreeObject(p, k)
      PROVE  Active(p) /\ \A q \in Procs \ {p} : pc'[q] = pc[q]
  BY <1>6, <1>a, <1>m DEF DeleteTreeObject, AfterDelete, Stages
<1>7. ASSUME NEW k \in Paths, ReadRestoreSource(p, k) \/ PutRestored(p, k) \/ VerifyRestored(p, k)
      PROVE  Active(p) /\ \A q \in Procs \ {p} : pc'[q] = pc[q]
  <2>1. pc[p] \in Stages
    BY <1>7 DEF ReadRestoreSource, PutRestored, VerifyRestored, Stages
  <2>2. CASE ReadRestoreSource(p, k)
    BY <1>a, <1>m, <2>1, <2>2 DEF ReadRestoreSource, Advance
  <2>3. ASSUME NEW ok, Restored(p, k, ok) PROVE \A q \in Procs \ {p} : pc'[q] = pc[q]
    BY <1>m, <2>3 DEF Restored, RaiseOr, Continue
  <2>4. CASE PutRestored(p, k) \/ VerifyRestored(p, k)
    BY <1>a, <1>m, <2>1, <2>3, <2>4 DEF PutRestored, VerifyRestored, Continue
  <2> QED
    BY <1>7, <2>2, <2>4
<1>8. CASE ReadIndex(p) \/ DeleteRootIndex(p) \/ PutRootIndex(p) \/ VerifyRootIndex(p)
  <2>1. pc[p] \in Stages
    BY <1>8 DEF ReadIndex, DeleteRootIndex, PutRootIndex, VerifyRootIndex, Stages
  <2>2. pc' = pc \/ (\E stage, items : Enter(p, stage, items)) \/ Raise(p)
    BY <1>8 DEF ReadIndex, DeleteRootIndex, PutRootIndex, VerifyRootIndex, IndexDone, RaiseOr, Continue
  <2> QED
    BY <1>a, <1>m, <2>1, <2>2
<1>9. CASE PutSums(p) \/ PutPointer(p)
  BY <1>9, <1>a, <1>m DEF PutSums, PutPointer, RaiseOr, Continue, Stages
<1> QED
  BY <1>1, <1>2, <1>3, <1>4, <1>5, <1>6, <1>7, <1>8, <1>9 DEF Step, Publish, Cleanup, Shared

\* Nothing is known of any command at the start.
LEMMA CommandInit == Init => \A p \in Procs : CommandInv(p)
<1> SUFFICES ASSUME Init, NEW p \in Procs PROVE CommandInv(p)
  OBVIOUS
<1>1. pc[p] = "idle"
  BY DEF Init
<1> QED
  BY <1>1 DEF CommandInv, TreeGone, Clean, LatestWritten, RootWritten, CleanupDone,
              AfterDraft, AfterTree, RestoreStages, IndexStages, RootStages

\* What is known of a command does not change when nothing does.
LEMMA CommandStutters ==
  ASSUME NEW p \in Procs, CommandInv(p), UNCHANGED vars
  PROVE  CommandInv(p)'
<1>1. /\ UNCHANGED <<tree, latest, index, sums, pc, mode, version, previous>>
      /\ UNCHANGED <<todo, failed, drafted, touched, problem>>
  BY DEF vars, bucket, job, work, flags
<1>2. TreeGone(p)'
  BY <1>1 DEF CommandInv, TreeGone, Clean
<1>3. LatestWritten(p)' /\ RootWritten(p)' /\ CleanupDone(p)'
  BY <1>1 DEF CommandInv, LatestWritten, RootWritten, CleanupDone, Source, Unread, RestoredTo, IndexOf
<1> QED
  BY <1>2, <1>3 DEF CommandInv

----------------------------------------------------------------------------
\* There is one place to run commands, which makes them run one after the other.
OnePlace == \A p, q \in Procs : p = q

\* Commands run wherever they like, but no two of them at a time.
OneAtATime == \A p, q \in Procs : Active(p) /\ Active(q) => p = q

\* When a failed publication reports that it was cleaned up, nothing of it is left, whatever
\* failed on the way: every problem of _cleanup_failed_publication is reported.  Of a second
\* publication of a dist the releases of the first are left, so there is none here.
THEOREM CleanedUpIsClean ==
  ASSUME OnePlace, ~Republishing
  PROVE  Spec => []CleanedUp
<1> DEFINE Inv == \A p \in Procs : CommandInv(p)
<1>1. Init => TypeInv /\ Inv
  BY TypeInit, CommandInit
<1>2. TypeInv /\ Inv /\ [Next]_vars => Inv'
  <2>1. SUFFICES ASSUME TypeInv, Inv, [Next]_vars, NEW p \in Procs PROVE CommandInv(p)'
    OBVIOUS
  <2>2. CASE UNCHANGED vars
    BY <2>1, <2>2, CommandStutters
  <2>3. ASSUME NEW q \in Procs, ReadLiveManifest(q) \/ Republish(q) \/ StartRollback(q)
        PROVE  CommandInv(p)'
    <3>1. CommandInv(q)'
      BY <2>1, <2>3, CommandStarts
    <3>2. p = q
      BY DEF OnePlace
    <3> QED
      BY <3>1, <3>2
  <2>4. ASSUME NEW q \in Procs, Step(q) \/ Crash(q) PROVE CommandInv(p)'
    <3>1. CommandInv(q)'
      BY <2>1, <2>4, CommandStep
    <3>2. p = q
      BY DEF OnePlace
    <3> QED
      BY <3>1, <3>2
  <2> QED
    BY <2>1, <2>2, <2>3, <2>4 DEF Next, Procs
<1>3. TypeInv /\ Inv /\ GithubInv => CleanedUp
  <2>1. SUFFICES ASSUME TypeInv, Inv, GithubInv, NEW p \in Procs, pc[p] = "cleaned"
                 PROVE  /\ drafted[p] => github[version[p]] = {}
                        /\ \A k \in Paths : tree[version[p]][k] = None
                        /\ touched[p] => previous[p] # None /\ RestoredTo(previous[p])
    BY DEF CleanedUp
  <2>2. CommandInv(p) /\ Clean(p, AfterDraft) /\ Clean(p, AfterTree)
    BY <2>1 DEF CommandInv, CleanupDone, Clean, AfterDraft, AfterTree
  <2>3. drafted[p] => github[version[p]] = {}
    BY <2>1, <2>2 DEF CommandInv, CleanupDone, GithubInv, ReleaseInv, HeldInv, Owner
  <2> QED
    BY <2>1, <2>2, <2>3 DEF CommandInv, TreeGone, CleanupDone
<1> QED
  <2>1. TypeInv /\ [Next]_vars => TypeInv'
    BY TypeNext
  <2>2. TypeInv /\ GithubInv /\ [Next]_vars => GithubInv'
    BY GithubNext
  <2> QED
    BY <1>1, <1>2, <1>3, <2>1, <2>2, GithubInit, PTL DEF Spec

\* The pointer moves last, in a publication and in a rollback: when it names a version, what
\* else is to be read of it has been written, and read back where the code does so.
LEMMA PointerMoves ==
  ASSUME TypeInv, NEW p \in Procs, CommandInv(p), PutPointer(p), pointer' \in Versions \ {pointer}
  PROVE  /\ sums' \in {pointer', Corrupt}
         /\ index' = IndexOf(pointer')
         /\ \A k \in Artifacts[pointer'] :
              latest'[k] \in {pointer'} \cup
                {c \in {Corrupt} : \E q \in Procs : pc[q] = "pointer" /\ mode[q] = "publish"}
<1>1. PICK after \in Contents, raised \in BOOLEAN : /\ PutRootManifest(p, after, raised)
                                                   /\ pointer' = after
  BY DEF PutPointer
<1>2. pointer' = version[p]
  BY <1>1, ValuesAssumption DEF PutRootManifest
<1>3. pc[p] = "pointer" /\ mode[p] # "cleanup" /\ UNCHANGED <<latest, index, sums>>
  BY DEF PutPointer, TypeInv, StageInv, RootStages
<1>4. Source(p) = version[p]
  BY <1>3 DEF Source
<1>5. sums \in {version[p], Corrupt} /\ index = IndexOf(version[p])
  BY <1>3 DEF CommandInv, RootWritten, RootStages
<1>6. \A k \in Artifacts[version[p]] : latest[k] \in {version[p]} \cup Unread(p)
  BY <1>3, <1>4 DEF CommandInv, LatestWritten, RootStages
<1>7. Unread(p) \subseteq {c \in {Corrupt} : \E q \in Procs : pc[q] = "pointer" /\ mode[q] = "publish"}
  BY <1>3 DEF Unread
<1> QED
  BY <1>2, <1>3, <1>5, <1>6, <1>7

\* The pointer moves last in every behaviour in which no two commands run at a time.
THEOREM PointerMovesLast == Spec /\ []OneAtATime => PointerLast
<1> DEFINE Inv == \A p \in Procs : Active(p) => CommandInv(p)
<1>1. Init => TypeInv /\ Inv
  BY TypeInit, CommandInit
<1>2. TypeInv /\ Inv /\ OneAtATime /\ OneAtATime' /\ [Next]_vars => Inv'
  <2>1. SUFFICES ASSUME TypeInv, Inv, OneAtATime, OneAtATime', [Next]_vars,
                        NEW p \in Procs, Active(p)'
                 PROVE  CommandInv(p)'
    OBVIOUS
  <2>2. CASE UNCHANGED vars
    <3>1. Active(p)
      BY <2>1, <2>2 DEF Active, vars
    <3> QED
      BY <2>1, <2>2, <3>1, CommandStutters
  <2>3. ASSUME NEW q \in Procs, ReadLiveManifest(q) \/ Republish(q) \/ StartRollback(q)
        PROVE  CommandInv(p)'
    <3>1. CommandInv(q)' /\ Active(q)'
      BY <2>1, <2>3, CommandStarts
    <3>2. p = q
      BY <2>1, <3>1 DEF OneAtATime
    <3> QED
      BY <3>1, <3>2
  <2>4. ASSUME NEW q \in Procs, Step(q) \/ Crash(q) PROVE CommandInv(p)'
    <3>1. Active(q) /\ \A r \in Procs \ {q} : pc'[r] = pc[r]
      BY <2>1, <2>4, StepMoves
    <3>2. p = q
      BY <2>1, <3>1 DEF OneAtATime, Active
    <3> QED
      BY <2>1, <2>4, <3>1, <3>2, CommandStep
  <2> QED
    BY <2>1, <2>2, <2>3, <2>4 DEF Next, Procs
<1>3. TypeInv /\ Inv /\ [Next]_vars
      => [pointer' \in Versions \ {pointer} =>
            /\ sums' \in {pointer', Corrupt}
            /\ index' = IndexOf(pointer')
            /\ \A k \in Artifacts[pointer'] :
                 latest'[k] \in {pointer'} \cup
                   {c \in {Corrupt} : \E p \in Procs : pc[p] = "pointer" /\ mode[p] = "publish"}]_vars
  <2>1. SUFFICES ASSUME TypeInv, Inv, [Next]_vars, pointer' \in Versions \ {pointer}
                 PROVE  /\ sums' \in {pointer', Corrupt}
                        /\ index' = IndexOf(pointer')
                        /\ \A k \in Artifacts[pointer'] :
                             latest'[k] \in {pointer'} \cup
                               {c \in {Corrupt} :
                                  \E p \in Procs : pc[p] = "pointer" /\ mode[p] = "publish"}
    OBVIOUS
  <2>2. PICK p \in Procs : PutPointer(p)
    BY <2>1, PointerWriters
  <2>3. Active(p)
    BY <2>2 DEF PutPointer, Active, Ended
  <2> QED
    BY <2>1, <2>2, <2>3, PointerMoves
<1> QED
  <2>1. TypeInv /\ [Next]_vars => TypeInv'
    BY TypeNext
  <2> QED
    BY <1>1, <1>2, <1>3, <2>1, PTL DEF Spec, PointerLast

----------------------------------------------------------------------------
\* What a command has verified of the tree it is about to make live, whatever an earlier
\* command has done to it.
ReadStages == {"manifest_put", "manifest_get", "latest", "restore_put", "restore_get"}
              \cup IndexStages \cup RootStages

TreeRead(p) ==
  /\ pc[p] = "tree" /\ ~failed[p] => Uploaded(p, Artifacts[version[p]] \ (todo[p] \cup busy[p]))
  /\ pc[p] = "restore_read" /\ mode[p] = "rollback"
     => Uploaded(p, Artifacts[version[p]] \ todo[p])
  /\ pc[p] \in ReadStages /\ mode[p] # "cleanup" => Uploaded(p, Artifacts[version[p]])

\* Nothing needs to be known of the other stages, nor of those a cleanup shares.
LEMMA ReadQuiet ==
  ASSUME NEW p \in Procs, pc'[p] # "tree",
         mode'[p] = "cleanup" \/ pc'[p] \notin ReadStages \cup {"restore_read"}
  PROVE  TreeRead(p)'
BY DEF TreeRead

\* From one verified stage to the next.
LEMMA ReadOn ==
  ASSUME NEW p \in Procs, TreeRead(p), pc[p] \in ReadStages,
         UNCHANGED <<tree, mode, version>>, pc'[p] \notin {"tree", "restore_read"}
  PROVE  TreeRead(p)'
BY DEF TreeRead, Uploaded

\* The stages that follow one another, or that are followed by the end of the command.
LEMMA ReadNext ==
  ASSUME TypeInv, NEW p \in Procs, TreeRead(p), UNCHANGED tree,
         pc[p] \in ReadStages, NEW stage \in ReadStages \cup Ended \cup {"finalize"},
         \/ Raise(p)
         \/ pc' = pc /\ UNCHANGED <<mode, version>>
         \/ \E items : Enter(p, stage, items) /\ UNCHANGED <<mode, version>>
  PROVE  TreeRead(p)'
<1>t. JobType
  BY DEF TypeInv, TypeOK
<1>d. \A s \in ReadStages \cup Ended \cup {"finalize"} : s \notin {"tree", "restore_read"}
  BY DEF ReadStages, IndexStages, RootStages, Ended
<1>1. CASE Raise(p)
  <2>1. pc'[p] \in {"delete_draft", "list_tree", "uncleaned", "rollback_failed"}
    BY <1>t, <1>1, RaiseEffect DEF JobType
  <2> QED
    BY <2>1, ReadQuiet DEF ReadStages, IndexStages, RootStages
<1>2. CASE pc' = pc /\ UNCHANGED <<mode, version>>
  BY <1>d, <1>2, ReadOn
<1>3. ASSUME NEW items, Enter(p, stage, items), UNCHANGED <<mode, version>>
      PROVE  TreeRead(p)'
  <2>1. pc'[p] = stage
    BY <1>t, <1>3 DEF Enter, Set, JobType
  <2> QED
    BY <1>d, <1>3, <2>1, ReadOn
<1> QED
  BY <1>1, <1>2, <1>3

\* Whatever a command does itself keeps what it has verified.
LEMMA ReadStep ==
  ASSUME TypeInv, NEW p \in Procs, TreeRead(p), Step(p) \/ Crash(p)
  PROVE  TreeRead(p)'
<1>t. /\ JobType /\ StoreType /\ StageInv(p) /\ failed[p] \in BOOLEAN
      /\ mode[p] \in {"publish", "cleanup", "rollback"}
  BY DEF TypeInv, TypeOK, JobType
<1>w. ASSUME pc[p] \in Stages \ {"building"}
      PROVE  version[p] \in Versions /\ Artifacts[version[p]] \in SUBSET (Paths \ {ManifestPath})
  <2>1. Working(p)
    BY <1>w DEF Working, Active, Ended, Stages
  <2> QED
    BY <2>1, ArtifactsAssumption DEF TypeInv, Bound
<1>e. ASSUME NEW stage, NEW items, Enter(p, stage, items)
      PROVE  pc'[p] = stage /\ todo'[p] = items /\ busy'[p] = {}
  BY <1>t, <1>e DEF Enter, Set, JobType
<1>x. ASSUME Raise(p) PROVE TreeRead(p)'
  <2>1. pc'[p] \in {"delete_draft", "list_tree", "uncleaned", "rollback_failed"}
    BY <1>t, <1>x, RaiseEffect
  <2> QED
    BY <2>1, ReadQuiet DEF ReadStages, IndexStages, RootStages
<1>q. ASSUME NEW stage \in Ended \cup {"building", "draft", "assets"}, NEW items,
             Enter(p, stage, items)
      PROVE  TreeRead(p)'
  <2>1. stage \notin ReadStages \cup {"restore_read", "tree"}
    BY DEF ReadStages, IndexStages, RootStages, Ended
  <2> QED
    BY <1>e, <1>q, <2>1, ReadQuiet
<1>1. CASE NoRelease(p) \/ BuildRelease(p) \/ CreateDraft(p) \/ Crash(p) \/ Finalize(p)
  <2>1. Raise(p) \/ \E stage \in Ended \cup {"building", "draft", "assets"} : \E items :
                      Enter(p, stage, items)
    BY <1>1 DEF NoRelease, BuildRelease, StartPublish, CreateDraft, Crash, Finalize, Continue, Ended
  <2> QED
    BY <1>x, <1>q, <2>1
<1>2. ASSUME NEW k \in Paths, UploadAsset(p, k) PROVE TreeRead(p)'
  <2>1. \/ Raise(p) \/ Enter(p, "assets", todo[p] \ {k})
        \/ Enter(p, "tree", Artifacts[version[p]]) /\ UNCHANGED version
    BY <1>2 DEF UploadAsset, Advance, job
  <2>2. CASE Enter(p, "tree", Artifacts[version[p]]) /\ UNCHANGED version
    <3>1. pc'[p] = "tree" /\ todo'[p] = Artifacts[version[p]] /\ version'[p] = version[p]
      BY <1>e, <2>2
    <3> QED
      BY <3>1 DEF TreeRead, Uploaded, ReadStages, IndexStages, RootStages
  <2> QED
    BY <1>x, <1>q, <2>1, <2>2
<1>3. ASSUME NEW k \in Paths, PutTreeObject(p, k) PROVE TreeRead(p)'
  <2>1. /\ pc[p] = "tree" /\ pc' = pc /\ UNCHANGED <<mode, version>> /\ k \in todo[p]
        /\ version[p] \in Versions /\ Artifacts[version[p]] \in SUBSET Paths
    BY <1>3, <1>w DEF PutTreeObject, Running, Worked, job, Stages
  <2>2. \A j \in Paths \ {k} : tree'[version[p]][j] = tree[version[p]][j]
    BY <1>3, <1>t, <2>1 DEF PutTreeObject, StoreType
  <2>3. \/ failed'[p]
        \/ failed'[p] = failed[p] /\ todo'[p] \cup busy'[p] = todo[p] \cup busy[p]
    <3>1. PICK raised \in BOOLEAN :
            IF raised THEN Worked(p, k, FALSE)
            ELSE /\ todo' = Set(todo, p, todo[p] \ {k})
                 /\ busy' = Set(busy, p, busy[p] \cup {k})
                 /\ UNCHANGED <<pc, flags>>
      BY <1>3 DEF PutTreeObject
    <3>2. CASE raised
      BY <1>t, <3>1, <3>2 DEF Worked, Set, JobType
    <3>3. CASE ~raised
      BY <1>t, <2>1, <3>1, <3>3 DEF Set, JobType, flags
    <3> QED
      BY <3>2, <3>3
  <2> QED
    BY <2>1, <2>2, <2>3 DEF TreeRead, Uploaded, ReadStages, IndexStages, RootStages
<1>4. ASSUME NEW k \in Paths, VerifyTreeObject(p, k) PROVE TreeRead(p)'
  <2>1. pc[p] = "tree" /\ UNCHANGED <<pc, mode, version, tree>>
    BY <1>4 DEF VerifyTreeObject, Worked, job, bucket
  <2>2. PICK good \in BOOLEAN : Matches(tree[version[p]][k], version[p], good) /\ Worked(p, k, good)
    BY <1>4 DEF VerifyTreeObject
  <2>3. /\ todo'[p] = todo[p] \ {k} /\ busy'[p] = busy[p] \ {k}
        /\ failed'[p] <=> failed[p] \/ ~good
    BY <1>t, <2>2 DEF Worked, Set, JobType
  <2>4. good => tree[version[p]][k] = version[p]
    BY <2>2 DEF Matches
  <2> QED
    BY <2>1, <2>3, <2>4 DEF TreeRead, Uploaded, ReadStages, IndexStages, RootStages
<1>5. CASE JoinTree(p)
  <2>1. CASE Raise(p)
    BY <1>x, <2>1
  <2>2. CASE ~Raise(p)
    <3>1. /\ pc[p] = "tree" /\ todo[p] \cup busy[p] = {} /\ ~failed[p]
          /\ Enter(p, "manifest_put", {}) /\ UNCHANGED <<tree, version>>
      BY <1>5, <2>2 DEF JoinTree, RaiseOr, Continue, job, bucket
    <3>2. pc'[p] = "manifest_put" /\ Uploaded(p, Artifacts[version[p]])
      BY <1>e, <3>1 DEF TreeRead
    <3> QED
      BY <3>1, <3>2 DEF TreeRead, Uploaded
  <2> QED
    BY <2>1, <2>2
<1>6. CASE PutReleaseManifest(p)
  <2>1. CASE Raise(p)
    BY <1>x, <2>1
  <2>2. CASE ~Raise(p)
    <3>1. /\ pc[p] = "manifest_put" /\ Enter(p, "manifest_get", {}) /\ UNCHANGED <<mode, version>>
          /\ \E after \in Contents : tree' = [tree EXCEPT ![version[p]][ManifestPath] = after]
      BY <1>6, <2>2 DEF PutReleaseManifest, RaiseOr, Continue, job
    <3>2. version[p] \in Versions /\ Artifacts[version[p]] \in SUBSET (Paths \ {ManifestPath})
      BY <1>w, <3>1 DEF Stages
    <3>3. \A j \in Artifacts[version[p]] : tree'[version[p]][j] = tree[version[p]][j]
      BY <1>t, <3>1, <3>2 DEF StoreType
    <3>4. pc'[p] = "manifest_get"
      BY <1>e, <3>1
    <3> QED
      BY <3>1, <3>3, <3>4 DEF TreeRead, Uploaded, ReadStages
  <2> QED
    BY <2>1, <2>2
<1>7. CASE VerifyReleaseManifest(p) \/ JoinLatest(p)
  <2>1. /\ pc[p] \in ReadStages /\ UNCHANGED tree
        /\ Raise(p) \/ \E stage \in ReadStages : \E items :
                         Enter(p, stage, items) /\ UNCHANGED <<mode, version>>
    BY <1>7 DEF VerifyReleaseManifest, JoinLatest, RaiseOr, Continue, ReadStages, IndexStages, job, bucket
  <2> QED
    BY <1>x, <2>1, ReadNext
<1>8. ASSUME NEW k \in Paths, CopyToLatest(p, k) PROVE TreeRead(p)'
  <2>1. pc[p] \in ReadStages /\ UNCHANGED <<tree, pc, mode, version>>
    BY <1>8 DEF CopyToLatest, Worked, job, ReadStages
  <2> QED
    BY <2>1, ReadNext
<1>9. ASSUME Cleanup(p) PROVE TreeRead(p)'
  <2>1. pc[p] \in CleanupStages /\ UNCHANGED mode
    BY <1>9 DEF Cleanup, DeleteDraft, ListTree, ForgetIndex, DeleteTreeObject, CleanupStages, job
  <2>2. mode'[p] = "cleanup"
    BY <1>t, <2>1 DEF StageInv
  <2>3. \E stage \in {"list_tree", "delete_tree", "uncleaned", "cleaned", "forget_index", "restore_read"} :
          \E items : Enter(p, stage, items)
    <3>1. ASSUME NEW raised, AfterDelete(p, raised)
          PROVE  \E stage \in {"uncleaned", "cleaned", "forget_index", "restore_read"} : \E items :
                   Enter(p, stage, items)
      BY <3>1 DEF AfterDelete
    <3>2. CASE DeleteDraft(p) \/ ForgetIndex(p)
      BY <3>2 DEF DeleteDraft, ForgetIndex
    <3>3. CASE ListTree(p)
      BY <3>1, <3>3 DEF ListTree
    <3>4. ASSUME NEW k \in Paths, DeleteTreeObject(p, k)
          PROVE  (\E raised : AfterDelete(p, raised)) \/ Enter(p, "delete_tree", todo[p] \ {k})
      BY <3>4 DEF DeleteTreeObject
    <3> QED
      BY <1>9, <3>1, <3>2, <3>3, <3>4 DEF Cleanup
  <2>4. pc'[p] # "tree"
    BY <1>e, <2>3
  <2> QED
    BY <2>2, <2>4, ReadQuiet
<1>10. ASSUME NEW k \in Paths, ReadRestoreSource(p, k) PROVE TreeRead(p)'
  <2>1. CASE Raise(p)
    BY <1>x, <2>1
  <2>2. CASE ~Raise(p)
    <3>1. /\ pc[p] = "restore_read" /\ UNCHANGED <<tree, mode, version>>
          /\ tree[Source(p)][k] = Source(p) /\ Advance(p, k, "restore_put", Artifacts[Source(p)])
      BY <1>10, <2>2 DEF ReadRestoreSource, Matches, job, bucket
    <3>2. \/ todo[p] = {k} /\ pc'[p] = "restore_put"
          \/ pc'[p] = "restore_read" /\ todo'[p] = todo[p] \ {k}
      BY <1>e, <3>1 DEF Advance
    <3>3. CASE mode[p] = "cleanup"
      BY <3>1, <3>2, <3>3, ReadQuiet
    <3>4. CASE mode[p] # "cleanup"
      <4>1. Source(p) = version[p] /\ mode[p] = "rollback"
        BY <1>t, <3>1, <3>4 DEF Source, StageInv, RestoreStages
      <4>2. Uploaded(p, Artifacts[version[p]] \ (todo[p] \ {k}))
        BY <3>1, <4>1 DEF TreeRead, Uploaded
      <4> QED
        BY <3>1, <3>2, <4>1, <4>2 DEF TreeRead, Uploaded, ReadStages, IndexStages, RootStages
    <3> QED
      BY <3>3, <3>4
  <2> QED
    BY <2>1, <2>2
<1>11. ASSUME NEW k \in Paths, PutRestored(p, k) \/ VerifyRestored(p, k) PROVE TreeRead(p)'
  <2>1. pc[p] \in ReadStages /\ UNCHANGED tree
    BY <1>11 DEF PutRestored, VerifyRestored, ReadStages, bucket
  <2>2. ASSUME NEW ok, Restored(p, k, ok)
        PROVE  Raise(p) \/ \E stage \in ReadStages : \E items :
                             Enter(p, stage, items) /\ UNCHANGED <<mode, version>>
    BY <2>2 DEF Restored, RaiseOr, Continue, job, ReadStages, IndexStages
  <2>3. \/ \E ok \in BOOLEAN : Restored(p, k, ok)
        \/ Enter(p, "restore_get", todo[p]) /\ UNCHANGED <<mode, version>>
    BY <1>11 DEF PutRestored, VerifyRestored, Continue, job
  <2>4. Raise(p) \/ \E stage \in ReadStages : \E items :
                      Enter(p, stage, items) /\ UNCHANGED <<mode, version>>
    BY <2>2, <2>3 DEF ReadStages
  <2> QED
    BY <1>x, <2>1, <2>4, ReadNext
<1>12. CASE \/ ReadIndex(p) \/ DeleteRootIndex(p) \/ PutRootIndex(p) \/ VerifyRootIndex(p)
            \/ PutSums(p) \/ PutPointer(p)
  <2>1. pc[p] \in ReadStages /\ UNCHANGED tree
    BY <1>12 DEF ReadIndex, DeleteRootIndex, PutRootIndex, VerifyRootIndex, PutSums, PutPointer,
                 ReadStages, IndexStages, RootStages, bucket
  <2>2. IndexDone(p) => \E stage \in ReadStages \cup Ended : \E items :
                          Enter(p, stage, items) /\ UNCHANGED <<mode, version>>
    BY DEF IndexDone, Continue, job, ReadStages, RootStages, Ended
  <2>3. Raise(p) \/ IndexDone(p) \/ \E stage \in {"index_put", "index_get", "pointer", "finalize", "rolled_back"} :
                                      Continue(p, stage, {})
    BY <1>12 DEF ReadIndex, DeleteRootIndex, PutRootIndex, VerifyRootIndex, PutSums, PutPointer, RaiseOr
  <2>4. ASSUME NEW stage \in {"index_put", "index_get", "pointer", "finalize", "rolled_back"},
               Continue(p, stage, {})
        PROVE  \E s \in ReadStages \cup Ended \cup {"finalize"} : \E items :
                 Enter(p, s, items) /\ UNCHANGED <<mode, version>>
    BY <2>4 DEF Continue, job, ReadStages, IndexStages, RootStages, Ended
  <2>5. Raise(p) \/ \E stage \in ReadStages \cup Ended \cup {"finalize"} : \E items :
                      Enter(p, stage, items) /\ UNCHANGED <<mode, version>>
    BY <2>2, <2>3, <2>4
  <2> QED
    BY <1>x, <2>1, <2>5, ReadNext
<1> QED
  BY <1>1, <1>2, <1>3, <1>4, <1>5, <1>6, <1>7, <1>8, <1>9, <1>10, <1>11, <1>12
     DEF Step, Publish, Shared

\* A command that starts has verified nothing yet.
LEMMA ReadStarts ==
  ASSUME TypeInv, NEW p \in Procs, ReadLiveManifest(p) \/ Republish(p) \/ StartRollback(p)
  PROVE  TreeRead(p)'
<1>t. JobType /\ StoreType
  BY DEF TypeInv, TypeOK
<1>1. CASE ReadLiveManifest(p) \/ Republish(p)
  <2>1. pc'[p] \in {"building", "draft"}
    BY <1>t, <1>1 DEF ReadLiveManifest, Republish, StartPublish, Enter, Set, JobType
  <2> QED
    BY <2>1, ReadQuiet DEF ReadStages, IndexStages, RootStages
<1>2. CASE StartRollback(p)
  <2>1. PICK v \in published : /\ version' = Set(version, p, v)
                              /\ Enter(p, "restore_read", Artifacts[v])
    BY <1>2 DEF StartRollback
  <2>2. version'[p] = v /\ pc'[p] = "restore_read" /\ todo'[p] = Artifacts[v]
    BY <1>t, <2>1 DEF Enter, Set, JobType
  <2> QED
    BY <2>2 DEF TreeRead, Uploaded, ReadStages, IndexStages, RootStages
<1> QED
  BY <1>1, <1>2

\* The pointer comes to name only what its command has read whole, although a repeated
\* publication may have deleted or damaged the tree of a published version before.
THEOREM PointerNamesReadable == Spec /\ []OneAtATime => PointerToReadable
<1> DEFINE Inv == \A p \in Procs : Active(p) => TreeRead(p)
<1>1. Init => TypeInv /\ Inv
  BY TypeInit DEF Init, Active, Ended
<1>2. TypeInv /\ Inv /\ OneAtATime /\ OneAtATime' /\ [Next]_vars => Inv'
  <2>1. SUFFICES ASSUME TypeInv, Inv, OneAtATime, OneAtATime', [Next]_vars,
                        NEW p \in Procs, Active(p)'
                 PROVE  TreeRead(p)'
    OBVIOUS
  <2>2. CASE UNCHANGED vars
    <3>1. UNCHANGED <<tree, pc, mode, version, todo, busy, failed>>
      BY <2>2 DEF vars, bucket, job, work, flags
    <3>2. TreeRead(p)
      BY <2>1, <3>1 DEF Active
    <3> QED
      BY <3>1, <3>2 DEF TreeRead, Uploaded
  <2>3. ASSUME NEW q \in Procs, ReadLiveManifest(q) \/ Republish(q) \/ StartRollback(q)
        PROVE  TreeRead(p)'
    <3>1. TreeRead(q)' /\ Active(q)'
      BY <2>1, <2>3, ReadStarts, CommandStarts
    <3>2. p = q
      BY <2>1, <3>1 DEF OneAtATime
    <3> QED
      BY <3>1, <3>2
  <2>4. ASSUME NEW q \in Procs, Step(q) \/ Crash(q) PROVE TreeRead(p)'
    <3>1. Active(q) /\ \A r \in Procs \ {q} : pc'[r] = pc[r]
      BY <2>1, <2>4, StepMoves
    <3>2. p = q
      BY <2>1, <3>1 DEF OneAtATime, Active
    <3> QED
      BY <2>1, <2>4, <3>1, <3>2, ReadStep
  <2> QED
    BY <2>1, <2>2, <2>3, <2>4 DEF Next, Procs
<1>3. TypeInv /\ Inv /\ [Next]_vars
      => [pointer' \in Versions \ {pointer} =>
            \A k \in Artifacts[pointer'] : tree[pointer'][k] = pointer']_vars
  <2>1. SUFFICES ASSUME TypeInv, Inv, [Next]_vars, pointer' \in Versions \ {pointer},
                        NEW k \in Artifacts[pointer']
                 PROVE  tree[pointer'][k] = pointer'
    OBVIOUS
  <2>2. PICK p \in Procs : PutPointer(p)
    BY <2>1, PointerWriters
  <2>3. PICK after \in Contents, raised \in BOOLEAN : /\ PutRootManifest(p, after, raised)
                                                     /\ pointer' = after
    BY <2>2 DEF PutPointer
  <2>4. pointer' = version[p]
    BY <2>1, <2>3, ValuesAssumption DEF PutRootManifest
  <2>5. pc[p] = "pointer" /\ mode[p] # "cleanup" /\ Active(p)
    BY <2>1, <2>2 DEF PutPointer, TypeInv, StageInv, RootStages, Active, Ended
  <2> QED
    BY <2>1, <2>4, <2>5 DEF TreeRead, Uploaded, ReadStages, RootStages
<1> QED
  <2>1. TypeInv /\ [Next]_vars => TypeInv'
    BY TypeNext
  <2> QED
    BY <1>1, <1>2, <1>3, <2>1, PTL DEF Spec, PointerToReadable

----------------------------------------------------------------------------
\* What the documentation promises of the release trees, and what it takes to keep it.

\* Objects below releases/ are put by the upload and the release manifest's PUT, and deleted
\* by delete_prefix.
LEMMA TreeWriters ==
  ASSUME [Next]_vars
  PROVE  \/ tree' = tree
         \/ \E p \in Procs : \/ PutReleaseManifest(p)
                             \/ \E k \in Paths : PutTreeObject(p, k) \/ DeleteTreeObject(p, k)
<1>1. CASE UNCHANGED vars
  BY <1>1 DEF vars, bucket
<1>2. ASSUME NEW p \in Publishers, ReadLiveManifest(p) \/ Republish(p) PROVE tree' = tree
  BY <1>2 DEF ReadLiveManifest, Republish, bucket
<1>3. ASSUME NEW p \in Operators, StartRollback(p) PROVE tree' = tree
  BY <1>3 DEF StartRollback, bucket
<1>4. ASSUME NEW p \in Procs, Publish(p)
      PROVE  tree' = tree \/ PutReleaseManifest(p) \/ \E k \in Paths : PutTreeObject(p, k)
  <2>1. CASE NoRelease(p) \/ BuildRelease(p) \/ CreateDraft(p) \/ JoinTree(p) \/ JoinLatest(p)
             \/ VerifyReleaseManifest(p) \/ Finalize(p)
    BY <2>1 DEF NoRelease, BuildRelease, CreateDraft, JoinTree, JoinLatest,
                VerifyReleaseManifest, Finalize, bucket
  <2>2. ASSUME NEW k \in Paths, UploadAsset(p, k) \/ VerifyTreeObject(p, k) \/ CopyToLatest(p, k)
        PROVE  tree' = tree
    BY <2>2 DEF UploadAsset, VerifyTreeObject, CopyToLatest, bucket
  <2> QED
    BY <1>4, <2>1, <2>2 DEF Publish
<1>5. ASSUME NEW p \in Procs, Cleanup(p)
      PROVE  tree' = tree \/ \E k \in Paths : DeleteTreeObject(p, k)
  BY <1>5 DEF Cleanup, DeleteDraft, ListTree, ForgetIndex, bucket
<1>6. ASSUME NEW p \in Procs, Shared(p) PROVE tree' = tree
  <2>1. ASSUME NEW k \in Paths, ReadRestoreSource(p, k) \/ PutRestored(p, k) \/ VerifyRestored(p, k)
        PROVE  tree' = tree
    BY <2>1 DEF ReadRestoreSource, PutRestored, VerifyRestored, bucket
  <2>2. CASE ReadIndex(p) \/ DeleteRootIndex(p) \/ PutRootIndex(p) \/ VerifyRootIndex(p)
    BY <2>2 DEF ReadIndex, DeleteRootIndex, PutRootIndex, VerifyRootIndex, bucket
  <2>3. CASE PutSums(p) \/ PutPointer(p)
    BY <2>3 DEF PutSums, PutPointer
  <2> QED
    BY <1>6, <2>1, <2>2, <2>3 DEF Shared
<1>7. ASSUME NEW p \in Procs, Crash(p) PROVE tree' = tree
  BY <1>7 DEF Crash, bucket
<1> QED
  BY <1>1, <1>2, <1>3, <1>4, <1>5, <1>6, <1>7 DEF Next, Step

\* None of them does so below a version that has been published.
LEMMA PublishedTreeStays ==
  ASSUME TypeInv, SafeInv, [Next]_vars, NEW v \in published
  PROVE  tree'[v] = tree[v]
<1>t. StoreType /\ v \in Versions
  BY DEF TypeInv, TypeOK, StoreType
<1>1. ASSUME NEW p \in Procs, pc[p] \in {"tree", "manifest_put", "delete_tree"}, TreeStep(p)
      PROVE  tree'[v] = tree[v]
  <2>1. StageInv(p) /\ VersionInv(p)
    BY DEF TypeInv, SafeInv
  <2>2. version[p] \notin published
    BY <1>1, <2>1 DEF StageInv, VersionInv, PublishStages, CleanupStages, Publishing, Working, Active, Ended
  <2> QED
    BY <1>1, <1>t, <2>2, TreeStepElsewhere
<1>2. ASSUME NEW p \in Procs, PutReleaseManifest(p) PROVE tree'[v] = tree[v]
  <2>1. pc[p] = "manifest_put" /\ Publishing(p)
    BY <1>2 DEF PutReleaseManifest, TypeInv, StageInv, PublishStages, Publishing, Working, Active, Ended
  <2>2. TreeStep(p)
    BY <1>2, <2>1, PathsAssumption DEF PutReleaseManifest, TreeStep
  <2> QED
    BY <1>1, <2>1, <2>2
<1>3. ASSUME NEW p \in Procs, NEW k \in Paths, PutTreeObject(p, k) PROVE tree'[v] = tree[v]
  <2>1. pc[p] = "tree" /\ Publishing(p)
    BY <1>3 DEF PutTreeObject, TypeInv, StageInv, PublishStages, Publishing, Working, Active, Ended
  <2>2. TreeStep(p)
    BY <1>3, <2>1 DEF PutTreeObject, TreeStep
  <2> QED
    BY <1>1, <2>1, <2>2
<1>4. ASSUME NEW p \in Procs, NEW k \in Paths, DeleteTreeObject(p, k) PROVE tree'[v] = tree[v]
  <2>1. pc[p] = "delete_tree" /\ Publishing(p)
    BY <1>4 DEF DeleteTreeObject, TypeInv, StageInv, CleanupStages, Publishing, Working, Active, Ended
  <2>2. TreeStep(p)
    BY <1>4, <2>1 DEF DeleteTreeObject, TreeStep
  <2> QED
    BY <1>1, <2>1, <2>2
<1> QED
  BY <1>2, <1>3, <1>4, TreeWriters

\* The tree of a published version is never touched again, unless the PUT of the pointer is
\* ambiguous or `publish` is run again on a published dist, as the run republish does.
THEOREM PublishedTreesStay ==
  ASSUME PointerAssumption
  PROVE  Spec => ReleaseTreeImmutable
<1>1. Init => TypeInv /\ SafeInv
  BY TypeInit, SafeInit
<1>2. TypeInv /\ SafeInv /\ [Next]_vars => (TypeInv /\ SafeInv)'
  BY TypeNext, SafeNext
<1>3. TypeInv /\ SafeInv /\ [Next]_vars => [\A v \in published : tree'[v] = tree[v]]_vars
  BY PublishedTreeStays
<1> QED
  BY <1>1, <1>2, <1>3, PTL DEF Spec, ReleaseTreeImmutable

\* No cleanup runs for the version the pointer names, unless the PUT of the pointer is
\* ambiguous, as in the run ambiguous_pointer, or a published version is published again.
THEOREM CleanupsSpareLive ==
  ASSUME PointerAssumption
  PROVE  Spec => []CleanupNeverOfLive
<1>1. Init => TypeInv /\ SafeInv
  BY TypeInit, SafeInit
<1>2. TypeInv /\ SafeInv /\ [Next]_vars => (TypeInv /\ SafeInv)'
  BY TypeNext, SafeNext
<1>3. TypeInv /\ SafeInv => CleanupNeverOfLive
  <2>1. SUFFICES ASSUME TypeInv, SafeInv, NEW p \in Procs,
                        mode[p] = "cleanup", Active(p), pc[p] # "building"
                 PROVE  pointer # version[p]
    BY DEF CleanupNeverOfLive
  <2>2. Publishing(p) /\ pc[p] # "finalize"
    BY <2>1 DEF Publishing, Working, TypeInv, StageInv, PublishStages
  <2>3. version[p] \in Versions \ published
    BY <2>1, <2>2 DEF SafeInv, VersionInv, TypeInv, Bound, Publishing
  <2>4. pointer \in published \cup {None, Corrupt}
    BY <2>1 DEF SafeInv, PublishedIntact
  <2> QED
    BY <2>3, <2>4, ValuesAssumption
<1> QED
  BY <1>1, <1>2, <1>3, PTL DEF Spec

=============================================================================
