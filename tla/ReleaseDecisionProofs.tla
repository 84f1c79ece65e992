----------------------- MODULE ReleaseDecisionProofs -----------------------
(***************************************************************************)
(* The release decision for any upstreams, configurations, migrations and  *)
(* ratios: what a release keeps of the one before, and that a lock-out is  *)
(* permanent.                                                              *)
(***************************************************************************)
EXTENDS ReleaseDecision, TLAPS

\* Division rounds down: what the exact ceiling of the quarantine floor rests on.
LEMMA DivisionRoundsDown ==
  ASSUME NEW x \in Nat, NEW d \in Nat \ {0}
  PROVE  /\ x \div d \in Nat
         /\ (x \div d) * d <= x
         /\ x < (x \div d) * d + d
  OBVIOUS

\* Minimum is the exact ceiling: the least count that is not below the floor.
THEOREM MinimumIsCeiling ==
  ASSUME NEW was \in Nat
  PROVE  /\ Minimum(was) \in Nat
         /\ Minimum(was) * Floor[2] >= was * Floor[1]
         /\ (Minimum(was) - 1) * Floor[2] < was * Floor[1]
<1> DEFINE d == Floor[2]
           x == was * Floor[1] + d - 1
<1>1. d \in Nat \ {0} /\ Floor[1] \in Nat /\ was * Floor[1] \in Nat /\ x \in Nat
  BY RatiosAssumption DEF Fractions
<1>2. /\ x \div d \in Nat /\ (x \div d) * d <= x /\ x < (x \div d) * d + d
  BY <1>1, DivisionRoundsDown
<1>3. (x \div d - 1) * d = (x \div d) * d - d
  BY <1>1, <1>2
<1>4. QED
  BY <1>1, <1>2, <1>3 DEF Minimum

----------------------------------------------------------------------------
\* A manifest is what a run builds, whatever is stale.
LEMMA CurrentType == TypeOK => Current \in Manifests
<1> SUFFICES ASSUME TypeOK PROVE Current \in Manifests
  OBVIOUS
<1>1. SourcesOf[policy] \ stale \in SUBSET Sources
  BY PoliciesAssumption DEF TypeOK
<1>2. world[SourcesOf[policy] \ stale] \in Builds
  BY <1>1, WorldsAssumption DEF TypeOK
<1>3. QED
  BY <1>1, <1>2 DEF Current, Manifests, TypeOK

TypeInv == TypeOK /\ (pc = "publish" => plan \in Manifests)

\* What a run is about to publish is a manifest: with it the types are inductive.
LEMMA TypeInvariant == Spec => []TypeInv
<1>1. Init => TypeInv
  BY BoundsAssumption DEF Init, TypeInv, TypeOK
<1>2. TypeInv /\ [Next]_vars => TypeInv'
  <2> SUFFICES ASSUME TypeInv, [Next]_vars PROVE TypeInv'
    OBVIOUS
  <2> USE BoundsAssumption DEF TypeInv, TypeOK, env
  <2>1. CASE ReadLiveManifest
    BY <2>1 DEF ReadLiveManifest
  <2>2. CASE NoRelease
    BY <2>2 DEF NoRelease
  <2>3. CASE PlanRelease
    <3>1. plan' \in Manifests
      BY <2>3, CurrentType DEF PlanRelease
    <3>2. QED
      BY <2>3, <3>1 DEF PlanRelease
  <2>4. CASE Publish
    BY <2>4 DEF Publish
  <2>5. CASE RunFails
    BY <2>5 DEF RunFails
  <2>6. CASE Rollback
    BY <2>6 DEF Rollback, Change
  <2>7. CASE UpstreamChanges
    BY <2>7 DEF UpstreamChanges, Change
  <2>8. CASE SourceAges \/ SourceRefreshed
    <3>1. stale' \in SUBSET Sources
      BY <2>8 DEF SourceAges, SourceRefreshed
    <3>2. QED
      BY <2>8, <3>1 DEF SourceAges, SourceRefreshed, Change
  <2>9. CASE Commit
    BY <2>9 DEF Commit, Change
  <2>10. CASE UNCHANGED vars
    BY <2>10 DEF vars
  <2>11. QED
    BY <2>1, <2>2, <2>3, <2>4, <2>5, <2>6, <2>7, <2>8, <2>9, <2>10 DEF Next, Run
<1>3. QED
  BY <1>1, <1>2, PTL DEF Spec

----------------------------------------------------------------------------
\* A count within the ratio, or at the exact minimum, keeps what Kept asks for.
LEMMA WithinKeeps ==
  ASSUME NEW was \in Nat, NEW now \in Nat, ~Exceeds(now, was, Ratio)
  PROVE  now * Ratio[2] >= was * (Ratio[2] - Ratio[1])
<1> DEFINE n == Ratio[1]
           d == Ratio[2]
<1>1. n \in Nat /\ d \in Nat /\ d > 0
  BY RatiosAssumption DEF Fractions
<1>2. was * (d - n) = was * d - was * n /\ was * n \in Nat /\ was * d \in Nat
  BY <1>1
<1>3. CASE was = 0
  BY <1>1, <1>3
<1>4. CASE was > 0 /\ now < was
  <2>1. (was - now) * d <= n * was
    BY <1>1, <1>4 DEF Exceeds, Distance
  <2>2. (was - now) * d = was * d - now * d
    BY <1>1
  <2>3. QED
    BY <1>1, <1>2, <2>1, <2>2
<1>5. CASE now >= was
  <2>1. now * d >= was * d
    BY <1>1, <1>5
  <2>2. QED
    BY <1>1, <1>2, <2>1
<1>6. QED
  BY <1>3, <1>4, <1>5

\* What plan_release does not refuse keeps enough of every category.
LEMMA NotRefusedKeeps ==
  ASSUME TypeOK, NEW was \in Manifests, ~Refused(was, Current)
  PROVE  Kept(was, Current)
<1> SUFFICES ASSUME NEW k \in Categories \ ResetKeys(was, Current)
             PROVE  \/ Current.build.counts[k] * Floor[2] >= was.build.counts[k] * Floor[1]
                    \/ Current.build.counts[k] * Ratio[2]
                         >= was.build.counts[k] * (Ratio[2] - Ratio[1])
  BY DEF Kept
<1> DEFINE old == was.build.counts[k]
           new == Current.build.counts[k]
<1>1. old \in Nat /\ new \in Nat
  BY CurrentType DEF Manifests, Builds
<1>2. was # None
  BY BoundsAssumption
<1>3. CASE k \in Quarantined /\ old > 0
  <2>1. new >= Minimum(old) /\ Minimum(old) \in Nat
    BY <1>1, <1>2, <1>3, MinimumIsCeiling DEF Refused, BelowFloor
  <2>2. Minimum(old) * Floor[2] >= old * Floor[1] /\ Floor[2] \in Nat
    BY <1>1, MinimumIsCeiling, RatiosAssumption DEF Fractions
  <2>3. new * Floor[2] >= Minimum(old) * Floor[2]
    BY <1>1, <2>1, <2>2
  <2>4. old * Floor[1] \in Nat
    BY <1>1, RatiosAssumption DEF Fractions
  <2>5. QED
    BY <1>1, <2>1, <2>2, <2>3, <2>4
<1>4. CASE old = 0
  BY <1>1, <1>4, RatiosAssumption DEF Fractions
<1>5. CASE k \notin Quarantined
  <2>1. ~Exceeds(new, old, Ratio)
    BY <1>2, <1>5 DEF Refused, Anomalous
  <2>2. QED
    BY <1>1, <2>1, WithinKeeps
<1>6. QED
  BY <1>1, <1>3, <1>4, <1>5

\* Without a rollback during a run, the manifest the run has read is still the live one,
\* and what it is about to publish keeps enough of it.
PlanInv ==
  /\ pc # "idle" => previous = live
  /\ pc = "publish" /\ previous # None => Kept(previous, plan)

\* What a run has planned from is the live manifest still when it publishes.
LEMMA PlanInvariant ==
  ASSUME ~Overlapping
  PROVE  Spec => []PlanInv
<1>1. Init => PlanInv
  BY DEF Init, PlanInv
<1>2. TypeInv /\ PlanInv /\ [Next]_vars => PlanInv'
  <2> SUFFICES ASSUME TypeInv, PlanInv, [Next]_vars PROVE PlanInv'
    OBVIOUS
  <2> USE DEF PlanInv, env
  <2>1. CASE ReadLiveManifest
    BY <2>1 DEF ReadLiveManifest
  <2>2. CASE NoRelease \/ Publish \/ RunFails
    BY <2>2 DEF NoRelease, Publish, RunFails
  <2>3. CASE PlanRelease
    <3>1. previous # None => Kept(previous, Current)
      BY <2>3, NotRefusedKeeps DEF PlanRelease, TypeInv, TypeOK
    <3>2. plan' = Current /\ previous' = previous /\ live' = live /\ previous = live
      BY <2>3 DEF PlanRelease
    <3>3. previous' # None => Kept(previous', plan')
      BY <3>1, <3>2 DEF Kept, ResetKeys, Approved, SourceRemoval, ScopeChange
    <3>4. QED
      BY <3>2, <3>3
  <2>4. CASE Rollback
    BY <2>4 DEF Rollback
  <2>5. ASSUME UNCHANGED <<live, previous, plan, pc>> PROVE PlanInv'
    BY <2>5 DEF Kept, ResetKeys, Approved, SourceRemoval, ScopeChange
  <2>6. CASE UpstreamChanges \/ SourceAges \/ SourceRefreshed \/ Commit \/ UNCHANGED vars
    BY <2>5, <2>6 DEF UpstreamChanges, SourceAges, SourceRefreshed, Commit, vars
  <2>7. QED
    BY <2>1, <2>2, <2>3, <2>4, <2>6 DEF Next, Run
<1>3. QED
  BY <1>1, <1>2, TypeInvariant, PTL DEF Spec

\* When rollbacks keep clear of the runs, every release keeps enough of every category of
\* the one before, whatever upstreams, stale sources, configurations and migrations do.
THEOREM ReleasesKeepEnough ==
  ASSUME ~Overlapping
  PROVE  Spec => EnoughRemains
<1>1. PlanInv /\ [Next]_vars =>
        [pc = "publish" /\ pc' = "idle" /\ live # None /\ live' # live => Kept(live, live')]_vars
  <2> SUFFICES ASSUME PlanInv, [Next]_vars, pc = "publish", pc' = "idle", live # None,
                      live' # live
               PROVE  Kept(live, live')
    OBVIOUS
  <2>1. live' = plan
    BY DEF Next, Run, ReadLiveManifest, NoRelease, PlanRelease, Publish, RunFails, Rollback,
           UpstreamChanges, SourceAges, SourceRefreshed, Commit, vars, env
  <2>2. Kept(live, plan)
    BY DEF PlanInv
  <2>3. QED
    BY <2>1, <2>2 DEF Kept, ResetKeys, Approved, SourceRemoval, ScopeChange
<1>2. QED
  BY <1>1, PlanInvariant, PTL DEF Spec, EnoughRemains

----------------------------------------------------------------------------
\* With nothing stale, nothing is quarantined.
LEMMA SettledCurrent == Settled => Quarantined = {} /\ Degraded = {}
  BY DEF Settled, Quarantined, Degraded

\* A locked-out release is refused by every run that has read it.
LEMMA LockedOutRefused == LockedOut => Refused(live, Current)
<1> SUFFICES ASSUME LockedOut PROVE Refused(live, Current)
  OBVIOUS
<1>1. PICK k \in Categories \ ResetKeys(live, Current) :
        Exceeds(Current.build.counts[k], live.build.counts[k], Ratio)
  BY DEF LockedOut
<1>2. QED
  BY <1>1, SettledCurrent DEF LockedOut, Refused, Anomalous

\* Once locked out, no run of the workflow ever publishes again by itself: only a change of
\* the upstreams, the configuration or the pointer ends it.
THEOREM LockoutIsPermanent == Spec => LockoutStays
<1>1. TypeInv /\ LockedOut /\ [Next]_vars => LockedOut'
  <2> SUFFICES ASSUME TypeInv, LockedOut, [Next]_vars PROVE LockedOut'
    OBVIOUS
  <2>1. pc \in {"idle", "build"} /\ (pc = "build" => previous = live)
    BY DEF LockedOut
  <2>2. ASSUME UNCHANGED <<env, live, changes, faults>>,
               pc' = "idle" \/ (pc' = "build" /\ previous' = live')
        PROVE  LockedOut'
    BY <2>2 DEF LockedOut, Settled, env, ResetKeys, Approved, SourceRemoval, ScopeChange,
                Current
  <2>3. CASE ReadLiveManifest
    BY <2>2, <2>3 DEF ReadLiveManifest
  <2>4. CASE NoRelease
    BY <2>2, <2>4 DEF NoRelease
  <2>5. ~PlanRelease
    BY <2>1, LockedOutRefused DEF PlanRelease
  <2>6. ~Publish
    BY <2>1 DEF Publish
  <2>7. ~RunFails /\ ~Change
    BY BoundsAssumption DEF LockedOut, Settled, RunFails, Change
  <2>8. CASE UNCHANGED vars
    BY <2>1, <2>2, <2>8 DEF vars
  <2>9. QED
    BY <2>3, <2>4, <2>5, <2>6, <2>7, <2>8
       DEF Next, Run, Rollback, UpstreamChanges, SourceAges, SourceRefreshed, Commit
<1>2. QED
  BY <1>1, TypeInvariant, PTL DEF Spec, LockoutStays
=============================================================================
