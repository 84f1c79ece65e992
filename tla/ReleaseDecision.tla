-------------------------- MODULE ReleaseDecision --------------------------
(***************************************************************************)
(* plan_release of src/ru_routing/package.py over a sequence of hourly     *)
(* runs: whether what a run has built is released, refused as an anomaly   *)
(* or left as no change depends on the manifest that was live when the run *)
(* started, which earlier runs and rollbacks have made.                    *)
(*                                                                         *)
(* What the upstreams offer is a world: for every set of sources, the      *)
(* build that fetch, normalization and resolution make of them.            *)
(***************************************************************************)
EXTENDS Integers, FiniteSets

CONSTANTS
  Sources,         \* upstream sources
  Categories,      \* dataset-qualified category keys
  Feeds,           \* Feeds[s]: the categories source s is mapped to
  Contents,        \* what content fingerprints tell apart
  Worlds,          \* what the upstreams may offer
  Policies,        \* configurations, by policy fingerprint
  SourcesOf,       \* SourcesOf[y]: the sources of configuration y
  SourceRemovals,  \* source_removal_migrations
  ScopeChanges,    \* category_scope_migrations
  Ratio,           \* category_count_change_ratio, as <<numerator, denominator>>
  SizeRatio,       \* size_change_ratio
  Floor,           \* quarantine_minimum_remaining_ratio
  MaxStale,        \* bound on the sources that are stale at a time
  MaxChanges,      \* bound on the changes of upstreams and configuration, and rollbacks
  MaxFaults,       \* bound on the runs that fail for another reason
  Overlapping,     \* may a rollback take place during a run?
  None             \* no manifest

Builds     == [content : Contents, counts : [Categories -> Nat], bytes : Nat]
Manifests  == [build : Builds, policy : Policies, names : SUBSET Sources]
Migration  == [from : Policies, to : Policies, removed : SUBSET Sources,
               keys : SUBSET Categories, size : BOOLEAN]
Fractions  == Nat \X (Nat \ {0})

ASSUME WorldsAssumption == Worlds \subseteq [SUBSET Sources -> Builds] /\ Worlds # {}
ASSUME SourcesAssumption ==
         IsFiniteSet(Sources) /\ Feeds \in [Sources -> SUBSET Categories]
ASSUME PoliciesAssumption == SourcesOf \in [Policies -> SUBSET Sources]
ASSUME MigrationsAssumption ==
         SourceRemovals \subseteq Migration /\ ScopeChanges \subseteq Migration
ASSUME RatiosAssumption ==
         /\ Ratio \in Fractions /\ SizeRatio \in Fractions /\ Floor \in Fractions
         /\ Floor[1] <= Floor[2]
ASSUME BoundsAssumption ==
         /\ MaxStale \in Nat /\ MaxChanges \in Nat /\ MaxFaults \in Nat
         /\ Overlapping \in BOOLEAN /\ None \notin Manifests

VARIABLES
  world,     \* what the upstreams offer
  stale,     \* sources older than their max_age_hours
  policy,    \* the configuration on the main branch
  live,      \* the root manifest.json
  released,  \* manifests that have been published, from which a rollback chooses
  previous,  \* the manifest the run has read
  plan,      \* the manifest the run is about to publish
  pc,        \* "idle", "build" or "publish"
  changes, faults

env  == <<world, stale, policy>>
vars == <<env, live, released, previous, plan, pc, changes, faults>>

TypeOK ==
  /\ world \in Worlds /\ stale \in SUBSET Sources /\ policy \in Policies
  /\ live \in Manifests \cup {None} /\ released \subseteq Manifests
  /\ previous \in Manifests \cup {None} /\ plan \in Manifests \cup {None}
  /\ pc \in {"idle", "build", "publish"}
  /\ changes \in 0..MaxChanges /\ faults \in 0..MaxFaults

Init ==
  /\ world \in Worlds /\ stale = {} /\ policy \in Policies
  /\ live = None /\ released = {} /\ previous = None /\ plan = None
  /\ pc = "idle" /\ changes = 0 /\ faults = 0

----------------------------------------------------------------------------
(***************************************************************************)
(* What a run builds.                                                      *)
(***************************************************************************)
\* Stale sources are excluded from the build, which goes on without them.
Degraded == stale \cap SourcesOf[policy]
Current  == [build |-> world[SourcesOf[policy] \ stale], policy |-> policy,
             names |-> SourcesOf[policy] \ stale]

\* _affected_category_keys.
Quarantined == UNION {Feeds[s] : s \in Degraded}

----------------------------------------------------------------------------
(***************************************************************************)
(* plan_release, against a manifest that is not None.                      *)
(***************************************************************************)
\* The one migration that matches: of several, none does.
TheOne(matches) == IF Cardinality(matches) = 1 THEN matches ELSE {}

\* Only an exact set of removed source names is approved.
SourceRemoval(was, now) ==
  IF was.names = {} \/ now.names = {} \/ ~(now.names \subseteq was.names /\ now.names # was.names)
  THEN {}
  ELSE TheOne({m \in SourceRemovals : /\ m.from = was.policy /\ m.to = now.policy
                                      /\ m.removed = was.names \ now.names})
ScopeChange(was, now) ==
  TheOne({m \in ScopeChanges : m.from = was.policy /\ m.to = now.policy})

Approved(was, now)  == SourceRemoval(was, now) \cup ScopeChange(was, now)
ResetKeys(was, now) == UNION {m.keys : m \in Approved(was, now)}
ResetSize(was, now) == \E m \in Approved(was, now) : m.size

Distance(a, b) == IF a < b THEN b - a ELSE a - b
\* Mutant: a change by exactly the ratio is an anomaly.
Exceeds_AtRatio(now, was, ratio) == was > 0 /\ Distance(now, was) * ratio[2] >= ratio[1] * was

Exceeds(now, was, ratio) == was > 0 /\ Distance(now, was) * ratio[2] > ratio[1] * was

\* The exact ceiling of was * Floor.
Minimum(was) == (was * Floor[1] + Floor[2] - 1) \div Floor[2]

\* Mutant: the minimum is rounded down.
BelowFloor_RoundsDown(was, now) ==
  \E k \in Quarantined : /\ was.build.counts[k] > 0
                         /\ now.build.counts[k] < (was.build.counts[k] * Floor[1]) \div Floor[2]

\* _check_quarantine_minimum_remaining.
BelowFloor(was, now) ==
  \E k \in Quarantined : /\ was.build.counts[k] > 0
                         /\ now.build.counts[k] < Minimum(was.build.counts[k])

\* _check_anomalies.
Anomalous(was, now) ==
  \/ \E k \in Categories \ (ResetKeys(was, now) \cup Quarantined) :
       Exceeds(now.build.counts[k], was.build.counts[k], Ratio)
  \/ ~ResetSize(was, now) /\ Exceeds(now.build.bytes, was.build.bytes, SizeRatio)

\* Mutant: only the categories are compared, and the floor is forgotten.
Refused_GrowsFreely(was, now) == was # None /\ BelowFloor(was, now)

Refused(was, now) == was # None /\ (BelowFloor(was, now) \/ Anomalous(was, now))

\* Mutant: the policy fingerprint is not looked at.
Changed_IgnoresPolicy(was, now) == was # None => now.build.content # was.build.content

Changed(was, now) ==
  was # None => now.build.content # was.build.content \/ now.policy # was.policy

----------------------------------------------------------------------------
(***************************************************************************)
(* An hourly run; the concurrency group keeps runs apart.                  *)
(***************************************************************************)
ReadLiveManifest ==
  /\ pc = "idle" /\ pc' = "build"
  /\ previous' = live
  /\ UNCHANGED <<env, live, released, plan, changes, faults>>

\* The run ends with an AnomalyError or "no change".
NoRelease ==
  /\ pc = "build" /\ pc' = "idle"
  /\ Refused(previous, Current) \/ ~Changed(previous, Current)
  /\ UNCHANGED <<env, live, released, previous, plan, changes, faults>>

PlanRelease ==
  /\ pc = "build" /\ pc' = "publish"
  /\ ~Refused(previous, Current) /\ Changed(previous, Current)
  /\ plan' = Current
  /\ UNCHANGED <<env, live, released, previous, changes, faults>>

\* publish_release moves the pointer.
Publish ==
  /\ pc = "publish" /\ pc' = "idle"
  /\ live' = plan /\ released' = released \cup {plan}
  /\ UNCHANGED <<env, previous, plan, changes, faults>>

\* A fetch, a compiler, a check or the publication fails.
RunFails ==
  /\ pc # "idle" /\ pc' = "idle"
  /\ faults < MaxFaults /\ faults' = faults + 1
  /\ UNCHANGED <<env, live, released, previous, plan, changes>>

----------------------------------------------------------------------------
(***************************************************************************)
(* The surroundings: upstreams, operators, commits.                        *)
(***************************************************************************)
Change == changes < MaxChanges /\ changes' = changes + 1

Rollback ==
  /\ Change /\ (pc = "idle" \/ Overlapping)
  /\ live' \in released \ {live}
  /\ UNCHANGED <<env, released, previous, plan, pc, faults>>

UpstreamChanges ==
  /\ Change /\ world' \in Worlds \ {world}
  /\ UNCHANGED <<stale, policy, live, released, previous, plan, pc, faults>>

SourceAges ==
  /\ Change /\ \E s \in Sources \ stale : stale' = stale \cup {s}
  /\ Cardinality(stale') <= MaxStale
  /\ UNCHANGED <<world, policy, live, released, previous, plan, pc, faults>>

SourceRefreshed ==
  /\ Change /\ \E s \in stale : stale' = stale \ {s}
  /\ UNCHANGED <<world, policy, live, released, previous, plan, pc, faults>>

\* A run works on what it has checked out, so that a commit shows in the next one.
Commit ==
  /\ Change /\ pc = "idle" /\ policy' \in Policies \ {policy}
  /\ UNCHANGED <<world, stale, live, released, previous, plan, pc, faults>>

Run  == ReadLiveManifest \/ NoRelease \/ PlanRelease \/ Publish
Next == \/ Run \/ RunFails
        \/ Rollback \/ UpstreamChanges \/ SourceAges \/ SourceRefreshed \/ Commit

Spec     == Init /\ [][Next]_vars

\* The workflow runs every hour, and every step of it is bounded by its timeout.
FairSpec == Spec /\ WF_vars(Run)

----------------------------------------------------------------------------
\* Of every category of `was`, `now` has at least what the floor or the ratio asks for, or a
\* migration approved for just this change of configuration resets the category.
Kept(was, now) ==
  \A k \in Categories \ ResetKeys(was, now) :
    \/ now.build.counts[k] * Floor[2] >= was.build.counts[k] * Floor[1]
    \/ now.build.counts[k] * Ratio[2] >= was.build.counts[k] * (Ratio[2] - Ratio[1])

\* However many runs, rollbacks, stale sources and commits there are, a release keeps enough
\* of every category of the release that is live when it is published.  Not so with
\* Overlapping: the bounds are taken against the manifest that was live before the build.
EnoughRemains ==
  [][pc = "publish" /\ pc' = "idle" /\ live # None /\ live' # live => Kept(live, live')]_vars

\* Nothing changes any more, and no source is stale.
Settled == changes = MaxChanges /\ faults = MaxFaults /\ stale = {}

UpToDate == live # None /\ live.build.content = Current.build.content /\ live.policy = policy

\* Once nothing changes any more, what the upstreams offer under the current configuration
\* is released, if it is within the bounds of the live release.
CatchesUp ==
  Settled /\ pc = "idle" /\ (live # None => ~Anomalous(live, Current)) ~> UpToDate

\* A category of the live release has moved further than the ratio allows, with no
\* migration that says so: as after the return of a source that made up more than a third
\* of it, for the release without that source has become the one to compare with.
LockedOut ==
  /\ Settled /\ live # None
  /\ pc = "idle" \/ (pc = "build" /\ previous = live)
  /\ \E k \in Categories \ ResetKeys(live, Current) :
       Exceeds(Current.build.counts[k], live.build.counts[k], Ratio)

\* No run gets out of that by itself: the release stays as it is until an upstream, the
\* configuration or a rollback changes something.
LockoutStays == [](LockedOut => []LockedOut)

\* When no more than a third of any category is stale at a time, quarantine heals: once
\* every source is fresh again the full content is released.
QuarantineHeals == Settled ~> UpToDate
=============================================================================
