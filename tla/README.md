# Verification of ru-routing

`ru-routing` builds routing rule sets for proxy clients from public upstream lists and
publishes them every hour. This directory models the parts of it whose correctness
depends on the order of events, on failures and on what earlier runs have left behind.
The modules are translated from `src/src/ru_routing/*.py` and
`src/.github/workflows/update.yml`; TLC checks them on small instances and TLAPS proves
the main safety properties for every instance. `PROJECT.json` maps each definition to the
lines it models, and lists the runs, mutants, findings, hazards and theorems.

## 1. The system

One process at a time runs the pipeline

    fetch -> parse/normalize -> resolve -> generate -> validate -> render -> package -> publish

as three commands (`fetch`, `build`, `publish`) of one hourly job. `check`,
`release-decision` and `rollback` are started by hand.

| Component | Source | State it keeps | Operations | Model |
|---|---|---|---|---|
| Publication | `publish.py` | bucket (`/releases/<v>/*`, `/latest/*`, `index.html`, `SHA256SUMS`, `manifest.json`), GitHub releases | `publish_release`, `_cleanup_failed_publication`, `rollback`; `put_object`, `get_object` with their attempts | `Publication`, `ReleasePointer`, `ObjectTransfer`, `ObjectStore` |
| Hourly workflow | `update.yml` | the manifest it downloaded, one concurrency slot | read manifest, fetch, build, publish | `Publication`, `ReleaseDecision` (partly) |
| Release decision, packaging | `package.py` | the archive next to dist; for the decision, the previous manifest | `plan_release`, `package_build` | `ReleaseDecision`, `BuildPipeline` |
| Directory swaps | `cli.py`, `fetch.py`, `generate.py`, `render.py` | the output directory, staging and backup directories | build a tree, swap it in, undo | `DirectorySwap` |
| Fetching | `fetch.py`, `cli.py` | fetched files, source metadata | resolve a revision, check its age, download, quarantine; load the inputs of a build | `FetchTransaction` |
| Resolution | `resolve.py` | entries per category and dataset, the blocker pool | ownership, blocking, subtraction, conflicts, superset check | `Resolution` |
| Generation | `generate.py` | artifacts, a pool of compiler calls | compile, join | `BuildPipeline` (partly) |
| Rendering | `render.py` | config templates, SRS files | render, stage | `BuildPipeline`, `DirectorySwap` (its place and its swap) |
| Validation | `validate.py` | none | semantic checks, engines, second compilation | `Resolution`, `BuildPipeline` (partly) |
| Rule model | `models.py` | none | rules, entries, tiers, datasets | `Resolution` (partly) |
| Normalization, parsing | `normalize.py`, `parsers.py` | none | text and protobuf to rules | not modelled: stateless |
| Configuration | `config.py` | none | load and validate YAML | thresholds, migrations, a registry that changes |
| Tool runner | `tooling.py` | none | a subprocess with a timeout | its outcomes, as faults |
| Bootstrap, container | `scripts/`, `Dockerfile` | none | provisioning, build files | not modelled |

Interaction: the workflow passes files between the commands (`output/fetched`,
`output/dist`, `output/previous-manifest.json`), so every command can find what an
earlier, failed or killed one left behind. `publish` and `rollback` meet in the bucket:
the workflow's concurrency group `update-routing-release` keeps publications apart but a
`rollback` is an operator's `docker compose run` and takes no part in it. The bucket has
no locks and no conditional writes. Clients read `manifest.json` and then
`/releases/<version>/`, or `/latest/` without a guarantee of consistency.

What is hard:

- *Partial failure.* A publication is some hundred calls to two services; any of them may
  fail, or take effect and be reported as failed when its process is killed on timeout.
  The cleanup is itself such a sequence.
- *Crashes.* The job has a 90 minute limit and the runner can go away; nothing cleans up.
- *Interleaving.* A thread pool of eight workers uploads, another one compiles; a rollback
  interleaves with a publication, and the upstreams move between the requests of a fetch.
- *Stale state.* The manifest is read before the fetch and the build, within a job of up to 90 minutes, and is
  what both the release decision and the cleanup go by.
- *Overlap.* Five kinds of rules in four tiers and two datasets overlap in many ways, and
  three pieces of code (removal, report, indexes) have to agree on which overlap is one.
- *History.* Whether a build may be released depends on the release before it, which may
  have been made without a stale source, or have been rolled back to.

What makes each part correct: a version the pointer names can always be read and rolled
back to; a failed publication leaves nothing it does not report; recovery needs no help;
an output directory is never partial and a failed command keeps the old one; what is
fetched belongs to the revision recorded for it, and a source is left out only for its
age; a host or an address is in no category another one owns, and nothing else is lost;
dist is complete, of one build and its archive too; a release never loses more of a
category than the configuration allows, and a build within the bounds is eventually
released.

## 2. The modules

| Module | What it is |
|---|---|
| `Publication` | publish, cleanup and rollback, one action per backend call |
| `ReleasePointer` | what publication promises clients: the abstract specification |
| `ObjectTransfer` | the attempts inside one PUT or GET of the bucket |
| `ObjectStore` | what the callers of PUT may count on: the abstract specification |
| `FetchTransaction` | `fetch`, request by request, and the loading of its result by `build` |
| `Resolution` | the rules of the sources become the categories of the datasets |
| `BuildPipeline` | `build` from a resolved build on: pool, validation, package, swap |
| `DirectorySwap` | how `build` and `fetch` replace their output directory |
| `ReleaseDecision` | `plan_release` over a sequence of hourly runs |
| `MCPublication`, `MCReleaseDecision`, `MCFetchTransaction`, `MCResolution`, `MCBuildPipeline` | instances for TLC |
| `PublicationTypes`, `PublicationProofs`, `DirectorySwapProofs`, `ReleaseDecisionProofs`, `TransferProofs`, `FetchProofs`, `ResolutionProofs`, `BuildProofs` | theorems and proofs |

In the order of a run of the job, `FetchTransaction` ends where `Resolution` begins (the
parsing in between is stateless), `Resolution` where `BuildPipeline` begins, and its dist
is what `Publication` publishes. `ReleaseDecision` is the same job once more with all of
that in one step, over many hours. Where a module leaves steps to another one it says so:
the `Install` of a fetch and the `SwapIn` of a build are the steps of `DirectorySwap`, and
the `Decide` of a build is `plan_release` in `ReleaseDecision`.

### Publication

An object is abstracted to the version whose bytes it holds, or `Corrupt`, or `None`.
`tree`, `latest`, `index`, `sums` and `pointer` are the bucket; `github` holds the GitHub
releases of each tag, with their assets. For each command `pc` is the next call, `mode` says whether it is
publishing, in its cleanup, or rolling back, `todo` and `busy` are the objects of the
current stage not started and put but not read back. `drafted`, `touched`, `failed` and
`problem` are the code's `release_id is not None`, `latest_overwritten`, the first failed
future, and a non-empty `cleanup_problems`.

| Actions | Code |
|---|---|
| `ReadLiveManifest`, `NoRelease`, `BuildRelease`, `Republish` | workflow steps up to `publish` |
| `CreateDraft`, `UploadAsset`, `Finalize` | the `gh release` calls |
| `PutTreeObject`, `VerifyTreeObject`, `JoinTree` | `_upload_and_verify_release_tree` in the pool; `_run_parallel_specs` |
| `PutReleaseManifest`, `VerifyReleaseManifest` | the manifest of the tree |
| `CopyToLatest`, `JoinLatest` | `_copy_specs_to_latest` in the pool |
| `ReadIndex` .. `VerifyRootIndex` | `_copy_index_to_root` |
| `PutSums`, `PutPointer` | `_write_manifest` |
| `DeleteDraft`, `ListTree`, `DeleteTreeObject`, `ForgetIndex` | `_cleanup_failed_publication`, `delete_prefix` |
| `StartRollback`, `ReadRestoreSource`, `PutRestored`, `VerifyRestored` | `rollback`, `_copy_prefix_to_latest`, which the cleanup shares |
| `Crash` | the process dies between two calls |

`Running` is the thread pool: specs are started in order, `MaxWorkers` at a time, and the
stage ends only when every future is done. `Raise` is the code's exception flow: out of a
publication into the cleanup, out of a cleanup's restore into a recorded problem, out of a
rollback to its end. `FaultKinds` says what may go wrong: a call raises without effect
(`lost`), raises with effect (`ack`), a PUT stores other bytes (`corrupt`), a GET fails or
returns other bytes (`get`), the command dies (`crash`), and the same for publish's PUT of
the pointer (`pointer_ack`, `pointer_corrupt`), which have names of their own so that a
run or a theorem can leave out just these.

What `gh` and GitHub do is external, and the code says nothing of it; the model assumes as
little as it can. `gh release create --draft` refuses no tag, so that a second publication
of a version gets a draft beside the public release (`CreateDraft`). The other commands
address a release by its tag, and `Found` lets them reach any release of that tag.
Uploading with `--clobber` may leave the old asset deleted (`UploadAsset`), and making a
second release of a tag public may be refused (`Finalize`). `ReleaseIds` bounds the
releases of one tag, and with it how often a version is published again.

Assumptions: versions are fresh, for `plan_release` makes them of the minute and a content
digest; the target manifest of a rollback is that of a published release, as
`src/README.md` requires (the code checks the manifest against `VERSION`, not that it ever
was live); the attempts `_run_aws_with_retry` makes for one call count as one call, whose
outcome is any of the above.

`ReleasePointer` has two variables, the version the pointer names and the versions a
client can read completely. `ImplementsPointer` maps them to `pointer` and to the
published versions whose trees are intact: whatever the commands do, the pointer moves to
a version in the step that makes it available or to one that already is, and nothing
available goes away.

### ObjectTransfer

One key of the bucket and several clients of it. `BeginPut`, `BeginGet` start a call;
`Land` and `Stream` are what the service does for the current attempt; `Succeed`,
`Refuse`, `TimeOut` and `Retry` are `_run_aws_with_retry` and the subprocess timeout of
`_run_aws`. The request of a killed process is in `late` and may be carried out at any
time (`LandLate`), more than once or never. A GET writes its output file piece by piece,
and the next attempt writes to the same file.

`ObjectStore` is the specification for callers: a PUT that returns has taken effect after
it began; one that raised or was abandoned may still do so. `ImplementsStore` refines it.
A `Put` of `Publication` is the case without late effects: one effect or none, and
returned or raised. That case is not all there is, and the difference is what
`SettledStays` is about: it holds as long as no killed attempt is outstanding.

### FetchTransaction

A version of an upstream is a number; `upstream[s]` counts for each version how often its
assets have been uploaded (`edition`), and an object is the file, version and edition it
comes from, so that two are equal when their digests are. `pc` is the next request of the
current source, `attempt` the attempts of it that failed, `found` what is known of the
source, `got` the objects downloaded, `staged` and `destination` the metadata in the
staging directory and in the destination.

| Actions | Code |
|---|---|
| `StartFetch`, `Install` | `fetch_all`, `_replace_directory` |
| `MaterializeLocal` | `_fetch_builtin_source`, `_fetch_local_text_source` |
| `ReadRelease`, `ReadRef`, `ReadTag`, `ReadCommit` | `_resolve_release`, `_resolve_release_tag`, `_resolve_raw_commit`; then `_release_locations` and the age check of `_fetch_source` |
| `CheckLag` | `_sync_lag_hours` |
| `DownloadObject` | `_download_object`, with the digest of an asset where the release has one |
| `Retry`, `GiveUp` | the retry loops of `_json_response` and `_download_object`, and the errors that are not tried again |
| `LoadInputs` | `_fetched_sources_from_inputs` |
| `NewVersion`, `NewEdition`, `AssetsArrive`, `Age`, `LagChanges`, `Configure`, `Damage` | the world outside |

Sources of every kind of `config/sources.yaml` are there: a release with URLs of its own
(aireps, whose lag behind v2fly is checked), a rolling release whose tag is `latest`
(jutsu-dev, with digests), a branch on raw.githubusercontent.com (itdoginfo), and files of
the repository. A missing asset is an error before the age is looked at, as in the code.

### Resolution

A host name is the sequence of its labels from the top, so that a suffix is a prefix; a
network is a path in the binary tree of addresses. `Entry` is a rule with the memberships
it comes from. `Categorize` is `_categorize` for both datasets and the blocker pool;
`ResolveDomains` what happens to the rules that are not networks; `TakeNetwork`,
`SubtractBlocker` and `FinishNetwork` are the loop of `_subtract_cidr`, with the blockers
in any order; `ReportAfter`, `AssertSuperset` and `ValidateSemantics` the checks at the
end. `IsBlocked` and `TrieHasOverlap` (removal), `MatchingBlockers` and `TrieLookup`
(reports), which go down the nodes of the trie (`Descent`) each for itself, `IndexedBlockers` with `Scan` (a sorted view and its running maximum, for every
order that a sort by the first address may give) and `EntriesOverlap` (the pairwise relation) are translated one by one, because what the
properties are about is that they agree. A policy gives all memberships of a category the same datasets: `load_policy` refuses any
other (`config.py:585`), and `ResolutionAssumption` says so. Only `Hits`, the hosts and
addresses a rule matches, is not from the code: it is the meaning against which the rest is checked. An
expression known to match hosts without a dot only is `Dotless`, like the code's constant.

### BuildPipeline

`generate_all` is a sequence of `Compilations`; two of the tools run in a pool, `waiting`
and `running`. A file's content is the dataset it was compiled from and whether it is what
every compilation gives (`good`), loads but differs (`other`) or does not load
(`garbage`).

| Actions | Code |
|---|---|
| `CompileXray` | `_compile_xray`, which renames lite's `geoip.dat` |
| `StartItem`, `CompileItem`, `CancelPending`, `JoinPool` | `_run_parallel` and the workers of `_compile_sing_box`, `_compile_mihomo` |
| `PublishTree` | `_publish_tree` |
| `ValidateArtifacts`, `CompareRebuild` | `validate_build`, `_validate_determinism` |
| `Decide`, `RenderExamples` | `plan_release`, `render_examples` as stages of the build |
| `PackageTree`, `CreateArchive`, `FinishManifest` | `package_build` |
| `SwapIn`, `StageFails`, `Crash` | `_publish_dist`; errors and the end of the process |

A compiler may fail after writing its file, exit with 0 without writing one, or write
another or an unusable one (`FaultKinds`); the engine that loads artifacts recognizes the
unusable ones, which is what it is for. A worker goes on until it has compiled its files:
`running` changes with the workers only, and an exception in the main thread leaves it as
it is (`Fail`), so that a pool that is left too early shows. Only `Crash` ends them all.

### DirectorySwap

`destination`, `stage` and `backup` hold `None`, `Partial`, or a complete tree, which is
the number of the run that built it. `Complete`, `ClearBackup`, `Retire`, `Install`,
`Restore`, `DropBackup` and `DiscardStage` are the file-system calls of `_run_build` and
`_publish_dist`; `fetch_all` and `_replace_directory` differ in one thing that matters:
`build` uses `.dist.previous` in every run and clears it first, `fetch` makes a backup
directory of its own in every run (`strays` are those earlier runs have left). `command`
says which of the two it is. A `Crash` stands for SIGKILL and for KeyboardInterrupt, since
the handlers catch `Exception`; an `rmtree` that fails or is cut short leaves a partial
directory.

### ReleaseDecision

A *world* says what the upstreams offer: for every set of sources, the build (content
fingerprint, count of each category, bytes) the pipeline makes of it. A run reads the live
manifest (`ReadLiveManifest`), builds from the sources that are not stale, and decides as
`plan_release` does: `Refused` is `AnomalyError`, from `_check_quarantine_minimum_remaining`
(`BelowFloor`) and `_check_anomalies` (`Anomalous`), with the approved migrations
(`SourceRemoval`, `ScopeChange`) that reset categories for one exact pair of policies;
`Changed` compares the two fingerprints. `Publish` moves the pointer, `RunFails` is any
other failure. Around it upstreams change, sources become stale and fresh, the
configuration changes, and an operator rolls back. The ratios are pairs of naturals and
the comparisons exact; the code does the floor exactly (an integer ceiling) and the ratios
in floating point, a difference only counts beyond 2^53 could show for the shipped 0.5.

## 3. What the runs check

| Run | Instance | Distinct states | Checks |
|---|---|---|---|
| `single` | one command at a time; 2 versions; 5 paths, 3 artifacts in a release and 2 workers; 3 faults | 301,999 | the whole life of a publication: safety, the abstract specification, termination, recovery |
| `concurrent` | a publisher and an operator; 3 paths; 2 faults | 112,277 | publication and rollback interleaved call by call |
| `republish_survives` | `publish` may be run on a published dist again; 2 releases of a tag; 2 faults | 2,147,625 | what becomes live after that |
| `transfer` | 2 clients of one key, 2 values, 2 attempts for each call | 1,127,140 | what a retried and killed request has done |
| `decision` | 2 sources, 2 categories, 2 configurations, 4 worlds; 4 changes, 1 failed run | 70,569 | releases stay within the bounds; what is within them is released; lock-out is permanent |
| `quarantine` | 3 equal sources, 1 stale at a time, rollbacks at any time; 6 changes, 2 failed runs | 233,772 | quarantine heals by itself |
| `fetch` | 4 sources of all kinds, two in a registry, 2 registries; 1 retry, 2 changes, 2 faults; a tag chain with a cycle | 235,590 | what is fetched and what a build reads of it |
| `resolve` | addresses of 3 bits, 4 hosts; 6 networks, 7 names and patterns, 6 memberships; up to 3 networks or 2 other rules | 324,955 | ownership, subtraction, reports, the superset check |
| `build` | 2 builds, 2 workers, 3 categories, 2 faults of 6 kinds | 193,680 | the pool, dist and its archive |
| `swap` | `build` and `fetch`; 4 runs, 3 faults | 2,279 | the replacement of the directory |
| `ambiguous_pointer`, `republish` | see section 6 | | each refutes one statement of the documentation |

The properties, by run:

- `PublishedIntact` (single, concurrent): every version the pointer has ever named keeps
  its complete tree. The cleanup deletes trees and a rollback writes while it does, so it
  takes the read-back of every object, the join of the pool, and the freshness of versions.
- `LatestFromIntact` (concurrent): `/latest` only receives bytes of a version whose tree
  is complete.
- `PublicReleaseIsLive`, `PublicStaysPublic` (single): a public GitHub release was live
  before it became public, is complete, and is never withdrawn, though a finalization may
  fail after its effect. Both are of versions published once (section 6).
- `PointerToReadable` (republish_survives): although a repeated publication may damage the
  tree of a published version, the pointer never comes to name a version that cannot be
  read: a rollback reads everything first, a publication reads everything back.
- `CleanedUp` (single): "was cleaned up" is reported only when nothing is left.
- `PointerLast` (single): when the pointer moves, everything else has been written. What
  `publish` does not read back may be corrupt; the property says exactly which objects.
- `ImplementsPointer` (concurrent): the abstract specification above.
- `CommandsEnd`, `PublishesOnceFaultsStop` (single): commands end, and after any history
  of failures and crashes a publication that meets no further fault succeeds.
- `SettledStays`, `ReadsWhole`, `ImplementsStore` (transfer): what a PUT that nothing
  interfered with has stored stays until another begins; a GET returns an object as it was
  at one moment of the call; the attempts of a call are one PUT to its caller.
- `EnoughRemains`, `CatchesUp`, `LockoutStays` (decision), `QuarantineHeals` (quarantine):
  what a release may lose; that a build within the bounds gets released; that a category
  beyond the ratio blocks every later run until something outside changes; and that it
  cannot come to that when no more than a third of a category is stale at a time.
- `ObjectsMatchRevision` (fetch): the objects of an installed source are those of its
  recorded revision, or newer ones where the URL moves and no digest pins them.
- `OnlyStaleLeftOut`: a source is left out for its age and for nothing else, and none is
  used that was too old when the fetch began.
- `LoadsWhole`: a build reads all the sources of the configuration of that moment,
  undamaged.
- `FetchEnds`, `FetchesOnceSettled`: retries and tag chains are bounded; and a stale
  source stops no fetch.
- `OwnersWin` (resolve): no host and no address is left in a category another one owns,
  whatever the kinds of the rules, though the owner is not published in that dataset or
  has lost entries itself. `NetworksExact`: nothing else is lost by the subtraction.
- `RemovalsAreReported`, `IndexesMatchPairwise`: the four implementations of "overlaps"
  agree: removal and report, trie and interval index, and the pairwise relation.
- `NoneUnresolved`: the check after the resolution, against other blockers than those the
  resolution went by, finds nothing.
- `SupersetFailsOnlyWhenDiverging`, `ServerCoversLite`: the only way the superset check can
  stop a release (a network of a thematic category that lite had to split and server did
  not), and that even then server matches what lite does.
- `WorkersEndFirst` (build): a compiler runs only while the main thread is in the pool of
  that compilation: none is left when the directory is validated, renamed or removed.
- `DistComplete`, `DatasetsKeptApart`, `ReleasedArchiveMatches`: dist has every artifact,
  usable, with a checksum, compiled from its own dataset, and the archive its manifest
  describes. `BuildEnds`: a build ends, whatever its workers do.
- `DestinationIsLast`, `FailureKeepsTree`, `LastTreeSurvives`, `InstallsOnceFaultsStop`
  (swap): the output directory is absent or the last complete tree; a failed run keeps the
  old one; `fetch` never loses a complete tree; recovery.

### Bounds, and why they are enough

*Publication.* Two versions are a live one and the one being published; a third adds only
more history. With three artifacts and two workers a spec waits for a worker, and can
start after another has failed. One version lacks an index page, so both ways of
`_copy_index_to_root` are taken. Three faults are one to fail the publication, one in the
cleanup and one in the next command. `concurrent` has fewer objects since what it asks is
about the order of two commands' stages; per object they behave alike. *Transfer.* Two
attempts are a killed one and another; two values tell a late request of one client from
those of the other. *Decision.* Counts up to 6 with ratio 1/2 put changes below, at and
above the ratio, and odd counts tell the ceiling from the floor; four changes let a source
go stale, a configuration drop it, and both come back. *Fetch.* A registry of two sources
has a first and a last one; two changes are one between the revision and a download and
one before the build; one retry separates the last attempt from the others. *Resolution.*
Three bits give an inner network on either side, and a piece that is split again by a
second blocker; with three networks two owners, of different tiers, cut into one network
in both orders, or one owner is cut itself. Two rules are enough for every pair of kinds.
*Build.* Two workers and three categories leave one waiting; of two builds one may succeed
and the other fail beside its dist. *Swaps.* Four runs are one that installs a tree, two
that fail or die in different places, and one that must recover.

`CHECK_DEADLOCK FALSE` is given for `resolve`, where a resolution ends, for `build` and
`swap`, where the bound on the number of runs stops the model, and for `fetch`.
Elsewhere commands can always start anew.

### Fairness

`Publication`: weak fairness of each command's own steps. Every call is bounded by
`_S3_SUBPROCESS_TIMEOUT_SECONDS` or the tool runner's timeout and by a fixed number of
attempts, and nothing waits for another command. Starting a command, and faults, are not
fair. `DirectorySwap`: weak fairness of the steps of a run that has started.
`FetchTransaction`: weak fairness of the steps of a fetch, for every request has a
timeout and fails or returns, and of `StartFetch`, for the workflow is scheduled every
hour. `BuildPipeline`: weak fairness of the steps of a build that has started, for every
compiler and engine runs under the tool runner's timeout. `ReleaseDecision`: weak fairness
of `Run`, for the workflow is bounded by `timeout-minutes`; the liveness properties speak
of the time after the last change and the last failed run.

### Mutants

For each property of each passing run `PROJECT.json` names a mutated definition that
breaks it: a read-back that is not compared, a future whose error is dropped, a call that
returns after its last attempt has failed, a version that is not fresh, a floor rounded
the wrong way, a digest or a checksum that is not compared, a stale source that is fatal,
a scan that stops one interval early, a trie that misses its own node, a pool that is not
waited for, a finalization that is cleaned up after, a rollback that does not verify the
tree once more, a file that is copied instead of renamed, a handler that does not restore, and
so on.

## 4. What is proved

TLAPS checks these for all values of the constants: any number of versions, paths,
workers, commands at a time, attempts, faults, sources, rules, categories, worlds and
ratios, and any width of an address.

| Theorem | States | Assumes besides the modules' ASSUMEs |
|---|---|---|
| `TypeCorrect` | `Spec => []TypeOK` of `Publication` | |
| `PublishedStaysIntact` | `Spec => []PublishedIntact` | `PointerAssumption` |
| `LatestIsFromIntact` | `Spec => LatestFromIntact` | `PointerAssumption` |
| `PublicationImplementsPointer` | `Spec => ImplementsPointer` | `PointerAssumption`, no `pointer_corrupt` |
| `PublicReleasesWereLive` | `Spec => []PublicReleaseIsLive` | `PointerIsSound`: no `pointer_corrupt`; no repeated `publish` |
| `PublicReleasesStay` | `Spec => PublicStaysPublic` | no repeated `publish` |
| `PublishedTreesStay`, `CleanupsSpareLive` | `ReleaseTreeImmutable`, `CleanupNeverOfLive` | `PointerAssumption` |
| `CleanedUpIsClean` | `Spec => []CleanedUp` | `OnePlace`: the commands run one after the other in one place; no repeated `publish` |
| `PointerMovesLast`, `PointerNamesReadable` | `Spec /\ []OneAtATime =>` `PointerLast`, `PointerToReadable` | no two commands run at a time |
| `SettledPutsStay`, `ReadsAreWhole` | `SettledStays`, `ReadsWhole` | |
| `TransferImplementsStore` | `Spec => ImplementsStore` | |
| `FetchInvariant` | `Spec => []FetchInv` | |
| `InstalledIsSound`, `LeftOutIsStale`, `BuildReadsWhole` | `ObjectsMatchRevision`, `OnlyStaleLeftOut`, `LoadsWhole` | |
| `ResolutionInvariant` | `Spec => []ResolutionInv` | |
| `OwnersKeepTheirs`, `NoConflictIsLeft` | `OwnersWin`, `NoneUnresolved` | |
| `ResolutionExact` | `Spec => [](ResolutionInv /\ ExactInv)` | |
| `NetworksAreExact`, `RemovalsReported` | `NetworksExact`, `RemovalsAreReported` | |
| `IndexesMatch` | `IndexesMatchPairwise` | |
| `SupersetFailures`, `ServerCovers` | `SupersetFailsOnlyWhenDiverging`, `ServerCoversLite` | |
| `BuildInvariant` | `Spec => []BuildInv` | |
| `NoWorkerOutlivesItsStage`, `DistIsComplete`, `NoDatasetMixedUp`, `ArchiveIsOfItsDist` | `WorkersEndFirst`, `DistComplete`, `DatasetsKeptApart`, `ReleasedArchiveMatches` | |
| `DestinationIsAlwaysLast`, `FailuresKeepTree`, `FetchedTreeSurvives` | `DestinationIsLast`, `FailureKeepsTree`, `LastTreeSurvives` | |
| `MinimumIsCeiling` | the quarantine minimum is the exact ceiling | |
| `ReleasesKeepEnough` | `Spec => EnoughRemains` | `~Overlapping` |
| `LockoutIsPermanent` | `Spec => LockoutStays` | |

`PointerAssumption` excludes an ambiguous PUT of the pointer and a repeated `publish`. The
runs `ambiguous_pointer` and `republish` show that the theorems need both: each refutes a
statement of the documentation, and `CleanupsSpareLive` and `PublishedTreesStay` are those
two statements with the assumption they need. What is public on GitHub
needs no assumption on the pointer's acknowledgement, only that no `publish` is repeated:
`gh` looks releases up by their tag, and with two releases of one tag it may upload to,
finalize or delete the other one. `CleanedUpIsClean`, `PointerMovesLast` and
`PointerNamesReadable` hold for every kind of fault, the latter two for repeated
publications too; what they need is that nobody else writes meanwhile. The
workflow's concurrency group sees to that between publications, and a rollback is up to the
operator. `OnePlace` is the instance of the run `single`. `OneAtATime` is weaker, as it
allows any number of places; `CleanedUp` needs the former because it speaks of a command
that has ended, after which another may publish.

The arguments:

- *Publication.* `PublishedIntact` is not inductive: nothing in it says why the tree a
  publication is about to publish is complete, or why a cleanup does not delete a
  published one. `SafeInv` adds that a publication's version is allocated and, until the
  pointer moves, not published; that a rollback's and the previous one are published; that
  two publications never share a version (`Distinct`); and which objects a publication has
  verified at each stage (`ProgressInv`, where the pool's `todo` and `busy` come in).
  `SafeFrame` reduces a step to what it does to the command that makes it, since each
  writes below its own version's prefix only; then there is one lemma per way to leave a
  stage and one step per action. Three theorems follow from `SafeInv`. The two about the
  GitHub releases follow from `GithubInv`: a command past the upload has every asset there
  (`UploadedStages`), one that has created a draft, and not finished it, finds it a draft
  (`DraftStages`), and one about to finalize has moved the pointer; and as no version is
  published twice, a tag has no other release that a command could find. A third
  invariant, `CommandInv(p)`, is about what one
  command has brought about by itself: for each stage after which part of the draft and the
  tree are gone (`DraftGone`, `TreeGone`), which objects of `/latest` hold what they should
  unless a failure is on record (`LatestWritten`), and what of the root has been written
  (`RootWritten`). `CommandStep` keeps it for the command that moves, whatever fails; that
  it is kept between two of its calls is what the two assumptions are for. A fourth,
  `TreeRead(p)`, says what a command has read of its tree at each stage up to the pointer
  (`ReadStages`), a publication object by object in its pool and a rollback in its own
  loop; it does not mind what the tree was before the command began.
- *ObjectTransfer.* `TransferInv`: a PUT that is alone owns the object once it has taken
  effect, and a complete output file is of a moment of the call. The refinement maps a
  client between two attempts to a PUT that has abandoned its request.
- *FetchTransaction.* `FetchInv` follows one source through its requests: what its
  `found` says of its version at each of them (`LocatedOK`), what has been downloaded
  (`GotOK`), that ages only grow (`AgesOK`), and that what is staged and installed was
  sound or rightly left out and stays so as upstreams move on (`StagedOK`,
  `InstalledOK`; `SoundStays`, `LeftOutStays`).
- *Resolution.* `ResolutionInv`: each entry stems from entries of the pool (`PoolOK`,
  `PublishedOK`), what is resolved or subtracted so far is below what was published and
  apart from the owners in the pool (`ResolvedOK`, `CutOK`), and what is not yet is in
  `todo` (`TodoOK`). The core is two facts about overlaps. `IsBlocked` is complete: an
  entry it keeps has no host in common with a blocker, for every pair of kinds. And after
  `Pieces` a network is apart from the blocker, which rests on paths: of two prefixes of
  one path one is a prefix of the other. `NoneUnresolved` follows since every blocker that
  is left was in the pool, or is a piece of a network that was.
  `ExactInv` adds that nothing else goes. It says what the subtraction comes to whatever the
  order of the blockers: `Leftover(e, P)` is `e`, if nothing of `P` meets it, and otherwise
  the siblings along the paths to networks of `P` that no network of `P` contains. It does
  not speak of the rounds, and `LeftoverStep` shows that one more round of
  `SubtractBlocker` takes `Leftover(e, P)` to `Leftover(e, P \cup {b})`. That the siblings
  cover the rest of a network, `LeftoverHits`, would be an induction along a path. Instead
  it takes the smallest prefix of an address that is apart from `P` (`Smallest`, from the
  library's theorem on well-founded relations): one bit shorter it is not, so that it is a
  sibling. `NetworksExact` is `LeftoverHits`; `RemovalsAreReported` follows since an entry
  stays what it was exactly if `Leftover` is the network itself; and the two statements on
  the superset since the owners of a category in server are among those in lite and the
  same unless it is thematic (`ServerBlockers`), and both datasets publish the same of a
  category that both publish (`SamePublished`). `IndexesMatchPairwise` is of the start of
  the resolution only. `TrieFinds` says what the descent of the trie comes to, for which
  every prefix of a blocker's labels has to be a node; two intervals of networks intersect exactly if one path is a prefix
  of the other, since at the first bit in which two paths differ all of one interval is
  below all of the other, and the scan's early stop drops nothing since the running maximum
  at a match's position and above is at least the end of that match.
- *BuildPipeline.* `BuildInv`: the files of the stage at each compilation, with the
  dataset each was compiled from (`TreeOK`, which says where `geoip.dat` is between the
  second and the fourth compilation), what the workers have still to compile (`PoolOK`),
  and dist with its archive (`StageOK`, `DistOK`): an archive of a version of a build can
  be overwritten by that build only.
- *DirectorySwap.* `SwapInv` says for each step which of the directories are there and
  what they hold, and that the destination a run found was the last installed tree. For
  `fetch` an invariant on top of it follows the last installed tree through the swap.
- *ReleaseDecision.* `PlanInv`: during a run `previous` is the live manifest, and a
  planned release keeps enough of it. The core is arithmetic: a count that passes the
  floor or is within the ratio satisfies `Kept`. `LockoutIsPermanent` is an invariance
  proof of `LockedOut` once the surroundings have settled.

## 5. Only model-checked

- Liveness (`CommandsEnd`, `PublishesOnceFaultsStop`, `InstallsOnceFaultsStop`,
  `CatchesUp`, `QuarantineHeals`, `FetchEnds`, `FetchesOnceSettled`, `BuildEnds`), which
  is beyond this prover, as are ENABLED, induction over data and RECURSIVE operators; no
  module uses the latter.

Every invariant and every action property of a passing run is proved.

## 6. Where the documentation and the code disagree

Two are shown by a run that refutes a documented statement, quoted in `PROJECT.json`.

1. `ambiguous_pointer`: `publish_release` takes any exception of the pointer's PUT for
   "the pointer never moved". When the PUT took effect and its process was killed on
   timeout, the cleanup deletes the tree the pointer names.
2. `republish`: nothing keeps `publish` from being run on a dist that has been published.
   If any call of it fails then, in the trace the creation of the draft, its cleanup deletes
   the published tree, which is documented as never overwritten. `PointerToReadable` says
   what is left: the damaged version is not made live again. With the draft beside the
   public release, `gh release delete` of that cleanup may moreover reach the public one;
   whether it does is up to `gh`, which is why the two properties of public releases are
   of versions published once.

Others met while modelling, for which there is no run:

- The cleanup restores `/latest` from the manifest it was given before the build
  (`publish.py:584`); after a rollback in between, that is not the live version's.
- `SHA256SUMS` is put before the pointer and not put back when the pointer's PUT fails
  (`publish.py:420`), although the publication reports that it was cleaned up. `CleanedUp`
  leaves it out for that reason.
- `_publish_dist` says "Atomically" (`cli.py:1033`), but a crash between its two renames
  leaves no dist, and the next build deletes the backup before it renames.
- A comment in `_is_blocked` (`resolve.py:533`) says that it matches `_entries_overlap`
  for keywords and expressions. A keyword or expression whose text has a dot and the
  dotless expression overlap by the former and not by the latter. The code errs on the
  safe side; `IndexesMatchPairwise` leaves patterned candidates out for that reason.
- The objects of a branch may be of later commits than the revision recorded for them
  (`fetch.py:230`), as the URL names the branch. `ObjectsMatchRevision` says so.

Two consequences of `plan_release` that the documentation says nothing about:

- With all thresholds at 0.5 as shipped, a category that lost a stale source which made up
  more than a third of it passes the floor without that source and then exceeds the ratio
  when it returns: from then on every run fails (`LockedOut`) until an upstream or the
  configuration changes or an operator rolls back. `LockoutStays` and `QuarantineHeals`
  state both sides. `quarantine` with `MaxStale = 2` shows the way into it.
- A rollback during a run makes another release the live one, and the bounds are taken
  against the one before: `EnoughRemains` fails in `decision` with `Overlapping = TRUE`.

Four hazards of `PROJECT.json` have no property: the stale manifest of the cleanup and the
`SHA256SUMS` it leaves, both above; an `index.html` that another command overwrites between
a PUT and its read-back, which fails a sound publication; and a migration that resets its
categories for another pair of policies than the one approved, since `Kept` takes the
exemption from the code. The models contain all four histories but the last, which they
translate and do not judge.

## 7. What is left to do

1. `SnapshotReader`: a client that follows `src/README.md` (pointer, then the immutable
   tree) composed with `Publication`: it always completes a consistent snapshot.
2. `Publication` on top of `ObjectStore`: late effects of killed requests in a whole
   publication, where a version's objects have keys of their own but `/latest` and the
   pointer do not.
3. A property of the cleanup's stale manifest (section 6): as long as no rollback comes in
   between, what it restores is the live release.

## 8. Not modelled

- Parsing, normalization, YAML validation and template expansion are stateless and tested
  by examples; the native compilers and engines are external. The tool versions, the text
  files a build writes itself (JSON, YAML and configuration templates), the representation
  report and the license texts decide nothing.
- `check` and its fixtures are a build on stored inputs. `_validate_checksums` is an
  option of `validate_build` that `build` leaves off.
- HTTP headers, content types, cache lifetimes, size limits, manifest fields no decision
  depends on, job summaries and logging; the parsing of GitHub's answers, whose failure is
  a `GiveUp`. A source whose license is not reviewed is refused when the configuration is
  loaded (`config.py:482`), so `fetch` never meets one.
- Two objects with equal contents share one file in the fetched tree; in the model
  contents of different files differ. Attributes of rules only keep two rules apart, and
  lists are sets, for their order is that of a sort.
- Provisioning and the container build.

## 9. Running the checks

    tlc -workers 2 -config single.cfg MCPublication
    tlc -workers 2 -config decision.cfg MCReleaseDecision
    tlc -workers 2 -config fetch.cfg MCFetchTransaction
    tlc -workers 2 -config resolve.cfg MCResolution
    tlc -workers 2 -config build.cfg MCBuildPipeline
    tlc -workers 2 -config transfer.cfg ObjectTransfer
    tlc -workers 2 -config swap.cfg DirectorySwap
    tlapm PublicationProofs.tla

The runs take from a second to two minutes, the proofs about a minute for each module.
