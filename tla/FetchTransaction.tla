-------------------------- MODULE FetchTransaction --------------------------
(***************************************************************************)
(* fetch_all: every source of the registry is located at a revision,       *)
(* checked for freshness, downloaded and recorded in a staging directory,  *)
(* which replaces the destination when all are there; and the build that   *)
(* later reads that directory (_fetched_sources_from_inputs).  Meanwhile   *)
(* the upstreams move on, request by request, and the configuration may    *)
(* change between the commands.                                            *)
(*                                                                         *)
(* A version of an upstream is a commit of its branch or a release.  Its   *)
(* edition counts how often the assets of a release have been uploaded     *)
(* again.  An object's content is the file, version and edition it comes   *)
(* from, so that two contents are the same when their SHA-256 is.          *)
(***************************************************************************)
EXTENDS Integers, SequencesExt

CONSTANTS
  Releases,   \* sources with a GitHub release
  Branches,   \* sources read from raw.githubusercontent.com
  Locals,     \* builtin and local_text sources
  Files,      \* category_locations: the set of locations of each source
  Rolling,    \* releases whose URLs do not change from one to the next
  Pinned,     \* releases whose metadata has the assets' digests
  Synced,     \* aireps/geosite
  Registries, \* the sequences of sources config/sources.yaml may list
  Commit,     \* a git object that is a commit
  Tags,       \* annotated tags: [tag -> the object it points to]
  MaxRetries, \* _MAX_RETRIES
  MaxChanges, \* bound on the changes of upstreams and configuration
  MaxFaults,  \* bound on the number of faults
  None

Sources == Releases \cup Branches \cup Locals

ASSUME FetchAssumption ==
         /\ Releases \cap Branches = {} /\ Locals \cap (Releases \cup Branches) = {}
         /\ Rolling \subseteq Releases /\ Pinned \subseteq Releases
         /\ Synced \in Releases
         /\ DOMAIN Files = Sources /\ \A s \in Sources : Files[s] # {}
         /\ \A r \in Registries : r \in Seq(Sources) /\ r # <<>>
         /\ Registries # {} /\ Commit \notin DOMAIN Tags
         /\ \A t \in DOMAIN Tags : Tags[t] \in DOMAIN Tags \cup {Commit}
         /\ MaxRetries \in Nat /\ MaxChanges \in Nat /\ MaxFaults \in Nat

VARIABLES
  upstream,    \* upstream[s][v]: the edition of version v
  lacking,     \* releases whose newest version has no assets yet
  old,         \* old[s]: the newest version beyond the age limit
  lagging,     \* is Synced too far behind v2fly?
  registry,
  destination, \* the metadata of each source in the fetched tree, or None
  damaged,     \* objects of that tree whose bytes have changed or are gone
  loaded,      \* what a build has read since the last fetch, or None
  pc,          \* the next request, or how the last fetch ended
  index,       \* number of the current source in the registry
  attempt,     \* attempts of the current request that have failed
  found,       \* what is known of the current source: version, listed, missing, revision
  tag,         \* the git object its tag resolves to so far
  seen,        \* seen_tags
  got,         \* its objects downloaded so far
  staged,      \* the metadata in the staging directory
  oldAtStart,  \* history: old when the fetch started
  changes, faults

world  == <<upstream, lacking, old, lagging, registry, changes>>
source == <<attempt, found, tag, seen, got>>
vars   == <<world, destination, damaged, loaded, pc, index, source, staged, oldAtStart, faults>>

Ended    == {"done", "failed"}
Requests == {"release", "ref", "tag", "commit", "lag", "download"}

Newest(s)    == Len(upstream[s])
Moving       == Branches \cup Rolling
Stale(s, v)  == v <= old[s]
Unknown      == [version |-> 0, listed |-> 0, missing |-> FALSE, revision |-> 0]
NothingGot   == <<>>
Content(f, v, e) == [file |-> f, version |-> v, edition |-> e]

\* What the URL of a file of version v serves now.
Served(s, v, f) ==
  LET n == IF s \in Moving THEN Newest(s) ELSE v IN Content(f, n, upstream[s][n])

Init ==
  /\ upstream = [s \in Sources |-> <<0>>] /\ lacking = {} /\ old = [s \in Sources |-> 0]
  /\ lagging = FALSE /\ registry \in Registries /\ changes = 0 /\ faults = 0
  /\ destination = None /\ damaged = {} /\ loaded = None
  /\ pc = "done" /\ index = 1 /\ attempt = 0 /\ found = Unknown /\ tag = Commit
  /\ seen = {} /\ got = NothingGot /\ staged = <<>> /\ oldAtStart = old

Current == registry[index]

\* Versions, editions and revisions are numbers; what is downloaded is of the current source.
TypeOK ==
  /\ upstream \in [Sources -> Seq(Nat)] /\ lacking \subseteq Releases
  /\ old \in [Sources -> Nat] /\ oldAtStart \in [Sources -> Nat]
  /\ lagging \in BOOLEAN /\ registry \in Registries
  /\ pc \in Requests \cup Ended \cup {"local", "install"} /\ index \in 1..Len(registry)
  /\ attempt \in 0..MaxRetries /\ faults \in 0..MaxFaults /\ changes \in 0..MaxChanges
  /\ found \in [version : Nat, listed : Nat, missing : BOOLEAN, revision : Nat]
  /\ tag \in DOMAIN Tags \cup {Commit} /\ seen \subseteq DOMAIN Tags
  /\ DOMAIN got \subseteq Files[Current] /\ DOMAIN staged \subseteq Sources
  /\ destination # None => DOMAIN destination \subseteq Sources

----------------------------------------------------------------------------

\* Where _fetch_source begins for a source of each kind.
First(s) == CASE s \in Releases -> "release"
              [] s \in Branches -> "commit"
              [] s \in Locals   -> "local"

Idle == attempt' = 0 /\ found' = Unknown /\ tag' = Commit /\ seen' = {} /\ got' = NothingGot

\* The staging directory goes, and the destination stays.
Fail ==
  /\ pc' = "failed" /\ index' = 1 /\ Idle /\ staged' = <<>>
  /\ UNCHANGED <<world, destination, damaged, loaded, oldAtStart>>

\* The metadata of the current source is written; on to the next one.
Record(metadata) ==
  /\ staged' = [s \in DOMAIN staged \cup {Current} |->
                  IF s = Current THEN metadata ELSE staged[s]]
  /\ Idle
  /\ IF index = Len(registry) THEN pc' = "install" /\ index' = index
     ELSE pc' = First(registry[index + 1]) /\ index' = index + 1
  /\ UNCHANGED <<world, destination, damaged, loaded, oldAtStart>>

Accepted(objects) == [status |-> "accepted", revision |-> found.revision, objects |-> objects]
Quarantined(v)    == [status |-> "degraded", revision |-> v, objects |-> <<>>]

\* A request is answered; the next one is `next`.
Proceed(next) ==
  /\ pc' = next /\ attempt' = 0
  /\ UNCHANGED <<world, destination, damaged, loaded, index, staged, oldAtStart>>

----------------------------------------------------------------------------
StartFetch ==
  /\ pc \in Ended /\ pc' = First(registry[1]) /\ index' = 1 /\ staged' = <<>>
  /\ Idle /\ oldAtStart' = old /\ loaded' = None
  /\ UNCHANGED <<world, destination, damaged, faults>>

\* _fetch_builtin_source and _fetch_local_text_source: no upstream, no age.
MaterializeLocal ==
  /\ pc = "local" /\ UNCHANGED faults
  /\ LET v == Newest(Current) IN
     Record([status |-> "accepted", revision |-> v,
             objects |-> [f \in Files[Current] |-> Served(Current, v, f)]])

\* A 5xx status or a transport error.
Retry ==
  /\ pc \in Requests /\ attempt < MaxRetries
  /\ faults < MaxFaults /\ faults' = faults + 1
  /\ attempt' = attempt + 1
  /\ UNCHANGED <<world, destination, damaged, loaded, pc, index, found, tag, seen, got,
                 staged, oldAtStart>>

\* The last attempt, or an error that is not tried again: a 4xx status, no JSON, an empty
\* object, a file that cannot be read.
GiveUp ==
  /\ pc \in Requests \cup {"local"}
  /\ faults < MaxFaults /\ faults' = faults + 1 /\ Fail

\* The document of the latest release: its tag, its assets and their digests.
ReadRelease ==
  /\ pc = "release" /\ Proceed("ref")
  /\ LET s == Current IN
     found' = [version  |-> Newest(s), listed |-> upstream[s][Newest(s)],
               missing  |-> s \in lacking, revision |-> Newest(s)]
  /\ UNCHANGED <<tag, seen, got, faults>>

\* The reference of the tag: a commit, or an annotated tag, whose chain may be broken.
ReadRef ==
  /\ pc = "ref"
  /\ \E object \in DOMAIN Tags \cup {Commit} :
       /\ tag' = object /\ Proceed(IF object = Commit THEN "commit" ELSE "tag")
       /\ IF object = Commit \/ Tags[object] = Commit THEN UNCHANGED faults
          ELSE faults < MaxFaults /\ faults' = faults + 1
  /\ UNCHANGED <<found, seen, got>>

\* Mutant: the tags seen are not remembered.
ReadTag_Forgets ==
  /\ pc = "tag" /\ UNCHANGED faults
  /\ tag' = Tags[tag] /\ Proceed(IF Tags[tag] = Commit THEN "commit" ELSE "tag")
  /\ UNCHANGED <<found, seen, got>>

\* One annotated tag of the chain, unless it has been seen before.
ReadTag ==
  /\ pc = "tag" /\ UNCHANGED faults
  /\ \/ tag \in seen /\ Fail
     \/ /\ tag \notin seen /\ seen' = seen \cup {tag}
        /\ tag' = Tags[tag] /\ Proceed(IF Tags[tag] = Commit THEN "commit" ELSE "tag")
        /\ UNCHANGED <<found, got>>

\* Mutant: a stale source fails the fetch like any other error.
ReadCommit_StaleIsFatal ==
  /\ pc = "commit" /\ UNCHANGED faults
  /\ LET s == Current
         r == IF s \in Moving THEN Newest(s) ELSE found.version
         v == IF s \in Branches THEN r ELSE found.version
     IN  \/ (found.missing \/ Stale(s, v)) /\ Fail
         \/ /\ ~found.missing /\ ~Stale(s, v)
            /\ found' = [found EXCEPT !.version = v, !.revision = r]
            /\ Proceed(IF s = Synced THEN "lag" ELSE "download")
            /\ UNCHANGED <<tag, seen, got>>

\* Mutant: a release without its assets is left out as if it were stale.
ReadCommit_LeavesOutMissing ==
  /\ pc = "commit" /\ UNCHANGED faults
  /\ LET s == Current
         r == IF s \in Moving THEN Newest(s) ELSE found.version
         v == IF s \in Branches THEN r ELSE found.version
     IN  \/ (found.missing \/ Stale(s, v)) /\ Record(Quarantined(v))
         \/ /\ ~found.missing /\ ~Stale(s, v)
            /\ found' = [found EXCEPT !.version = v, !.revision = r]
            /\ Proceed(IF s = Synced THEN "lag" ELSE "download")
            /\ UNCHANGED <<tag, seen, got>>

\* The commit of the tag, or of the branch; then the locations, an asset that is missing
\* being fatal even when the release is stale, and the age.
ReadCommit ==
  /\ pc = "commit" /\ UNCHANGED faults
  /\ LET s == Current
         r == IF s \in Moving THEN Newest(s) ELSE found.version
         v == IF s \in Branches THEN r ELSE found.version
     IN  \/ found.missing /\ Fail
         \/ ~found.missing /\ Stale(s, v) /\ Record(Quarantined(v))
         \/ /\ ~found.missing /\ ~Stale(s, v)
            /\ found' = [found EXCEPT !.version = v, !.revision = r]
            /\ Proceed(IF s = Synced THEN "lag" ELSE "download")
            /\ UNCHANGED <<tag, seen, got>>

\* _sync_lag_hours.
CheckLag ==
  /\ pc = "lag" /\ UNCHANGED faults
  /\ \/ lagging /\ Fail
     \/ ~lagging /\ Proceed("download") /\ UNCHANGED <<found, tag, seen, got>>

\* Mutant: the digest of an asset is not compared.
DownloadObject_NoCompare ==
  /\ pc = "download" /\ UNCHANGED faults
  /\ \E f \in Files[Current] \ DOMAIN got :
       LET now == Served(Current, found.version, f)
           objects == [g \in DOMAIN got \cup {f} |-> IF g = f THEN now ELSE got[g]]
       IN  \/ Current \in lacking /\ now.version = Newest(Current) /\ Fail
           \/ /\ Current \in lacking => now.version # Newest(Current)
              /\ IF DOMAIN objects = Files[Current] THEN Record(Accepted(objects))
                 ELSE Proceed("download") /\ got' = objects /\ UNCHANGED <<found, tag, seen>>

\* _download_object: what the URL serves at that moment, if it is there and, where the
\* release lists a digest, has that digest.  The metadata follows the last object.
DownloadObject ==
  /\ pc = "download" /\ UNCHANGED faults
  /\ \E f \in Files[Current] \ DOMAIN got :
       LET now == Served(Current, found.version, f)
           gone == Current \in lacking /\ now.version = Newest(Current)
           differs == Current \in Pinned /\ now # Content(f, found.version, found.listed)
           objects == [g \in DOMAIN got \cup {f} |-> IF g = f THEN now ELSE got[g]]
       IN  \/ (gone \/ differs) /\ Fail
           \/ /\ ~gone /\ ~differs
              /\ IF DOMAIN objects = Files[Current] THEN Record(Accepted(objects))
                 ELSE Proceed("download") /\ got' = objects /\ UNCHANGED <<found, tag, seen>>

\* _replace_directory, whose steps are those of DirectorySwap.
Install ==
  /\ pc = "install"
  /\ \/ /\ destination' = staged /\ damaged' = {} /\ pc' = "done" /\ index' = 1
        /\ staged' = <<>> /\ UNCHANGED <<world, loaded, source, oldAtStart, faults>>
     \/ faults < MaxFaults /\ faults' = faults + 1 /\ Fail

----------------------------------------------------------------------------
Intact(metadata) == \A f \in DOMAIN metadata.objects : metadata.objects[f] \notin damaged

\* Mutant: the checksums of the objects are not compared.
LoadInputs_NoCompare ==
  /\ pc \in Ended /\ destination # None
  /\ \A i \in 1..Len(registry) : registry[i] \in DOMAIN destination
  /\ loaded' = [s \in ToSet(registry) |->
                  [metadata |-> destination[s], intact |-> Intact(destination[s])]]
  /\ UNCHANGED <<world, destination, damaged, pc, index, source, staged, oldAtStart, faults>>

\* _fetched_sources_from_inputs: each source of the registry, with all of its objects.
LoadInputs ==
  /\ pc \in Ended /\ destination # None
  /\ \A i \in 1..Len(registry) : /\ registry[i] \in DOMAIN destination
                                 /\ Intact(destination[registry[i]])
  /\ loaded' = [s \in ToSet(registry) |->
                  [metadata |-> destination[s], intact |-> Intact(destination[s])]]
  /\ UNCHANGED <<world, destination, damaged, pc, index, source, staged, oldAtStart, faults>>

\* An object of the fetched tree is lost or altered between the commands.
Damage ==
  /\ destination # None /\ faults < MaxFaults /\ faults' = faults + 1
  /\ \E s \in DOMAIN destination : \E f \in DOMAIN destination[s].objects :
       damaged' = damaged \cup {destination[s].objects[f]}
  /\ UNCHANGED <<world, destination, loaded, pc, index, source, staged, oldAtStart>>

----------------------------------------------------------------------------
Change ==
  /\ changes < MaxChanges /\ changes' = changes + 1
  /\ UNCHANGED <<destination, damaged, loaded, pc, index, source, staged, oldAtStart, faults>>

\* A commit, a release, whose assets may follow later, or an edit of a local file.
NewVersion(s) ==
  /\ Change /\ upstream' = [upstream EXCEPT ![s] = Append(@, 0)]
  /\ lacking' \in {lacking \ {s}, (lacking \cup {s}) \cap Releases}
  /\ UNCHANGED <<old, lagging, registry>>

\* The assets of the newest release are uploaded again.
NewEdition(s) ==
  /\ Change /\ s \in Releases
  /\ upstream' = [upstream EXCEPT ![s][Newest(s)] = @ + 1]
  /\ UNCHANGED <<lacking, old, lagging, registry>>

\* They are uploaded at last.
AssetsArrive(s) ==
  /\ s \in lacking /\ lacking' = lacking \ {s}
  /\ UNCHANGED <<upstream, old, lagging, registry, changes, destination, damaged, loaded, pc,
                 index, source, staged, oldAtStart, faults>>

\* The newest version has become too old.
Age(s) ==
  /\ Change /\ old' = [old EXCEPT ![s] = Newest(s)]
  /\ UNCHANGED <<upstream, lacking, lagging, registry>>

LagChanges == Change /\ lagging' = ~lagging /\ UNCHANGED <<upstream, lacking, old, registry>>

\* The configuration changes between two commands.
Configure ==
  /\ pc \in Ended /\ Change /\ registry' \in Registries
  /\ UNCHANGED <<upstream, lacking, old, lagging>>

FetchStep ==
  \/ MaterializeLocal \/ Retry \/ GiveUp \/ ReadRelease \/ ReadRef \/ ReadTag \/ ReadCommit
  \/ CheckLag \/ DownloadObject \/ Install
World == \/ \E s \in Sources : NewVersion(s) \/ NewEdition(s) \/ AssetsArrive(s) \/ Age(s)
         \/ LagChanges \/ Configure \/ Damage
Next  == StartFetch \/ FetchStep \/ LoadInputs \/ World

Spec     == Init /\ [][Next]_vars
FairSpec == Spec /\ WF_vars(StartFetch) /\ WF_vars(FetchStep)

----------------------------------------------------------------------------
\* The objects of an accepted source are at least as new as its revision, and are of just
\* that revision where the URL is the release's own or the release lists digests; then they
\* are also of one edition.  On a branch they may be of newer commits than the one recorded.
Sound(s, metadata) ==
  metadata.status = "accepted" =>
    /\ DOMAIN metadata.objects = Files[s]
    /\ \A f \in Files[s] :
         /\ metadata.objects[f].file = f
         /\ metadata.objects[f].version \in metadata.revision..Newest(s)
         /\ s \notin Moving \/ s \in Pinned => metadata.objects[f].version = metadata.revision
    /\ s \in Pinned => \A f, g \in Files[s] : metadata.objects[f].edition = metadata.objects[g].edition

\* Whatever the upstreams do between the requests of a fetch, what it installs is sound.
ObjectsMatchRevision == destination # None => \A s \in DOMAIN destination : Sound(s, destination[s])

\* A source is left out of the fetched tree only for its age: a version that has become too
\* old, and never because of an error; and no source is used that was too old already when
\* the fetch started.
OnlyStaleLeftOut ==
  \A s \in DOMAIN staged :
    IF staged[s].status = "degraded" THEN Stale(s, staged[s].revision)
    ELSE s \in Locals \/ staged[s].revision > oldAtStart[s]

\* A build takes all the sources of the configuration it reads, neither more nor fewer, and
\* none that was damaged after the fetch, though configuration and inputs may have changed
\* since.
LoadsWhole ==
  [][loaded' \notin {loaded, None} =>
       /\ DOMAIN loaded' = ToSet(registry)
       /\ \A s \in DOMAIN loaded' : Sound(s, loaded'[s].metadata) /\ loaded'[s].intact]_vars

\* A fetch ends: retries are bounded, and so is a chain of tags.
FetchEnds == pc \notin Ended ~> pc \in Ended

\* When releases have their assets and the synchronized source does not lag, fetches succeed
\* again and again: a source that is stale stops none of them.
Settled == /\ lacking = {}
           /\ lagging => Stale(Synced, Newest(Synced))
FetchesOnceSettled == <>[]Settled => []<>(pc = "done")
=============================================================================
