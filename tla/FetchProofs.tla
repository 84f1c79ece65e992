---------------------------- MODULE FetchProofs ----------------------------
(***************************************************************************)
(* Fetching, for any sources, files, registries, retries and tags, and any *)
(* number of changes and faults: what a fetch installs and leaves out, and *)
(* what a build reads.                                                     *)
(***************************************************************************)
EXTENDS FetchTransaction, SequenceTheorems, TLAPS

\* The parts of TypeOK: the world, and the fetch under way.
WorldOK ==
  /\ upstream \in [Sources -> Seq(Nat)] /\ lacking \subseteq Releases
  /\ old \in [Sources -> Nat] /\ lagging \in BOOLEAN /\ registry \in Registries
  /\ changes \in 0..MaxChanges /\ faults \in 0..MaxFaults
CursorOK ==
  /\ pc \in Requests \cup Ended \cup {"local", "install"} /\ index \in 1..Len(registry)
  /\ attempt \in 0..MaxRetries /\ oldAtStart \in [Sources -> Nat]
  /\ found \in [version : Nat, listed : Nat, missing : BOOLEAN, revision : Nat]
  /\ tag \in DOMAIN Tags \cup {Commit} /\ seen \subseteq DOMAIN Tags
  /\ DOMAIN got \subseteq Files[Current]
TreesOK == DOMAIN staged \subseteq Sources /\ (destination # None => DOMAIN destination \subseteq Sources)

\* Each request is for a source of its kind, or for an annotated tag.
KindOK ==
  /\ pc = "tag" => tag \in DOMAIN Tags
  /\ pc = "local" => Current \in Locals
  /\ pc \in {"release", "ref", "tag", "lag"} => Current \in Releases
  /\ pc \in {"commit", "download"} => Current \in Releases \cup Branches
  /\ pc \in Ended => index = 1

\* What is known of the current source is not newer than what there is, and its revision is
\* at least as new as the release whose assets and digests are taken.
LocatedOK ==
  /\ pc \in {"ref", "tag"} \/ (pc = "commit" /\ Current \in Releases) => found.version <= Newest(Current)
  /\ pc \in {"lag", "download"} =>
       /\ found.version <= found.revision /\ found.revision <= Newest(Current)
       /\ (Current \notin Moving => found.version = found.revision)
       /\ oldAtStart[Current] < found.version

\* What has been downloaded is from the revision or newer, and is what the release has listed.
GotOK ==
  /\ pc # "download" => got = NothingGot
  /\ pc = "download" => \A f \in DOMAIN got :
       /\ got[f].file = f /\ got[f].version \in found.revision..Newest(Current)
       /\ (Current \notin Moving => got[f].version = found.revision)
       /\ (Current \in Pinned => got[f] = Content(f, found.version, found.listed))

\* Versions only get older during a fetch, and none that is newer than the newest.
AgesOK ==
  /\ \A s \in Sources : old[s] <= Newest(s) /\ Newest(s) >= 1
  /\ pc \notin Ended => \A s \in Sources : oldAtStart[s] <= old[s]

\* Sound, when n is the newest version.
SoundUpTo(s, metadata, n) ==
  /\ metadata.revision \in Nat
  /\ metadata.status = "accepted" =>
    /\ DOMAIN metadata.objects = Files[s]
    /\ \A f \in Files[s] :
         /\ metadata.objects[f].file = f
         /\ metadata.objects[f].version \in metadata.revision..n
         /\ (s \notin Moving \/ s \in Pinned => metadata.objects[f].version = metadata.revision)
    /\ s \in Pinned => \A f, g \in Files[s] : metadata.objects[f].edition = metadata.objects[g].edition

\* OnlyStaleLeftOut for one source, when o is the newest version that is too old.
LeftOutRightly(s, metadata, o, start) ==
  IF metadata.status = "degraded" THEN metadata.revision <= o
  ELSE s \in Locals \/ metadata.revision > start

\* The staged metadata is sound and rightly left out, and the installed is sound.
StagedOK ==
  /\ pc \in Ended => DOMAIN staged = {}
  /\ \A s \in DOMAIN staged : /\ SoundUpTo(s, staged[s], Newest(s))
                              /\ LeftOutRightly(s, staged[s], old[s], oldAtStart[s])
InstalledOK == destination # None => \A s \in DOMAIN destination : SoundUpTo(s, destination[s], Newest(s))

FetchInv == /\ WorldOK /\ CursorOK /\ TreesOK
            /\ KindOK /\ LocatedOK /\ GotOK /\ AgesOK /\ StagedOK /\ InstalledOK

\* What is sound and rightly left out stays so as versions are added and get older.
LEMMA SoundStays ==
  ASSUME NEW s, NEW m, NEW n \in Nat, NEW k \in Nat, n <= k, SoundUpTo(s, m, n)
  PROVE  SoundUpTo(s, m, k)
BY DEF SoundUpTo

\* What was rightly left out, or rightly not, stays so as the sources grow older.
LEMMA LeftOutStays ==
  ASSUME NEW s, NEW m, NEW o \in Nat, NEW p \in Nat, NEW start, o <= p, m.revision \in Nat,
         LeftOutRightly(s, m, o, start)
  PROVE  LeftOutRightly(s, m, p, start)
BY DEF LeftOutRightly

\* A registry is a sequence of sources, and its current one is one of them.
LEMMA CurrentSource ==
  ASSUME WorldOK, CursorOK
  PROVE  /\ Current \in Sources
         /\ Len(registry) \in Nat \ {0}
         /\ \A i \in 1..Len(registry) : registry[i] \in Sources
<1>1. registry \in Seq(Sources) /\ registry # <<>>
  BY FetchAssumption DEF WorldOK
<1>2. QED
  BY <1>1 DEF CursorOK, Current

\* The newest version of a source is a number.
LEMMA NewestType == ASSUME WorldOK PROVE \A s \in Sources : Newest(s) \in Nat
  BY DEF WorldOK, Newest

\* The invariant holds before the first fetch.
LEMMA FetchInit == Init => FetchInv
<1> SUFFICES ASSUME Init PROVE FetchInv
  OBVIOUS
<1>1. \A r \in Registries : r \in Seq(Sources) /\ Len(r) \in Nat \ {0}
  BY FetchAssumption
<1>2. upstream \in [Sources -> Seq(Nat)] /\ \A s \in Sources : Len(upstream[s]) = 1
  BY DEF Init
<1>3. DOMAIN NothingGot = {} /\ DOMAIN staged = {}
  BY DEF Init, NothingGot
<1>4. WorldOK
  <2>1. 0 \in 0..MaxChanges /\ 0 \in 0..MaxFaults
    BY FetchAssumption
  <2>2. lacking = {} /\ old \in [Sources -> Nat] /\ lagging \in BOOLEAN
    BY DEF Init
  <2>3. registry \in Registries /\ changes = 0 /\ faults = 0
    BY DEF Init
  <2>4. QED
    BY <1>2, <2>1, <2>2, <2>3 DEF WorldOK
<1>5. CursorOK
  <2>1. index \in 1..Len(registry) /\ registry \in Registries /\ DOMAIN got = {}
    BY <1>1, <1>3 DEF Init
  <2>2. found \in [version : Nat, listed : Nat, missing : BOOLEAN, revision : Nat]
    BY DEF Init, Unknown
  <2>3. QED
    BY <2>1, <2>2, FetchAssumption DEF Init, CursorOK, Ended
<1>6. KindOK /\ LocatedOK /\ GotOK
  BY DEF Init, KindOK, LocatedOK, GotOK, Ended
<1>7. AgesOK /\ StagedOK /\ InstalledOK /\ TreesOK
  BY <1>2, <1>3 DEF Init, AgesOK, StagedOK, InstalledOK, TreesOK, Ended, Newest
<1>8. QED
  BY <1>4, <1>5, <1>6, <1>7 DEF FetchInv

----------------------------------------------------------------------------
\* The actions of the world.
LEMMA WorldGrows ==
  ASSUME WorldOK, AgesOK, World
  PROVE  /\ WorldOK'
         /\ \A s \in Sources : Newest(s) <= Newest(s)' /\ old[s] <= old'[s] /\ old'[s] <= Newest(s)'
         /\ registry' = registry \/ pc \in Ended
         /\ UNCHANGED <<destination, pc, index, source, staged, oldAtStart, loaded>>
<1>1. \A s \in Sources : upstream[s] \in Seq(Nat) /\ Len(upstream[s]) \in Nat \ {0}
  BY NewestType DEF WorldOK, AgesOK, Newest
<1>2. \A s \in Sources : old[s] \in Nat /\ old[s] <= Len(upstream[s])
  BY DEF WorldOK, AgesOK, Newest
<1>3. upstream \in [Sources -> Seq(Nat)] /\ old \in [Sources -> Nat] /\ lacking \subseteq Releases
      /\ lagging \in BOOLEAN /\ registry \in Registries /\ changes \in 0..MaxChanges
      /\ faults \in 0..MaxFaults /\ MaxChanges \in Nat /\ MaxFaults \in Nat
  BY FetchAssumption DEF WorldOK
<1>4. CASE \E s \in Sources : NewVersion(s)
  <2> PICK s \in Sources : NewVersion(s)
    BY <1>4
  <2>1. upstream' = [upstream EXCEPT ![s] = Append(upstream[s], 0)]
    BY DEF NewVersion
  <2>2. Append(upstream[s], 0) \in Seq(Nat) /\ Len(Append(upstream[s], 0)) = Len(upstream[s]) + 1
    BY <1>1, AppendProperties
  <2>3. upstream' \in [Sources -> Seq(Nat)]
    BY <1>3, <2>1, <2>2
  <2>4. \A r \in Sources : Len(upstream'[r]) >= Len(upstream[r]) /\ Len(upstream'[r]) \in Nat
    BY <1>1, <1>3, <2>1, <2>2
  <2>5. WorldOK'
    BY <1>3, <2>3 DEF NewVersion, Change, WorldOK
  <2>6. QED
    BY <1>1, <1>2, <2>4, <2>5 DEF NewVersion, Change, source, Newest
<1>5. CASE \E s \in Sources : NewEdition(s)
  <2> PICK s \in Sources : NewEdition(s)
    BY <1>5
  <2> DEFINE edited == [upstream[s] EXCEPT ![Newest(s)] = upstream[s][Newest(s)] + 1]
  <2>1. upstream' = [upstream EXCEPT ![s] = edited]
    BY DEF NewEdition
  <2>2. Newest(s) \in 1..Len(upstream[s]) /\ upstream[s][Newest(s)] + 1 \in Nat
    BY <1>1 DEF Newest
  <2>3. edited \in Seq(Nat) /\ Len(edited) = Len(upstream[s])
    BY <1>1, <2>2, ExceptSeq
  <2> HIDE DEF edited
  <2>4. upstream' \in [Sources -> Seq(Nat)]
    BY <1>3, <2>1, <2>3
  <2>5. \A r \in Sources : Len(upstream'[r]) = Len(upstream[r])
    BY <1>1, <1>3, <2>1, <2>3
  <2>6. WorldOK'
    BY <1>3, <2>4 DEF NewEdition, Change, WorldOK
  <2>7. QED
    BY <1>1, <1>2, <2>5, <2>6 DEF NewEdition, Change, source, Newest
<1>6. CASE \E s \in Sources : AssetsArrive(s)
  BY <1>1, <1>2, <1>3, <1>6 DEF AssetsArrive, source, Newest, WorldOK
<1>7. CASE \E s \in Sources : Age(s)
  <2> PICK s \in Sources : Age(s)
    BY <1>7
  <2>1. WorldOK'
    BY <1>1, <1>3 DEF Age, Change, Newest, WorldOK
  <2>2. QED
    BY <1>1, <1>2, <1>3, <2>1 DEF Age, Change, source, Newest
<1>8. CASE LagChanges
  <2>1. WorldOK'
    BY <1>3, <1>8 DEF LagChanges, Change, WorldOK
  <2>2. QED
    BY <1>1, <1>2, <1>8, <2>1 DEF LagChanges, Change, source, Newest
<1>9. CASE Configure
  <2>1. WorldOK'
    BY <1>3, <1>9 DEF Configure, Change, WorldOK
  <2>2. QED
    BY <1>1, <1>2, <1>9, <2>1 DEF Configure, Change, source, Newest
<1>10. CASE Damage
  <2>1. WorldOK'
    BY <1>3, <1>10 DEF Damage, world, WorldOK
  <2>2. QED
    BY <1>1, <1>2, <1>10, <2>1 DEF Damage, world, source, Newest
<1>11. QED
  BY <1>4, <1>5, <1>6, <1>7, <1>8, <1>9, <1>10 DEF World

\* Upstreams that move, time that passes, a configuration that changes and inputs that are
\* damaged make nothing unsound that was sound of its own moment.
LEMMA WorldKeeps == FetchInv /\ World => FetchInv'
<1> SUFFICES ASSUME FetchInv, World PROVE FetchInv'
  OBVIOUS
<1> USE DEF source
<1>1. WorldOK /\ CursorOK /\ TreesOK /\ KindOK /\ LocatedOK /\ GotOK /\ AgesOK /\ StagedOK /\ InstalledOK
  BY DEF FetchInv
<1>2. /\ WorldOK'
      /\ \A s \in Sources : Newest(s) <= Newest(s)' /\ old[s] <= old'[s] /\ old'[s] <= Newest(s)'
      /\ registry' = registry \/ pc \in Ended
      /\ UNCHANGED <<destination, pc, index, source, staged, oldAtStart>>
  BY <1>1, WorldGrows
<1>3. /\ \A s \in Sources : Newest(s) \in Nat /\ Newest(s)' \in Nat /\ old[s] \in Nat /\ old'[s] \in Nat
      /\ oldAtStart \in [Sources -> Nat]
  BY <1>1, <1>2, NewestType DEF WorldOK, CursorOK, Newest
<1>4. pc \in Ended => index = 1 /\ DOMAIN got = {}
  BY <1>1 DEF KindOK, GotOK, Ended, NothingGot
<1>5. Len(registry') \in Nat \ {0}
  BY <1>2, FetchAssumption DEF WorldOK
<1>6. CursorOK'
  BY <1>1, <1>2, <1>4, <1>5 DEF CursorOK, Current
<1>7. Current \in Sources /\ (Current' = Current \/ pc \in Ended)
  BY <1>1, <1>2, CurrentSource DEF Current
<1>8. KindOK'
  BY <1>1, <1>2, <1>7 DEF KindOK, Ended
<1>9. LocatedOK'
  <2>1. found.version \in Nat /\ found.revision \in Nat
    BY <1>1 DEF CursorOK
  <2>2. CASE pc \in {"ref", "tag", "commit", "lag", "download"}
    <3>1. Current' = Current /\ Newest(Current) <= Len(upstream'[Current]) /\ Newest(Current) \in Nat
          /\ Len(upstream'[Current]) \in Nat
      BY <1>2, <1>3, <1>7, <2>2 DEF Ended, Newest
    <3>2. QED
      BY <1>1, <1>2, <2>1, <3>1 DEF LocatedOK, Newest
  <2>3. CASE pc \notin {"ref", "tag", "commit", "lag", "download"}
    BY <1>2, <2>3 DEF LocatedOK
  <2>4. QED
    BY <2>2, <2>3
<1>10. GotOK'
  <2>1. CASE pc = "download"
    <3>1. Current' = Current /\ Newest(Current) <= Len(upstream'[Current]) /\ Newest(Current) \in Nat
          /\ Len(upstream'[Current]) \in Nat /\ found.revision \in Nat
      BY <1>1, <1>2, <1>3, <1>7, <2>1 DEF Ended, Newest, CursorOK
    <3>2. QED
      BY <1>1, <1>2, <2>1, <3>1 DEF GotOK, Newest
  <2>2. CASE pc # "download"
    BY <1>1, <1>2, <2>2 DEF GotOK
  <2>3. QED
    BY <2>1, <2>2
<1>11. AgesOK'
  BY <1>1, <1>2, <1>3 DEF AgesOK
<1>12. StagedOK' /\ TreesOK'
  <2>1. \A s \in DOMAIN staged : /\ SoundUpTo(s, staged[s], Newest(s)')
                                 /\ LeftOutRightly(s, staged[s], old'[s], oldAtStart[s])
    BY <1>1, <1>2, <1>3, SoundStays, LeftOutStays DEF StagedOK, TreesOK, SoundUpTo
  <2>2. QED
    BY <1>1, <1>2, <2>1 DEF StagedOK, TreesOK
<1>13. InstalledOK'
  <2>1. CASE destination # None
    BY <1>1, <1>2, <1>3, <2>1, SoundStays DEF InstalledOK, TreesOK
  <2>2. QED
    BY <1>2, <2>1 DEF InstalledOK
<1>14. QED
  BY <1>2, <1>6, <1>8, <1>9, <1>10, <1>11, <1>12, <1>13 DEF FetchInv

----------------------------------------------------------------------------
\* How a request ends.
LEMMA BeginsByKind ==
  ASSUME NEW s \in Sources
  PROVE  /\ First(s) \in {"release", "commit", "local"}
         /\ First(s) = "release" => s \in Releases
         /\ First(s) = "commit" => s \in Branches
         /\ First(s) = "local" => s \in Locals
BY FetchAssumption DEF First, Sources

\* A fetch that fails leaves the destination as it is.
LEMMA FailKeeps ==
  ASSUME FetchInv, Fail, faults' \in 0..MaxFaults
  PROVE  FetchInv'
<1>1. WorldOK /\ CursorOK /\ TreesOK /\ AgesOK /\ InstalledOK
  BY DEF FetchInv
<1>2. upstream' = upstream /\ lacking' = lacking /\ old' = old /\ lagging' = lagging
      /\ registry' = registry /\ changes' = changes
  BY DEF Fail, world
<1>3. DOMAIN NothingGot = {} /\ Len(registry) \in Nat \ {0}
  BY <1>1, CurrentSource DEF NothingGot
<1>4. WorldOK'
  BY <1>1, <1>2 DEF WorldOK
<1>5. CursorOK'
  <2>1. found' \in [version : Nat, listed : Nat, missing : BOOLEAN, revision : Nat]
    BY DEF Fail, Idle, Unknown
  <2>2. attempt' \in 0..MaxRetries /\ tag' \in DOMAIN Tags \cup {Commit} /\ seen' = {} /\ DOMAIN got' = {}
    BY <1>3, FetchAssumption DEF Fail, Idle
  <2>3. QED
    BY <1>1, <1>2, <1>3, <2>1, <2>2 DEF Fail, CursorOK, Ended
<1>6. KindOK' /\ LocatedOK' /\ GotOK'
  BY DEF Fail, Idle, Ended, KindOK, LocatedOK, GotOK
<1>7. DOMAIN staged' = {}
  BY DEF Fail
<1>8. AgesOK' /\ StagedOK' /\ InstalledOK' /\ TreesOK'
  BY <1>1, <1>2, <1>7 DEF Fail, Ended, AgesOK, StagedOK, InstalledOK, TreesOK, Newest
<1>9. QED
  BY <1>4, <1>5, <1>6, <1>8 DEF FetchInv

\* Metadata that is sound and rightly left out can be recorded.
LEMMA RecordKeeps ==
  ASSUME FetchInv, NEW m, Record(m), UNCHANGED faults, pc \notin Ended,
         SoundUpTo(Current, m, Newest(Current)),
         LeftOutRightly(Current, m, old[Current], oldAtStart[Current])
  PROVE  FetchInv'
<1>1. WorldOK /\ CursorOK /\ TreesOK /\ AgesOK /\ StagedOK /\ InstalledOK
  BY DEF FetchInv
<1>2. upstream' = upstream /\ lacking' = lacking /\ old' = old /\ lagging' = lagging
      /\ registry' = registry /\ changes' = changes /\ faults' = faults
      /\ oldAtStart' = oldAtStart /\ destination' = destination
  BY DEF Record, world
<1>3. Current \in Sources /\ Len(registry) \in Nat \ {0} /\ index \in 1..Len(registry)
      /\ \A i \in 1..Len(registry) : registry[i] \in Sources
  BY <1>1, CurrentSource DEF CursorOK
<1>4. WorldOK'
  BY <1>1, <1>2 DEF WorldOK
<1>5. /\ index' \in 1..Len(registry)
      /\ pc' = "install" \/ pc' = First(registry[index'])
  BY <1>3 DEF Record
<1>6. /\ pc' \in {"install", "release", "commit", "local"}
      /\ pc' = "release" => registry[index'] \in Releases
      /\ pc' = "commit" => registry[index'] \in Branches
      /\ pc' = "local" => registry[index'] \in Locals
  BY <1>3, <1>5, BeginsByKind
<1>7. CursorOK'
  <2>1. found' \in [version : Nat, listed : Nat, missing : BOOLEAN, revision : Nat]
    BY DEF Record, Idle, Unknown
  <2>2. attempt' \in 0..MaxRetries /\ tag' \in DOMAIN Tags \cup {Commit} /\ seen' = {} /\ DOMAIN got' = {}
    BY FetchAssumption DEF Record, Idle, NothingGot
  <2>3. QED
    BY <1>1, <1>2, <1>5, <1>6, <2>1, <2>2 DEF CursorOK, Requests
<1>8. KindOK' /\ LocatedOK' /\ GotOK'
  <2>1. got' = NothingGot
    BY DEF Record, Idle
  <2>2. QED
    BY <1>2, <1>6, <2>1, FetchAssumption DEF Ended, KindOK, LocatedOK, GotOK, Current
<1>9. AgesOK'
  BY <1>1, <1>2, <1>6 DEF AgesOK, Newest, Ended
<1>10. /\ DOMAIN staged' = DOMAIN staged \cup {Current} /\ staged'[Current] = m
       /\ \A s \in DOMAIN staged : s # Current => staged'[s] = staged[s]
  BY DEF Record
<1>11. StagedOK' /\ TreesOK'
  <2>1. \A s \in DOMAIN staged' : /\ SoundUpTo(s, staged'[s], Newest(s))
                                  /\ LeftOutRightly(s, staged'[s], old[s], oldAtStart[s])
    BY <1>1, <1>10 DEF StagedOK
  <2>2. \A s : Newest(s)' = Newest(s)
    BY <1>2 DEF Newest
  <2>3. QED
    BY <1>1, <1>2, <1>3, <1>6, <1>10, <2>1, <2>2 DEF StagedOK, TreesOK, Ended
<1>12. InstalledOK'
  BY <1>1, <1>2 DEF InstalledOK, Newest
<1>13. QED
  BY <1>4, <1>7, <1>8, <1>9, <1>11, <1>12 DEF FetchInv

\* The next request finds what the invariant says of it.
LEMMA ProceedKeeps ==
  ASSUME FetchInv, NEW next \in Requests, Proceed(next), pc \in Requests,
         faults' \in 0..MaxFaults,
         found' \in [version : Nat, listed : Nat, missing : BOOLEAN, revision : Nat],
         tag' \in DOMAIN Tags \cup {Commit}, seen' \subseteq DOMAIN Tags,
         DOMAIN got' \subseteq Files[Current], KindOK', LocatedOK', GotOK'
  PROVE  FetchInv'
<1>1. WorldOK /\ CursorOK /\ TreesOK /\ AgesOK /\ StagedOK /\ InstalledOK
  BY DEF FetchInv
<1>2. upstream' = upstream /\ lacking' = lacking /\ old' = old /\ lagging' = lagging
      /\ registry' = registry /\ changes' = changes /\ index' = index
      /\ staged' = staged /\ oldAtStart' = oldAtStart /\ destination' = destination
      /\ pc' = next /\ attempt' = 0
  BY DEF Proceed, world
<1>3. WorldOK'
  BY <1>1, <1>2 DEF WorldOK
<1>4. CursorOK'
  BY <1>1, <1>2, FetchAssumption DEF CursorOK, Current
<1>5. AgesOK' /\ StagedOK' /\ InstalledOK' /\ TreesOK'
  BY <1>1, <1>2 DEF Requests, Ended, AgesOK, StagedOK, InstalledOK, TreesOK, Newest
<1>6. QED
  BY <1>3, <1>4, <1>5 DEF FetchInv

----------------------------------------------------------------------------
\* The requests.
LEMMA DownloadKeeps == FetchInv /\ DownloadObject => FetchInv'
<1> SUFFICES ASSUME FetchInv, DownloadObject PROVE FetchInv'
  OBVIOUS
<1>1. WorldOK /\ CursorOK /\ KindOK /\ LocatedOK /\ GotOK /\ AgesOK
  BY DEF FetchInv
<1>2. pc = "download" /\ UNCHANGED faults /\ faults' \in 0..MaxFaults
  BY <1>1 DEF DownloadObject, WorldOK
<1> DEFINE now(f) == Served(Current, found.version, f)
           objects(f) == [g \in DOMAIN got \cup {f} |-> IF g = f THEN now(f) ELSE got[g]]
<1>3. PICK f \in Files[Current] \ DOMAIN got :
        \/ Fail
        \/ /\ ~(Current \in Pinned /\ now(f) # Content(f, found.version, found.listed))
           /\ IF DOMAIN objects(f) = Files[Current] THEN Record(Accepted(objects(f)))
              ELSE Proceed("download") /\ got' = objects(f) /\ UNCHANGED <<found, tag, seen>>
  BY DEF DownloadObject
<1>4. /\ Current \in Releases \cup Branches /\ Current \in Sources
      /\ found.version \in Nat /\ found.revision \in Nat /\ found.listed \in Nat
      /\ Newest(Current) \in Nat /\ found.version <= found.revision
      /\ found.revision <= Newest(Current)
      /\ (Current \notin Moving => found.version = found.revision)
      /\ oldAtStart[Current] < found.version /\ oldAtStart[Current] \in Nat
  BY <1>1, <1>2, CurrentSource, NewestType DEF KindOK, LocatedOK, CursorOK
<1> DEFINE Good(g, o) ==
      /\ o.file = g /\ o.version \in found.revision..Newest(Current)
      /\ (Current \notin Moving => o.version = found.revision)
      /\ (Current \in Pinned => o = Content(g, found.version, found.listed))
<1>5. CASE Fail
  BY <1>2, <1>5, FailKeeps
<1>6. CASE ~Fail
  <2>1. Good(f, now(f))
    <3> DEFINE n == IF Current \in Moving THEN Newest(Current) ELSE found.version
    <3>1. now(f) = Content(f, n, upstream[Current][n])
      BY DEF Served
    <3>2. now(f).file = f /\ now(f).version = n
      BY <3>1 DEF Content
    <3>3. n \in found.revision..Newest(Current) /\ (Current \notin Moving => n = found.revision)
      BY <1>4
    <3>4. QED
      BY <1>3, <1>6, <3>2, <3>3
  <2>2. \A g \in DOMAIN got : Good(g, got[g])
    BY <1>1, <1>2 DEF GotOK
  <2>3. \A g \in DOMAIN objects(f) : Good(g, objects(f)[g])
    <3> HIDE DEF now, Good
    <3>1. QED
      BY <2>1, <2>2
  <2>4. CASE DOMAIN objects(f) = Files[Current]
    <3> DEFINE m == Accepted(objects(f))
    <3>1. Record(m)
      BY <1>3, <1>6, <2>4
    <3>2. m.status = "accepted" /\ m.revision = found.revision /\ m.objects = objects(f)
      BY DEF Accepted
    <3>3. \A g \in Files[Current] :
            Good(g, m.objects[g]) /\ (Current \in Pinned => m.objects[g].version = found.version
                                                     /\ m.objects[g].edition = found.listed)
      <4> HIDE DEF m, objects
      <4>1. QED
        BY <2>3, <2>4, <3>2 DEF Content
    <3>4. SoundUpTo(Current, m, Newest(Current))
      <4>1. \A g \in Files[Current] :
              /\ m.objects[g].file = g
              /\ m.objects[g].version \in m.revision..Newest(Current)
              /\ (Current \notin Moving \/ Current \in Pinned => m.objects[g].version = m.revision)
        <5> HIDE DEF m, objects
        <5>1. QED
          BY <1>4, <3>2, <3>3
      <4>2. Current \in Pinned =>
              \A g, h \in Files[Current] : m.objects[g].edition = m.objects[h].edition
        <5> HIDE DEF m, objects, Good
        <5>1. QED
          BY <3>3
      <4>3. DOMAIN m.objects = Files[Current] /\ m.revision \in Nat
        BY <1>4, <2>4, <3>2
      <4> HIDE DEF m, objects, Good
      <4>4. QED
        BY <4>1, <4>2, <4>3 DEF SoundUpTo
    <3>5. LeftOutRightly(Current, m, old[Current], oldAtStart[Current])
      <4> HIDE DEF m, objects
      <4>1. QED
        BY <1>4, <3>2 DEF LeftOutRightly
    <3>6. pc \notin Ended
      BY <1>2 DEF Ended
    <3> HIDE DEF m
    <3>7. QED
      BY <1>2, <3>1, <3>4, <3>5, <3>6, RecordKeeps
  <2>5. CASE DOMAIN objects(f) # Files[Current]
    <3>1. Proceed("download") /\ got' = objects(f) /\ UNCHANGED <<found, tag, seen>>
      BY <1>3, <1>6, <2>5
    <3>2. Current' = Current /\ Newest(Current)' = Newest(Current) /\ pc' = "download"
          /\ oldAtStart' = oldAtStart
      BY <3>1 DEF Proceed, world, Current, Newest
    <3>3. KindOK' /\ LocatedOK'
      BY <1>1, <1>2, <3>1, <3>2 DEF KindOK, LocatedOK, Ended
    <3>4. GotOK'
      <4> HIDE DEF objects
      <4>1. QED
        BY <2>3, <3>1, <3>2 DEF GotOK
    <3>5. DOMAIN got' \subseteq Files[Current]
      BY <1>1, <3>1 DEF CursorOK
    <3>6. "download" \in Requests
      BY DEF Requests
    <3>7. QED
      BY <1>1, <1>2, <3>1, <3>3, <3>4, <3>5, <3>6, ProceedKeeps DEF CursorOK
  <2>6. QED
    BY <2>4, <2>5
<1>7. QED
  BY <1>5, <1>6

\* The document of the latest release tells of the newest version of its moment.
LEMMA ReadReleaseKeeps == FetchInv /\ ReadRelease => FetchInv'
<1> SUFFICES ASSUME FetchInv, ReadRelease PROVE FetchInv'
  OBVIOUS
<1>1. WorldOK /\ CursorOK /\ KindOK /\ GotOK /\ AgesOK
  BY DEF FetchInv
<1>2. pc = "release" /\ Proceed("ref") /\ UNCHANGED <<tag, seen, got, faults>>
  BY DEF ReadRelease
<1>3. Current \in Sources /\ Current \in Releases /\ Newest(Current) \in Nat \ {0}
  BY <1>1, <1>2, CurrentSource, NewestType DEF KindOK, AgesOK
<1>4. upstream[Current][Newest(Current)] \in Nat
  BY <1>1, <1>3 DEF WorldOK, Newest
<1>5. found'.version = Newest(Current)
      /\ found' \in [version : Nat, listed : Nat, missing : BOOLEAN, revision : Nat]
  BY <1>3, <1>4 DEF ReadRelease
<1>6. Current' = Current /\ Newest(Current)' = Newest(Current) /\ pc' = "ref"
  BY <1>2 DEF Proceed, world, Current, Newest
<1>7. KindOK' /\ LocatedOK' /\ GotOK'
  BY <1>1, <1>2, <1>3, <1>5, <1>6 DEF KindOK, LocatedOK, GotOK, Ended
<1>8. "ref" \in Requests /\ pc \in Requests
  BY <1>2 DEF Requests
<1>9. QED
  BY <1>1, <1>2, <1>5, <1>7, <1>8, ProceedKeeps DEF CursorOK, WorldOK

\* The references and tags of a release leave what is known of it.
LEMMA ReadTagsKeeps == FetchInv /\ (ReadRef \/ ReadTag) => FetchInv'
<1> SUFFICES ASSUME FetchInv, ReadRef \/ ReadTag PROVE FetchInv'
  OBVIOUS
<1>1. WorldOK /\ CursorOK /\ KindOK /\ LocatedOK /\ GotOK
  BY DEF FetchInv
<1>2. faults \in 0..MaxFaults /\ MaxFaults \in Nat
  BY <1>1, FetchAssumption DEF WorldOK
<1>3. pc \in {"ref", "tag"} /\ pc \in Requests
  BY DEF ReadRef, ReadTag, Requests
<1>4. faults' \in 0..MaxFaults
  BY <1>2 DEF ReadRef, ReadTag
<1>5. CASE Fail
  BY <1>4, <1>5, FailKeeps
<1>6. CASE ~Fail
  <2>1. /\ Proceed("commit") \/ Proceed("tag")
        /\ UNCHANGED <<found, got>>
        /\ tag' \in DOMAIN Tags \cup {Commit} /\ seen' \subseteq DOMAIN Tags
        /\ Proceed("commit") \/ tag' \in DOMAIN Tags
    <3>1. CASE ReadRef
      BY <1>1, <3>1 DEF ReadRef, CursorOK
    <3>2. CASE ReadTag
      <4>1. tag \notin seen /\ seen' = seen \cup {tag} /\ tag' = Tags[tag]
            /\ UNCHANGED <<found, got>> /\ (Proceed("commit") \/ Proceed("tag"))
        BY <1>6, <3>2 DEF ReadTag
      <4>2. tag \in DOMAIN Tags
        BY <1>1, <3>2 DEF ReadTag, KindOK
      <4>3. tag' = Commit => Proceed("commit")
        BY <1>6, <3>2 DEF ReadTag
      <4>4. QED
        BY <1>1, <4>1, <4>2, <4>3, FetchAssumption DEF CursorOK
    <3>3. QED
      BY <3>1, <3>2
  <2>2. PICK next \in {"commit", "tag"} : Proceed(next) /\ (next = "tag" => tag' \in DOMAIN Tags)
    BY <2>1
  <2>3. Current' = Current /\ Newest(Current)' = Newest(Current) /\ pc' = next
    BY <2>2 DEF Proceed, world, Current, Newest
  <2>4. KindOK' /\ LocatedOK' /\ GotOK'
    BY <1>1, <1>3, <2>1, <2>2, <2>3 DEF KindOK, LocatedOK, GotOK, Ended
  <2>5. next \in Requests
    BY <2>2 DEF Requests
  <2>6. QED
    BY <1>1, <1>3, <1>4, <2>1, <2>2, <2>4, <2>5, ProceedKeeps DEF CursorOK
<1>7. QED
  BY <1>5, <1>6

\* The commit is that of the tag, or of the branch at that moment; a source that is too old is
\* left out here, and no other.
LEMMA ReadCommitKeeps == FetchInv /\ ReadCommit => FetchInv'
<1> SUFFICES ASSUME FetchInv, ReadCommit PROVE FetchInv'
  OBVIOUS
<1> DEFINE s == Current
           r == IF s \in Moving THEN Newest(s) ELSE found.version
           v == IF s \in Branches THEN r ELSE found.version
<1>1. WorldOK /\ CursorOK /\ KindOK /\ LocatedOK /\ GotOK /\ AgesOK
  BY DEF FetchInv
<1>2. pc = "commit" /\ UNCHANGED faults /\ faults' \in 0..MaxFaults
  BY <1>1 DEF ReadCommit, WorldOK
<1>3. s \in Sources /\ s \in Releases \cup Branches /\ Newest(s) \in Nat
      /\ found.version \in Nat /\ old[s] \in Nat
      /\ oldAtStart[s] \in Nat /\ oldAtStart[s] <= old[s]
      /\ (s \in Releases => found.version <= Newest(s))
  BY <1>1, <1>2, CurrentSource, NewestType DEF KindOK, LocatedOK, CursorOK, AgesOK, WorldOK, Ended
<1>4. r \in Nat /\ v \in Nat /\ r <= Newest(s) /\ v <= r /\ (s \notin Moving => v = r)
  BY <1>3 DEF Moving
<1>5. CASE Fail
  BY <1>2, <1>5, FailKeeps
<1>6. CASE Stale(s, v) /\ Record(Quarantined(v))
  <2> DEFINE m == Quarantined(v)
  <2>1. m.status = "degraded" /\ m.revision = v
    BY DEF Quarantined
  <2>2. SoundUpTo(s, m, Newest(s)) /\ LeftOutRightly(s, m, old[s], oldAtStart[s])
    BY <1>4, <1>6, <2>1 DEF SoundUpTo, LeftOutRightly, Stale
  <2>3. Record(m) /\ pc \notin Ended
    BY <1>2, <1>6 DEF Ended
  <2> HIDE DEF m
  <2>4. QED
    BY <1>2, <2>2, <2>3, RecordKeeps
<1>7. CASE /\ ~Stale(s, v) /\ found' = [found EXCEPT !.version = v, !.revision = r]
           /\ Proceed(IF s = Synced THEN "lag" ELSE "download")
           /\ UNCHANGED <<tag, seen, got>>
  <2>1. PICK next \in {"lag", "download"} :
          /\ Proceed(next) /\ (next = "lag" => s = Synced)
    BY <1>7
  <2>2. /\ found' \in [version : Nat, listed : Nat, missing : BOOLEAN, revision : Nat]
        /\ found'.version = v /\ found'.revision = r
    <3> HIDE DEF v, r
    <3>1. QED
      BY <1>1, <1>4, <1>7 DEF CursorOK
  <2>3. oldAtStart[s] < v
    BY <1>3, <1>4, <1>7 DEF Stale
  <2>4. Current' = s /\ Newest(Current)' = Newest(s) /\ pc' = next /\ oldAtStart' = oldAtStart
    BY <2>1 DEF Proceed, world, Current, Newest
  <2>5. got = NothingGot /\ got' = NothingGot /\ DOMAIN NothingGot = {}
    BY <1>1, <1>2, <1>7 DEF GotOK, NothingGot
  <2>6. KindOK' /\ GotOK'
    BY <1>3, <2>1, <2>4, <2>5, FetchAssumption DEF KindOK, GotOK, Ended
  <2>7. LocatedOK'
    <3> HIDE DEF s, r, v
    <3>1. QED
      BY <1>4, <2>1, <2>2, <2>3, <2>4 DEF LocatedOK
  <2>8. next \in Requests /\ pc \in Requests
    BY <1>2, <2>1 DEF Requests
  <2>9. tag' \in DOMAIN Tags \cup {Commit} /\ seen' \subseteq DOMAIN Tags /\ DOMAIN got' \subseteq Files[Current]
    BY <1>1, <1>7, <2>5 DEF CursorOK
  <2>10. QED
    BY <1>2, <2>1, <2>2, <2>6, <2>7, <2>8, <2>9, ProceedKeeps
<1>8. QED
  BY <1>5, <1>6, <1>7 DEF ReadCommit

\* A release that lags behind its source fails the fetch; any other goes on to its objects.
LEMMA CheckLagKeeps == FetchInv /\ CheckLag => FetchInv'
<1> SUFFICES ASSUME FetchInv, CheckLag PROVE FetchInv'
  OBVIOUS
<1>1. WorldOK /\ CursorOK /\ KindOK /\ LocatedOK /\ GotOK
  BY DEF FetchInv
<1>2. pc = "lag" /\ UNCHANGED faults /\ faults' \in 0..MaxFaults
  BY <1>1 DEF CheckLag, WorldOK
<1>3. CASE Fail
  BY <1>2, <1>3, FailKeeps
<1>4. CASE Proceed("download") /\ UNCHANGED <<found, tag, seen, got>>
  <2>1. Current' = Current /\ Newest(Current)' = Newest(Current) /\ pc' = "download"
        /\ oldAtStart' = oldAtStart
    BY <1>4 DEF Proceed, world, Current, Newest
  <2>2. KindOK' /\ LocatedOK'
    BY <1>1, <1>2, <1>4, <2>1 DEF KindOK, LocatedOK, Ended
  <2>3. GotOK'
    BY <1>1, <1>2, <1>4, <2>1 DEF GotOK, NothingGot
  <2>4. "download" \in Requests /\ pc \in Requests
    BY <1>2 DEF Requests
  <2>5. QED
    BY <1>1, <1>2, <1>4, <2>2, <2>3, <2>4, ProceedKeeps DEF CursorOK
<1>5. QED
  BY <1>3, <1>4 DEF CheckLag

\* A local source is what is on the disk.
LEMMA MaterializeLocalKeeps == FetchInv /\ MaterializeLocal => FetchInv'
<1> SUFFICES ASSUME FetchInv, MaterializeLocal PROVE FetchInv'
  OBVIOUS
<1> DEFINE v == Newest(Current)
           m == [status |-> "accepted", revision |-> v,
                 objects |-> [f \in Files[Current] |-> Served(Current, v, f)]]
<1>1. WorldOK /\ CursorOK /\ KindOK
  BY DEF FetchInv
<1>2. pc = "local" /\ pc \notin Ended /\ UNCHANGED faults /\ Record(m)
  BY DEF MaterializeLocal, Ended
<1>3. v \in Nat /\ Current \in Locals /\ Current \notin Moving /\ Current \notin Pinned
  BY <1>1, <1>2, CurrentSource, NewestType, FetchAssumption DEF KindOK, Moving
<1>4. \A f \in Files[Current] : m.objects[f] = Content(f, v, upstream[Current][v])
  BY <1>3 DEF Served
<1>5. m.status = "accepted" /\ m.revision = v /\ DOMAIN m.objects = Files[Current]
  OBVIOUS
<1>6. SoundUpTo(Current, m, v) /\ LeftOutRightly(Current, m, old[Current], oldAtStart[Current])
  <2>1. \A f \in Files[Current] : m.objects[f].file = f /\ m.objects[f].version = v
    <3> TAKE f \in Files[Current]
    <3>1. m.objects[f] = [file |-> f, version |-> v, edition |-> upstream[Current][v]]
      BY <1>4 DEF Content
    <3> HIDE DEF m, v
    <3>2. QED
      BY <3>1
  <2> HIDE DEF m, v
  <2>2. QED
    BY <1>3, <1>5, <2>1 DEF SoundUpTo, LeftOutRightly
<1> HIDE DEF m
<1>7. QED
  BY <1>2, <1>6, RecordKeeps

----------------------------------------------------------------------------
\* The steps that do not depend on the source.
LEMMA StartFetchKeeps == FetchInv /\ StartFetch => FetchInv'
<1> SUFFICES ASSUME FetchInv, StartFetch PROVE FetchInv'
  OBVIOUS
<1>1. WorldOK /\ CursorOK /\ TreesOK /\ AgesOK /\ InstalledOK
  BY DEF FetchInv
<1>2. upstream' = upstream /\ lacking' = lacking /\ old' = old /\ lagging' = lagging
      /\ registry' = registry /\ changes' = changes /\ faults' = faults
      /\ oldAtStart' = old /\ destination' = destination /\ index' = 1 /\ pc' = First(registry[1])
      /\ DOMAIN staged' = {} /\ Idle
  BY DEF StartFetch, world
<1>3. 1 \in 1..Len(registry) /\ registry[1] \in Sources
  BY <1>1, CurrentSource
<1>4. /\ pc' \in {"release", "commit", "local"}
      /\ pc' = "release" => registry[1] \in Releases
      /\ pc' = "commit" => registry[1] \in Branches
      /\ pc' = "local" => registry[1] \in Locals
  BY <1>2, <1>3, BeginsByKind
<1>5. WorldOK'
  BY <1>1, <1>2 DEF WorldOK
<1>6. CursorOK'
  <2>1. found' \in [version : Nat, listed : Nat, missing : BOOLEAN, revision : Nat]
    BY <1>2 DEF Idle, Unknown
  <2>2. attempt' \in 0..MaxRetries /\ tag' \in DOMAIN Tags \cup {Commit} /\ seen' = {} /\ DOMAIN got' = {}
    BY <1>2, FetchAssumption DEF Idle, NothingGot
  <2>3. QED
    BY <1>1, <1>2, <1>3, <1>4, <2>1, <2>2 DEF CursorOK, WorldOK, Requests
<1>7. KindOK' /\ LocatedOK' /\ GotOK'
  <2>1. got' = NothingGot
    BY <1>2 DEF Idle
  <2>2. QED
    BY <1>2, <1>4, <2>1, FetchAssumption DEF Ended, KindOK, LocatedOK, GotOK, Current
<1>8. AgesOK'
  <2>1. \A s \in Sources : old[s] \in Nat
    BY <1>1 DEF WorldOK
  <2>2. QED
    BY <1>1, <1>2, <2>1 DEF AgesOK, Newest
<1>9. StagedOK' /\ TreesOK' /\ InstalledOK'
  BY <1>1, <1>2 DEF StagedOK, TreesOK, InstalledOK, Newest
<1>10. QED
  BY <1>5, <1>6, <1>7, <1>8, <1>9 DEF FetchInv

\* A failed request is tried again with what was known before it.
LEMMA RetryKeeps == FetchInv /\ Retry => FetchInv'
<1> SUFFICES ASSUME FetchInv, Retry PROVE FetchInv'
  OBVIOUS
<1>1. WorldOK /\ CursorOK /\ TreesOK /\ KindOK /\ LocatedOK /\ GotOK /\ AgesOK /\ StagedOK /\ InstalledOK
  BY DEF FetchInv
<1>2. upstream' = upstream /\ lacking' = lacking /\ old' = old /\ lagging' = lagging
      /\ registry' = registry /\ changes' = changes /\ pc' = pc /\ index' = index
      /\ found' = found /\ tag' = tag /\ seen' = seen /\ got' = got /\ staged' = staged
      /\ oldAtStart' = oldAtStart /\ destination' = destination
  BY DEF Retry, world
<1>3. attempt' \in 0..MaxRetries /\ faults' \in 0..MaxFaults
  <2>1. attempt \in 0..MaxRetries /\ faults \in 0..MaxFaults /\ MaxRetries \in Nat /\ MaxFaults \in Nat
    BY <1>1, FetchAssumption DEF CursorOK, WorldOK
  <2>2. QED
    BY <2>1 DEF Retry
<1>4. WorldOK' /\ CursorOK' /\ TreesOK'
  BY <1>1, <1>2, <1>3 DEF WorldOK, CursorOK, TreesOK, Current
<1>5. KindOK' /\ LocatedOK' /\ GotOK'
  BY <1>1, <1>2 DEF KindOK, LocatedOK, GotOK, Current, Newest
<1>6. AgesOK' /\ StagedOK' /\ InstalledOK'
  BY <1>1, <1>2 DEF AgesOK, StagedOK, InstalledOK, Newest
<1>7. QED
  BY <1>4, <1>5, <1>6 DEF FetchInv

\* A fetch that gives up leaves the installed tree as it was.
LEMMA GiveUpKeeps == FetchInv /\ GiveUp => FetchInv'
<1> SUFFICES ASSUME FetchInv, GiveUp PROVE FetchInv'
  OBVIOUS
<1>1. faults \in 0..MaxFaults /\ MaxFaults \in Nat
  BY FetchAssumption DEF FetchInv, WorldOK
<1>2. faults' \in 0..MaxFaults /\ Fail
  BY <1>1 DEF GiveUp
<1>3. QED
  BY <1>2, FailKeeps

\* The staged sources are installed as they are, or the fetch fails.
LEMMA InstallKeeps == FetchInv /\ Install => FetchInv'
<1> SUFFICES ASSUME FetchInv, Install PROVE FetchInv'
  OBVIOUS
<1>1. WorldOK /\ CursorOK /\ TreesOK /\ KindOK /\ LocatedOK /\ GotOK /\ AgesOK /\ StagedOK
  BY DEF FetchInv
<1>2. pc = "install" /\ faults \in 0..MaxFaults /\ MaxFaults \in Nat
  BY <1>1, FetchAssumption DEF WorldOK, Install
<1>3. CASE Fail /\ faults' = faults + 1 /\ faults < MaxFaults
  <2>1. faults' \in 0..MaxFaults
    BY <1>2, <1>3
  <2>2. QED
    BY <1>3, <2>1, FailKeeps
<1>4. CASE /\ destination' = staged /\ pc' = "done" /\ index' = 1 /\ staged' = <<>>
           /\ UNCHANGED <<world, source, oldAtStart, faults>>
  <2>1. upstream' = upstream /\ lacking' = lacking /\ old' = old /\ lagging' = lagging
        /\ registry' = registry /\ changes' = changes /\ faults' = faults
        /\ found' = found /\ tag' = tag /\ seen' = seen /\ got' = got /\ attempt' = attempt
        /\ oldAtStart' = oldAtStart /\ destination' = staged /\ index' = 1 /\ pc' = "done"
    BY <1>4 DEF world, source
  <2>2. DOMAIN staged' = {} /\ got = NothingGot /\ DOMAIN NothingGot = {} /\ Len(registry) \in Nat \ {0}
    BY <1>1, <1>2, <1>4, CurrentSource DEF GotOK, NothingGot
  <2>3. WorldOK' /\ CursorOK' /\ TreesOK'
    BY <1>1, <2>1, <2>2 DEF WorldOK, CursorOK, TreesOK, Ended
  <2>4. KindOK' /\ LocatedOK' /\ GotOK'
    BY <2>1, <2>2 DEF KindOK, LocatedOK, GotOK, Ended
  <2>5. AgesOK' /\ StagedOK' /\ InstalledOK'
    BY <1>1, <2>1, <2>2 DEF AgesOK, StagedOK, InstalledOK, Newest, Ended
  <2>6. QED
    BY <2>3, <2>4, <2>5 DEF FetchInv
<1>5. QED
  BY <1>3, <1>4 DEF Install

\* What a build reads, and a stuttering step, change nothing the invariant is about.
LEMMA ReadersKeep == FetchInv /\ (LoadInputs \/ UNCHANGED vars) => FetchInv'
<1> SUFFICES ASSUME FetchInv, LoadInputs \/ UNCHANGED vars PROVE FetchInv'
  OBVIOUS
<1>1. WorldOK /\ CursorOK /\ TreesOK /\ KindOK /\ LocatedOK /\ GotOK /\ AgesOK /\ StagedOK /\ InstalledOK
  BY DEF FetchInv
<1>2. upstream' = upstream /\ lacking' = lacking /\ old' = old /\ lagging' = lagging
      /\ registry' = registry /\ changes' = changes /\ pc' = pc /\ index' = index
      /\ found' = found /\ tag' = tag /\ seen' = seen /\ got' = got /\ staged' = staged
      /\ attempt' = attempt /\ faults' = faults
      /\ oldAtStart' = oldAtStart /\ destination' = destination
  BY DEF LoadInputs, vars, world, source
<1>3. WorldOK' /\ CursorOK' /\ TreesOK'
  BY <1>1, <1>2 DEF WorldOK, CursorOK, TreesOK, Current
<1>4. KindOK' /\ LocatedOK' /\ GotOK'
  BY <1>1, <1>2 DEF KindOK, LocatedOK, GotOK, Current, Newest
<1>5. AgesOK' /\ StagedOK' /\ InstalledOK'
  BY <1>1, <1>2 DEF AgesOK, StagedOK, InstalledOK, Newest
<1>6. QED
  BY <1>3, <1>4, <1>5 DEF FetchInv

----------------------------------------------------------------------------
\* Whatever the upstreams and the faults do, every step keeps the inductive invariant: what a
\* fetch knows of each source so far, and what the trees on disk hold.
THEOREM FetchInvariant == Spec => []FetchInv
<1>1. FetchInv /\ [Next]_vars => FetchInv'
  BY WorldKeeps, DownloadKeeps, ReadReleaseKeeps, ReadTagsKeeps, ReadCommitKeeps, CheckLagKeeps,
     MaterializeLocalKeeps, StartFetchKeeps, RetryKeeps, GiveUpKeeps, InstallKeeps, ReadersKeep
     DEF Next, FetchStep
<1>2. QED
  BY FetchInit, <1>1, PTL DEF Spec

\* Whatever the upstreams do between the requests of a fetch, every source it installs has
\* the objects of its revision or, where the URL moves, of a later one.
THEOREM InstalledIsSound == Spec => []ObjectsMatchRevision
<1>1. FetchInv => ObjectsMatchRevision
  BY DEF FetchInv, InstalledOK, ObjectsMatchRevision, SoundUpTo, Sound
<1>2. QED
  BY FetchInvariant, <1>1, PTL

\* Only a source that is too old is left out, and none is used that was so at the start.
THEOREM LeftOutIsStale == Spec => []OnlyStaleLeftOut
<1>1. FetchInv => OnlyStaleLeftOut
  BY DEF FetchInv, StagedOK, OnlyStaleLeftOut, LeftOutRightly, Stale
<1>2. QED
  BY FetchInvariant, <1>1, PTL

\* A build reads each source of its configuration, sound and undamaged, or nothing.
THEOREM BuildReadsWhole == Spec => LoadsWhole
<1> DEFINE Whole == loaded' \notin {loaded, None} =>
             /\ DOMAIN loaded' = ToSet(registry)
             /\ \A s \in DOMAIN loaded' : Sound(s, loaded'[s].metadata) /\ loaded'[s].intact
<1>1. FetchInv /\ [Next]_vars => [Whole]_vars
  <2> SUFFICES ASSUME FetchInv, Next PROVE Whole
    OBVIOUS
  <2>1. CASE LoadInputs
    <3>1. /\ destination # None
          /\ \A s \in ToSet(registry) : s \in DOMAIN destination /\ Intact(destination[s])
          /\ loaded' = [s \in ToSet(registry) |->
                          [metadata |-> destination[s], intact |-> Intact(destination[s])]]
      BY <2>1 DEF LoadInputs, ToSet
    <3>2. \A s \in DOMAIN destination : Sound(s, destination[s])
      BY <3>1 DEF FetchInv, InstalledOK, SoundUpTo, Sound
    <3>3. DOMAIN loaded' = ToSet(registry)
          /\ \A s \in ToSet(registry) : loaded'[s].metadata = destination[s] /\ loaded'[s].intact
      BY <3>1
    <3>4. QED
      BY <3>1, <3>2, <3>3
  <2>2. CASE StartFetch
    BY <2>2 DEF StartFetch
  <2>3. CASE FetchStep
    <3>1. loaded' = loaded
      BY <2>3 DEF FetchStep, MaterializeLocal, Retry, GiveUp, ReadRelease, ReadRef, ReadTag,
        ReadCommit, CheckLag, DownloadObject, Install, Fail, Record, Proceed
    <3>2. QED
      BY <3>1
  <2>4. CASE World
    <3>1. loaded' = loaded
      BY <2>4, WorldGrows DEF FetchInv
    <3>2. QED
      BY <3>1
  <2>5. QED
    BY <2>1, <2>2, <2>3, <2>4 DEF Next
<1>2. QED
  BY FetchInvariant, <1>1, PTL DEF Spec, LoadsWhole
=============================================================================
