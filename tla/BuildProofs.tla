----------------------------- MODULE BuildProofs -----------------------------
(***************************************************************************)
(* The build, for any categories, number of workers, builds and faults:    *)
(* when its directories go, and what dist and its archive have.            *)
(***************************************************************************)
EXTENDS BuildPipeline, SequenceTheorems, TLAPS

\* The files the workers of a compilation compile.
PoolFiles(tool, d) == {<<tool, d, c, b>> : c \in InDataset(d), b \in {"srs", "domain", "ipcidr"}}

\* Each file has the dataset it is named for.
FilesOK(files) ==
  /\ \A d \in Datasets : /\ Geosite(d) \in DOMAIN files => files[Geosite(d)].dataset = d
                         /\ Geoip(d) \in DOMAIN files => files[Geoip(d)].dataset = d
  /\ \A file \in DOMAIN files : file \in RequiredArtifacts \ XrayFiles => files[file].dataset = file[2]

\* What validate_build has found of the files.
Validated(files) ==
  RequiredArtifacts \subseteq DOMAIN files /\ \A file \in DOMAIN files : files[file].state # "garbage"

IsStage(st) == st = [files |-> st.files, sums |-> st.sums, manifest |-> st.manifest]

AfterValidation == {"decide", "render", "package", "archive", "manifest", "swap"}

BuildTypes ==
  /\ pc \in Ended \cup {"generate", "validate"} \cup AfterValidation
  /\ run \in Nat /\ step \in 1..9
  /\ version \in {Unreleased, run} /\ (pc \notin Ended => run >= 1)
  /\ \A v \in DOMAIN archives : archives[v] \in Nat
  /\ IsStage(stage)

\* Outside the pools no worker runs, and in one each has files of its compilation left.
PoolOK ==
  /\ ~InPool => DOMAIN running = {}
  /\ InPool => /\ waiting \subseteq InDataset(Dataset)
               /\ \A c \in DOMAIN running : running[c] # <<>> /\ running[c] \in Seq(PoolFiles(Tool, Dataset))

\* geoip.dat is there only when it is server's.
TreeOK == pc = "generate" => FilesOK(tree) /\ (step <= 4 => Geoip("server") \notin DOMAIN tree)

StageOK ==
  /\ pc = "validate" => FilesOK(stage.files)
  /\ pc \in AfterValidation => FilesOK(stage.files) /\ Validated(stage.files)
  /\ pc = "generate" /\ rebuild => FilesOK(stage.files) /\ Validated(stage.files)
  /\ pc \in {"archive", "manifest", "swap"} =>
       DOMAIN stage.files = stage.sums /\ stage.manifest = [version |-> version, archive |-> stage.manifest.archive]
  /\ pc \in {"manifest", "swap"} => version \in DOMAIN archives
  /\ pc = "swap" => stage.manifest.archive = archives[version]

\* The dist that is there: its version is older than that of the build under way.
DistOK == dist # None =>
  /\ Validated(dist.files) /\ FilesOK(dist.files) /\ DOMAIN dist.files = dist.sums
  /\ dist.manifest.archive \in Nat /\ dist.manifest.version \in Nat /\ dist.manifest.version <= run
  /\ pc \notin Ended => dist.manifest.version < run
  /\ dist.manifest.version # Unreleased =>
       dist.manifest.version \in DOMAIN archives /\ archives[dist.manifest.version] = dist.manifest.archive

BuildInv == BuildTypes /\ PoolOK /\ TreeOK /\ StageOK /\ DistOK

----------------------------------------------------------------------------
\* The compilations: geoip.dat is compiled for lite by the second, for server by the fourth.
LEMMA CompilationsAre ==
  /\ DOMAIN Compilations = 1..8
  /\ \A n \in 1..8 : Compilations[n][2] \in Datasets
  /\ \A n \in 1..8 : Compilations[n][1] \in {"sing-box", "mihomo"} <=> n >= 5
  /\ Compilations[1] = <<"dlc", "lite">> /\ Compilations[2] = <<"geoip", "lite">>
  /\ Compilations[3] = <<"dlc", "server">> /\ Compilations[4] = <<"geoip", "server">>
BY DEF Compilations, Datasets

\* The files compile_singbox and compile_mihomo give a job are among those of its dataset.
LEMMA OutputsType ==
  ASSUME NEW tool \in {"sing-box", "mihomo"}, NEW d \in Datasets, NEW c \in InDataset(d)
  PROVE  Outputs(tool, d, c) \in Seq(PoolFiles(tool, d))
<1>1. \A b \in {"srs", "domain", "ipcidr"} : <<tool, d, c, b>> \in PoolFiles(tool, d)
  BY DEF PoolFiles
<1>2. CASE tool = "sing-box"
  BY <1>1, <1>2 DEF Outputs
<1>3. CASE tool = "mihomo"
  <2> DEFINE If(b) == IF b \in MrsBehaviors(Kinds[d][c]) THEN << <<tool, d, c, b>> >> ELSE <<>>
  <2>1. If("domain") \in Seq(PoolFiles(tool, d)) /\ If("ipcidr") \in Seq(PoolFiles(tool, d))
    BY <1>1
  <2>2. If("domain") \o If("ipcidr") \in Seq(PoolFiles(tool, d))
    <3> HIDE DEF If
    <3>1. QED
      BY <2>1, ConcatProperties
  <2>3. QED
    BY <1>3, <2>2 DEF Outputs
<1>4. QED
  BY <1>2, <1>3

\* A file the workers compile names its tool and its dataset, and is none of xray's.
LEMMA PoolFilesAre ==
  ASSUME NEW tool \in {"sing-box", "mihomo"}, NEW d \in Datasets, NEW file \in PoolFiles(tool, d)
  PROVE  file[2] = d /\ file[1] = tool /\ file \notin XrayFiles
<1>1. PICK c \in InDataset(d), b \in {"srs", "domain", "ipcidr"} : file = <<tool, d, c, b>>
  BY DEF PoolFiles
<1>2. file[1] = tool /\ file[2] = d
  BY <1>1
<1>3. \A x \in XrayFiles : x[1] = "xray"
  BY DEF XrayFiles, Geosite, Geoip
<1>4. QED
  BY <1>2, <1>3

\* The files the command writes itself are no artifacts.
LEMMA OwnFilesAre ==
  ASSUME NEW name \in {"examples", "LICENSES.md", "index.html"}
  PROVE  <<name>> \notin RequiredArtifacts /\ \A d \in Datasets : <<name>> \notin {Geosite(d), Geoip(d)}
<1>1. \A x \in XrayFiles : x[1] = "xray"
  BY DEF XrayFiles, Geosite, Geoip
<1>2. <<name>>[1] = name /\ name \notin {"xray", "sing-box", "mihomo"}
  OBVIOUS
<1>3. <<name>> \notin XrayFiles
  BY <1>1, <1>2
<1>4. ASSUME <<name>> \in RequiredArtifacts PROVE FALSE
  <2>0. PICK d \in Datasets : \E tool \in {"sing-box", "mihomo"}, c \in InDataset(d) :
          <<name>> \in ToSet(Outputs(tool, d, c))
    BY <1>3, <1>4 DEF RequiredArtifacts
  <2>1. PICK tool \in {"sing-box", "mihomo"}, c \in InDataset(d) :
          <<name>> \in ToSet(Outputs(tool, d, c))
    BY <2>0
  <2>2. <<name>> \in PoolFiles(tool, d)
    BY <2>1, OutputsType, ElementOfSeq, LenProperties DEF ToSet
  <2>3. QED
    BY <1>2, <2>2, PoolFilesAre
<1>5. QED
  BY <1>3, <1>4 DEF XrayFiles

\* A file that is written is of the dataset its name says, so that the datasets stay apart.
LEMMA WithKeeps ==
  ASSUME NEW files, NEW file, NEW value, FilesOK(files),
         \A d \in Datasets : file \in {Geosite(d), Geoip(d)} => value.dataset = d,
         file \in RequiredArtifacts \ XrayFiles => value.dataset = file[2]
  PROVE  FilesOK(With(files, file, value))
BY DEF FilesOK, With

\* Removing a file mixes up no datasets.
LEMMA WithoutKeeps ==
  ASSUME NEW files, NEW file, FilesOK(files)
  PROVE  FilesOK(Without(files, file))
BY DEF FilesOK, Without

\* A compiler that is said to have succeeded has written its file, or it was there.
LEMMA CompilesEffect ==
  ASSUME NEW file, NEW d, NEW after, NEW ok \in BOOLEAN, Compiles(file, d, after, ok)
  PROVE  /\ after = tree \/ \E state : after = With(tree, file, Content(d, state))
         /\ ok => file \in DOMAIN after
BY DEF Compiles, With

\* That there is no stage directory is a state of it.
LEMMA NoStageIs == IsStage(NoStage)
BY DEF IsStage, NoStage

\* The invariant holds before the first build.
LEMMA BuildInit == Init => BuildInv
<1> SUFFICES ASSUME Init PROVE BuildInv
  OBVIOUS
<1>1. BuildTypes
  <2>1. IsStage(stage)
    BY DEF Init, IsStage, NoStage
  <2>2. \A v \in DOMAIN archives : archives[v] \in Nat
    BY DEF Init
  <2>3. pc = "done" /\ run = 0 /\ step = 1 /\ version = 0
    BY DEF Init, Unreleased
  <2>4. QED
    BY <2>1, <2>2, <2>3 DEF BuildTypes, Ended, Unreleased
<1>2. PoolOK /\ TreeOK /\ StageOK /\ DistOK
  BY DEF Init, PoolOK, TreeOK, StageOK, DistOK, InPool, AfterValidation
<1>3. QED
  BY <1>1, <1>2 DEF BuildInv

----------------------------------------------------------------------------
\* Whatever ends a build without replacing dist, and changes no archive but that of its own
\* version, keeps the invariant.
LEMMA EndKeeps ==
  ASSUME BuildInv, pc' \in Ended, Cleared, UNCHANGED <<run, dist>>, DOMAIN running' = {},
         \/ archives' = archives
         \/ pc \notin Ended /\ archives' = With(archives, version, Partial)
  PROVE  BuildInv'
<1>1. BuildTypes /\ DistOK
  BY DEF BuildInv
<1>2. run' = run /\ dist' = dist /\ version' = Unreleased /\ stage' = NoStage /\ step' = 1
      /\ rebuild' = FALSE /\ DOMAIN running' = {}
  BY DEF Cleared, EnterStep
<1>3. pc' \notin {"generate", "validate"} \cup AfterValidation
  BY DEF Ended, AfterValidation
<1>4. \A v \in DOMAIN archives' : archives'[v] \in Nat
  BY <1>1 DEF BuildTypes, With, Partial
<1>5. BuildTypes'
  <2>1. IsStage(stage)'
    BY <1>2, NoStageIs DEF IsStage
  <2>2. QED
    BY <1>1, <1>2, <1>4, <2>1 DEF BuildTypes
<1>6. PoolOK' /\ TreeOK' /\ StageOK'
  BY <1>2, <1>3 DEF PoolOK, TreeOK, StageOK, InPool, AfterValidation
<1>7. DistOK'
  <2>1. CASE archives' = archives
    BY <1>1, <1>2, <2>1 DEF DistOK
  <2>2. CASE pc \notin Ended /\ archives' = With(archives, version, Partial)
    <3>1. dist # None => version = Unreleased \/ dist.manifest.version < version
      BY <1>1, <2>2 DEF DistOK, BuildTypes
    <3>2. dist # None /\ dist.manifest.version # Unreleased => dist.manifest.version # version
      BY <1>1, <3>1 DEF DistOK, BuildTypes, Unreleased
    <3>3. QED
      BY <1>1, <1>2, <2>2, <3>2 DEF DistOK, With
  <2>3. QED
    BY <2>1, <2>2
<1>8. QED
  BY <1>5, <1>6, <1>7 DEF BuildInv

\* A build starts with no files, no stage and no compiler at work.
LEMMA StartBuildKeeps == BuildInv /\ StartBuild => BuildInv'
<1> SUFFICES ASSUME BuildInv, StartBuild PROVE BuildInv'
  OBVIOUS
<1>1. BuildTypes /\ PoolOK /\ DistOK
  BY DEF BuildInv
<1>2. run' = run + 1 /\ pc' = "generate" /\ step' = 1 /\ DOMAIN running' = {} /\ rebuild' = FALSE
      /\ tree' = <<>> /\ stage' = NoStage /\ version' = Unreleased /\ dist' = dist /\ archives' = archives
  BY <1>1 DEF StartBuild, EnterStep, PoolOK, InPool, Ended
<1>3. BuildTypes'
  <2>1. IsStage(stage)'
    BY <1>2, NoStageIs DEF IsStage
  <2>2. QED
    BY <1>1, <1>2, <2>1 DEF BuildTypes, Ended
<1>4. PoolOK' /\ TreeOK' /\ StageOK'
  <2>1. ~InPool'
    BY <1>2, CompilationsAre DEF InPool, Pooled, Tool
  <2>2. PoolOK'
    BY <1>2, <2>1 DEF PoolOK
  <2>3. TreeOK' /\ StageOK'
    BY <1>2 DEF TreeOK, StageOK, FilesOK, AfterValidation
  <2>4. QED
    BY <2>2, <2>3
<1>5. DistOK'
  BY <1>1, <1>2 DEF DistOK, BuildTypes
<1>6. QED
  BY <1>3, <1>4, <1>5 DEF BuildInv

----------------------------------------------------------------------------
\* A step within a generation keeps all but the pool and the tree.
LEMMA GenerateKeeps ==
  ASSUME BuildInv, pc = "generate", step' \in 1..9, PoolOK', TreeOK',
         UNCHANGED <<pc, run, rebuild, stage, version, dist, archives>>
  PROVE  BuildInv'
<1>1. BuildTypes /\ StageOK /\ DistOK
  BY DEF BuildInv
<1>2. BuildTypes'
  <2>1. IsStage(stage)'
    BY <1>1 DEF BuildTypes, IsStage
  <2>2. QED
    BY <1>1, <2>1 DEF BuildTypes
<1>3. StageOK' /\ DistOK'
  BY <1>1 DEF StageOK, DistOK
<1>4. QED
  BY <1>2, <1>3 DEF BuildInv

\* Entering a compilation, with no worker yet.
LEMMA EnterKeepsPool ==
  ASSUME BuildTypes, pc' = "generate", step \in 1..8, EnterStep(step + 1),
         DOMAIN running = {}, running' = running
  PROVE  PoolOK' /\ step' \in 1..9
<1>1. step' = step + 1 /\ step' \in 1..9 /\ DOMAIN running' = {} /\ waiting' = Queue(step')
  BY DEF EnterStep
<1>2. InPool' => waiting' \subseteq InDataset(Dataset')
  BY <1>1, CompilationsAre DEF InPool, Pooled, Tool, Dataset, Queue
<1>3. QED
  BY <1>1, <1>2 DEF PoolOK, InDataset

\* A geosite.dat or geoip.dat is compiled from the dataset whose turn it is, and geoip.dat is
\* moved before the next one is.
LEMMA CompileXrayKeeps == BuildInv /\ CompileXray => BuildInv'
<1> SUFFICES ASSUME BuildInv, CompileXray PROVE BuildInv'
  OBVIOUS
<1> DEFINE file == IF Tool = "dlc" THEN Geosite(Dataset) ELSE Geoip("server")
<1>1. BuildTypes /\ TreeOK /\ PoolOK
  BY DEF BuildInv
<1>2. pc = "generate" /\ step \in 1..4 /\ DOMAIN running = {}
  <2>1. pc = "generate" /\ step \in 1..4 /\ ~InPool
    BY CompilationsAre DEF CompileXray, Pooled, Tool, InPool
  <2>2. QED
    BY <1>1, <2>1 DEF PoolOK
<1>3. PICK after \in Compiled(file, Dataset), ok \in BOOLEAN :
        /\ Compiles(file, Dataset, after, ok)
        /\ IF ok
           THEN /\ tree' = IF Tool = "geoip" /\ Dataset = "lite"
                           THEN Without(With(after, Geoip("lite"), after[file]), file)
                           ELSE after
                /\ EnterStep(step + 1)
                /\ UNCHANGED <<pc, run, rebuild, running, stage, version, dist, archives>>
           ELSE Fail
  BY DEF CompileXray
<1>4. CASE ~ok
  <2>1. pc' \in Ended /\ Cleared /\ UNCHANGED <<run, dist, archives>> /\ DOMAIN running' = {}
    BY <1>2, <1>3, <1>4 DEF Fail, Ended
  <2>2. QED
    BY <2>1, EndKeeps
<1>5. CASE ok
  <2>1. FilesOK(tree) /\ Geoip("server") \notin DOMAIN tree
    BY <1>1, <1>2 DEF TreeOK
  <2>2. (after = tree \/ \E state : after = With(tree, file, Content(Dataset, state))) /\ file \in DOMAIN after
    <3>1. Compiles(file, Dataset, after, ok) /\ ok \in BOOLEAN
      BY <1>3
    <3> HIDE DEF file
    <3>2. after = tree \/ \E state : after = With(tree, file, Content(Dataset, state))
      BY <3>1 DEF Compiles
    <3>3. file \in DOMAIN after
      BY <1>5, <3>1 DEF Compiles, With
    <3>4. QED
      BY <3>2, <3>3
  <2>3. XrayFiles = {<<"xray", "geosite-lite.dat">>, <<"xray", "geosite.dat">>,
                     <<"xray", "geoip-lite.dat">>, <<"xray", "geoip.dat">>}
        /\ Geosite("lite") = <<"xray", "geosite-lite.dat">> /\ Geosite("server") = <<"xray", "geosite.dat">>
        /\ Geoip("lite") = <<"xray", "geoip-lite.dat">> /\ Geoip("server") = <<"xray", "geoip.dat">>
    BY DEF XrayFiles, Geosite, Geoip, Datasets
  <2>4. /\ Geosite("lite") # Geosite("server") /\ Geosite("lite") # Geoip("lite")
        /\ Geosite("lite") # Geoip("server") /\ Geosite("server") # Geoip("lite")
        /\ Geosite("server") # Geoip("server") /\ Geoip("lite") # Geoip("server")
    BY <2>3
  <2>5. FilesOK(tree') /\ (step + 1 <= 4 => Geoip("server") \notin DOMAIN tree')
    <3>1. CASE step = 1 \/ step = 3
      <4>1. Tool = "dlc" /\ file = Geosite(Dataset) /\ Dataset \in Datasets
            /\ Dataset = (IF step = 1 THEN "lite" ELSE "server")
        BY <3>1, CompilationsAre DEF Tool, Dataset, Datasets
      <4>2. tree' = after
        BY <1>3, <1>5, <4>1
      <4>3. \A d \in Datasets : file \in {Geosite(d), Geoip(d)} => d = Dataset
        BY <2>4, <4>1 DEF Datasets
      <4>4. file \in XrayFiles
        BY <4>1 DEF XrayFiles
      <4>5. \A state : Content(Dataset, state).dataset = Dataset
        BY DEF Content
      <4>6. FilesOK(after)
        <5> HIDE DEF file
        <5>1. QED
          BY <2>1, <2>2, <4>3, <4>4, <4>5, WithKeeps
      <4>7. Geoip("server") \notin DOMAIN after
        BY <2>1, <2>2, <2>4, <4>1 DEF With, Datasets
      <4>8. QED
        BY <4>2, <4>6, <4>7
    <3>2. CASE step = 2
      <4>1. Tool = "geoip" /\ file = Geoip("server") /\ Dataset = "lite"
        BY <3>2, CompilationsAre DEF Tool, Dataset
      <4>2. PICK state : after = With(tree, file, Content("lite", state))
        BY <2>1, <2>2, <4>1
      <4>3. tree' = Without(With(after, Geoip("lite"), after[file]), file)
        BY <1>3, <1>5, <4>1
      <4>4. after[file].dataset = "lite"
        BY <4>2 DEF With, Content
      <4>5. DOMAIN tree' = (DOMAIN tree \cup {Geoip("lite")}) \ {Geoip("server")}
            /\ \A g \in DOMAIN tree' : tree'[g] = IF g = Geoip("lite") THEN after[file] ELSE tree[g]
        BY <2>1, <2>4, <4>1, <4>2, <4>3 DEF With, Without
      <4>6. Geoip("lite") \in XrayFiles
        BY <2>3
      <4>7. FilesOK(tree')
        BY <2>1, <2>4, <4>4, <4>5, <4>6 DEF FilesOK, Datasets
      <4>8. QED
        BY <4>5, <4>7
    <3>3. CASE step = 4
      <4>1. Tool = "geoip" /\ file = Geoip("server") /\ Dataset = "server"
        BY <3>3, CompilationsAre DEF Tool, Dataset
      <4>2. tree' = after
        BY <1>3, <1>5, <4>1
      <4>3. \A d \in Datasets : file \in {Geosite(d), Geoip(d)} => d = "server"
        BY <2>4, <4>1 DEF Datasets
      <4>4. file \in XrayFiles
        BY <2>3, <4>1
      <4>5. \A state : Content(Dataset, state).dataset = "server"
        BY <4>1 DEF Content
      <4>6. FilesOK(after)
        <5> HIDE DEF file
        <5>1. QED
          BY <2>1, <2>2, <4>3, <4>4, <4>5, WithKeeps
      <4>7. QED
        BY <3>3, <4>2, <4>6
    <3>4. QED
      BY <1>2, <3>1, <3>2, <3>3
  <2>6. EnterStep(step + 1) /\ UNCHANGED <<pc, run, rebuild, running, stage, version, dist, archives>>
    BY <1>3, <1>5
  <2>7. PoolOK' /\ step' \in 1..9 /\ step' = step + 1
    <3>1. /\ pc' = "generate" /\ step \in 1..8 /\ EnterStep(step + 1) /\ BuildTypes
          /\ DOMAIN running = {} /\ running' = running
      BY <1>1, <1>2, <2>6
    <3>2. PoolOK' /\ step' \in 1..9
      BY <3>1, EnterKeepsPool
    <3>3. QED
      BY <3>1, <3>2 DEF EnterStep
  <2>8. TreeOK'
    BY <2>5, <2>7 DEF TreeOK
  <2>9. QED
    BY <1>2, <2>6, <2>7, <2>8, GenerateKeeps
<1>6. QED
  BY <1>4, <1>5

----------------------------------------------------------------------------
\* The steps of a pool.
LEMMA InPoolFacts ==
  ASSUME BuildInv, InPool
  PROVE  /\ pc = "generate" /\ step \in 5..8 /\ Tool \in {"sing-box", "mihomo"} /\ Dataset \in Datasets
         /\ FilesOK(tree) /\ waiting \subseteq InDataset(Dataset)
         /\ \A c \in DOMAIN running : running[c] # <<>> /\ running[c] \in Seq(PoolFiles(Tool, Dataset))
BY CompilationsAre DEF InPool, Pooled, Tool, Dataset, BuildInv, BuildTypes, PoolOK, TreeOK

\* What a worker is left with.
LEMMA GoesKeeps ==
  ASSUME NEW S, NEW c, NEW files \in Seq(S), Goes(c, files),
         \A k \in DOMAIN running : running[k] # <<>> /\ running[k] \in Seq(S)
  PROVE  \A k \in DOMAIN running' : running'[k] # <<>> /\ running'[k] \in Seq(S)
BY DEF Goes, With, Without

\* A free worker takes the next job, which was left to compile.
LEMMA StartItemKeeps == BuildInv /\ StartItem => BuildInv'
<1> SUFFICES ASSUME BuildInv, StartItem PROVE BuildInv'
  OBVIOUS
<1>1. InPool /\ UNCHANGED <<pc, run, step, rebuild, tree, stage, version, dist, archives>>
  BY DEF StartItem
<1>2. /\ pc = "generate" /\ step \in 5..8 /\ Tool \in {"sing-box", "mihomo"} /\ Dataset \in Datasets
      /\ FilesOK(tree) /\ waiting \subseteq InDataset(Dataset)
      /\ \A c \in DOMAIN running : running[c] # <<>> /\ running[c] \in Seq(PoolFiles(Tool, Dataset))
  BY <1>1, InPoolFacts
<1>3. PICK c \in waiting : waiting' = waiting \ {c} /\ Goes(c, Outputs(Tool, Dataset, c))
  BY DEF StartItem
<1>4. Outputs(Tool, Dataset, c) \in Seq(PoolFiles(Tool, Dataset))
  BY <1>2, OutputsType
<1>5. \A k \in DOMAIN running' : running'[k] # <<>> /\ running'[k] \in Seq(PoolFiles(Tool, Dataset))
  BY <1>2, <1>3, <1>4, GoesKeeps
<1>6. InPool' /\ Dataset' = Dataset /\ Tool' = Tool
  BY <1>1 DEF InPool, Pooled, Tool, Dataset
<1>7. PoolOK'
  BY <1>2, <1>3, <1>5, <1>6 DEF PoolOK, PoolFiles, InDataset
<1>8. TreeOK' /\ step' \in 1..9
  BY <1>1, <1>2 DEF TreeOK, FilesOK
<1>9. QED
  BY <1>1, <1>2, <1>7, <1>8, GenerateKeeps

\* A worker that goes on has written its file; one that fails is remembered for the join.
LEMMA CompileItemKeeps == BuildInv /\ CompileItem => BuildInv'
<1> SUFFICES ASSUME BuildInv, CompileItem PROVE BuildInv'
  OBVIOUS
<1>1. InPool /\ UNCHANGED <<pc, run, step, rebuild, waiting, stage, version, dist, archives>>
  BY DEF CompileItem, BuildInv, PoolOK
<1>2. /\ pc = "generate" /\ step \in 5..8 /\ Tool \in {"sing-box", "mihomo"} /\ Dataset \in Datasets
      /\ FilesOK(tree) /\ waiting \subseteq InDataset(Dataset)
      /\ \A c \in DOMAIN running : running[c] # <<>> /\ running[c] \in Seq(PoolFiles(Tool, Dataset))
  BY <1>1, InPoolFacts
<1>3. PICK c \in DOMAIN running :
        LET file == Head(running[c]) IN
        \E after \in Compiled(file, file[2]), ok \in BOOLEAN :
          /\ Compiles(file, file[2], after, ok) /\ tree' = after
          /\ Goes(c, IF ok THEN Tail(running[c]) ELSE <<>>)
  BY DEF CompileItem
<1> DEFINE file == Head(running[c])
<1>4. PICK after \in Compiled(file, file[2]), ok \in BOOLEAN :
          /\ Compiles(file, file[2], after, ok) /\ tree' = after
          /\ Goes(c, IF ok THEN Tail(running[c]) ELSE <<>>)
  BY <1>3
<1>5. file \in PoolFiles(Tool, Dataset) /\ Tail(running[c]) \in Seq(PoolFiles(Tool, Dataset))
  BY <1>2, HeadTailProperties
<1>6. \A k \in DOMAIN running' : running'[k] # <<>> /\ running'[k] \in Seq(PoolFiles(Tool, Dataset))
  <2>1. CASE ok
    BY <1>2, <1>4, <1>5, <2>1, GoesKeeps
  <2>2. CASE ~ok
    <3>1. <<>> \in Seq(PoolFiles(Tool, Dataset))
      OBVIOUS
    <3>2. QED
      BY <1>2, <1>4, <2>2, <3>1, GoesKeeps
  <2>3. QED
    BY <2>1, <2>2
<1>7. FilesOK(tree')
  <2>1. file[2] = Dataset /\ file \notin XrayFiles
    BY <1>2, <1>5, PoolFilesAre
  <2>2. after = tree \/ \E state : after = With(tree, file, Content(Dataset, state))
    BY <1>4, <2>1, CompilesEffect
  <2>3. \A d \in Datasets : file \notin {Geosite(d), Geoip(d)}
    BY <2>1 DEF XrayFiles
  <2>4. \A state : Content(Dataset, state).dataset = Dataset
    BY DEF Content
  <2> HIDE DEF file
  <2>5. FilesOK(after)
    BY <1>2, <2>1, <2>2, <2>3, <2>4, WithKeeps
  <2>6. QED
    BY <1>4, <2>5
<1>8. InPool' /\ Dataset' = Dataset /\ Tool' = Tool
  BY <1>1 DEF InPool, Pooled, Tool, Dataset
<1>9. PoolOK'
  BY <1>1, <1>2, <1>6, <1>8 DEF PoolOK, PoolFiles, InDataset
<1>10. TreeOK' /\ step' \in 1..9
  BY <1>1, <1>2, <1>7 DEF TreeOK
<1>11. QED
  BY <1>1, <1>2, <1>9, <1>10, GenerateKeeps

\* When a future has failed, the jobs that no worker has taken are dropped.
LEMMA CancelPendingKeeps == BuildInv /\ CancelPending => BuildInv'
<1> SUFFICES ASSUME BuildInv, CancelPending PROVE BuildInv'
  OBVIOUS
<1>1. InPool /\ waiting' = {} /\ UNCHANGED <<pc, run, step, rebuild, tree, running, stage, version, dist, archives>>
  BY DEF CancelPending
<1>2. pc = "generate" /\ step \in 5..8 /\ FilesOK(tree) /\ PoolOK
  BY <1>1, InPoolFacts DEF BuildInv
<1>3. InPool' /\ Dataset' = Dataset /\ Tool' = Tool
  BY <1>1 DEF InPool, Pooled, Tool, Dataset
<1>4. PoolOK'
  BY <1>1, <1>2, <1>3 DEF PoolOK, PoolFiles, InDataset
<1>5. TreeOK' /\ step' \in 1..9
  BY <1>1, <1>2 DEF TreeOK
<1>6. QED
  BY <1>1, <1>2, <1>4, <1>5, GenerateKeeps

\* The pool is left with every file of the tool compiled, or the build fails.
LEMMA JoinPoolKeeps == BuildInv /\ JoinPool => BuildInv'
<1> SUFFICES ASSUME BuildInv, JoinPool PROVE BuildInv'
  OBVIOUS
<1>1. InPool /\ pc = "generate" /\ step \in 5..8 /\ FilesOK(tree) /\ DOMAIN running = {}
  BY InPoolFacts DEF JoinPool
<1>2. CASE Fail
  <2>1. pc' \in Ended /\ Cleared /\ UNCHANGED <<run, dist, archives>> /\ DOMAIN running' = {}
    BY <1>1, <1>2 DEF Fail, Ended
  <2>2. QED
    BY <2>1, EndKeeps
<1>3. CASE EnterStep(step + 1) /\ UNCHANGED <<pc, run, rebuild, running, tree, stage, version, dist, archives>>
  <2>1. PoolOK' /\ step' \in 1..9 /\ step' = step + 1
    <3>1. /\ pc' = "generate" /\ step \in 1..8 /\ EnterStep(step + 1) /\ BuildTypes
          /\ DOMAIN running = {} /\ running' = running
      BY <1>1, <1>3 DEF BuildInv
    <3>2. PoolOK' /\ step' \in 1..9
      BY <3>1, EnterKeepsPool
    <3>3. QED
      BY <3>1, <3>2 DEF EnterStep
  <2>2. TreeOK'
    BY <1>1, <1>3, <2>1 DEF TreeOK
  <2>3. QED
    BY <1>1, <1>3, <2>1, <2>2, GenerateKeeps
<1>4. QED
  BY <1>2, <1>3 DEF JoinPool

----------------------------------------------------------------------------
\* What the files of a validated stage are.
LEMMA ValidatedStage ==
  ASSUME StageOK, pc \in AfterValidation
  PROVE  FilesOK(stage.files) /\ Validated(stage.files)
BY DEF StageOK

\* The later stages, in which nothing runs.
LEMMA LaterKeeps ==
  ASSUME BuildInv, pc \notin Ended, pc' \in {"validate"} \cup AfterValidation, ~InPool,
         UNCHANGED <<run, step, pool, dist, archives>>, IsStage(stage'),
         version' \in {Unreleased, run}, StageOK'
  PROVE  BuildInv'
<1>1. BuildTypes /\ PoolOK /\ DistOK
  BY DEF BuildInv
<1>2. pc' \notin Ended /\ pc' # "generate" /\ DOMAIN running' = {}
  BY <1>1 DEF Ended, AfterValidation, pool, PoolOK
<1>3. IsStage(stage)'
  BY DEF IsStage
<1>4. BuildTypes'
  BY <1>1, <1>2, <1>3 DEF BuildTypes
<1>5. PoolOK' /\ TreeOK' /\ DistOK'
  BY <1>1, <1>2 DEF PoolOK, TreeOK, DistOK, InPool
<1>6. QED
  BY <1>4, <1>5 DEF BuildInv

\* The whole compiled tree becomes the files of the stage.
LEMMA PublishTreeKeeps == BuildInv /\ PublishTree => BuildInv'
<1> SUFFICES ASSUME BuildInv, PublishTree PROVE BuildInv'
  OBVIOUS
<1>1. BuildTypes /\ TreeOK
  BY DEF BuildInv
<1>2. pc = "generate" /\ ~InPool /\ pc \notin Ended /\ pc' = "validate"
      /\ UNCHANGED <<run, step, pool, dist, archives, version>>
      /\ stage' = [stage EXCEPT !.files = tree]
  BY DEF PublishTree, Generated, InPool, Ended
<1>3. stage'.files = tree /\ IsStage(stage')
  BY <1>1, <1>2 DEF BuildTypes, IsStage
<1>4. FilesOK(stage'.files)
  BY <1>1, <1>2, <1>3 DEF TreeOK
<1>5. FilesOK(stage.files)'
  BY <1>4 DEF FilesOK
<1>6. StageOK'
  BY <1>2, <1>5 DEF StageOK, AfterValidation
<1>7. version' \in {Unreleased, run}
  BY <1>1, <1>2 DEF BuildTypes
<1>8. QED
  BY <1>2, <1>3, <1>6, <1>7, LaterKeeps

\* Validation passes a tree only if it has every required artifact.
LEMMA ValidateArtifactsKeeps == BuildInv /\ ValidateArtifacts => BuildInv'
<1> SUFFICES ASSUME BuildInv, ValidateArtifacts PROVE BuildInv'
  OBVIOUS
<1>1. BuildTypes /\ PoolOK /\ StageOK /\ DistOK /\ pc = "validate"
  BY DEF BuildInv, ValidateArtifacts
<1>2. CASE Fail
  <2>1. pc' \in Ended /\ Cleared /\ UNCHANGED <<run, dist, archives>> /\ DOMAIN running' = {}
    BY <1>1, <1>2 DEF Fail, Ended, PoolOK, InPool
  <2>2. QED
    BY <2>1, EndKeeps
<1>3. CASE ~Fail
  <2>1. /\ Validated(stage.files) /\ pc' = "generate" /\ step' = 1 /\ DOMAIN running' = {}
        /\ tree' = <<>> /\ UNCHANGED <<run, stage, version, dist, archives>>
    BY <1>1, <1>3 DEF ValidateArtifacts, Validated, EnterStep, PoolOK, InPool
  <2>2. IsStage(stage)'
    BY <1>1, <2>1 DEF BuildTypes, IsStage
  <2>3. BuildTypes'
    BY <1>1, <2>1, <2>2 DEF BuildTypes, Ended
  <2>4. ~InPool'
    BY <2>1, CompilationsAre DEF InPool, Pooled, Tool
  <2>5. PoolOK' /\ TreeOK'
    BY <2>1, <2>4 DEF PoolOK, TreeOK, FilesOK
  <2>6. FilesOK(stage.files)' /\ Validated(stage.files)'
    BY <1>1, <2>1 DEF StageOK, FilesOK, Validated
  <2>7. StageOK'
    BY <2>1, <2>6 DEF StageOK, AfterValidation
  <2>8. DistOK'
    BY <1>1, <2>1 DEF DistOK, Ended
  <2>9. QED
    BY <2>3, <2>5, <2>7, <2>8 DEF BuildInv
<1>4. QED
  BY <1>2, <1>3

\* The rebuild confirms the stage or fails the build, and is gone either way.
LEMMA CompareRebuildKeeps == BuildInv /\ CompareRebuild => BuildInv'
<1> SUFFICES ASSUME BuildInv, CompareRebuild PROVE BuildInv'
  OBVIOUS
<1>1. BuildTypes /\ StageOK /\ PoolOK /\ pc = "generate" /\ rebuild /\ ~InPool
  BY DEF BuildInv, CompareRebuild, Generated, InPool
<1>2. CASE Fail
  <2>1. pc' \in Ended /\ Cleared /\ UNCHANGED <<run, dist, archives>> /\ DOMAIN running' = {}
    BY <1>1, <1>2 DEF Fail, Ended, PoolOK
  <2>2. QED
    BY <2>1, EndKeeps
<1>3. CASE ~Fail
  <2>1. pc' = "decide" /\ UNCHANGED <<run, step, pool, stage, version, dist, archives>>
    BY <1>3 DEF CompareRebuild
  <2>2. FilesOK(stage.files)' /\ Validated(stage.files)'
    BY <1>1, <2>1 DEF StageOK, FilesOK, Validated
  <2>3. StageOK'
    BY <2>1, <2>2 DEF StageOK, AfterValidation
  <2>4. IsStage(stage') /\ version' \in {Unreleased, run}
    BY <1>1, <2>1 DEF BuildTypes
  <2>5. pc \notin Ended /\ pc' \in AfterValidation
    BY <1>1, <2>1 DEF Ended, AfterValidation
  <2>6. QED
    BY <1>1, <2>1, <2>3, <2>4, <2>5, LaterKeeps
<1>4. QED
  BY <1>2, <1>3

\* The version of a build is one that no other build has.
LEMMA DecideKeeps == BuildInv /\ Decide => BuildInv'
<1> SUFFICES ASSUME BuildInv, Decide PROVE BuildInv'
  OBVIOUS
<1>1. BuildTypes /\ StageOK /\ pc = "decide" /\ ~InPool /\ pc \notin Ended
  BY DEF BuildInv, Decide, InPool, Ended
<1>2. pc' = "render" /\ version' \in {Unreleased, run} /\ UNCHANGED <<run, step, pool, stage, dist, archives>>
  BY DEF Decide
<1>3. FilesOK(stage.files)' /\ Validated(stage.files)'
  BY <1>1, <1>2, ValidatedStage DEF FilesOK, Validated, AfterValidation
<1>4. StageOK'
  BY <1>2, <1>3 DEF StageOK, AfterValidation
<1>5. IsStage(stage') /\ pc' \in AfterValidation
  BY <1>1, <1>2 DEF BuildTypes, AfterValidation
<1>6. QED
  BY <1>1, <1>2, <1>4, <1>5, LaterKeeps

\* The examples and the index page come on top of a complete stage.
LEMMA RenderExamplesKeeps == BuildInv /\ RenderExamples => BuildInv'
<1> SUFFICES ASSUME BuildInv, RenderExamples PROVE BuildInv'
  OBVIOUS
<1> DEFINE files == With(stage.files, <<"examples">>, Content("both", "good"))
<1>1. BuildTypes /\ StageOK /\ pc = "render" /\ ~InPool /\ pc \notin Ended
  BY DEF BuildInv, RenderExamples, InPool, Ended
<1>2. pc' = "package" /\ stage' = [stage EXCEPT !.files = files]
      /\ UNCHANGED <<run, step, pool, version, dist, archives>>
  BY DEF RenderExamples
<1>3. stage'.files = files /\ IsStage(stage')
  <2> HIDE DEF files
  <2>1. QED
    BY <1>1, <1>2 DEF BuildTypes, IsStage
<1>4. FilesOK(stage.files) /\ Validated(stage.files)
  BY <1>1, ValidatedStage DEF AfterValidation
<1>5. <<"examples">> \notin RequiredArtifacts /\ \A d \in Datasets : <<"examples">> \notin {Geosite(d), Geoip(d)}
  BY OwnFilesAre
<1>6. FilesOK(files)
  BY <1>4, <1>5, WithKeeps
<1>7. Validated(files)
  BY <1>4 DEF Validated, With, Content
<1>8. FilesOK(stage.files)' /\ Validated(stage.files)'
  <2> HIDE DEF files
  <2>1. QED
    BY <1>3, <1>6, <1>7 DEF FilesOK, Validated
<1>9. StageOK'
  BY <1>2, <1>8 DEF StageOK, AfterValidation
<1>10. version' \in {Unreleased, run} /\ pc' \in AfterValidation
  BY <1>1, <1>2 DEF BuildTypes, AfterValidation
<1>11. QED
  BY <1>1, <1>2, <1>3, <1>9, <1>10, LaterKeeps

\* SHA256SUMS is over the files the stage has at that moment, the index page among them.
LEMMA PackageTreeKeeps == BuildInv /\ PackageTree => BuildInv'
<1> SUFFICES ASSUME BuildInv, PackageTree PROVE BuildInv'
  OBVIOUS
<1> DEFINE files == WithMaterial(stage.files)
<1>1. BuildTypes /\ StageOK /\ pc = "package" /\ ~InPool /\ pc \notin Ended
  BY DEF BuildInv, PackageTree, InPool, Ended
<1>2. pc' = "archive" /\ stage' = [files |-> files, sums |-> DOMAIN files,
                                   manifest |-> [version |-> version, archive |-> None]]
      /\ UNCHANGED <<run, step, pool, version, dist, archives>>
  BY DEF PackageTree
<1>3. FilesOK(stage.files) /\ Validated(stage.files)
  BY <1>1, ValidatedStage DEF AfterValidation
<1>4. \A name \in {"LICENSES.md", "index.html"} :
        <<name>> \notin RequiredArtifacts /\ \A d \in Datasets : <<name>> \notin {Geosite(d), Geoip(d)}
  BY OwnFilesAre
<1> DEFINE half == With(stage.files, <<"LICENSES.md">>, Content("both", "good"))
<1>5. FilesOK(half) /\ Validated(half)
  <2>1. FilesOK(half)
    BY <1>3, <1>4, WithKeeps
  <2>2. Validated(half)
    BY <1>3 DEF Validated, With, Content
  <2>3. QED
    BY <2>1, <2>2
<1>6. files = With(half, <<"index.html">>, Content("both", "good"))
  BY DEF WithMaterial
<1> HIDE DEF files, half
<1>7. FilesOK(files)
  BY <1>4, <1>5, <1>6, WithKeeps
<1>8. Validated(files)
  BY <1>5, <1>6 DEF Validated, With, Content
<1>9. FilesOK(stage.files)' /\ Validated(stage.files)' /\ IsStage(stage')
  BY <1>2, <1>7, <1>8 DEF FilesOK, Validated, IsStage
<1>10. StageOK'
  BY <1>2, <1>9 DEF StageOK, AfterValidation
<1>11. version' \in {Unreleased, run} /\ pc' \in AfterValidation
  BY <1>1, <1>2 DEF BuildTypes, AfterValidation
<1>12. QED
  BY <1>1, <1>2, <1>9, <1>10, <1>11, LaterKeeps

\* The archive is of this build, whose version no earlier dist has.
LEMMA CreateArchiveKeeps == BuildInv /\ CreateArchive => BuildInv'
<1> SUFFICES ASSUME BuildInv, CreateArchive PROVE BuildInv'
  OBVIOUS
<1>1. BuildTypes /\ PoolOK /\ StageOK /\ DistOK /\ pc = "archive" /\ ~InPool /\ pc \notin Ended
  BY DEF BuildInv, CreateArchive, InPool, Ended
<1>2. CASE pc' = "failed" /\ Cleared /\ UNCHANGED <<run, running, dist>>
           /\ archives' = With(archives, version, Partial)
  <2>1. pc' \in Ended /\ DOMAIN running' = {}
    BY <1>1, <1>2 DEF Ended, PoolOK
  <2>2. QED
    BY <1>1, <1>2, <2>1, EndKeeps
<1>3. CASE /\ archives' = With(archives, version, run) /\ pc' = "manifest"
           /\ UNCHANGED <<run, step, pool, stage, version, dist>>
  <2>1. pc' \notin Ended /\ pc' # "generate" /\ DOMAIN running' = {}
    BY <1>1, <1>3 DEF Ended, pool, PoolOK
  <2>2. IsStage(stage)' /\ \A v \in DOMAIN archives' : archives'[v] \in Nat
    BY <1>1, <1>3 DEF BuildTypes, IsStage, With
  <2>3. BuildTypes'
    BY <1>1, <1>3, <2>1, <2>2 DEF BuildTypes, AfterValidation
  <2>4. PoolOK' /\ TreeOK'
    BY <2>1 DEF PoolOK, TreeOK, InPool
  <2>5. FilesOK(stage.files)' /\ Validated(stage.files)'
    BY <1>1, <1>3, ValidatedStage DEF FilesOK, Validated, AfterValidation
  <2>6. version' \in DOMAIN archives'
    BY <1>3 DEF With
  <2>7. StageOK'
    BY <1>1, <1>3, <2>5, <2>6 DEF StageOK, AfterValidation
  <2>8. DistOK'
    <3>1. dist # None /\ dist.manifest.version # Unreleased => dist.manifest.version # version
      BY <1>1 DEF DistOK, BuildTypes, Unreleased
    <3>2. QED
      BY <1>1, <1>3, <2>1, <3>1 DEF DistOK, With
  <2>9. QED
    BY <2>3, <2>4, <2>7, <2>8 DEF BuildInv
<1>4. QED
  BY <1>2, <1>3 DEF CreateArchive

\* The manifest names the archive that this build has written.
LEMMA FinishManifestKeeps == BuildInv /\ FinishManifest => BuildInv'
<1> SUFFICES ASSUME BuildInv, FinishManifest PROVE BuildInv'
  OBVIOUS
<1>1. BuildTypes /\ StageOK /\ pc = "manifest" /\ ~InPool /\ pc \notin Ended
  BY DEF BuildInv, FinishManifest, InPool, Ended
<1>2. pc' = "swap" /\ stage' = [stage EXCEPT !.manifest.archive = archives[version]]
      /\ UNCHANGED <<run, step, pool, version, dist, archives>>
  BY DEF FinishManifest
<1>3. stage'.files = stage.files /\ stage'.sums = stage.sums
      /\ stage'.manifest = [version |-> version, archive |-> archives[version]] /\ IsStage(stage')
  <2>1. stage = [files |-> stage.files, sums |-> stage.sums, manifest |-> stage.manifest]
        /\ stage.manifest = [version |-> version, archive |-> stage.manifest.archive]
    BY <1>1 DEF BuildTypes, IsStage, StageOK
  <2>2. QED
    BY <1>2, <2>1 DEF IsStage
<1>4. FilesOK(stage.files)' /\ Validated(stage.files)'
  BY <1>1, <1>3, ValidatedStage DEF FilesOK, Validated, AfterValidation
<1>5. DOMAIN stage'.files = stage'.sums /\ version' = version /\ archives' = archives /\ version \in DOMAIN archives
      /\ stage'.manifest.archive = archives[version]
      /\ stage'.manifest = [version |-> version, archive |-> stage'.manifest.archive]
  BY <1>1, <1>2, <1>3 DEF StageOK
<1>6. StageOK'
  BY <1>2, <1>4, <1>5 DEF StageOK, AfterValidation
<1>7. version' \in {Unreleased, run} /\ pc' \in AfterValidation
  BY <1>1, <1>2 DEF BuildTypes, AfterValidation
<1>8. QED
  BY <1>1, <1>2, <1>3, <1>6, <1>7, LaterKeeps

\* Dist becomes the finished stage.
LEMMA SwapInKeeps == BuildInv /\ SwapIn => BuildInv'
<1> SUFFICES ASSUME BuildInv, SwapIn PROVE BuildInv'
  OBVIOUS
<1>1. BuildTypes /\ StageOK /\ PoolOK /\ pc = "swap"
  BY DEF BuildInv, SwapIn
<1>2. pc' = "done" /\ dist' = stage /\ stage' = NoStage /\ version' = Unreleased /\ step' = 1
      /\ DOMAIN running' = {} /\ UNCHANGED <<run, archives>>
  BY <1>1 DEF SwapIn, EnterStep, PoolOK, InPool
<1>3. IsStage(stage)'
  BY <1>2, NoStageIs DEF IsStage
<1>4. BuildTypes'
  BY <1>1, <1>2, <1>3 DEF BuildTypes, Ended
<1>5. PoolOK' /\ TreeOK' /\ StageOK'
  BY <1>2 DEF PoolOK, TreeOK, StageOK, InPool, AfterValidation
<1>6. /\ FilesOK(stage.files) /\ Validated(stage.files) /\ DOMAIN stage.files = stage.sums
      /\ stage.manifest = [version |-> version, archive |-> stage.manifest.archive]
      /\ version \in DOMAIN archives /\ stage.manifest.archive = archives[version]
  <2>1. FilesOK(stage.files) /\ Validated(stage.files)
    BY <1>1, ValidatedStage DEF AfterValidation
  <2>2. QED
    BY <1>1, <2>1 DEF StageOK
<1>7. stage.manifest.version = version /\ version \in Nat /\ version <= run /\ archives[version] \in Nat
  BY <1>1, <1>6 DEF BuildTypes, Unreleased
<1>8. FilesOK(dist.files)' /\ Validated(dist.files)'
  BY <1>2, <1>6 DEF FilesOK, Validated
<1>9. DistOK'
  BY <1>2, <1>6, <1>7, <1>8 DEF DistOK, Ended
<1>10. QED
  BY <1>4, <1>5, <1>9 DEF BuildInv

\* A build that fails leaves dist and the archives as they were.
LEMMA StageFailsKeeps == BuildInv /\ StageFails => BuildInv'
<1> SUFFICES ASSUME BuildInv, StageFails PROVE BuildInv'
  OBVIOUS
<1>1. pc' \in Ended /\ Cleared /\ UNCHANGED <<run, dist, archives>> /\ DOMAIN running' = {}
  BY DEF StageFails, Fail, Ended, BuildInv, PoolOK, InPool
<1>2. QED
  BY <1>1, EndKeeps

\* A build that dies leaves dist as it was, and at most a part of its own archive.
LEMMA CrashKeeps == BuildInv /\ Crash => BuildInv'
<1> SUFFICES ASSUME BuildInv, Crash PROVE BuildInv'
  OBVIOUS
<1>1. pc \notin Ended /\ pc' \in Ended /\ Cleared /\ UNCHANGED <<run, dist>> /\ DOMAIN running' = {}
      /\ (archives' = archives \/ archives' = With(archives, version, Partial))
  BY DEF Crash, Ended
<1>2. QED
  BY <1>1, EndKeeps

\* The invariant is of the state alone.
LEMMA BuildStutters == BuildInv /\ UNCHANGED vars => BuildInv'
<1> SUFFICES ASSUME BuildInv, UNCHANGED vars PROVE BuildInv'
  OBVIOUS
<1>1. BuildTypes /\ PoolOK /\ TreeOK /\ StageOK /\ DistOK
  BY DEF BuildInv
<1>2. UNCHANGED <<pc, run, step, rebuild, tree, waiting, running, stage, version, dist, archives>>
  BY DEF vars, pool
<1>3. IsStage(stage)'
  BY <1>1, <1>2 DEF BuildTypes, IsStage
<1>4. BuildTypes'
  BY <1>1, <1>2, <1>3 DEF BuildTypes
<1>5. InPool' = InPool /\ Dataset' = Dataset /\ Tool' = Tool
  BY <1>2 DEF InPool, Pooled, Tool, Dataset
<1>6. PoolOK'
  BY <1>1, <1>2, <1>5 DEF PoolOK, PoolFiles, InDataset
<1>7. TreeOK' /\ StageOK' /\ DistOK'
  BY <1>1, <1>2 DEF TreeOK, StageOK, DistOK
<1>8. QED
  BY <1>4, <1>6, <1>7 DEF BuildInv

----------------------------------------------------------------------------
\* However many workers and failures, every step keeps the inductive invariant: which workers
\* run, which files each stage has written, and what each of them was made from.
THEOREM BuildInvariant == Spec => []BuildInv
<1>1. BuildInv /\ [Next]_vars => BuildInv'
  BY StartBuildKeeps, CompileXrayKeeps, StartItemKeeps, CompileItemKeeps, CancelPendingKeeps,
     JoinPoolKeeps, PublishTreeKeeps, ValidateArtifactsKeeps, CompareRebuildKeeps, DecideKeeps,
     RenderExamplesKeeps, PackageTreeKeeps, CreateArchiveKeeps, FinishManifestKeeps, SwapInKeeps,
     StageFailsKeeps, CrashKeeps, BuildStutters DEF Next, Step
<1>2. QED
  BY BuildInit, <1>1, PTL DEF Spec

\* However many workers and failures: the main thread leaves a compilation only when all the
\* workers of its pool have returned, so that none writes to a later one or to no stage.
THEOREM NoWorkerOutlivesItsStage == Spec => []WorkersEndFirst
<1>1. BuildInv => WorkersEndFirst
  <2> SUFFICES ASSUME BuildInv, NEW c \in DOMAIN running
               PROVE  InPool /\ \A i \in DOMAIN running[c] : /\ running[c][i][1] = Tool
                                                            /\ running[c][i][2] = Dataset
    BY DEF WorkersEndFirst
  <2>1. InPool
    BY DEF BuildInv, PoolOK
  <2>2. Tool \in {"sing-box", "mihomo"} /\ Dataset \in Datasets /\ running[c] \in Seq(PoolFiles(Tool, Dataset))
    BY <2>1, InPoolFacts
  <2>3. \A i \in DOMAIN running[c] : running[c][i] \in PoolFiles(Tool, Dataset)
    BY <2>2, ElementOfSeq, LenProperties
  <2>4. QED
    BY <2>1, <2>2, <2>3, PoolFilesAre
<1>2. QED
  BY BuildInvariant, <1>1, PTL

\* Whatever has failed before, a dist that is there is complete.
THEOREM DistIsComplete == Spec => []DistComplete
<1>1. BuildInv => DistComplete
  BY BuildAssumption DEF BuildInv, DistOK, DistComplete, Validated
<1>2. QED
  BY BuildInvariant, <1>1, PTL

\* No file of dist was compiled from the other dataset.
THEOREM NoDatasetMixedUp == Spec => []DatasetsKeptApart
<1>1. BuildInv => DatasetsKeptApart
  <2> SUFFICES ASSUME BuildInv, dist # None, NEW d \in Datasets
               PROVE  /\ dist.files[Geosite(d)].dataset = d /\ dist.files[Geoip(d)].dataset = d
                      /\ \A file \in RequiredArtifacts \ XrayFiles : dist.files[file].dataset = file[2]
    BY DEF DatasetsKeptApart
  <2>1. FilesOK(dist.files) /\ RequiredArtifacts \subseteq DOMAIN dist.files
    BY DEF BuildInv, DistOK, Validated
  <2>2. Geosite(d) \in RequiredArtifacts /\ Geoip(d) \in RequiredArtifacts
    BY DEF RequiredArtifacts, XrayFiles
  <2>3. QED
    BY <2>1, <2>2 DEF FilesOK
<1>2. QED
  BY BuildInvariant, <1>1, PTL

\* The archive `publish` uploads for a dist is the one its manifest describes.
THEOREM ArchiveIsOfItsDist == Spec => []ReleasedArchiveMatches
<1>1. BuildInv => ReleasedArchiveMatches
  BY DEF BuildInv, DistOK, ReleasedArchiveMatches
<1>2. QED
  BY BuildInvariant, <1>1, PTL
=============================================================================
