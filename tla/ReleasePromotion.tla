---------------------------- MODULE ReleasePromotion ----------------------------
(***************************************************************************)
(* The release scripts: builds that fill a directory under dist/ with      *)
(* files, lists of their digests and signatures, and the promotion that    *)
(* publishes the package and uploads the signed binaries.                  *)
(*                                                                         *)
(* Every script is a process of its own.  Nothing locks dist/: two builds  *)
(* and a promotion may run at once, and each may be killed, or have a      *)
(* command of its fail, between two files.  The command a killed script    *)
(* waited for goes on: the build command, npm pack, the signing command,   *)
(* npm publish or gh.  A promotion decides on the environment and on the   *)
(* word of its caller; it never looks at the files.                        *)
(*                                                                         *)
(* The digest of a part is the number of the build that wrote it; the      *)
(* lists, signatures and manifests hold the digest they were made for.     *)
(***************************************************************************)
EXTENDS Integers, Sequences, FiniteSets

CONSTANTS Parts,       \* what a build makes: a binary of a target, a file of a bundle
          Jobs,        \* the scripts that are run
          Situations,  \* the sets of gates not cleared that promotions are tried with
          MaxBuilds,   \* bound: builds started
          MaxVersions, \* bound: package versions
          MaxStops     \* bound: scripts that are killed or whose command fails

ASSUME ReleaseBounds ==
  MaxBuilds \in Nat /\ MaxVersions \in Nat \ {0} /\ MaxStops \in Nat

VARIABLES dist,     \* the output directories: line -> kind of file -> part -> digest
          builds,   \* the build scripts: number -> process
          whole,    \* history: how far the last build of a line came undisturbed
          version,  \* the version in package.json
          promoter, \* the promotion being executed
          strays,   \* the npm and gh commands of killed promotions
          registry, \* versions npm publish put in the registry
          release,  \* the assets of the GitHub release: kind -> part -> digest
          complete, \* versions whose upload ended well
          settled,  \* history: the last upload was not disturbed and ended well
          report,   \* dist/release-promotion-execution.json
          stops

vars == <<dist, builds, whole, version, promoter, strays, registry, release, complete,
          settled, report, stops>>

-----------------------------------------------------------------------------
Lines == {"native", "signed_native", "bundle"}
Kinds == {"part", "list", "signature", "manifest"}

\* release:native-binary, release:signed-native-binary, release:bundle and
\* release:signatures, which first makes the bundle again.
Scripts == {[line |-> "native", signs |-> FALSE], [line |-> "signed_native", signs |-> TRUE],
            [line |-> "bundle", signs |-> FALSE], [line |-> "bundle", signs |-> TRUE]}

ASSUME KnownScripts == Jobs \subseteq Scripts

Numbers  == 1 .. MaxBuilds
Digests  == 0 .. MaxBuilds
Table    == [Parts -> Digests]
Files    == [Kinds -> Table]
Versions == 1 .. MaxVersions
Nothing  == [p \in Parts |-> 0]
NoFiles  == [k \in Kinds |-> Nothing]

\* The blockers the report of a promotion can list.
Gates == {"package_private", "non_production_warning", "missing_registry_token",
          "missing_github_release_token", "missing_release_tag",
          "native_binary_build_pending", "signing_blocked",
          "missing_public_release_confirmation"}
ASSUME KnownGates == Situations \subseteq SUBSET Gates

\* What the environment says of the build command or the signing command.
Tools == [command : {"unset", "relative", "absolute"}, args : {"unset", "valid", "invalid"},
          named : BOOLEAN]

\* buildNativeBinaryBuildConfiguration
BuildConfiguration(tool) ==
  CASE tool.command = "relative" \/ tool.args = "invalid" -> "invalid"
    [] tool.command = "absolute" /\ tool.args # "invalid" -> "configured"
    [] OTHER                                              -> "not_configured"

\* buildSigningConfiguration: a key reference and an identity are named as well.
SigningConfiguration(tool) ==
  IF BuildConfiguration(tool) = "configured" /\ ~tool.named
  THEN "not_configured" ELSE BuildConfiguration(tool)

-----------------------------------------------------------------------------
\* promotionPreflightBlockers of the gates not cleared.  A promotion makes the list from
\* what its caller says; the preflight report on disk, which nothing reads, says that
\* the warning is active whatever the caller thinks.
PreflightBlockers(open) == open \ {"missing_public_release_confirmation"}

\* releasePromotionExecutionBlockers
ExecutionBlockers(open) ==
  PreflightBlockers(open) \cup (open \cap {"missing_public_release_confirmation"})

-----------------------------------------------------------------------------
Idle == [stage |-> "idle"]
New  == [stage |-> "new"]
Over == [stage |-> "over"]

\* The sorted paths, in two lots: the checksums and the manifest of the signatures come
\* first, the directories of the binaries and of the signatures follow.
UploadOrder == <<{"manifest"}, {"list", "part", "signature"}>>
Suffixes    == {SubSeq(UploadOrder, i, Len(UploadOrder)) : i \in 1 .. Len(UploadOrder) + 1}

\* Of an orphan the script was killed and the command it waited for goes on.
Build    == {New, Over} \cup [stage : {"parts", "signing"}, job : Jobs, alone : BOOLEAN,
                              orphan : BOOLEAN, seen : Table, done : SUBSET Parts]
Promoter == {Idle} \cup [stage : {"publish"}]
                   \cup [stage : {"upload"}, found : BOOLEAN, left : Suffixes, calm : BOOLEAN]
Stray    == [stop : 1 .. MaxStops, stage : {"publish"}, version : Versions]
              \cup [stop : 1 .. MaxStops, stage : {"upload"}, left : Suffixes]

\* Nobody ever finds a report that says "ready": without a blocker the script executes.
TypeOK == /\ dist \in [Lines -> Files]
          /\ builds \in [Numbers -> Build]
          /\ whole \in [Lines -> {"torn", "listed", "signed"}]
          /\ version \in Versions
          /\ promoter \in Promoter
          /\ strays \subseteq Stray
          /\ registry \subseteq Versions /\ complete \subseteq Versions
          /\ release \in Files
          /\ settled \in BOOLEAN
          /\ report \in [status : {"absent", "blocked", "executed"}, version : Versions]
          /\ stops \in 0 .. MaxStops

Init == /\ dist = [l \in Lines |-> NoFiles]
        /\ builds = [n \in Numbers |-> New]
        /\ whole = [l \in Lines |-> "torn"]
        /\ version = 1
        /\ promoter = Idle
        /\ strays = {}
        /\ registry = {}
        /\ release = NoFiles
        /\ complete = {}
        /\ settled = FALSE
        /\ report = [status |-> "absent", version |-> 1]
        /\ stops = 0

public == <<registry, release, complete, settled, report>>

-----------------------------------------------------------------------------
Running(n) == builds[n].stage \in {"parts", "signing"}
OnLine(l)  == {n \in Numbers : Running(n) /\ builds[n].job.line = l}

\* The scripts throw before they touch a file unless their commands are configured.
Configured(job, build, sign) ==
  /\ job.line # "bundle" => BuildConfiguration(build) = "configured"
  /\ job.signs => SigningConfiguration(sign) = "configured"

StartBuild(n, job) ==
  /\ builds[n] = New
  /\ n > 1 => builds[n - 1] # New
  /\ \E build, sign \in Tools : Configured(job, build, sign)
  /\ LET others == OnLine(job.line)
         started == [stage |-> "parts", job |-> job, alone |-> others = {},
                     orphan |-> FALSE, seen |-> Nothing, done |-> {}]
     IN builds' = [m \in Numbers |-> IF m = n THEN started
                                     ELSE IF m \in others THEN [builds[m] EXCEPT !.alone = FALSE]
                                     ELSE builds[m]]
  /\ whole' = [whole EXCEPT ![job.line] = "torn"]
  /\ promoter' = IF promoter.stage = "upload" /\ job.line = "signed_native"
                 THEN [promoter EXCEPT !.calm = FALSE] ELSE promoter
  /\ UNCHANGED <<dist, version, strays, public, stops>>

\* An orphaned npm pack or signing command ends with the file it was run for.
AfterFile(b, p) ==
  IF b.orphan /\ (b.stage = "signing" \/ b.job.line = "bundle")
  THEN Over ELSE [b EXCEPT !.done = b.done \cup {p}]

\* One file: of the build command, of npm pack, or a launcher.
WritePart(n, p) ==
  /\ builds[n].stage = "parts"
  /\ p \notin builds[n].done
  /\ dist' = [dist EXCEPT ![builds[n].job.line].part[p] = n]
  /\ builds' = [builds EXCEPT ![n] = AfterFile(builds[n], p)]
  /\ UNCHANGED <<whole, version, promoter, strays, public, stops>>

\* Mutated Digest: the list takes over what the last list said.
ListedBefore(l) == dist[l].list

\* nativeBinaryArtifactEntries, bundleArtifactEntry: the files are read back.
Digest(l) == dist[l].part

\* The checksums and the manifest of the parts; for a bundle its attestation first.
WriteList(n) ==
  /\ builds[n].stage = "parts" /\ ~builds[n].orphan
  /\ builds[n].done = Parts
  /\ LET b == builds[n]
         l == b.job.line
         seen == Digest(l)
     IN /\ dist' = [dist EXCEPT ![l].list = seen]
        /\ builds' = [builds EXCEPT ![n] = IF b.job.signs
                                           THEN [b EXCEPT !.stage = "signing", !.seen = seen,
                                                          !.done = {}]
                                           ELSE Over]
        /\ whole' = IF ~b.job.signs /\ b.alone THEN [whole EXCEPT ![l] = "listed"] ELSE whole
  /\ UNCHANGED <<version, promoter, strays, public, stops>>

\* executeSigningCommand: the command gets the digest the list was made from.
Sign(n, p) ==
  /\ builds[n].stage = "signing"
  /\ p \notin builds[n].done
  /\ dist' = [dist EXCEPT ![builds[n].job.line].signature[p] = builds[n].seen[p]]
  /\ builds' = [builds EXCEPT ![n] = AfterFile(builds[n], p)]
  /\ UNCHANGED <<whole, version, promoter, strays, public, stops>>

\* The checksums of the signatures and the manifest that names them.
WriteManifest(n) ==
  /\ builds[n].stage = "signing" /\ ~builds[n].orphan
  /\ builds[n].done = Parts
  /\ LET b == builds[n]
         l == b.job.line
     IN /\ dist' = [dist EXCEPT ![l].manifest = b.seen]
        /\ whole' = IF b.alone THEN [whole EXCEPT ![l] = "signed"] ELSE whole
  /\ builds' = [builds EXCEPT ![n] = Over]
  /\ UNCHANGED <<version, promoter, strays, public, stops>>

Stops == stops < MaxStops /\ stops' = stops + 1

\* A command fails, an answer is refused, or the script is killed while it writes a file
\* itself: the files stay.
StopBuild(n) ==
  /\ Running(n) /\ ~builds[n].orphan
  /\ Stops
  /\ builds' = [builds EXCEPT ![n] = Over]
  /\ UNCHANGED <<dist, whole, version, promoter, strays, public>>

\* The script is killed while it waits for a command, which does not notice.
KillBuild(n) ==
  /\ Running(n) /\ ~builds[n].orphan
  /\ Stops
  /\ builds' = [builds EXCEPT ![n].orphan = TRUE]
  /\ UNCHANGED <<dist, whole, version, promoter, strays, public>>

\* The command of a killed script ends, with all its files written or not.
OrphanEnds(n) ==
  /\ Running(n) /\ builds[n].orphan
  /\ builds' = [builds EXCEPT ![n] = Over]
  /\ UNCHANGED <<dist, whole, version, promoter, strays, public, stops>>

-----------------------------------------------------------------------------
\* Mutated ExecutionStatus: a report with blockers does not say so.
AlwaysReady(blockers, attempted) == IF attempted THEN "executed" ELSE "ready"

ExecutionStatus(blockers, attempted) ==
  IF attempted THEN "executed" ELSE IF blockers # {} THEN "blocked" ELSE "ready"

\* writeReleasePromotionExecution with a blocker left.  open holds the gates of the
\* environment and of package.json that are not cleared, and those its caller keeps closed.
RefusePromotion(open) ==
  /\ promoter = Idle
  /\ ExecutionBlockers(open) # {}
  /\ report' = [status |-> ExecutionStatus(ExecutionBlockers(open), FALSE), version |-> version]
  /\ UNCHANGED <<dist, builds, whole, version, promoter, strays, registry, release, complete,
                 settled, stops>>

AdmitPromotion(open) ==
  /\ promoter = Idle
  /\ ExecutionBlockers(open) = {}
  /\ promoter' = [stage |-> "publish"]
  /\ UNCHANGED <<dist, builds, whole, version, strays, public, stops>>

\* releasePromotionUploadAssetPaths: the files there are when npm has published.
AssetsThere == dist["signed_native"] # NoFiles

StraysUploading == {s \in strays : s.stage = "upload"}

\* Mutated Publishable: the failure of npm is caught and gh runs all the same.
FailureCaught == TRUE

\* npm refuses a version it has, and its failure ends the script.
Publishable == version \notin registry

\* npm publishes; gh is run next, on the files there are then.
Publish ==
  /\ promoter.stage = "publish"
  /\ Publishable
  /\ registry' = registry \cup {version}
  /\ promoter' = [stage |-> "upload", found |-> AssetsThere,
                  left |-> IF AssetsThere THEN UploadOrder ELSE << >>,
                  calm |-> whole["signed_native"] = "signed" /\ StraysUploading = {}]
  /\ settled' = FALSE
  /\ UNCHANGED <<dist, builds, whole, version, strays, release, complete, report, stops>>

\* gh release upload --clobber replaces the assets by the files there are.
Sent(kinds) ==
  [k \in Kinds |-> [p \in Parts |->
     IF k \in kinds /\ dist["signed_native"][k][p] # 0
     THEN dist["signed_native"][k][p] ELSE release[k][p]]]

UploadAssets ==
  /\ promoter.stage = "upload"
  /\ promoter.left # << >>
  /\ release' = Sent(Head(promoter.left))
  /\ promoter' = [promoter EXCEPT !.left = Tail(@)]
  /\ UNCHANGED <<dist, builds, whole, version, strays, registry, complete, settled, report, stops>>

\* Mutated PromotionSucceeds: gh is taken to have succeeded once npm has.
NeverMind == promoter.stage = "upload"

\* gh ends well: there were assets, else it gets a pattern that matches none, and all
\* are sent.
PromotionSucceeds ==
  promoter.stage = "upload" /\ promoter.found /\ promoter.left = << >>

\* The report is written after both commands.
FinishPromotion ==
  /\ PromotionSucceeds
  /\ complete' = IF promoter.left = << >> THEN complete \cup {version} ELSE complete
  /\ settled' = promoter.calm
  /\ report' = [status |-> ExecutionStatus({}, TRUE), version |-> version]
  /\ promoter' = Idle
  /\ UNCHANGED <<dist, builds, whole, version, strays, registry, release, stops>>

\* npm or gh refuses and the script ends: the report on disk is the one before.
CommandRefused ==
  /\ \/ promoter.stage = "publish" /\ ~Publishable
     \/ promoter.stage = "upload" /\ ~promoter.found
  /\ promoter' = Idle
  /\ UNCHANGED <<dist, builds, whole, version, strays, public, stops>>

\* npm or gh fails otherwise, and the script with it.
StopPromotion ==
  /\ promoter # Idle
  /\ Stops
  /\ promoter' = Idle
  /\ UNCHANGED <<dist, builds, whole, version, strays, public>>

\* The script is killed while npm or gh runs, which goes on.
KillPromotion ==
  /\ promoter # Idle
  /\ Stops
  /\ promoter' = Idle
  /\ strays' = strays \cup
       {IF promoter.stage = "publish"
        THEN [stop |-> stops + 1, stage |-> "publish", version |-> version]
        ELSE [stop |-> stops + 1, stage |-> "upload", left |-> promoter.left]}
  /\ UNCHANGED <<dist, builds, whole, version, public>>

\* The npm of a killed promotion publishes, and nobody runs gh.
StrayPublishes(s) ==
  /\ s.stage = "publish"
  /\ s.version \notin registry
  /\ registry' = registry \cup {s.version}
  /\ strays' = strays \ {s}
  /\ UNCHANGED <<dist, builds, whole, version, promoter, release, complete, settled, report, stops>>

\* The gh of a killed promotion goes on replacing assets.
StrayUploads(s) ==
  /\ s.stage = "upload"
  /\ s.left # << >>
  /\ release' = Sent(Head(s.left))
  /\ strays' = (strays \ {s}) \cup {[s EXCEPT !.left = Tail(@)]}
  /\ UNCHANGED <<dist, builds, whole, version, promoter, registry, complete, settled, report, stops>>

\* It ends, well or not.
StrayEnds(s) ==
  /\ strays' = strays \ {s}
  /\ UNCHANGED <<dist, builds, whole, version, promoter, public, stops>>

\* The operator raises the version between promotions.
RaiseVersion ==
  /\ promoter = Idle
  /\ version < MaxVersions
  /\ version' = version + 1
  /\ UNCHANGED <<dist, builds, whole, promoter, strays, public, stops>>

-----------------------------------------------------------------------------
BuildStep == \E n \in Numbers :
  \/ \E job \in Jobs : StartBuild(n, job)
  \/ \E p \in Parts : WritePart(n, p) \/ Sign(n, p)
  \/ WriteList(n)
  \/ WriteManifest(n)
  \/ StopBuild(n) \/ KillBuild(n) \/ OrphanEnds(n)

PromotionStep == \/ \E open \in Situations : RefusePromotion(open) \/ AdmitPromotion(open)
                 \/ Publish
                 \/ UploadAssets
                 \/ FinishPromotion
                 \/ CommandRefused
                 \/ StopPromotion
                 \/ KillPromotion
                 \/ \E s \in strays : StrayPublishes(s) \/ StrayUploads(s) \/ StrayEnds(s)

Next == BuildStep \/ PromotionStep \/ RaiseVersion

Spec == Init /\ [][Next]_vars

-----------------------------------------------------------------------------
Agreed(files, kinds) == \E n \in Numbers : \A k \in kinds, p \in Parts : files[k][p] = n

\* A build that no other build and no command of a killed one worked beside leaves parts,
\* lists, signatures and manifest that all speak of the same files, and the assets of a
\* release are such a set when its upload was neither started on a torn directory, nor
\* overtaken by another build, nor beside a gh left over: nothing else in the scripts
\* keeps an old signature from lying beside a new binary.
SignaturesMatchParts ==
  /\ \A l \in Lines : /\ whole[l] = "listed" => Agreed(dist[l], {"part", "list"})
                      /\ whole[l] = "signed" => Agreed(dist[l], Kinds)
  /\ settled => Agreed(release, Kinds)

\* The report says "executed" only of a version that is in the registry and whose assets
\* were all uploaded; a promotion that got halfway is never reported as done, and no assets
\* are attached for a version the registry does not have.
ReportTellsTheTruth ==
  /\ report.status = "executed" => report.version \in registry \cap complete
  /\ complete \subseteq registry
  /\ promoter.stage = "upload" => version \in registry

\* Versions in the registry that no promotion under way is uploading for and that no
\* report ever called done.
Halfway == registry \ (complete \cup IF promoter.stage = "upload" THEN {version} ELSE {})

\* A promotion that npm has published and that did not end well can never be made good:
\* whatever is promoted again, stopped or left over, a version once left halfway is
\* refused by npm before gh is run for it and stays without a report for ever.
HalfwayStaysHalfway == [][Halfway \subseteq Halfway']_vars

=============================================================================
