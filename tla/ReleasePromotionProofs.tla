-------------------------- MODULE ReleasePromotionProofs --------------------------
(***************************************************************************)
(* Proofs about ReleasePromotion for any parts, jobs, situations and       *)
(* bounds.                                                                 *)
(*                                                                         *)
(* That the files of an undisturbed build agree is decided by its last     *)
(* write, so IInv says what an undisturbed build has written so far        *)
(* (BuildInv) and that no build works on a directory that is whole         *)
(* (LineInv).  The same for an upload: what it has sent so far is what     *)
(* lies in the directory, which stays whole while the upload is calm       *)
(* (UploadInv), and nobody else replaces assets then (StrayInv).           *)
(***************************************************************************)
EXTENDS ReleasePromotion, SequenceTheorems, TLAPS

\* An undisturbed build is alone on its line; the parts it has written and the
\* signatures it has made are in the directory.
BuildOk(n) ==
  Running(n) /\ builds[n].alone =>
    LET b == builds[n]
        files == dist[b.job.line]
    IN  /\ OnLine(b.job.line) = {n}
        /\ b.stage = "parts" => \A p \in b.done : files["part"][p] = n
        /\ b.stage = "signing" =>
             /\ \A p \in Parts : /\ b.seen[p] = n
                                 /\ files["part"][p] = n
                                 /\ files["list"][p] = n
             /\ \A p \in b.done : files["signature"][p] = n

\* A directory that is whole is left alone, and its files agree.
LineOk(l) == /\ whole[l] # "torn" => OnLine(l) = {}
             /\ whole[l] = "listed" => Agreed(dist[l], {"part", "list"})
             /\ whole[l] = "signed" => Agreed(dist[l], Kinds)

BuildInv == \A n \in Numbers : BuildOk(n)
LineInv  == \A l \in Lines : LineOk(l)

\* The files still to be sent.
ToSend == UNION {promoter.left[i] : i \in DOMAIN promoter.left}

\* A calm upload works on a directory that is whole and has sent what lies there.
UploadInv ==
  promoter.stage = "upload" =>
    /\ ~settled
    /\ promoter.calm =>
         /\ whole["signed_native"] = "signed"
         /\ promoter.found =>
              \A k \in Kinds \ ToSend, p \in Parts :
                release[k][p] = dist["signed_native"][k][p]

SettledInv == settled => Agreed(release, Kinds)

\* While an upload is calm, and after it ended well, no gh of a killed promotion runs.
StrayInv ==
  settled \/ (promoter.stage = "upload" /\ promoter.calm) => StraysUploading = {}

IInv == /\ TypeOK
        /\ BuildInv
        /\ LineInv
        /\ UploadInv
        /\ SettledInv
        /\ StrayInv
        /\ ReportTellsTheTruth

-----------------------------------------------------------------------------
\* Every script has a line.
LEMMA ScriptFacts ==
  ASSUME NEW job \in Scripts
  PROVE  job.line \in Lines /\ job.signs \in BOOLEAN
<1>1. CASE job = [line |-> "native", signs |-> FALSE]
  BY <1>1 DEF Lines
<1>2. CASE job = [line |-> "signed_native", signs |-> TRUE]
  BY <1>2 DEF Lines
<1>3. CASE job = [line |-> "bundle", signs |-> FALSE]
  BY <1>3 DEF Lines
<1>4. CASE job = [line |-> "bundle", signs |-> TRUE]
  BY <1>4 DEF Lines
<1> QED
  BY <1>1, <1>2, <1>3, <1>4 DEF Scripts

\* A build that runs has a job of a known line.
LEMMA RunningFacts ==
  ASSUME TypeOK, NEW n \in Numbers, builds[n].stage \in {"parts", "signing"}
  PROVE  /\ builds[n] \in [stage : {"parts", "signing"}, job : Jobs, alone : BOOLEAN,
                            orphan : BOOLEAN, seen : Table, done : SUBSET Parts]
         /\ builds[n].job \in Scripts
         /\ builds[n].job.line \in Lines
         /\ builds[n].job.signs \in BOOLEAN
<1>1. builds[n] \in [stage : {"parts", "signing"}, job : Jobs, alone : BOOLEAN,
                     orphan : BOOLEAN, seen : Table, done : SUBSET Parts]
  BY DEF TypeOK, Build, New, Over
<1> QED
  BY <1>1, KnownScripts, ScriptFacts

\* No number is 0, and 0 is a digest.
LEMMA NumberFacts ==
  /\ Numbers \subseteq Digests \ {0}
  /\ 0 \in Digests
  /\ Nothing \in Table
  /\ NoFiles \in Files
  BY ReleaseBounds DEF Numbers, Digests, Nothing, NoFiles, Table, Files

\* What is left to send is everything, the second lot, or nothing.
LEMMA SuffixFacts ==
  /\ Suffixes = {UploadOrder, <<{"list", "part", "signature"}>>, << >>}
  /\ Tail(UploadOrder) = <<{"list", "part", "signature"}>>
  /\ Tail(<<{"list", "part", "signature"}>>) = << >>
<1>1. /\ Len(UploadOrder) = 2
      /\ SubSeq(UploadOrder, 1, 2) = UploadOrder
      /\ SubSeq(UploadOrder, 2, 2) = <<{"list", "part", "signature"}>>
      /\ SubSeq(UploadOrder, 3, 2) = << >>
  <2>1. UploadOrder \in Seq(SUBSET Kinds) /\ Len(UploadOrder) = 2 /\ UploadOrder # << >>
    BY DEF UploadOrder, Kinds
  <2>2. SubSeq(UploadOrder, 1, 2) = UploadOrder
    BY <2>1, SubSeqFull
  <2>5. Tail(UploadOrder) = <<{"list", "part", "signature"}>>
    BY DEF UploadOrder
  <2>3. SubSeq(UploadOrder, 2, 2) = <<{"list", "part", "signature"}>>
    BY <2>1, <2>5, TailIsSubSeq
  <2>4. SubSeq(UploadOrder, 3, 2) = << >>
    BY DEF UploadOrder
  <2> QED
    BY <2>1, <2>2, <2>3, <2>4
<1>2. 1 .. Len(UploadOrder) + 1 = {1, 2, 3}
  BY <1>1
<1>3. Suffixes = {SubSeq(UploadOrder, i, 2) : i \in {1, 2, 3}}
  BY <1>1, <1>2 DEF Suffixes
<1>4. Suffixes = {UploadOrder, <<{"list", "part", "signature"}>>, << >>}
  BY <1>1, <1>3
<1>5. /\ Tail(UploadOrder) = <<{"list", "part", "signature"}>>
      /\ Tail(<<{"list", "part", "signature"}>>) = << >>
  BY DEF UploadOrder
<1> QED
  BY <1>4, <1>5

-----------------------------------------------------------------------------
\* Types: a build that starts.
LEMMA StartType ==
  ASSUME TypeOK, NEW n \in Numbers, NEW job \in Jobs, StartBuild(n, job)
  PROVE  TypeOK'
<1> DEFINE others == OnLine(job.line)
           started == [stage |-> "parts", job |-> job, alone |-> others = {},
                       orphan |-> FALSE, seen |-> Nothing, done |-> {}]
<1>1. started \in Build
  BY NumberFacts DEF Build
<1>2. \A m \in others : m \in Numbers /\ [builds[m] EXCEPT !.alone = FALSE] \in Build
  BY RunningFacts DEF OnLine, Running, Build
<1>3. builds' \in [Numbers -> Build]
  BY <1>1, <1>2 DEF StartBuild, TypeOK
<1>4. whole' \in [Lines -> {"torn", "listed", "signed"}]
  BY DEF StartBuild, TypeOK
<1>5. promoter' \in Promoter
  BY DEF StartBuild, TypeOK, Promoter, Idle
<1> QED
  BY <1>3, <1>4, <1>5 DEF StartBuild, TypeOK, public

\* Replacing one digest leaves a table of digests.
LEMMA FileType ==
  ASSUME TypeOK, NEW l \in Lines, NEW k \in Kinds, NEW p \in Parts, NEW d \in Digests
  PROVE  [dist EXCEPT ![l][k][p] = d] \in [Lines -> Files]
  BY DEF TypeOK, Files, Table

\* Types: the other actions of a build.
LEMMA WorkType ==
  ASSUME TypeOK, NEW n \in Numbers,
         \/ WriteList(n) \/ WriteManifest(n)
         \/ StopBuild(n) \/ KillBuild(n) \/ OrphanEnds(n)
         \/ \E p \in Parts : WritePart(n, p) \/ Sign(n, p)
  PROVE  TypeOK'
<1>1. /\ builds[n] \in [stage : {"parts", "signing"}, job : Jobs, alone : BOOLEAN,
                         orphan : BOOLEAN, seen : Table, done : SUBSET Parts]
      /\ builds[n].job.line \in Lines
  BY RunningFacts DEF WriteList, WriteManifest, StopBuild, KillBuild, OrphanEnds, WritePart,
                      Sign, Running
<1> DEFINE l == builds[n].job.line
<1>2. Over \in Build
  BY DEF Build
<1>3. ASSUME NEW p \in Parts, WritePart(n, p) \/ Sign(n, p)
      PROVE  TypeOK'
  <2>1. n \in Digests /\ builds[n].seen[p] \in Digests
    BY <1>1, NumberFacts DEF Table
  <2>2. dist' \in [Lines -> Files]
    <3>1. CASE WritePart(n, p)
      <4>1. dist' = [dist EXCEPT ![l]["part"][p] = n]
        BY <3>1 DEF WritePart
      <4> QED
        BY <1>1, <2>1, <4>1, FileType DEF Kinds
    <3>2. CASE Sign(n, p)
      <4>1. dist' = [dist EXCEPT ![l]["signature"][p] = builds[n].seen[p]]
        BY <3>2 DEF Sign
      <4> QED
        BY <1>1, <2>1, <4>1, FileType DEF Kinds
    <3> QED
      BY <1>3, <3>1, <3>2
  <2>3. AfterFile(builds[n], p) \in Build
    BY <1>1, <1>2 DEF Build, AfterFile
  <2>4. builds' \in [Numbers -> Build]
    BY <1>3, <2>3 DEF WritePart, Sign, TypeOK
  <2> QED
    BY <1>3, <2>2, <2>4 DEF WritePart, Sign, TypeOK, public
<1>4. CASE WriteList(n)
  <2>1. Digest(l) \in Table
    BY <1>1 DEF TypeOK, Files, Digest, Kinds
  <2>2. dist' = [dist EXCEPT ![l]["list"] = Digest(l)]
    BY <1>4 DEF WriteList
  <2>3. dist' \in [Lines -> Files]
    BY <1>1, <2>1, <2>2 DEF TypeOK, Files
  <2>4. [builds[n] EXCEPT !.stage = "signing", !.seen = Digest(l), !.done = {}] \in Build
    BY <1>1, <2>1 DEF Build
  <2>5. builds' \in [Numbers -> Build]
    BY <1>2, <1>4, <2>4 DEF WriteList, TypeOK
  <2>6. whole' \in [Lines -> {"torn", "listed", "signed"}]
    BY <1>4 DEF WriteList, TypeOK
  <2> QED
    BY <1>4, <2>3, <2>5, <2>6 DEF WriteList, TypeOK, public
<1>5. CASE WriteManifest(n)
  <2>1. dist' \in [Lines -> Files]
    BY <1>1, <1>5 DEF WriteManifest, TypeOK, Files
  <2>2. builds' \in [Numbers -> Build]
    BY <1>2, <1>5 DEF WriteManifest, TypeOK
  <2>3. whole' \in [Lines -> {"torn", "listed", "signed"}]
    BY <1>5 DEF WriteManifest, TypeOK
  <2> QED
    BY <1>5, <2>1, <2>2, <2>3 DEF WriteManifest, TypeOK, public
<1>6. CASE StopBuild(n) \/ KillBuild(n) \/ OrphanEnds(n)
  <2>1. [builds[n] EXCEPT !.orphan = TRUE] \in Build
    BY <1>1 DEF Build
  <2>2. builds' \in [Numbers -> Build]
    BY <1>2, <1>6, <2>1 DEF StopBuild, KillBuild, OrphanEnds, TypeOK
  <2>3. stops' \in 0 .. MaxStops
    BY <1>6, ReleaseBounds DEF StopBuild, KillBuild, OrphanEnds, Stops, TypeOK
  <2> QED
    BY <1>6, <2>2, <2>3 DEF StopBuild, KillBuild, OrphanEnds, TypeOK, public
<1> QED
  BY <1>3, <1>4, <1>5, <1>6

-----------------------------------------------------------------------------
\* While a build runs its line is not whole, and it is the only one there that can be
\* undisturbed.
LEMMA TornWhileRunning ==
  ASSUME IInv, NEW n \in Numbers, Running(n)
  PROVE  /\ whole[builds[n].job.line] = "torn"
         /\ \A m \in Numbers \ {n} : Running(m) /\ builds[m].alone =>
              builds[m].job.line # builds[n].job.line
<1>1. builds[n].job.line \in Lines /\ n \in OnLine(builds[n].job.line)
  BY RunningFacts DEF IInv, Running, OnLine
<1>2. whole[builds[n].job.line] = "torn"
  BY <1>1 DEF IInv, LineInv, LineOk
<1>3. ASSUME NEW m \in Numbers \ {n}, Running(m), builds[m].alone,
             builds[m].job.line = builds[n].job.line
      PROVE  FALSE
  <2>1. OnLine(builds[n].job.line) = {m}
    BY <1>3 DEF IInv, BuildInv, BuildOk
  <2> QED
    BY <1>1, <2>1
<1> QED
  BY <1>2, <1>3

\* A build that did nothing on a line where nothing happened is as right as it was.
LEMMA SameBuild ==
  ASSUME NEW m, NEW l, l = builds[m].job.line, BuildOk(m),
         builds'[m] = builds[m], dist'[l] = dist[l], OnLine(l)' = OnLine(l)
  PROVE  BuildOk(m)'
<1> DEFINE Right(b, files, busy) ==
             /\ busy = {m}
             /\ b.stage = "parts" => \A p \in b.done : files["part"][p] = m
             /\ b.stage = "signing" =>
                  /\ \A p \in Parts : /\ b.seen[p] = m
                                      /\ files["part"][p] = m
                                      /\ files["list"][p] = m
                  /\ \A p \in b.done : files["signature"][p] = m
           b == builds[m]
<1> SUFFICES ASSUME Running(m), b.alone PROVE BuildOk(m)'
  BY DEF BuildOk, Running
<1>1. Right(b, dist[b.job.line], OnLine(b.job.line))
  BY Zenon DEF BuildOk
<1>2. Right(b', dist[b.job.line]', OnLine(b.job.line)') => BuildOk(m)'
  BY DEF BuildOk
<1>3. dist[b.job.line]' = dist[b.job.line] /\ OnLine(b.job.line)' = OnLine(b.job.line)
  BY Zenon
<1> HIDE DEF Right
<1> QED
  BY <1>1, <1>2, <1>3

\* A step of one build on its line disturbs neither the other lines nor the promotion:
\* what is left to show is that it is right about itself and its line.
LEMMA WorkKeeps ==
  ASSUME IInv, NEW n \in Numbers, Running(n), NEW l \in Lines, l = builds[n].job.line,
         TypeOK',
         \A j \in Lines \ {l} : dist'[j] = dist[j] /\ whole'[j] = whole[j],
         \A m \in Numbers \ {n} : builds'[m] = builds[m],
         builds'[n] = Over \/ builds'[n].job = builds[n].job,
         version' = version, promoter' = promoter, strays' = strays, public' = public,
         BuildOk(n)', LineOk(l)'
  PROVE  IInv'
<1>1. /\ whole[l] = "torn"
      /\ \A m \in Numbers \ {n} : Running(m) /\ builds[m].alone => builds[m].job.line # l
  BY TornWhileRunning
<1>2. \A j \in Lines \ {l} : OnLine(j)' = OnLine(j)
  BY DEF OnLine, Running, Over
<1>3. ASSUME NEW m \in Numbers \ {n}
      PROVE  BuildOk(m)'
  <2>1. builds'[m] = builds[m]
    OBVIOUS
  <2>2. CASE Running(m) /\ builds[m].alone
    <3>1. builds[m].job.line \in Lines \ {l}
      BY <1>1, <2>2, RunningFacts DEF IInv, Running
    <3>2. /\ dist'[builds[m].job.line] = dist[builds[m].job.line]
          /\ OnLine(builds[m].job.line)' = OnLine(builds[m].job.line)
      BY <1>2, <2>1, <3>1
    <3>3. BuildOk(m)
      BY DEF IInv, BuildInv
    <3> QED
      BY <2>1, <3>2, <3>3, SameBuild
  <2>3. CASE ~(Running(m) /\ builds[m].alone)
    BY <2>1, <2>3 DEF BuildOk, Running
  <2> QED
    BY <2>2, <2>3
<1>4. ASSUME NEW j \in Lines \ {l}
      PROVE  LineOk(j)'
  <2>1. dist'[j] = dist[j] /\ whole'[j] = whole[j] /\ OnLine(j)' = OnLine(j) /\ LineOk(j)
    BY <1>2 DEF IInv, LineInv
  <2> QED
    BY <2>1 DEF LineOk, Agreed
<1>5. BuildInv' /\ LineInv'
  BY <1>3, <1>4 DEF BuildInv, LineInv, Numbers, Lines
<1>6. UploadInv'
  <2> SUFFICES ASSUME promoter.stage = "upload"
               PROVE  /\ ~settled
                      /\ promoter.calm =>
                           /\ whole'["signed_native"] = "signed"
                           /\ promoter.found =>
                                \A k \in Kinds \ ToSend, p \in Parts :
                                  release[k][p] = dist'["signed_native"][k][p]
    BY DEF UploadInv, public, ToSend
  <2>1. "signed_native" \in Lines
    BY DEF Lines
  <2>2. CASE promoter.calm
    <3>1. whole["signed_native"] = "signed"
      BY <2>2 DEF IInv, UploadInv
    <3>2. "signed_native" # l
      BY <1>1, <3>1
    <3> QED
      BY <2>1, <2>2, <3>1, <3>2 DEF IInv, UploadInv
  <2> QED
    BY <2>2 DEF IInv, UploadInv
<1>7. SettledInv' /\ StrayInv' /\ ReportTellsTheTruth'
  BY DEF public, IInv, SettledInv, StrayInv, StraysUploading, ReportTellsTheTruth, Agreed
<1> QED
  BY <1>5, <1>6, <1>7 DEF IInv

\* A part or a signature is written: the directory holds one more of those it stands for.
LEMMA FileStep ==
  ASSUME IInv, NEW n \in Numbers, NEW p \in Parts, WritePart(n, p) \/ Sign(n, p)
  PROVE  IInv'
<1> USE DEF IInv
<1>1. PICK l \in Lines : l = builds[n].job.line
  BY RunningFacts DEF WritePart, Sign
<1>2. /\ Running(n)
      /\ builds[n] \in [stage : {"parts", "signing"}, job : Jobs, alone : BOOLEAN,
                         orphan : BOOLEAN, seen : Table, done : SUBSET Parts]
  BY RunningFacts DEF WritePart, Sign, Running
<1>3. /\ builds' = [builds EXCEPT ![n] = AfterFile(builds[n], p)]
      /\ UNCHANGED <<whole, version, promoter, strays, public>>
      /\ TypeOK'
  BY WorkType DEF WritePart, Sign
<1>4. /\ \A m \in Numbers \ {n} : builds'[m] = builds[m]
      /\ \/ builds'[n] = Over
         \/ /\ builds'[n].job = builds[n].job /\ builds'[n].stage = builds[n].stage
            /\ builds'[n].alone = builds[n].alone /\ builds'[n].seen = builds[n].seen
            /\ builds'[n].done = builds[n].done \cup {p}
  BY <1>2, <1>3 DEF TypeOK, AfterFile
<1>5. /\ \A j \in Lines \ {l} : dist'[j] = dist[j]
      /\ \A k \in Kinds, q \in Parts :
           dist'[l][k][q] =
             IF q = p /\ k = "part" /\ builds[n].stage = "parts" THEN n
             ELSE IF q = p /\ k = "signature" /\ builds[n].stage = "signing"
             THEN builds[n].seen[p] ELSE dist[l][k][q]
  <2>1. CASE WritePart(n, p)
    <3>1. builds[n].stage = "parts" /\ dist' = [dist EXCEPT ![l]["part"][p] = n]
      BY <1>1, <2>1 DEF WritePart
    <3> QED
      BY <1>1, <3>1 DEF TypeOK, Files, Table
  <2>2. CASE Sign(n, p)
    <3>1. /\ builds[n].stage = "signing"
          /\ dist' = [dist EXCEPT ![l]["signature"][p] = builds[n].seen[p]]
      BY <1>1, <2>2 DEF Sign
    <3> QED
      BY <1>1, <3>1 DEF TypeOK, Files, Table
  <2> QED
    BY <2>1, <2>2
<1>6. ~(builds'[n] = Over) => OnLine(l)' = OnLine(l)
  BY <1>4 DEF OnLine, Running
<1>7. BuildOk(n)'
  <2>1. CASE builds'[n] = Over
    BY <2>1 DEF BuildOk, Running, Over
  <2>2. CASE ~(builds'[n] = Over)
    <3>1. /\ builds'[n].job = builds[n].job /\ builds'[n].stage = builds[n].stage
          /\ builds'[n].alone = builds[n].alone /\ builds'[n].seen = builds[n].seen
          /\ builds'[n].done = builds[n].done \cup {p}
      BY <1>4, <2>2
    <3> SUFFICES ASSUME builds[n].alone
                 PROVE  /\ OnLine(l) = {n}
                        /\ builds[n].stage = "parts" =>
                             \A q \in builds[n].done \cup {p} : dist'[l]["part"][q] = n
                        /\ builds[n].stage = "signing" =>
                             /\ \A q \in Parts : /\ builds[n].seen[q] = n
                                                 /\ dist'[l]["part"][q] = n
                                                 /\ dist'[l]["list"][q] = n
                             /\ \A q \in builds[n].done \cup {p} :
                                  dist'[l]["signature"][q] = n
      BY <1>1, <1>6, <2>2, <3>1 DEF BuildOk
    <3>2. BuildOk(n) /\ "part" \in Kinds /\ "list" \in Kinds /\ "signature" \in Kinds
      BY DEF BuildInv, Kinds
    <3>3. builds[n].done \subseteq Parts
      BY <1>2
    <3> QED
      BY <1>1, <1>2, <1>5, <3>2, <3>3 DEF BuildOk
  <2> QED
    BY <2>1, <2>2
<1>8. LineOk(l)'
  BY <1>1, <1>2, <1>3, TornWhileRunning DEF LineOk
<1> QED
  BY <1>1, <1>2, <1>3, <1>4, <1>5, <1>7, <1>8, WorkKeeps DEF public

\* The list is made of the parts as they are; without a signature it ends the build.
LEMMA ListStep == ASSUME IInv, NEW n \in Numbers, WriteList(n) PROVE IInv'
<1> USE DEF IInv
<1>1. PICK l \in Lines : l = builds[n].job.line
  BY RunningFacts DEF WriteList
<1>2. /\ Running(n)
      /\ builds[n] \in [stage : {"parts", "signing"}, job : Jobs, alone : BOOLEAN,
                         orphan : BOOLEAN, seen : Table, done : SUBSET Parts]
      /\ builds[n].stage = "parts" /\ builds[n].done = Parts
  BY RunningFacts DEF WriteList, Running
<1>3. /\ dist' = [dist EXCEPT ![l]["list"] = dist[l]["part"]]
      /\ builds' = [builds EXCEPT ![n] =
            IF builds[n].job.signs
            THEN [builds[n] EXCEPT !.stage = "signing", !.seen = dist[l]["part"], !.done = {}]
            ELSE Over]
      /\ whole' = IF ~builds[n].job.signs /\ builds[n].alone
                  THEN [whole EXCEPT ![l] = "listed"] ELSE whole
      /\ UNCHANGED <<version, promoter, strays, public>>
      /\ TypeOK'
  BY <1>1, WorkType DEF WriteList, Digest
<1>4. /\ \A m \in Numbers \ {n} : builds'[m] = builds[m]
      /\ \A j \in Lines \ {l} : dist'[j] = dist[j] /\ whole'[j] = whole[j]
      /\ dist'[l]["list"] = dist[l]["part"] /\ dist'[l]["part"] = dist[l]["part"]
  BY <1>3 DEF TypeOK, Files, Kinds
<1>5. builds[n].alone =>
        OnLine(l) = {n} /\ \A q \in Parts : dist[l]["part"][q] = n
  BY <1>1, <1>2 DEF BuildInv, BuildOk
<1>6. whole[l] = "torn"
  BY <1>1, <1>2, TornWhileRunning
<1>7. CASE builds[n].job.signs
  <2>1. /\ builds'[n].stage = "signing" /\ builds'[n].seen = dist[l]["part"]
        /\ builds'[n].done = {} /\ builds'[n].job = builds[n].job
        /\ builds'[n].alone = builds[n].alone /\ whole' = whole
    BY <1>2, <1>3, <1>7 DEF TypeOK
  <2>2. OnLine(l)' = OnLine(l)
    BY <1>2, <1>4, <2>1 DEF OnLine, Running
  <2>3. BuildOk(n)'
    <3>1. \A q \in Parts :
            builds[n].alone => /\ dist'[l]["part"][q] = n
                               /\ dist'[l]["list"][q] = n
                               /\ builds'[n].seen[q] = n
      BY <1>4, <1>5, <2>1
    <3>2. builds[n].alone => OnLine(l)' = {n}
      BY <1>5, <2>2
    <3> QED
      BY <1>1, <2>1, <3>1, <3>2 DEF BuildOk
  <2>4. LineOk(l)'
    BY <1>6, <2>1 DEF LineOk
  <2> QED
    BY <1>1, <1>2, <1>3, <1>4, <2>1, <2>3, <2>4, WorkKeeps DEF public
<1>8. CASE ~builds[n].job.signs
  <2>1. builds'[n] = Over /\ whole'[l] = IF builds[n].alone THEN "listed" ELSE "torn"
    BY <1>3, <1>6, <1>8 DEF TypeOK
  <2>2. OnLine(l)' = OnLine(l) \ {n}
    BY <1>4, <2>1 DEF OnLine, Running, Over
  <2>3. BuildOk(n)'
    BY <2>1 DEF BuildOk, Running, Over
  <2>4. LineOk(l)'
    BY <1>4, <1>5, <2>1, <2>2 DEF LineOk, Agreed
  <2> QED
    BY <1>1, <1>2, <1>3, <1>4, <2>1, <2>3, <2>4, WorkKeeps DEF public
<1> QED
  BY <1>2, <1>7, <1>8, RunningFacts DEF Running

\* The manifest ends a build that signs: all four kinds of file are of this build.
LEMMA ManifestStep == ASSUME IInv, NEW n \in Numbers, WriteManifest(n) PROVE IInv'
<1> USE DEF IInv
<1>1. PICK l \in Lines : l = builds[n].job.line
  BY RunningFacts DEF WriteManifest
<1>2. /\ Running(n)
      /\ builds[n] \in [stage : {"parts", "signing"}, job : Jobs, alone : BOOLEAN,
                         orphan : BOOLEAN, seen : Table, done : SUBSET Parts]
      /\ builds[n].stage = "signing" /\ builds[n].done = Parts
  BY RunningFacts DEF WriteManifest, Running
<1>3. /\ dist' = [dist EXCEPT ![l]["manifest"] = builds[n].seen]
      /\ builds' = [builds EXCEPT ![n] = Over]
      /\ whole' = IF builds[n].alone THEN [whole EXCEPT ![l] = "signed"] ELSE whole
      /\ UNCHANGED <<version, promoter, strays, public>>
      /\ TypeOK'
  BY <1>1, WorkType DEF WriteManifest
<1>4. /\ \A m \in Numbers \ {n} : builds'[m] = builds[m]
      /\ \A j \in Lines \ {l} : dist'[j] = dist[j] /\ whole'[j] = whole[j]
      /\ \A k \in Kinds : dist'[l][k] = IF k = "manifest" THEN builds[n].seen ELSE dist[l][k]
  BY <1>3 DEF TypeOK, Files, Kinds
<1>5. builds[n].alone =>
        /\ OnLine(l) = {n}
        /\ \A q \in Parts : /\ builds[n].seen[q] = n /\ dist[l]["part"][q] = n
                            /\ dist[l]["list"][q] = n /\ dist[l]["signature"][q] = n
  BY <1>1, <1>2 DEF BuildInv, BuildOk
<1>6. whole[l] = "torn"
  BY <1>1, <1>2, TornWhileRunning
<1>7. builds'[n] = Over /\ whole'[l] = IF builds[n].alone THEN "signed" ELSE "torn"
  BY <1>3, <1>6 DEF TypeOK
<1>8. OnLine(l)' = OnLine(l) \ {n}
  BY <1>4, <1>7 DEF OnLine, Running, Over
<1>9. BuildOk(n)'
  BY <1>7 DEF BuildOk, Running, Over
<1>10. LineOk(l)'
  <2>1. builds[n].alone => \A k \in Kinds, q \in Parts : dist'[l][k][q] = n
    BY <1>4, <1>5 DEF Kinds
  <2> QED
    BY <1>5, <1>7, <1>8, <2>1 DEF LineOk, Agreed
<1> QED
  BY <1>1, <1>2, <1>3, <1>4, <1>7, <1>9, <1>10, WorkKeeps DEF public

\* A build that is stopped, killed or ends as an orphan leaves its line torn.
LEMMA StopStep ==
  ASSUME IInv, NEW n \in Numbers, StopBuild(n) \/ KillBuild(n) \/ OrphanEnds(n)
  PROVE  IInv'
<1> USE DEF IInv
<1>1. PICK l \in Lines : l = builds[n].job.line
  BY RunningFacts DEF StopBuild, KillBuild, OrphanEnds, Running
<1>2. Running(n) /\ TypeOK' /\ whole[l] = "torn"
  BY <1>1, WorkType, TornWhileRunning DEF StopBuild, KillBuild, OrphanEnds
<1>3. /\ \A m \in Numbers \ {n} : builds'[m] = builds[m]
      /\ UNCHANGED <<dist, whole, version, promoter, strays, public>>
      /\ \/ builds'[n] = Over
         \/ builds'[n] = [builds[n] EXCEPT !.orphan = TRUE]
  BY DEF StopBuild, KillBuild, OrphanEnds, TypeOK
<1>4. BuildOk(n)'
  <2>1. CASE builds'[n] = Over
    BY <2>1 DEF BuildOk, Running, Over
  <2>2. CASE builds'[n] = [builds[n] EXCEPT !.orphan = TRUE]
    <3>1. /\ builds'[n].job = builds[n].job /\ builds'[n].stage = builds[n].stage
          /\ builds'[n].alone = builds[n].alone /\ builds'[n].seen = builds[n].seen
          /\ builds'[n].done = builds[n].done
      BY <1>2, <2>2, RunningFacts DEF Running
    <3>2. OnLine(l)' = OnLine(l)
      BY <1>3, <3>1 DEF OnLine, Running
    <3>3. BuildOk(n)
      BY DEF BuildInv
    <3> QED
      BY <1>1, <1>3, <3>1, <3>2, <3>3 DEF BuildOk, Running
  <2> QED
    BY <1>3, <2>1, <2>2
<1>5. LineOk(l)'
  BY <1>2, <1>3 DEF LineOk
<1>6. builds'[n] = Over \/ builds'[n].job = builds[n].job
  BY <1>2, <1>3, RunningFacts DEF Running
<1> QED
  BY <1>1, <1>2, <1>3, <1>4, <1>5, <1>6, WorkKeeps DEF public

\* A build that starts disturbs those of its line and an upload from it, and leaves the
\* line torn.
LEMMA StartStep ==
  ASSUME IInv, NEW n \in Numbers, NEW job \in Jobs, StartBuild(n, job)
  PROVE  IInv'
<1> USE DEF IInv
<1> DEFINE l == job.line
           others == OnLine(job.line)
<1>1. TypeOK'
  BY StartType
<1>2. job \in Scripts /\ builds[n] = New
  BY KnownScripts DEF StartBuild
<1>3. /\ builds'[n].stage = "parts" /\ builds'[n].job = job
      /\ builds'[n].alone = (others = {}) /\ builds'[n].done = {}
      /\ n \notin others /\ ~Running(n)
  BY <1>2 DEF StartBuild, TypeOK, OnLine, Running, New
<1>4. ASSUME NEW m \in others
      PROVE  /\ m # n /\ Running(m)
             /\ builds'[m].stage = builds[m].stage
             /\ builds'[m].job = builds[m].job /\ builds'[m].alone = FALSE
  <2>1. m \in Numbers /\ Running(m) /\ m # n
    BY <1>3 DEF OnLine
  <2>2. builds[m] \in [stage : {"parts", "signing"}, job : Jobs, alone : BOOLEAN,
                       orphan : BOOLEAN, seen : Table, done : SUBSET Parts]
    BY <2>1, RunningFacts DEF Running
  <2>3. builds'[m] = [builds[m] EXCEPT !.alone = FALSE]
    BY <2>1 DEF StartBuild
  <2> QED
    BY <2>1, <2>2, <2>3
<1>5. ASSUME NEW m \in Numbers \ {n}, m \notin others
      PROVE  builds'[m] = builds[m]
  BY <1>5 DEF StartBuild
<1>6. /\ dist' = dist /\ version' = version /\ strays' = strays /\ UNCHANGED public
      /\ whole'[l] = "torn" /\ \A j \in Lines \ {l} : whole'[j] = whole[j]
      /\ l \in Lines
  <2>1. l \in Lines
    BY <1>2, ScriptFacts
  <2> QED
    BY <2>1 DEF StartBuild, TypeOK
<1>7. ASSUME NEW j \in Lines
      PROVE  OnLine(j)' = IF j = l THEN others \cup {n} ELSE OnLine(j)
  <2>1. ASSUME NEW m \in Numbers
        PROVE  /\ (Running(m) /\ builds[m].job.line = j)' =
                  ((Running(m) /\ builds[m].job.line = j) \/ (m = n /\ j = l))
    <3>1. CASE m = n
      BY <1>3, <3>1 DEF Running
    <3>2. CASE m \in others
      BY <1>4, <3>2 DEF Running
    <3>3. CASE m # n /\ m \notin others
      BY <1>5, <3>3 DEF Running
    <3> QED
      BY <3>1, <3>2, <3>3
  <2> QED
    BY <2>1 DEF OnLine
<1>8. ASSUME NEW m \in Numbers
      PROVE  BuildOk(m)'
  <2>1. CASE m = n
    BY <1>3, <1>6, <1>7, <2>1 DEF BuildOk
  <2>2. CASE m \in others
    BY <1>4, <2>2 DEF BuildOk
  <2>3. CASE m # n /\ m \notin others
    <3>1. builds'[m] = builds[m] /\ BuildOk(m)
      BY <1>5, <2>3 DEF BuildInv
    <3>2. CASE Running(m)
      <4>1. builds[m].job.line \in Lines \ {l}
        BY <2>3, <3>2, RunningFacts DEF OnLine, Running
      <4>2. OnLine(builds[m].job.line)' = OnLine(builds[m].job.line)
        BY <1>7, <3>1, <4>1
      <4> QED
        BY <1>6, <3>1, <4>2 DEF BuildOk, Running
    <3>3. CASE ~Running(m)
      BY <3>1, <3>3 DEF BuildOk, Running
    <3> QED
      BY <3>2, <3>3
  <2> QED
    BY <2>1, <2>2, <2>3
<1>9. ASSUME NEW j \in Lines
      PROVE  LineOk(j)'
  <2>1. CASE j = l
    BY <1>6, <2>1 DEF LineOk
  <2>2. CASE j # l
    BY <1>6, <1>7, <2>2 DEF LineInv, LineOk, Agreed
  <2> QED
    BY <2>1, <2>2
<1>10. UploadInv' /\ StrayInv'
  <2>1. CASE promoter.stage = "upload" /\ l = "signed_native"
    <3>1. promoter' = [promoter EXCEPT !.calm = FALSE]
      BY <2>1 DEF StartBuild
    <3>2. promoter \in [stage : {"upload"}, found : BOOLEAN,
                        left : Suffixes, calm : BOOLEAN]
      BY <2>1 DEF TypeOK, Promoter, Idle
    <3> QED
      BY <1>6, <2>1, <3>1, <3>2 DEF UploadInv, StrayInv, StraysUploading, public, Idle
  <2>2. CASE ~(promoter.stage = "upload" /\ l = "signed_native")
    <3>1. promoter' = promoter
      BY <2>2 DEF StartBuild
    <3>2. "signed_native" \in Lines
      BY DEF Lines
    <3> QED
      BY <1>6, <2>2, <3>1, <3>2
         DEF UploadInv, StrayInv, StraysUploading, public, ToSend
  <2> QED
    BY <2>1, <2>2
<1>11. SettledInv' /\ ReportTellsTheTruth'
  BY <1>6 DEF StartBuild, public, SettledInv, Agreed, ReportTellsTheTruth
<1> QED
  BY <1>1, <1>8, <1>9, <1>10, <1>11 DEF BuildInv, LineInv, Numbers, Lines

-----------------------------------------------------------------------------
\* A refusal is reported as one.
LEMMA RefusedReport ==
  ASSUME IInv, NEW open \in Situations, RefusePromotion(open)
  PROVE  report' = [status |-> "blocked", version |-> version]
  BY DEF RefusePromotion, ExecutionStatus

\* What gh sends are files with digests.
LEMMA SentType == ASSUME TypeOK, NEW kinds PROVE Sent(kinds) \in Files
  BY DEF TypeOK, Sent, Files, Table, Lines

\* Types of the actions of a promotion.
LEMMA PromotionType ==
  ASSUME IInv, PromotionStep \/ RaiseVersion
  PROVE  TypeOK'
<1> USE DEF IInv, TypeOK
<1>1. ASSUME NEW open \in Situations, RefusePromotion(open)
      PROVE  TypeOK'
  BY <1>1, RefusedReport DEF RefusePromotion
<1>2. ASSUME NEW open \in Situations, AdmitPromotion(open)
      PROVE  TypeOK'
  <2>1. promoter' \in Promoter
    BY <1>2 DEF AdmitPromotion, Promoter
  <2> QED
    BY <1>2, <2>1 DEF AdmitPromotion, public
<1>3. CASE Publish
  <2>1. promoter \in [stage : {"publish"}]
    BY <1>3 DEF Publish, Promoter, Idle
  <2>2. promoter' \in Promoter
    <3>1. UploadOrder \in Suffixes /\ << >> \in Suffixes
      BY SuffixFacts
    <3>2. AssetsThere \in BOOLEAN
      BY DEF AssetsThere
    <3> QED
      BY <1>3, <2>1, <3>1, <3>2 DEF Publish, Promoter
  <2> QED
    BY <1>3, <2>2 DEF Publish
<1>4. CASE UploadAssets
  <2>1. /\ promoter \in [stage : {"upload"}, found : BOOLEAN,
                         left : Suffixes, calm : BOOLEAN]
        /\ promoter.left # << >>
    BY <1>4 DEF UploadAssets, Promoter, Idle
  <2>2. Tail(promoter.left) \in Suffixes
    BY <2>1, SuffixFacts
  <2>3. promoter' \in Promoter
    BY <1>4, <2>1, <2>2 DEF UploadAssets, Promoter
  <2> QED
    BY <1>4, <2>3, SentType DEF UploadAssets
<1>5. CASE FinishPromotion
  <2>1. promoter \in [stage : {"upload"}, found : BOOLEAN,
                      left : Suffixes, calm : BOOLEAN]
    BY <1>5 DEF FinishPromotion, PromotionSucceeds, Promoter, Idle
  <2>2. report' = [status |-> "executed", version |-> version]
    BY <1>5 DEF FinishPromotion, ExecutionStatus
  <2>3. report' \in [status : {"absent", "blocked", "executed"}, version : Versions]
    BY <2>2
  <2>4. promoter' \in Promoter /\ settled' \in BOOLEAN /\ complete' \subseteq Versions
    BY <1>5, <2>1 DEF FinishPromotion, Promoter
  <2> QED
    BY <1>5, <2>3, <2>4 DEF FinishPromotion
<1>6. CASE CommandRefused
  BY <1>6 DEF CommandRefused, public, Promoter
<1>7. CASE StopPromotion
  BY <1>7, ReleaseBounds DEF StopPromotion, Stops, public, Promoter
<1>8. CASE RaiseVersion
  BY <1>8, ReleaseBounds DEF RaiseVersion, public, Versions
<1>9. CASE KillPromotion
  <2>1. stops + 1 \in 1 .. MaxStops /\ stops' \in 0 .. MaxStops
    BY <1>9, ReleaseBounds DEF KillPromotion, Stops
  <2>2. promoter.stage = "publish" \/ (promoter.stage = "upload" /\ promoter.left \in Suffixes)
    BY <1>9 DEF KillPromotion, Promoter
  <2>3. strays' \subseteq Stray
    BY <1>9, <2>1, <2>2 DEF KillPromotion, Stray
  <2> QED
    BY <1>9, <2>1, <2>3 DEF KillPromotion, public, Promoter
<1>10. ASSUME NEW s \in strays, StrayPublishes(s) \/ StrayUploads(s) \/ StrayEnds(s)
       PROVE  TypeOK'
  <2>1. s \in Stray
    OBVIOUS
  <2>2. CASE StrayPublishes(s)
    BY <2>1, <2>2 DEF StrayPublishes, Stray
  <2>3. CASE StrayUploads(s)
    <3>1. s \in [stop : 1 .. MaxStops, stage : {"upload"}, left : Suffixes]
      BY <2>1, <2>3 DEF StrayUploads, Stray
    <3>2. [s EXCEPT !.left = Tail(s.left)] \in Stray
      BY <2>3, <3>1, SuffixFacts DEF StrayUploads, Stray
    <3> QED
      BY <2>3, <3>2, SentType DEF StrayUploads
  <2>4. CASE StrayEnds(s)
    BY <2>4 DEF StrayEnds, public
  <2> QED
    BY <1>10, <2>2, <2>3, <2>4
<1> QED
  BY <1>1, <1>2, <1>3, <1>4, <1>5, <1>6, <1>7, <1>8, <1>9, <1>10 DEF PromotionStep

\* The promotion does not touch the directories.
LEMMA DirectoriesKept ==
  ASSUME IInv, PromotionStep \/ RaiseVersion
  PROVE  /\ UNCHANGED <<dist, builds, whole>>
         /\ BuildInv' /\ LineInv'
<1>1. UNCHANGED <<dist, builds, whole>>
  BY DEF PromotionStep, RefusePromotion, AdmitPromotion, Publish, UploadAssets,
         FinishPromotion, CommandRefused, StopPromotion, KillPromotion, StrayPublishes,
         StrayUploads, StrayEnds, RaiseVersion
<1>2. \A l \in Lines : OnLine(l)' = OnLine(l)
  BY <1>1 DEF OnLine, Running
<1>3. ASSUME NEW n \in Numbers
      PROVE  BuildOk(n)'
  <2>1. BuildOk(n)
    BY DEF IInv, BuildInv
  <2>2. CASE Running(n)
    <3>1. builds[n].job.line \in Lines
      BY <2>2, RunningFacts DEF IInv, Running
    <3>2. OnLine(builds[n].job.line)' = OnLine(builds[n].job.line)
      BY <1>1, <1>2, <3>1
    <3> QED
      BY <1>1, <2>1, <3>2 DEF BuildOk, Running
  <2>3. CASE ~Running(n)
    BY <1>1, <2>3 DEF BuildOk, Running
  <2> QED
    BY <2>2, <2>3
<1>4. ASSUME NEW l \in Lines
      PROVE  LineOk(l)'
  BY <1>1, <1>2 DEF IInv, LineInv, LineOk, Agreed
<1> QED
  BY <1>1, <1>3, <1>4 DEF BuildInv, LineInv, Numbers, Lines

\* An upload sends the first lot of what is left, from a directory that is whole if the
\* upload is calm: every file of it exists.
LEMMA UploadStep == ASSUME IInv, UploadAssets PROVE UploadInv'
<1> USE DEF IInv
<1>1. /\ promoter \in [stage : {"upload"}, found : BOOLEAN,
                       left : Suffixes, calm : BOOLEAN]
      /\ promoter.left # << >>
  BY DEF UploadAssets, TypeOK, Promoter, Idle
<1>2. /\ promoter' = [promoter EXCEPT !.left = Tail(promoter.left)]
      /\ UNCHANGED <<dist, whole, settled>>
  BY DEF UploadAssets
<1>3. ToSend = Head(promoter.left) \cup ToSend'
  <2>1. CASE promoter.left = UploadOrder
    BY <1>1, <1>2, <2>1, SuffixFacts DEF ToSend, UploadOrder
  <2>2. CASE promoter.left = <<{"list", "part", "signature"}>>
    BY <1>1, <1>2, <2>2, SuffixFacts DEF ToSend
  <2> QED
    BY <1>1, <2>1, <2>2, SuffixFacts
<1>4. SUFFICES ASSUME promoter.calm, promoter.found, NEW k \in Kinds \ ToSend', NEW p \in Parts
               PROVE  release'[k][p] = dist["signed_native"][k][p]
  BY <1>1, <1>2 DEF UploadInv
<1>5. release'[k][p] = IF k \in Head(promoter.left) /\ dist["signed_native"][k][p] # 0
                      THEN dist["signed_native"][k][p] ELSE release[k][p]
  BY DEF UploadAssets, Sent
<1>6. dist["signed_native"][k][p] # 0
  <2>1. Agreed(dist["signed_native"], Kinds)
    BY <1>1, <1>4 DEF UploadInv, LineInv, LineOk, Lines
  <2> QED
    BY <2>1, NumberFacts DEF Agreed
<1>7. CASE k \in Head(promoter.left)
  BY <1>5, <1>6, <1>7
<1>8. CASE k \notin Head(promoter.left)
  BY <1>1, <1>3, <1>4, <1>5, <1>8 DEF UploadInv
<1> QED
  BY <1>7, <1>8

\* A calm upload that ends well leaves a release whose assets agree.
LEMMA FinishStep == ASSUME IInv, FinishPromotion PROVE SettledInv'
<1>1. /\ promoter.stage = "upload" /\ promoter.found /\ promoter.left = << >>
      /\ settled' = promoter.calm /\ release' = release
  BY DEF FinishPromotion, PromotionSucceeds
<1>2. ToSend = {}
  BY <1>1 DEF ToSend
<1>3. CASE promoter.calm
  <2>1. /\ Agreed(dist["signed_native"], Kinds)
        /\ \A k \in Kinds, p \in Parts : release[k][p] = dist["signed_native"][k][p]
    BY <1>1, <1>2, <1>3 DEF IInv, UploadInv, LineInv, LineOk, Lines
  <2> QED
    BY <1>1, <2>1 DEF SettledInv, Agreed
<1> QED
  BY <1>1, <1>3 DEF SettledInv

\* A gh left over replaces assets while no upload is calm and none has ended well.
LEMMA StrayStep ==
  ASSUME IInv, NEW s \in strays, StrayPublishes(s) \/ StrayUploads(s) \/ StrayEnds(s)
  PROVE  UploadInv' /\ SettledInv' /\ StrayInv' /\ ReportTellsTheTruth'
<1> USE DEF IInv
<1>1. StraysUploading = {} => StraysUploading' = {} /\ ~StrayUploads(s)
  BY DEF StraysUploading, StrayPublishes, StrayUploads, StrayEnds
<1>2. UNCHANGED <<dist, whole, promoter, settled, version, complete, report>>
  BY DEF StrayPublishes, StrayUploads, StrayEnds, public
<1>3. StrayInv'
  BY <1>1, <1>2 DEF StrayInv
<1>4. ReportTellsTheTruth'
  BY <1>2 DEF ReportTellsTheTruth, StrayPublishes, StrayUploads, StrayEnds, public
<1>5. release' = release \/ StrayUploads(s)
  BY DEF StrayPublishes, StrayEnds, public
<1>6. UploadInv' /\ SettledInv'
  <2>1. CASE release' = release
    BY <1>2, <2>1 DEF UploadInv, SettledInv, Agreed, ToSend
  <2>2. CASE StrayUploads(s)
    <3>1. ~settled /\ ~(promoter.stage = "upload" /\ promoter.calm)
      BY <1>1, <2>2 DEF StrayInv
    <3> QED
      BY <1>2, <3>1 DEF UploadInv, SettledInv
  <2> QED
    BY <1>5, <2>1, <2>2
<1> QED
  BY <1>3, <1>4, <1>6

\* What is known of the upload, of the release and of the report, for each action of the
\* promotion.
LEMMA PromotionKeeps ==
  ASSUME IInv, PromotionStep \/ RaiseVersion
  PROVE  UploadInv' /\ SettledInv' /\ StrayInv' /\ ReportTellsTheTruth'
<1> USE DEF IInv
<1>1. ASSUME NEW open \in Situations, RefusePromotion(open)
      PROVE  UploadInv' /\ SettledInv' /\ StrayInv' /\ ReportTellsTheTruth'
  BY <1>1, RefusedReport DEF RefusePromotion, UploadInv, SettledInv, Agreed, StrayInv,
                             StraysUploading, ReportTellsTheTruth, Idle
<1>2. ASSUME NEW open \in Situations, AdmitPromotion(open)
      PROVE  UploadInv' /\ SettledInv' /\ StrayInv' /\ ReportTellsTheTruth'
  BY <1>2 DEF AdmitPromotion, public, UploadInv, SettledInv, Agreed, StrayInv,
              StraysUploading, ReportTellsTheTruth, Idle
<1>3. CASE Publish
  <2>2. /\ promoter'.stage = "upload" /\ promoter'.found = AssetsThere
        /\ promoter'.calm = (whole["signed_native"] = "signed" /\ StraysUploading = {})
        /\ promoter'.left = IF AssetsThere THEN UploadOrder ELSE << >>
        /\ settled' = FALSE /\ whole' = whole /\ strays' = strays
    BY <1>3 DEF Publish
  <2>3. promoter'.found => ToSend' = Kinds
    BY <2>2 DEF ToSend, UploadOrder, Kinds
  <2>4. UploadInv' /\ StrayInv'
    BY <2>2, <2>3 DEF UploadInv, StrayInv, StraysUploading
  <2> QED
    BY <1>3, <2>2, <2>4 DEF Publish, SettledInv, ReportTellsTheTruth
<1>4. CASE UploadAssets
  <2>1. promoter \in [stage : {"upload"}, found : BOOLEAN, left : Suffixes, calm : BOOLEAN]
    BY <1>4 DEF UploadAssets, TypeOK, Promoter, Idle
  <2>2. promoter'.stage = "upload" /\ promoter'.calm = promoter.calm
    BY <1>4, <2>1 DEF UploadAssets
  <2> QED
    BY <1>4, <2>1, <2>2, UploadStep
       DEF UploadAssets, UploadInv, SettledInv, StrayInv, StraysUploading, ReportTellsTheTruth
<1>5. CASE FinishPromotion
  <2>1. /\ promoter.stage = "upload" /\ promoter.left = << >> /\ promoter' = Idle
        /\ report' = [status |-> "executed", version |-> version]
        /\ complete' = complete \cup {version} /\ registry' = registry
        /\ settled' = promoter.calm /\ strays' = strays
    BY <1>5 DEF FinishPromotion, PromotionSucceeds, ExecutionStatus
  <2> QED
    BY <1>5, <2>1, FinishStep
       DEF UploadInv, StrayInv, StraysUploading, ReportTellsTheTruth, Idle
<1>6. CASE CommandRefused \/ StopPromotion
  BY <1>6 DEF CommandRefused, StopPromotion, public, UploadInv, SettledInv, Agreed, StrayInv,
              StraysUploading, ReportTellsTheTruth, Idle
<1>7. CASE KillPromotion
  <2>1. promoter' = Idle /\ UNCHANGED <<dist, whole, version, public>>
    BY <1>7 DEF KillPromotion
  <2>2. settled => StraysUploading' = StraysUploading
    <3> SUFFICES ASSUME settled PROVE StraysUploading' = StraysUploading
      OBVIOUS
    <3>1. promoter.stage = "publish"
      BY <1>7 DEF KillPromotion, UploadInv, TypeOK, Promoter
    <3>2. strays' = strays \cup {[stop |-> stops + 1, stage |-> "publish", version |-> version]}
      BY <1>7, <3>1 DEF KillPromotion
    <3> QED
      BY <3>2 DEF StraysUploading
  <2> QED
    BY <2>1, <2>2 DEF public, UploadInv, SettledInv, Agreed, StrayInv, ReportTellsTheTruth, Idle
<1>8. CASE RaiseVersion
  BY <1>8 DEF RaiseVersion, public, UploadInv, SettledInv, Agreed, StrayInv,
              StraysUploading, ReportTellsTheTruth, Idle
<1>9. ASSUME NEW s \in strays, StrayPublishes(s) \/ StrayUploads(s) \/ StrayEnds(s)
      PROVE  UploadInv' /\ SettledInv' /\ StrayInv' /\ ReportTellsTheTruth'
  BY <1>9, StrayStep
<1> QED
  BY <1>1, <1>2, <1>3, <1>4, <1>5, <1>6, <1>7, <1>8, <1>9 DEF PromotionStep

-----------------------------------------------------------------------------
\* Initially there is nothing: no file, no build, no promotion.
LEMMA InitIInv == Init => IInv
<1> SUFFICES ASSUME Init PROVE IInv
  OBVIOUS
<1>1. TypeOK
  <2>1. version \in Versions /\ report \in [status : {"absent", "blocked", "executed"},
                                          version : Versions]
    BY ReleaseBounds DEF Init, Versions
  <2>2. stops \in 0 .. MaxStops
    BY ReleaseBounds DEF Init
  <2>3. New \in Build /\ Idle \in Promoter
    BY DEF Build, Promoter
  <2>4. dist \in [Lines -> Files] /\ release \in Files
    BY NumberFacts DEF Init
  <2>5. builds \in [Numbers -> Build] /\ promoter \in Promoter
    BY <2>3 DEF Init
  <2>6. whole \in [Lines -> {"torn", "listed", "signed"}]
    BY DEF Init
  <2>7. registry \subseteq Versions /\ complete \subseteq Versions /\ settled \in BOOLEAN
        /\ strays \subseteq Stray
    BY DEF Init
  <2> QED
    BY <2>1, <2>2, <2>4, <2>5, <2>6, <2>7 DEF TypeOK
<1>2. \A l \in Lines : OnLine(l) = {}
  BY DEF Init, OnLine, Running, New
<1> QED
  BY <1>1, <1>2 DEF Init, IInv, BuildInv, BuildOk, LineInv, LineOk, UploadInv, SettledInv,
                    StrayInv, StraysUploading, ReportTellsTheTruth, Running, New, Idle

\* The invariant holds in every state: of builds, directories, promotion and release.
THEOREM ReleaseInvariant == Spec => []IInv
<1>1. IInv /\ [Next]_vars => IInv'
  <2> SUFFICES ASSUME IInv, [Next]_vars PROVE IInv'
    OBVIOUS
  <2>1. CASE BuildStep
    BY <2>1, StartStep, FileStep, ListStep, ManifestStep, StopStep DEF BuildStep
  <2>2. CASE PromotionStep \/ RaiseVersion
    BY <2>2, PromotionType, DirectoriesKept, PromotionKeeps DEF IInv
  <2>3. CASE UNCHANGED vars
    <3>1. \A l : OnLine(l)' = OnLine(l)
      BY <2>3 DEF vars, OnLine, Running
    <3>2. TypeOK' /\ UploadInv' /\ SettledInv' /\ StrayInv' /\ ReportTellsTheTruth'
      BY <2>3 DEF vars, IInv, TypeOK, UploadInv, SettledInv, StrayInv, StraysUploading, ToSend,
                  Agreed, ReportTellsTheTruth
    <3>3. BuildInv'
      BY <2>3, <3>1 DEF vars, IInv, BuildInv, BuildOk, Running
    <3>4. LineInv'
      BY <2>3, <3>1 DEF vars, IInv, LineInv, LineOk, Agreed
    <3> QED
      BY <3>2, <3>3, <3>4 DEF IInv
  <2> QED
    BY <2>1, <2>2, <2>3 DEF Next
<1> QED
  BY <1>1, InitIInv, PTL DEF Spec

\* Directories, builds, the promotion and what it published stay within their types.
THEOREM ReleaseTypes == Spec => []TypeOK
<1>1. IInv => TypeOK
  BY DEF IInv
<1> QED
  BY <1>1, ReleaseInvariant, PTL

\* Parts, lists, signatures and manifest agree wherever a build or an upload has ended that
\* no other build, upload or command of a killed script worked beside, for any number of
\* parts, builds and promotions and however they interleave.
THEOREM SignaturesMatch == Spec => []SignaturesMatchParts
<1>1. IInv => SignaturesMatchParts
  BY DEF IInv, LineInv, LineOk, SettledInv, SignaturesMatchParts
<1> QED
  BY <1>1, ReleaseInvariant, PTL

\* A report that says a version was promoted is right about registry and assets.
THEOREM ReportIsTrue == Spec => []ReportTellsTheTruth
<1>1. IInv => ReportTellsTheTruth
  BY DEF IInv
<1> QED
  BY <1>1, ReleaseInvariant, PTL

\* A version npm has, that no promotion under way uploads for and no report calls done,
\* stays so for ever, whatever else is run, stopped or left over.
THEOREM HalfwayIsFinal == Spec => HalfwayStaysHalfway
<1>1. IInv /\ [Next]_vars => Halfway \subseteq Halfway'
  <2> SUFFICES ASSUME IInv, [Next]_vars PROVE Halfway \subseteq Halfway'
    OBVIOUS
  <2>1. CASE UNCHANGED <<registry, complete, promoter, version>>
    BY <2>1 DEF Halfway
  <2>2. ASSUME NEW n \in Numbers, NEW job \in Jobs, StartBuild(n, job)
        PROVE  Halfway \subseteq Halfway'
    <3>1. promoter'.stage = promoter.stage
      BY <2>2 DEF StartBuild, IInv, TypeOK, Promoter, Idle
    <3> QED
      BY <2>2, <3>1 DEF StartBuild, public, Halfway
  <2>3. CASE PromotionStep
    <3>1. CASE \E open \in Situations : RefusePromotion(open) \/ AdmitPromotion(open)
      <4>1. /\ UNCHANGED <<registry, complete, version>>
            /\ promoter.stage # "upload" /\ promoter'.stage # "upload"
        <5>1. PICK open \in Situations : RefusePromotion(open) \/ AdmitPromotion(open)
          BY <3>1
        <5>2. CASE RefusePromotion(open)
          BY <5>2 DEF RefusePromotion, Idle
        <5>3. CASE AdmitPromotion(open)
          BY <5>3 DEF AdmitPromotion, public, Idle
        <5> QED
          BY <5>1, <5>2, <5>3
      <4> QED
        BY <4>1 DEF Halfway
    <3>6. CASE CommandRefused \/ StopPromotion \/ KillPromotion
      <4>1. promoter' = Idle /\ UNCHANGED <<registry, complete, version>>
        BY <3>6 DEF CommandRefused, StopPromotion, KillPromotion, public
      <4> QED
        BY <4>1 DEF Halfway, Idle
    <3>2. CASE Publish
      <4>1. /\ version \notin registry /\ registry' = registry \cup {version}
            /\ version' = version /\ complete' = complete
        BY <3>2 DEF Publish, Publishable
      <4> QED
        BY <4>1 DEF Halfway
    <3>3. CASE UploadAssets
      <4>1. promoter'.stage = promoter.stage
        BY <3>3 DEF UploadAssets, IInv, TypeOK, Promoter, Idle
      <4> QED
        BY <3>3, <4>1 DEF UploadAssets, Halfway
    <3>4. CASE FinishPromotion
      BY <3>4 DEF FinishPromotion, PromotionSucceeds, Halfway, Idle
    <3>5. CASE \E s \in strays : StrayPublishes(s) \/ StrayUploads(s) \/ StrayEnds(s)
      BY <3>5 DEF StrayPublishes, StrayUploads, StrayEnds, public, Halfway
    <3> QED
      BY <2>3, <3>1, <3>2, <3>3, <3>4, <3>5, <3>6 DEF PromotionStep
  <2>4. CASE RaiseVersion
    BY <2>4 DEF RaiseVersion, public, Halfway, Idle
  <2>5. CASE BuildStep
    <3>1. ASSUME NEW n \in Numbers, ~(\E job \in Jobs : StartBuild(n, job)),
                 \/ WriteList(n) \/ WriteManifest(n)
                 \/ StopBuild(n) \/ KillBuild(n) \/ OrphanEnds(n)
                 \/ \E p \in Parts : WritePart(n, p) \/ Sign(n, p)
          PROVE  UNCHANGED <<registry, complete, promoter, version>>
      BY <3>1 DEF WriteList, WriteManifest, StopBuild, KillBuild, OrphanEnds, WritePart,
                  Sign, public
    <3> QED
      BY <2>1, <2>2, <2>5, <3>1 DEF BuildStep
  <2> QED
    BY <2>1, <2>3, <2>4, <2>5 DEF Next, vars
<1> QED
  BY <1>1, ReleaseInvariant, PTL DEF Spec, HalfwayStaysHalfway

=============================================================================
