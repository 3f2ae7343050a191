---------------------------- MODULE PipelineProofs ----------------------------
(***************************************************************************)
(* For any rows, applications, revisions, log limit and crashes: the       *)
(* evidence of a release is about its image, an image is built under the   *)
(* right .dockerignore, a classified failure is shown where it happened,   *)
(* and a stream that ended by itself has shown the whole log.              *)
(***************************************************************************)
EXTENDS Pipeline, TLAPS

Types ==
    /\ source \in [Apps -> 1 .. Revisions]
    /\ tree \in [Apps -> Trees] /\ ignore \in [Apps -> {"none", "own", "managed"}]
    /\ app \in [Jobs -> Apps]
    /\ pc \in [Jobs -> Steps \cup {"new", "done"}]
    /\ row \in [Jobs -> {"queued", "running", "successful", "failed", "cancelled"}]
    /\ fetched \in [Jobs -> Trees] /\ revision \in [Jobs -> Trees] /\ evidence \in [Jobs -> Trees]
    /\ DOMAIN image = Jobs /\ DOMAIN err = Jobs
    /\ managed \in [Jobs -> BOOLEAN] /\ reached \in [Jobs -> SUBSET (1 .. 6)]
    /\ output \in [Jobs -> Nat] /\ kept \in [Jobs -> Nat] /\ atEnd \in [Jobs -> Nat]
    /\ viewer \in [job : Jobs, at : {"row", "file", "ended", "lost"},
                   status : {"queued", "running", "successful", "failed", "cancelled"}, sent : Nat]
    /\ crashes \in Nat

Active(j) == pc[j] \notin {"new", "done"}

\* An application has one active row; a plain directory is neither cloned nor checked out.
Exclusive ==
    /\ \A i, j \in Jobs : Active(i) /\ Active(j) /\ app[i] = app[j] => i = j
    /\ \A j \in Jobs : pc[j] \in {"cloning", "fetching", "checkout"} => app[j] \notin Local

\* From the checkout to the build nobody else touches the working copy of a clone.
SourcedAt(j) ==
    app[j] \notin Local =>
        /\ pc[j] \in {"evidence", "ignoring", "template", "building"} => tree[app[j]] = revision[j]
        /\ pc[j] \in {"ignoring", "template", "building"} => evidence[j] = revision[j]
        /\ image[j] # <<>> =>
              /\ pc[j] \in {"starting", "health", "route", "returning", "finishing", "notifying",
                            "done"}
              /\ image[j][1] = revision[j] /\ evidence[j] = revision[j]
Sourced == \A j \in Jobs : SourcedAt(j)

\* A tree that is built has its own .dockerignore, or none that belongs to a revision; a
\* managed one is removed by the row that wrote it.
IgnoredAt(j) ==
    /\ pc[j] \in {"evidence", "ignoring", "template", "building"} =>
          (ignore[app[j]] = "own" <=> tree[app[j]] \in OwnIgnore)
    /\ managed[j] =>
          /\ pc[j] \in {"template", "building", "starting", "health", "route", "returning"}
          /\ ignore[app[j]] = "managed"
    /\ image[j] # <<>> => (image[j][2] = "own" <=> image[j][1] \in OwnIgnore)
Ignored == \A j \in Jobs : IgnoredAt(j)

\* A plain directory is always at the newest revision of its sources.
InPlace == \A a \in Local : tree[a] = source[a] /\ (ignore[a] = "own" <=> tree[a] \in OwnIgnore)

\* Only a crash leaves a managed file without a row that will remove it.
Tidy ==
    crashes = 0 => \A a \in Apps : ignore[a] = "managed" => \E j \in Jobs : app[j] = a /\ managed[j]

\* The steps of the pipeline that are carried out before a step of Deploy.
Carried(step) ==
    CASE step \in {"new", "claimed", "preflight"} -> 0
      [] step \in {"cloning", "fetching", "checkout", "evidence", "ignoring"} -> 1
      [] step \in {"template", "building"} -> 2
      [] step = "starting" -> 3 [] step = "health" -> 4 [] step = "route" -> 5
      [] OTHER -> 6

\* A classified error was raised at the first step that was not carried out.
Raised(j) == reached[j] = 1 .. FailedStep(err[j][1], err[j][2]) - 1
Closing == {"returning", "finishing", "notifying", "done"}

\* The row is open until Deploy has returned, and its error is the one Deploy returned.
ReportedAt(j) ==
    /\ pc[j] \notin Closing => err[j] = NoError
    /\ err[j] = NoError /\ row[j] # "failed" => reached[j] = 1 .. Carried(pc[j])
    /\ err[j] \notin {NoError, Unclassified, Restarted} => Raised(j)
    /\ pc[j] = "new" => row[j] = "queued"
    /\ Active(j) /\ pc[j] # "notifying" => row[j] = "running"
    /\ pc[j] \in {"notifying", "done"} => row[j] \in {"successful", "failed", "cancelled"}
    /\ row[j] = "successful" => err[j] = NoError
Reported == \A j \in Jobs : ReportedAt(j)

\* The file has what was written up to the limit, and whoever read a finished row reads
\* all of it.
LoggedAt(j) ==
    /\ kept[j] <= Limit /\ kept[j] <= output[j]
    /\ kept[j] = output[j] \/ kept[j] = Limit
    /\ atEnd[j] <= output[j]
Logged == \A j \in Jobs : LoggedAt(j)
Streamed ==
    /\ viewer.sent <= Limit
    /\ viewer.at \in {"file", "ended"} /\ viewer.status \in {"successful", "failed"} =>
          row[viewer.job] = viewer.status
    /\ viewer.at = "ended" => viewer.status \in {"successful", "failed"}
    /\ viewer.at = "ended" => \/ viewer.sent >= atEnd[viewer.job] \/ viewer.sent = Limit

\* A stream that ended by itself has shown the log up to the line that finished the row.
EndedStreamIsComplete ==
    viewer.at = "ended" => viewer.sent \in Min({atEnd[viewer.job], Limit}) .. Limit

Inv ==
    /\ Types /\ Exclusive /\ Sourced /\ Ignored /\ InPlace /\ Tidy
    /\ Reported /\ Logged /\ Streamed

-----------------------------------------------------------------------------
\* The steps that may fail, and where their failures are shown: at the first step of
\* the pipeline that is not carried out, unless they come before Deploy.
LEMMA FailureFacts ==
    ASSUME NEW step \in DOMAIN FailureAt
    PROVE  /\ step \in {"claimed", "preflight", "cloning", "fetching", "checkout", "evidence", "template", "building",
                        "starting", "health", "route"}
           /\ FailureAt[step] # NoError
           /\ \/ FailureAt[step] = Unclassified
              \/ FailedStep(FailureAt[step][1], FailureAt[step][2]) = Carried(step) + 1
  <1>1. step \in {"claimed", "preflight", "cloning", "fetching", "checkout", "evidence", "template", "building",
                  "starting", "health", "route"}
    BY DEF FailureAt
  <1>2. CASE step = "preflight"
    BY <1>2 DEF FailureAt, NoError, FailedStep, Carried
  <1>3. CASE step = "cloning"
    BY <1>3 DEF FailureAt, NoError, FailedStep, Carried
  <1>4. CASE step = "fetching"
    BY <1>4 DEF FailureAt, NoError, FailedStep, Carried
  <1>5. CASE step = "checkout"
    BY <1>5 DEF FailureAt, NoError, FailedStep, Carried
  <1>6. CASE step = "evidence"
    BY <1>6 DEF FailureAt, NoError, FailedStep, Carried
  <1>7. CASE step = "template"
    BY <1>7 DEF FailureAt, NoError, FailedStep, Carried
  <1>8. CASE step = "building"
    BY <1>8 DEF FailureAt, NoError, FailedStep, Carried
  <1>9. CASE step = "starting"
    BY <1>9 DEF FailureAt, NoError, FailedStep, Carried
  <1>10. CASE step = "health"
    BY <1>10 DEF FailureAt, NoError, FailedStep, Carried
  <1>11. CASE step = "route"
    BY <1>11 DEF FailureAt, NoError, FailedStep, Carried
  <1>12. CASE step = "claimed"
    BY <1>12 DEF FailureAt, NoError, Unclassified
  <1> QED BY <1>1, <1>2, <1>3, <1>4, <1>5, <1>6, <1>7, <1>8, <1>9, <1>10, <1>11, <1>12

\* The smaller of two numbers.
LEMMA MinOfTwo ==
    ASSUME NEW x \in Nat, NEW y \in Nat
    PROVE  Min({x, y}) = IF x <= y THEN x ELSE y
  <1>1. PICK m \in {x, y} : \A z \in {x, y} : m <= z
    <2> QED OBVIOUS
  <1>2. Min({x, y}) \in {x, y} /\ \A z \in {x, y} : Min({x, y}) <= z
    BY DEF Min
  <1> QED BY <1>2

\* A write appends what fits.
LEMMA WriteFacts ==
    ASSUME Inv, NEW j \in Jobs, NEW n \in Nat, Write(j, n)
    PROVE  /\ output' \in [Jobs -> Nat] /\ kept' \in [Jobs -> Nat] /\ atEnd' \in [Jobs -> Nat]
           /\ UNCHANGED atEnd
           /\ \A i \in Jobs : i # j => output'[i] = output[i] /\ kept'[i] = kept[i]
           /\ output[j] <= output'[j]
           /\ kept'[j] <= Limit /\ kept'[j] <= output'[j]
           /\ (kept'[j] = output'[j] \/ kept'[j] = Limit)
  <1>1. /\ output \in [Jobs -> Nat] /\ kept \in [Jobs -> Nat] /\ atEnd \in [Jobs -> Nat]
        /\ kept[j] <= Limit /\ kept[j] <= output[j] /\ (kept[j] = output[j] \/ kept[j] = Limit)
    BY DEF Inv, Types, Logged, LoggedAt
  <1>2. output' = [output EXCEPT ![j] = @ + n] /\ UNCHANGED atEnd
    BY DEF Write
  <1>3. kept' = [kept EXCEPT ![j] = IF @ >= Limit THEN @ ELSE @ + Min({n, Limit - @})]
    BY DEF Write
  <1>4. CASE kept[j] >= Limit
    <2>1. kept' = kept
      BY <1>1, <1>3, <1>4
    <2> QED BY <1>1, <1>2, <1>4, <2>1, LimitAssumption
  <1>5. CASE kept[j] < Limit
    <2>1. Limit - kept[j] \in Nat
      BY <1>1, LimitAssumption
    <2>2. Min({n, Limit - kept[j]}) = IF n <= Limit - kept[j] THEN n ELSE Limit - kept[j]
      BY <2>1, MinOfTwo
    <2> DEFINE m == Min({n, Limit - kept[j]})
    <2>3. m \in Nat /\ m <= n /\ m <= Limit - kept[j] /\ (m = n \/ m = Limit - kept[j])
      BY <2>1, <2>2
    <2>4. ~(kept[j] >= Limit)
      BY <1>1, <1>5, LimitAssumption
    <2>5. kept' = [kept EXCEPT ![j] = kept[j] + m]
      BY <1>3, <2>4
    <2> HIDE DEF m
    <2> QED BY <1>1, <1>2, <1>5, <2>3, <2>5, LimitAssumption
  <1> QED BY <1>1, <1>4, <1>5, LimitAssumption

\* A step that is carried out is one of the six.
LEMMA ReachTypes ==
    ASSUME Inv, NEW j \in Jobs, NEW n \in 1 .. 6, Reach(j, n)
    PROVE  reached' \in [Jobs -> SUBSET (1 .. 6)]
  BY DEF Inv, Types, Reach

\* The steps of a row keep the types.
LEMMA RowTypes ==
    ASSUME Inv, NEW j \in Jobs, Claim(j) \/ Deploy(j)
    PROVE  Types'
  <1>1. CASE Claim(j)
    BY <1>1 DEF Inv, Types, Steps, Claim, Goto, copies, results, logs
  <1>2. CASE SelectRuntime(j)
    <2>1. output' \in [Jobs -> Nat] /\ kept' \in [Jobs -> Nat] /\ atEnd' \in [Jobs -> Nat]
      BY <1>2, WriteFacts DEF SelectRuntime
    <2>2. reached' \in [Jobs -> SUBSET (1 .. 6)]
      BY <1>2, ReachTypes DEF SelectRuntime
    <2> QED BY <1>2, <2>1, <2>2 DEF Inv, Types, Steps, Trees, SelectRuntime, Goto, copies, results
  <1>3. CASE CloneRepository(j)
    BY <1>3 DEF Inv, Types, Steps, CloneRepository, Goto, results, logs
  <1>4. CASE Fetch(j)
    BY <1>4, RevisionsAssumption DEF Inv, Types, Steps, Trees, Fetch, Goto, copies, logs
  <1>5. CASE Checkout(j)
    <2>1. ignore' \in [Apps -> {"none", "own", "managed"}]
      BY <1>5 DEF Inv, Types, Checkout, IgnoreAt
    <2> QED BY <1>5, <2>1 DEF Inv, Types, Steps, Checkout, Goto, logs
  <1>6. CASE SourceEvidence(j)
    <2>1. output' \in [Jobs -> Nat] /\ kept' \in [Jobs -> Nat] /\ atEnd' \in [Jobs -> Nat]
      BY <1>6, WriteFacts DEF SourceEvidence
    <2> QED BY <1>6, <2>1 DEF Inv, Types, Steps, Trees, SourceEvidence, Goto, copies
  <1>7. CASE WriteIgnore(j)
    <2>1. PICK written \in BOOLEAN :
             /\ ignore' = [ignore EXCEPT ![app[j]] = IF written THEN "managed" ELSE ignore[app[j]]]
             /\ managed' = [managed EXCEPT ![j] = written]
      BY <1>7 DEF WriteIgnore
    <2>2. managed' \in [Jobs -> BOOLEAN] /\ ignore' \in [Apps -> {"none", "own", "managed"}]
      BY <2>1 DEF Inv, Types
    <2>3. reached' \in [Jobs -> SUBSET (1 .. 6)]
      BY <1>7, ReachTypes DEF WriteIgnore
    <2> QED BY <1>7, <2>2, <2>3 DEF Inv, Types, Steps, WriteIgnore, Goto, results, logs
  <1>8. CASE GeneratedDockerfile(j)
    BY <1>8 DEF Inv, Types, Steps, GeneratedDockerfile, Goto, copies, results, logs
  <1>9. CASE Build(j)
    <2>1. output' \in [Jobs -> Nat] /\ kept' \in [Jobs -> Nat] /\ atEnd' \in [Jobs -> Nat]
      BY <1>9, WriteFacts DEF Build
    <2>2. reached' \in [Jobs -> SUBSET (1 .. 6)]
      BY <1>9, ReachTypes DEF Build
    <2> QED BY <1>9, <2>1, <2>2 DEF Inv, Types, Steps, Trees, Build, Goto, copies
  <1>10. CASE StartStep(j)
    <2>1. output' \in [Jobs -> Nat] /\ kept' \in [Jobs -> Nat] /\ atEnd' \in [Jobs -> Nat]
      BY <1>10, WriteFacts DEF StartStep
    <2>2. reached' \in [Jobs -> SUBSET (1 .. 6)]
      BY <1>10, ReachTypes DEF StartStep
    <2>3. pc' \in [Jobs -> Steps \cup {"new", "done"}]
      BY <1>10 DEF Inv, Types, Steps, StartStep, Goto
    <2> QED BY <1>10, <2>1, <2>2, <2>3 DEF Inv, Types, StartStep, copies, results
  <1>11. CASE StepFails(j)
    BY <1>11, RevisionsAssumption DEF Inv, Types, Steps, Trees, StepFails, Goto, Torn, results,
       logs
  <1>12. CASE Return(j)
    <2>1. output' \in [Jobs -> Nat] /\ kept' \in [Jobs -> Nat] /\ atEnd' \in [Jobs -> Nat]
      BY <1>12, WriteFacts DEF Return
    <2>2. managed' \in [Jobs -> BOOLEAN]
      BY <1>12 DEF Inv, Types, Return
    <2> QED BY <1>12, <2>1, <2>2 DEF Inv, Types, Steps, Return, Goto, results
  <1>13. CASE FinishDeployment(j)
    BY <1>13 DEF Inv, Types, Steps, FinishDeployment, Goto, copies, results
  <1>14. CASE NoteRollback(j)
    <2>1. output' \in [Jobs -> Nat] /\ kept' \in [Jobs -> Nat] /\ atEnd' \in [Jobs -> Nat]
      BY <1>14, WriteFacts DEF NoteRollback
    <2> QED BY <1>14, <2>1 DEF Inv, Types, Steps, Trees, NoteRollback, Goto, copies, results
  <1>15. CASE OpenLog(j)
    BY <1>15 DEF Inv, Types, Steps, OpenLog, Goto, copies, results, logs
  <1>16. CASE OpenLogFails(j)
    BY <1>16 DEF Inv, Types, Steps, OpenLogFails, Goto, copies, results, logs
  <1>17. CASE InvalidName(j)
    <2>1. output' \in [Jobs -> Nat] /\ kept' \in [Jobs -> Nat] /\ atEnd' \in [Jobs -> Nat]
      BY <1>17, WriteFacts DEF InvalidName
    <2>2. reached' \in [Jobs -> SUBSET (1 .. 6)]
      BY <1>17, ReachTypes DEF InvalidName
    <2> QED BY <1>17, <2>1, <2>2 DEF Inv, Types, Steps, Trees, InvalidName, Goto, copies, results
  <1> QED
    BY <1>1, <1>2, <1>3, <1>4, <1>5, <1>6, <1>7, <1>8, <1>9, <1>10, <1>11, <1>12, <1>13, <1>14,
       <1>15, <1>16, <1>17 DEF Deploy

\* What the step of a row leaves alone: the other rows, and every working copy but the one
\* of an active row.
OwnRow(j) ==
    /\ UNCHANGED <<source, app, viewer, crashes>>
    /\ \A i \in Jobs : i # j =>
          /\ pc'[i] = pc[i] /\ row'[i] = row[i] /\ err'[i] = err[i] /\ reached'[i] = reached[i]
          /\ revision'[i] = revision[i] /\ evidence'[i] = evidence[i] /\ image'[i] = image[i]
          /\ managed'[i] = managed[i]
          /\ output'[i] = output[i] /\ kept'[i] = kept[i] /\ atEnd'[i] = atEnd[i]
    /\ \A a \in Apps : a # app[j] \/ ~Active(j) => tree'[a] = tree[a] /\ ignore'[a] = ignore[a]

\* The steps of a row are its own.
LEMMA RowFrame ==
    ASSUME Inv, NEW j \in Jobs, Claim(j) \/ Deploy(j)
    PROVE  OwnRow(j)
  <1>1. CASE Claim(j)
    BY <1>1 DEF OwnRow, Claim, Goto, copies, results, logs
  <1>2. CASE SelectRuntime(j)
    BY <1>2 DEF OwnRow, SelectRuntime, Goto, Reach, Write, copies, results
  <1>3. CASE CloneRepository(j)
    BY <1>3 DEF OwnRow, CloneRepository, Goto, results, logs
  <1>4. CASE Fetch(j)
    BY <1>4 DEF OwnRow, Fetch, Goto, copies, logs
  <1>5. CASE Checkout(j)
    BY <1>5 DEF OwnRow, Active, Checkout, Goto, logs
  <1>6. CASE SourceEvidence(j)
    BY <1>6 DEF OwnRow, SourceEvidence, Goto, Write, copies
  <1>7. CASE WriteIgnore(j)
    BY <1>7 DEF OwnRow, Active, WriteIgnore, Goto, Reach, results, logs
  <1>8. CASE GeneratedDockerfile(j)
    BY <1>8 DEF OwnRow, GeneratedDockerfile, Goto, copies, results, logs
  <1>9. CASE Build(j)
    BY <1>9 DEF OwnRow, Build, Goto, Reach, Write, copies
  <1>10. CASE StartStep(j)
    BY <1>10 DEF Inv, Types, OwnRow, StartStep, Goto, Reach, Write, copies, results
  <1>11. CASE StepFails(j)
    BY <1>11 DEF OwnRow, Active, StepFails, Goto, Torn, results, logs
  <1>12. CASE Return(j)
    BY <1>12 DEF OwnRow, Active, Return, Goto, Write, results
  <1>13. CASE FinishDeployment(j)
    BY <1>13 DEF Inv, Types, OwnRow, FinishDeployment, Goto, copies, results
  <1>14. CASE NoteRollback(j)
    BY <1>14 DEF OwnRow, NoteRollback, Goto, Write, copies, results
  <1>15. CASE OpenLog(j)
    BY <1>15 DEF OwnRow, OpenLog, Goto, copies, results, logs
  <1>16. CASE OpenLogFails(j)
    BY <1>16 DEF OwnRow, OpenLogFails, Goto, copies, results, logs
  <1>17. CASE InvalidName(j)
    BY <1>17 DEF OwnRow, InvalidName, Goto, Reach, Write, copies, results
  <1> QED
    BY <1>1, <1>2, <1>3, <1>4, <1>5, <1>6, <1>7, <1>8, <1>9, <1>10, <1>11, <1>12, <1>13, <1>14,
       <1>15, <1>16, <1>17 DEF Deploy

\* A row is claimed when its application has no active one.
LEMMA RowExclusive ==
    ASSUME Inv, NEW j \in Jobs, Claim(j) \/ Deploy(j)
    PROVE  Exclusive'
  <1>1. CASE Claim(j)
    BY <1>1 DEF Inv, Exclusive, Active, Running, Claim, Goto
  <1>2. CASE SelectRuntime(j)
    BY <1>2 DEF Inv, Exclusive, Active, SelectRuntime, Goto
  <1>3. CASE CloneRepository(j)
    BY <1>3 DEF Inv, Exclusive, Active, CloneRepository, Goto
  <1>4. CASE Fetch(j)
    BY <1>4 DEF Inv, Exclusive, Active, Fetch, Goto
  <1>5. CASE Checkout(j)
    BY <1>5 DEF Inv, Exclusive, Active, Checkout, Goto
  <1>6. CASE SourceEvidence(j)
    BY <1>6 DEF Inv, Exclusive, Active, SourceEvidence, Goto
  <1>7. CASE WriteIgnore(j)
    BY <1>7 DEF Inv, Exclusive, Active, WriteIgnore, Goto
  <1>8. CASE GeneratedDockerfile(j)
    BY <1>8 DEF Inv, Exclusive, Active, GeneratedDockerfile, Goto
  <1>9. CASE Build(j)
    BY <1>9 DEF Inv, Exclusive, Active, Build, Goto
  <1>10. CASE StartStep(j)
    BY <1>10 DEF Inv, Types, Exclusive, Active, Steps, StartStep, Goto
  <1>11. CASE StepFails(j)
    BY <1>11, FailureFacts DEF Inv, Exclusive, Active, StepFails, Goto
  <1>12. CASE Return(j)
    BY <1>12 DEF Inv, Exclusive, Active, Return, Goto
  <1>13. CASE FinishDeployment(j)
    BY <1>13 DEF Inv, Types, Exclusive, Active, FinishDeployment, Goto
  <1>14. CASE NoteRollback(j)
    BY <1>14 DEF Inv, Exclusive, Active, NoteRollback, Goto
  <1>15. CASE OpenLog(j)
    BY <1>15 DEF Inv, Exclusive, Active, OpenLog, Goto
  <1>16. CASE OpenLogFails(j)
    BY <1>16 DEF Inv, Exclusive, Active, OpenLogFails, Goto
  <1>17. CASE InvalidName(j)
    BY <1>17 DEF Inv, Exclusive, Active, InvalidName, Goto
  <1> QED
    BY <1>1, <1>2, <1>3, <1>4, <1>5, <1>6, <1>7, <1>8, <1>9, <1>10, <1>11, <1>12, <1>13, <1>14,
       <1>15, <1>16, <1>17 DEF Deploy

\* Nothing that holds of another row is disturbed.
LEMMA OtherRows ==
    ASSUME Inv, NEW j \in Jobs, OwnRow(j), NEW i \in Jobs, i # j
    PROVE  SourcedAt(i)' /\ IgnoredAt(i)' /\ ReportedAt(i)' /\ LoggedAt(i)'
  <1>1. app' = app /\ app[i] \in Apps /\ app[j] \in Apps
    BY DEF Inv, Types, OwnRow
  <1>2. Active(i) => tree'[app[i]] = tree[app[i]] /\ ignore'[app[i]] = ignore[app[i]]
    BY <1>1 DEF Inv, Exclusive, OwnRow
  <1>3. /\ pc'[i] = pc[i] /\ row'[i] = row[i] /\ err'[i] = err[i] /\ reached'[i] = reached[i]
        /\ revision'[i] = revision[i] /\ evidence'[i] = evidence[i] /\ image'[i] = image[i]
        /\ managed'[i] = managed[i]
        /\ output'[i] = output[i] /\ kept'[i] = kept[i] /\ atEnd'[i] = atEnd[i]
    BY DEF OwnRow
  <1>4. SourcedAt(i)'
    BY <1>1, <1>2, <1>3 DEF Inv, Sourced, SourcedAt, Active
  <1>5. IgnoredAt(i)'
    BY <1>1, <1>2, <1>3 DEF Inv, Ignored, IgnoredAt, Active
  <1>6. ReportedAt(i)'
    BY <1>3 DEF Inv, Reported, ReportedAt, Active, Raised
  <1>7. LoggedAt(i)'
    BY <1>3 DEF Inv, Logged, LoggedAt
  <1> QED BY <1>4, <1>5, <1>6, <1>7

\* The working copy of a clone stays as it was checked out until it is built.
LEMMA RowSourced ==
    ASSUME Inv, NEW j \in Jobs, Claim(j) \/ Deploy(j)
    PROVE  SourcedAt(j)'
  <1>1. CASE Claim(j)
    BY <1>1 DEF Inv, Types, Sourced, SourcedAt, Claim, Goto, copies, results, logs
  <1>2. CASE SelectRuntime(j)
    BY <1>2 DEF Inv, Types, Sourced, SourcedAt, SelectRuntime, Goto, Reach, Write, copies, results
  <1>3. CASE CloneRepository(j)
    BY <1>3 DEF Inv, Types, Sourced, SourcedAt, CloneRepository, Goto, results, logs
  <1>4. CASE Fetch(j)
    BY <1>4 DEF Inv, Types, Sourced, SourcedAt, Fetch, Goto, copies, logs
  <1>5. CASE Checkout(j)
    BY <1>5 DEF Inv, Types, Sourced, SourcedAt, Checkout, Goto, IgnoreAt, logs
  <1>6. CASE SourceEvidence(j)
    BY <1>6 DEF Inv, Types, Sourced, SourcedAt, SourceEvidence, Goto, Write, copies
  <1>7. CASE WriteIgnore(j)
    BY <1>7 DEF Inv, Types, Sourced, SourcedAt, WriteIgnore, Goto, Reach, results, logs
  <1>8. CASE GeneratedDockerfile(j)
    BY <1>8 DEF Inv, Types, Sourced, SourcedAt, GeneratedDockerfile, Goto, copies, results, logs
  <1>9. CASE Build(j)
    BY <1>9 DEF Inv, Types, Sourced, SourcedAt, Build, Goto
  <1>10. CASE StartStep(j)
    <2>1. pc[j] \in {"starting", "health", "route"} /\ pc'[j] \in {"health", "route", "returning"}
      BY <1>10 DEF Inv, Types, StartStep, Goto
    <2> QED BY <1>10, <2>1 DEF Inv, Sourced, SourcedAt, StartStep, results
  <1>11. CASE StepFails(j)
    <2>1. pc'[j] = "returning" /\ (pc[j] = "building" \/ pc[j] \in DOMAIN FailureAt)
      BY <1>11 DEF Inv, Types, StepFails, Goto
    <2> QED BY <1>11, <2>1 DEF Inv, Sourced, SourcedAt, StepFails, results
  <1>12. CASE Return(j)
    BY <1>12 DEF Inv, Sourced, SourcedAt, Return, Goto, results
  <1>13. CASE FinishDeployment(j)
    <2>1. pc[j] = "finishing" /\ pc'[j] \in {"notifying", "done"}
      BY <1>13 DEF Inv, Types, FinishDeployment, Goto
    <2> QED BY <1>13, <2>1 DEF Inv, Sourced, SourcedAt, FinishDeployment, results
  <1>14. CASE NoteRollback(j)
    BY <1>14 DEF Inv, Sourced, SourcedAt, NoteRollback, Goto, results
  <1>15. CASE OpenLog(j)
    BY <1>15 DEF Inv, Types, Sourced, SourcedAt, OpenLog, Goto, copies, results
  <1>16. CASE OpenLogFails(j)
    BY <1>16 DEF Inv, Types, Sourced, SourcedAt, OpenLogFails, Goto, copies, results
  <1>17. CASE InvalidName(j)
    BY <1>17 DEF Inv, Types, Sourced, SourcedAt, InvalidName, Goto, copies, results
  <1> QED
    BY <1>1, <1>2, <1>3, <1>4, <1>5, <1>6, <1>7, <1>8, <1>9, <1>10, <1>11, <1>12, <1>13, <1>14,
       <1>15, <1>16, <1>17 DEF Deploy

\* A .dockerignore goes with the tree that is built.
LEMMA RowIgnored ==
    ASSUME Inv, NEW j \in Jobs, Claim(j) \/ Deploy(j)
    PROVE  IgnoredAt(j)'
  <1>1. CASE Claim(j)
    <2>1. pc[j] = "new" /\ pc'[j] = "claimed" /\ UNCHANGED <<tree, ignore, app, managed, image>>
      BY <1>1 DEF Inv, Types, Claim, Goto, copies, results
    <2> QED BY <2>1 DEF Inv, Ignored, IgnoredAt
  <1>2. CASE SelectRuntime(j)
    <2>1. /\ pc[j] = "preflight" /\ pc'[j] = IF app[j] \in Local THEN "evidence" ELSE "cloning"
          /\ UNCHANGED <<tree, ignore, app, managed, image>>
      BY <1>2 DEF Inv, Types, SelectRuntime, Goto, copies, results
    <2> QED BY <2>1 DEF Inv, Ignored, IgnoredAt, InPlace
  <1>3. CASE CloneRepository(j)
    <2>1. pc[j] = "cloning" /\ pc'[j] = "fetching" /\ UNCHANGED <<tree, ignore, app, managed, image>>
      BY <1>3 DEF Inv, Types, CloneRepository, Goto, results
    <2> QED BY <2>1 DEF Inv, Ignored, IgnoredAt
  <1>4. CASE Fetch(j)
    <2>1. pc[j] = "fetching" /\ pc'[j] = "checkout" /\ UNCHANGED <<tree, ignore, app, managed, image>>
      BY <1>4 DEF Inv, Types, Fetch, Goto, copies
    <2> QED BY <2>1 DEF Inv, Ignored, IgnoredAt
  <1>5. CASE Checkout(j)
    BY <1>5 DEF Inv, Types, Ignored, IgnoredAt, InPlace, Checkout, Goto, IgnoreAt, logs
  <1>6. CASE SourceEvidence(j)
    BY <1>6 DEF Inv, Types, Ignored, IgnoredAt, InPlace, SourceEvidence, Goto, Write, copies
  <1>7. CASE WriteIgnore(j)
    <2>1. PICK written \in {FALSE, ignore[app[j]] = "none"} :
             /\ ignore' = [ignore EXCEPT ![app[j]] = IF written THEN "managed" ELSE ignore[app[j]]]
             /\ managed' = [managed EXCEPT ![j] = written]
      BY <1>7 DEF WriteIgnore
    <2>2. pc'[j] = "template" /\ pc[j] = "ignoring" /\ UNCHANGED <<tree, app, image>>
      BY <1>7 DEF Inv, Types, WriteIgnore, Goto, results
    <2>3. CASE written = FALSE
      BY <2>1, <2>2, <2>3 DEF Inv, Ignored, IgnoredAt
    <2>4. CASE written /\ ignore[app[j]] = "none"
      BY <2>1, <2>2, <2>4 DEF Inv, Types, Ignored, IgnoredAt
    <2> QED BY <2>1, <2>3, <2>4
  <1>8. CASE GeneratedDockerfile(j)
    BY <1>8 DEF Inv, Ignored, IgnoredAt, GeneratedDockerfile, Goto, copies, results
  <1>9. CASE Build(j)
    BY <1>9 DEF Inv, Ignored, IgnoredAt, Build, Goto, copies
  <1>10. CASE StartStep(j)
    <2>1. pc[j] \in {"starting", "health", "route"} /\ pc'[j] \in {"health", "route", "returning"}
      BY <1>10 DEF Inv, Types, StartStep, Goto
    <2> QED BY <1>10, <2>1 DEF Inv, Ignored, IgnoredAt, StartStep, copies, results
  <1>11. CASE StepFails(j)
    BY <1>11 DEF Inv, Ignored, IgnoredAt, StepFails, Goto, Torn, results
  <1>12. CASE Return(j)
    BY <1>12 DEF Inv, Types, Ignored, IgnoredAt, Return, Goto, results
  <1>13. CASE FinishDeployment(j)
    <2>1. pc[j] = "finishing" /\ pc'[j] \in {"notifying", "done"}
      BY <1>13 DEF Inv, Types, FinishDeployment, Goto
    <2> QED BY <1>13, <2>1 DEF Inv, Ignored, IgnoredAt, FinishDeployment, results
  <1>14. CASE NoteRollback(j)
    <2>1. pc[j] = "notifying" /\ pc'[j] = "done" /\ UNCHANGED <<tree, ignore, app, managed, image>>
      BY <1>14 DEF Inv, Types, NoteRollback, Goto, copies, results
    <2> QED BY <2>1 DEF Inv, Ignored, IgnoredAt
  <1>15. CASE OpenLog(j)
    <2>1. pc[j] = "claimed" /\ pc'[j] = "preflight" /\ UNCHANGED <<tree, ignore, app, managed, image>>
      BY <1>15 DEF Inv, Types, OpenLog, Goto, copies, results
    <2> QED BY <2>1 DEF Inv, Ignored, IgnoredAt
  <1>16. CASE OpenLogFails(j)
    <2>1. pc[j] = "claimed" /\ pc'[j] = "done" /\ UNCHANGED <<tree, ignore, app, managed, image>>
      BY <1>16 DEF Inv, Types, OpenLogFails, Goto, copies, results
    <2> QED BY <2>1 DEF Inv, Ignored, IgnoredAt
  <1>17. CASE InvalidName(j)
    <2>1. pc[j] = "preflight" /\ pc'[j] = "returning" /\ UNCHANGED <<tree, ignore, app, managed, image>>
      BY <1>17 DEF Inv, Types, InvalidName, Goto, copies, results
    <2> QED BY <2>1 DEF Inv, Ignored, IgnoredAt
  <1> QED
    BY <1>1, <1>2, <1>3, <1>4, <1>5, <1>6, <1>7, <1>8, <1>9, <1>10, <1>11, <1>12, <1>13, <1>14,
       <1>15, <1>16, <1>17 DEF Deploy

\* The error and the row tell how far Deploy got.
LEMMA RowReported ==
    ASSUME Inv, NEW j \in Jobs, Claim(j) \/ Deploy(j)
    PROVE  ReportedAt(j)'
  <1>1. CASE Claim(j)
    BY <1>1 DEF Inv, Types, Reported, ReportedAt, Active, Carried, Closing, Raised, Claim, Goto,
       copies, results, logs
  <1>2. CASE SelectRuntime(j)
    <2>1. pc[j] = "preflight" /\ pc'[j] \in {"evidence", "cloning"} /\ UNCHANGED <<row, err>>
      BY <1>2 DEF Inv, Types, SelectRuntime, Goto
    <2>2. err[j] = NoError /\ row[j] = "running" /\ reached[j] = 1 .. 0
      BY <2>1 DEF Inv, Reported, ReportedAt, Active, Carried, Closing
    <2>3. reached'[j] = 1 .. 1
      BY <1>2, <2>2 DEF Inv, Types, SelectRuntime, Reach
    <2> QED BY <2>1, <2>2, <2>3 DEF ReportedAt, Carried
  <1>3. CASE CloneRepository(j)
    BY <1>3 DEF Inv, Types, Reported, ReportedAt, Active, Carried, Closing, Raised,
       CloneRepository, Goto, results, logs
  <1>4. CASE Fetch(j)
    BY <1>4 DEF Inv, Types, Reported, ReportedAt, Active, Carried, Closing, Raised, Fetch, Goto,
       copies, logs
  <1>5. CASE Checkout(j)
    BY <1>5 DEF Inv, Types, Reported, ReportedAt, Active, Carried, Closing, Raised, Checkout,
       Goto, IgnoreAt, logs
  <1>6. CASE SourceEvidence(j)
    BY <1>6 DEF Inv, Types, Reported, ReportedAt, Active, Carried, Closing, Raised,
       SourceEvidence, Goto, Write, copies
  <1>7. CASE WriteIgnore(j)
    <2>1. pc[j] = "ignoring" /\ pc'[j] = "template" /\ UNCHANGED <<row, err>>
      BY <1>7 DEF Inv, Types, WriteIgnore, Goto
    <2>2. err[j] = NoError /\ row[j] = "running" /\ reached[j] = 1 .. 1
      BY <2>1 DEF Inv, Reported, ReportedAt, Active, Carried, Closing
    <2>3. reached'[j] = 1 .. 2
      BY <1>7, <2>2 DEF Inv, Types, WriteIgnore, Reach
    <2> QED BY <2>1, <2>2, <2>3 DEF ReportedAt, Carried
  <1>8. CASE GeneratedDockerfile(j)
    BY <1>8 DEF Inv, Types, Reported, ReportedAt, Active, Carried, Closing, Raised,
       GeneratedDockerfile, Goto, copies, results, logs
  <1>9. CASE Build(j)
    <2>1. pc[j] = "building" /\ pc'[j] = "starting" /\ UNCHANGED <<row, err>>
      BY <1>9 DEF Inv, Types, Build, Goto
    <2>2. err[j] = NoError /\ row[j] = "running" /\ reached[j] = 1 .. 2
      BY <2>1 DEF Inv, Reported, ReportedAt, Active, Carried, Closing
    <2>3. reached'[j] = 1 .. 3
      BY <1>9, <2>2 DEF Inv, Types, Build, Reach
    <2> QED BY <2>1, <2>2, <2>3 DEF ReportedAt, Carried
  <1>10. CASE StartStep(j)
    <2>1. CASE pc[j] = "starting"
      <3>1. pc'[j] = "health" /\ UNCHANGED <<row, err>> /\ Reach(j, 4)
        BY <1>10, <2>1 DEF Inv, Types, StartStep, Goto
      <3>2. err[j] = NoError /\ row[j] = "running" /\ reached[j] = 1 .. 3
        BY <2>1 DEF Inv, Reported, ReportedAt, Active, Carried, Closing
      <3>3. reached'[j] = 1 .. 4
        BY <3>1, <3>2 DEF Inv, Types, Reach
      <3> QED BY <3>1, <3>2, <3>3 DEF ReportedAt, Carried
    <2>2. CASE pc[j] = "health"
      <3>1. pc'[j] = "route" /\ UNCHANGED <<row, err>> /\ Reach(j, 5)
        BY <1>10, <2>2 DEF Inv, Types, StartStep, Goto
      <3>2. err[j] = NoError /\ row[j] = "running" /\ reached[j] = 1 .. 4
        BY <2>2 DEF Inv, Reported, ReportedAt, Active, Carried, Closing
      <3>3. reached'[j] = 1 .. 5
        BY <3>1, <3>2 DEF Inv, Types, Reach
      <3> QED BY <3>1, <3>2, <3>3 DEF ReportedAt, Carried
    <2>3. CASE pc[j] = "route"
      <3>1. pc'[j] = "returning" /\ UNCHANGED <<row, err>> /\ Reach(j, 6)
        BY <1>10, <2>3 DEF Inv, Types, StartStep, Goto
      <3>2. err[j] = NoError /\ row[j] = "running" /\ reached[j] = 1 .. 5
        BY <2>3 DEF Inv, Reported, ReportedAt, Active, Carried, Closing
      <3>3. reached'[j] = 1 .. 6
        BY <3>1, <3>2 DEF Inv, Types, Reach
      <3> QED BY <3>1, <3>2, <3>3 DEF ReportedAt, Carried
    <2> QED BY <1>10, <2>1, <2>2, <2>3 DEF StartStep
  <1>11. CASE StepFails(j)
    <2>1. /\ pc[j] \in DOMAIN FailureAt /\ pc'[j] = "returning" /\ err'[j] = FailureAt[pc[j]]
          /\ UNCHANGED <<row, reached>>
      BY <1>11 DEF Inv, Types, StepFails, Goto
    <2>2. /\ pc[j] \notin Closing \cup {"new"} /\ err'[j] # NoError
          /\ \/ err'[j] = Unclassified
             \/ FailedStep(err'[j][1], err'[j][2]) = Carried(pc[j]) + 1
      BY <2>1, FailureFacts DEF Closing
    <2>3. reached[j] = 1 .. Carried(pc[j]) /\ row[j] = "running"
      BY <2>2 DEF Inv, Reported, ReportedAt, Active, Closing
    <2>4. Carried(pc[j]) \in Nat
      BY DEF Carried
    <2>5. err'[j] = Unclassified \/ Raised(j)'
      BY <2>1, <2>2, <2>3, <2>4 DEF Raised
    <2> QED BY <2>1, <2>2, <2>3, <2>5 DEF ReportedAt, Closing
  <1>12. CASE Return(j)
    <2>1. /\ pc[j] = "returning" /\ pc'[j] = "finishing" /\ UNCHANGED <<row, reached>>
          /\ err'[j] = err[j] \/ err'[j] = Unclassified
      BY <1>12 DEF Inv, Types, Return, Goto
    <2>2. CASE err'[j] = err[j]
      BY <2>1, <2>2 DEF Inv, Reported, ReportedAt, Active, Carried, Closing, Raised
    <2>3. CASE err'[j] = Unclassified
      <3>1. row[j] = "running"
        BY <2>1 DEF Inv, Reported, ReportedAt, Active
      <3>2. Unclassified # NoError
        BY DEF NoError, Unclassified
      <3> QED BY <2>1, <2>3, <3>1, <3>2 DEF ReportedAt, Active, Closing
    <2> QED BY <2>1, <2>2, <2>3
  <1>13. CASE FinishDeployment(j)
    <2>1. pc[j] = "finishing" /\ pc'[j] \in {"notifying", "done"} /\ UNCHANGED <<err, reached>>
      BY <1>13 DEF Inv, Types, FinishDeployment, Goto
    <2>2. row'[j] \in {"cancelled", IF err[j] = NoError THEN "successful" ELSE "failed"}
      BY <1>13 DEF Inv, Types, FinishDeployment
    <2> QED BY <2>1, <2>2 DEF Inv, Reported, ReportedAt, Active, Carried, Closing, Raised
  <1>14. CASE NoteRollback(j)
    <2>1. pc[j] = "notifying" /\ pc'[j] = "done" /\ UNCHANGED <<row, err, reached>>
      BY <1>14 DEF Inv, Types, NoteRollback, Goto
    <2> QED BY <2>1 DEF Inv, Reported, ReportedAt, Active, Carried, Closing, Raised
  <1>15. CASE OpenLog(j)
    <2>1. pc[j] = "claimed" /\ pc'[j] = "preflight" /\ UNCHANGED <<row, err, reached>>
      BY <1>15 DEF Inv, Types, OpenLog, Goto
    <2> QED BY <2>1 DEF Inv, Reported, ReportedAt, Active, Carried, Closing, Raised
  <1>16. CASE OpenLogFails(j)
    <2>1. pc[j] = "claimed" /\ pc'[j] = "done" /\ row'[j] = "failed" /\ UNCHANGED <<err, reached>>
      BY <1>16 DEF Inv, Types, OpenLogFails, Goto
    <2>2. err[j] = NoError
      BY <2>1 DEF Inv, Reported, ReportedAt, Closing
    <2> QED BY <2>1, <2>2 DEF ReportedAt, Active
  <1>17. CASE InvalidName(j)
    <2>1. /\ pc[j] = "preflight" /\ pc'[j] = "returning" /\ err'[j] = Unclassified
          /\ UNCHANGED row
      BY <1>17 DEF Inv, Types, InvalidName, Goto
    <2>2. row[j] = "running"
      BY <2>1 DEF Inv, Reported, ReportedAt, Active
    <2>3. Unclassified # NoError
      BY DEF NoError, Unclassified
    <2> QED BY <2>1, <2>2, <2>3 DEF ReportedAt, Closing
  <1> QED
    BY <1>1, <1>2, <1>3, <1>4, <1>5, <1>6, <1>7, <1>8, <1>9, <1>10, <1>11, <1>12, <1>13, <1>14,
       <1>15, <1>16, <1>17 DEF Deploy

\* The log only grows, within its limit.
LEMMA RowLogged ==
    ASSUME Inv, NEW j \in Jobs, Claim(j) \/ Deploy(j)
    PROVE  LoggedAt(j)'
  <1>1. CASE Claim(j)
    BY <1>1 DEF Inv, Logged, LoggedAt, Claim, logs
  <1>2. CASE SelectRuntime(j)
    <2>1. \E n \in Nat : Write(j, n)
      BY <1>2 DEF SelectRuntime
    <2> QED BY <2>1, WriteFacts DEF Inv, Types, Logged, LoggedAt
  <1>3. CASE CloneRepository(j)
    BY <1>3 DEF Inv, Logged, LoggedAt, CloneRepository, logs
  <1>4. CASE Fetch(j)
    BY <1>4 DEF Inv, Logged, LoggedAt, Fetch, logs
  <1>5. CASE Checkout(j)
    BY <1>5 DEF Inv, Logged, LoggedAt, Checkout, logs
  <1>6. CASE SourceEvidence(j)
    <2>1. \E n \in Nat : Write(j, n)
      BY <1>6 DEF SourceEvidence
    <2> QED BY <2>1, WriteFacts DEF Inv, Types, Logged, LoggedAt
  <1>7. CASE WriteIgnore(j)
    BY <1>7 DEF Inv, Logged, LoggedAt, WriteIgnore, logs
  <1>8. CASE GeneratedDockerfile(j)
    BY <1>8 DEF Inv, Logged, LoggedAt, GeneratedDockerfile, logs
  <1>9. CASE Build(j)
    <2>1. \E n \in Nat : Write(j, n)
      BY <1>9 DEF Build
    <2> QED BY <2>1, WriteFacts DEF Inv, Types, Logged, LoggedAt
  <1>10. CASE StartStep(j)
    <2>1. \E n \in Nat : Write(j, n)
      BY <1>10 DEF StartStep
    <2> QED BY <2>1, WriteFacts DEF Inv, Types, Logged, LoggedAt
  <1>11. CASE StepFails(j)
    BY <1>11 DEF Inv, Logged, LoggedAt, StepFails, logs
  <1>12. CASE Return(j)
    <2>1. \E n \in Nat : Write(j, n)
      BY <1>12 DEF Return
    <2> QED BY <2>1, WriteFacts DEF Inv, Types, Logged, LoggedAt
  <1>13. CASE FinishDeployment(j)
    BY <1>13 DEF Inv, Types, Logged, LoggedAt, FinishDeployment
  <1>14. CASE NoteRollback(j)
    <2>1. \E n \in Nat : Write(j, n)
      BY <1>14 DEF NoteRollback
    <2> QED BY <2>1, WriteFacts DEF Inv, Types, Logged, LoggedAt
  <1>15. CASE OpenLog(j)
    BY <1>15 DEF Inv, Logged, LoggedAt, OpenLog, logs
  <1>16. CASE OpenLogFails(j)
    BY <1>16 DEF Inv, Logged, LoggedAt, OpenLogFails, logs
  <1>17. CASE InvalidName(j)
    <2>1. \E n \in Nat : Write(j, n)
      BY <1>17 DEF InvalidName
    <2> QED BY <2>1, WriteFacts DEF Inv, Types, Logged, LoggedAt
  <1> QED
    BY <1>1, <1>2, <1>3, <1>4, <1>5, <1>6, <1>7, <1>8, <1>9, <1>10, <1>11, <1>12, <1>13, <1>14,
       <1>15, <1>16, <1>17 DEF Deploy

\* A .dockerignore is written where there is none, or not at all.
LEMMA WriteIgnoreFacts ==
    ASSUME Inv, NEW j \in Jobs, WriteIgnore(j)
    PROVE  /\ pc[j] = "ignoring" /\ UNCHANGED <<source, tree, app, crashes>>
           /\ \/ ignore' = ignore /\ managed' = [managed EXCEPT ![j] = FALSE]
              \/ /\ ignore[app[j]] = "none" /\ ignore' = [ignore EXCEPT ![app[j]] = "managed"]
                 /\ managed' = [managed EXCEPT ![j] = TRUE]
  <1>1. PICK written \in {FALSE, ignore[app[j]] = "none"} :
           /\ ignore' = [ignore EXCEPT ![app[j]] = IF written THEN "managed" ELSE ignore[app[j]]]
           /\ managed' = [managed EXCEPT ![j] = written]
    BY DEF WriteIgnore
  <1>2. pc[j] = "ignoring" /\ UNCHANGED <<source, tree, app, crashes>>
    BY DEF WriteIgnore
  <1>3. CASE written = FALSE
    BY <1>1, <1>2, <1>3 DEF Inv, Types
  <1>4. CASE written = TRUE /\ ignore[app[j]] = "none"
    BY <1>1, <1>2, <1>4
  <1> QED BY <1>1, <1>3, <1>4

\* Deploy leaves the tree of a plain directory alone, and its .dockerignore too.
LEMMA RowInPlace ==
    ASSUME Inv, NEW j \in Jobs, Claim(j) \/ Deploy(j)
    PROVE  InPlace'
  <1>1. CASE Claim(j)
    BY <1>1 DEF Inv, InPlace, Claim, copies
  <1>2. CASE SelectRuntime(j)
    BY <1>2 DEF Inv, InPlace, SelectRuntime, copies
  <1>3. CASE CloneRepository(j)
    BY <1>3 DEF Inv, InPlace, CloneRepository
  <1>4. CASE Fetch(j)
    BY <1>4 DEF Inv, InPlace, Fetch, copies
  <1>5. CASE Checkout(j)
    BY <1>5 DEF Inv, Exclusive, InPlace, Checkout
  <1>6. CASE SourceEvidence(j)
    BY <1>6 DEF Inv, InPlace, SourceEvidence, copies
  <1>7. CASE WriteIgnore(j)
    BY <1>7, WriteIgnoreFacts, LocalAssumption DEF Inv, Types, InPlace
  <1>8. CASE GeneratedDockerfile(j)
    BY <1>8 DEF Inv, InPlace, GeneratedDockerfile, copies
  <1>9. CASE Build(j)
    BY <1>9 DEF Inv, InPlace, Build, copies
  <1>10. CASE StartStep(j)
    BY <1>10 DEF Inv, InPlace, StartStep, copies
  <1>11. CASE StepFails(j)
    BY <1>11 DEF Inv, Exclusive, InPlace, StepFails, Torn
  <1>12. CASE Return(j)
    BY <1>12 DEF Inv, InPlace, Ignored, IgnoredAt, Return
  <1>13. CASE FinishDeployment(j)
    BY <1>13 DEF Inv, InPlace, FinishDeployment, copies
  <1>14. CASE NoteRollback(j)
    BY <1>14 DEF Inv, InPlace, NoteRollback, copies
  <1>15. CASE OpenLog(j)
    BY <1>15 DEF Inv, InPlace, OpenLog, copies
  <1>16. CASE OpenLogFails(j)
    BY <1>16 DEF Inv, InPlace, OpenLogFails, copies
  <1>17. CASE InvalidName(j)
    BY <1>17 DEF Inv, InPlace, InvalidName, copies
  <1> QED
    BY <1>1, <1>2, <1>3, <1>4, <1>5, <1>6, <1>7, <1>8, <1>9, <1>10, <1>11, <1>12, <1>13, <1>14,
       <1>15, <1>16, <1>17 DEF Deploy

\* A row removes the file it wrote.
LEMMA RowTidy ==
    ASSUME Inv, NEW j \in Jobs, Claim(j) \/ Deploy(j)
    PROVE  Tidy'
  <1>1. CASE Claim(j)
    BY <1>1 DEF Inv, Tidy, Claim, copies
  <1>2. CASE SelectRuntime(j)
    BY <1>2 DEF Inv, Tidy, SelectRuntime, copies
  <1>3. CASE CloneRepository(j)
    BY <1>3 DEF Inv, Tidy, CloneRepository
  <1>4. CASE Fetch(j)
    BY <1>4 DEF Inv, Tidy, Fetch, copies
  <1>5. CASE Checkout(j)
    BY <1>5 DEF Inv, Tidy, Checkout, IgnoreAt
  <1>6. CASE SourceEvidence(j)
    BY <1>6 DEF Inv, Tidy, SourceEvidence, copies
  <1>7. CASE WriteIgnore(j)
    <2>1. ~managed[j] /\ app[j] \in Apps /\ UNCHANGED <<app, crashes>>
      <3>1. pc[j] = "ignoring" /\ UNCHANGED <<app, crashes>>
        BY <1>7, WriteIgnoreFacts
      <3> QED BY <3>1 DEF Inv, Types, Ignored, IgnoredAt
    <2>2. CASE ignore' = ignore /\ managed' = [managed EXCEPT ![j] = FALSE]
      BY <2>1, <2>2 DEF Inv, Tidy
    <2>3. CASE /\ ignore' = [ignore EXCEPT ![app[j]] = "managed"]
               /\ managed' = [managed EXCEPT ![j] = TRUE]
      <3>1. managed'[j] /\ \A i \in Jobs : managed[i] => managed'[i]
        BY <2>3 DEF Inv, Types
      <3>2. \A a \in Apps : a # app[j] => ignore'[a] = ignore[a]
        BY <2>3
      <3> QED BY <2>1, <3>1, <3>2 DEF Inv, Tidy
    <2> QED BY <1>7, <2>2, <2>3, WriteIgnoreFacts
  <1>8. CASE GeneratedDockerfile(j)
    BY <1>8 DEF Inv, Tidy, GeneratedDockerfile, copies
  <1>9. CASE Build(j)
    BY <1>9 DEF Inv, Tidy, Build, copies
  <1>10. CASE StartStep(j)
    BY <1>10 DEF Inv, Tidy, StartStep, copies
  <1>11. CASE StepFails(j)
    BY <1>11 DEF Inv, Tidy, StepFails
  <1>12. CASE Return(j)
    BY <1>12 DEF Inv, Types, Tidy, Return
  <1>13. CASE FinishDeployment(j)
    BY <1>13 DEF Inv, Tidy, FinishDeployment, copies
  <1>14. CASE NoteRollback(j)
    BY <1>14 DEF Inv, Tidy, NoteRollback, copies
  <1>15. CASE OpenLog(j)
    BY <1>15 DEF Inv, Tidy, OpenLog, copies
  <1>16. CASE OpenLogFails(j)
    BY <1>16 DEF Inv, Tidy, OpenLogFails, copies
  <1>17. CASE InvalidName(j)
    BY <1>17 DEF Inv, Tidy, InvalidName, copies
  <1> QED
    BY <1>1, <1>2, <1>3, <1>4, <1>5, <1>6, <1>7, <1>8, <1>9, <1>10, <1>11, <1>12, <1>13, <1>14,
       <1>15, <1>16, <1>17 DEF Deploy

\* Whoever watches a row sees the log grow and the row stay finished.
LEMMA RowStreamed ==
    ASSUME Inv, NEW j \in Jobs, Claim(j) \/ Deploy(j)
    PROVE  Streamed'
  <1>1. OwnRow(j)
    BY RowFrame
  <1>2. viewer' = viewer /\ viewer \in [job : Jobs, at : {"row", "file", "ended", "lost"},
                   status : {"queued", "running", "successful", "failed", "cancelled"}, sent : Nat]
    BY <1>1 DEF OwnRow, Inv, Types
  <1>3. row[j] \in {"successful", "failed"} => row'[j] = row[j] /\ atEnd'[j] = atEnd[j]
    <2>1. pc[j] \in {"notifying", "done"} \/ row[j] \notin {"successful", "failed"}
      BY DEF Inv, Types, Reported, ReportedAt, Active
    <2>2. CASE NoteRollback(j)
      BY <2>2 DEF NoteRollback, Write
    <2>3. CASE StepFails(j)
      BY <2>1, <2>3, FailureFacts DEF StepFails
    <2> QED BY <2>1, <2>2, <2>3 DEF Deploy, Claim, SelectRuntime, CloneRepository, Fetch,
               Checkout, SourceEvidence, WriteIgnore, GeneratedDockerfile, Build, StartStep,
               Return, FinishDeployment, OpenLog, OpenLogFails, InvalidName
  <1>4. row[viewer.job] \in {"successful", "failed"} =>
           row'[viewer.job] = row[viewer.job] /\ atEnd'[viewer.job] = atEnd[viewer.job]
    <2>1. viewer.job \in Jobs
      BY <1>2
    <2> QED BY <1>1, <1>3, <2>1 DEF OwnRow
  <1> QED BY <1>2, <1>4 DEF Inv, Streamed

\* The steps of a row keep the invariant.
LEMMA RowStep ==
    ASSUME Inv, NEW j \in Jobs, Claim(j) \/ Deploy(j)
    PROVE  Inv'
  <1>1. OwnRow(j)
    BY RowFrame
  <1>2. Sourced' /\ Ignored' /\ Reported' /\ Logged'
    BY <1>1, OtherRows, RowSourced, RowIgnored, RowReported, RowLogged DEF Sourced, Ignored,
       Reported, Logged
  <1> QED BY <1>2, RowTypes, RowExclusive, RowInPlace, RowTidy, RowStreamed DEF Inv

\* A push changes no working copy, and an edit only the directory itself: a .dockerignore
\* that was written for a deployment stays that one's.
LEMMA MoveStep ==
    ASSUME Inv, NEW a \in Apps, SourcesMove(a)
    PROVE  Inv'
  <1>1. /\ UNCHANGED <<app, pc, row, fetched, revision, evidence, image, managed, err, reached,
                       output, kept, atEnd, viewer, crashes>>
        /\ source[a] \in 1 .. Revisions /\ source[a] < Revisions
        /\ source' = [source EXCEPT ![a] = source[a] + 1]
    BY DEF Inv, Types, SourcesMove, results, logs
  <1>2. source' \in [Apps -> 1 .. Revisions] /\ source[a] + 1 \in Trees
    BY <1>1, RevisionsAssumption DEF Inv, Types, Trees
  <1>3. Exclusive' /\ Reported' /\ Logged' /\ Streamed'
    BY <1>1 DEF Inv, Exclusive, Reported, ReportedAt, Logged, LoggedAt, Streamed, Active, Raised
  <1>4. CASE a \notin Local
    <2>1. UNCHANGED <<tree, ignore>>
      BY <1>4 DEF SourcesMove
    <2>2. Types'
      BY <1>1, <1>2, <2>1 DEF Inv, Types
    <2>3. Sourced' /\ Ignored' /\ Tidy'
      BY <1>1, <2>1 DEF Inv, Sourced, SourcedAt, Ignored, IgnoredAt, Tidy
    <2>4. InPlace'
      BY <1>1, <1>4, <2>1 DEF Inv, InPlace
    <2> QED BY <1>3, <2>2, <2>3, <2>4 DEF Inv
  <1>5. CASE a \in Local
    <2>1. /\ Running(a) = {} \/ (source[a] \in OwnIgnore <=> source[a] + 1 \in OwnIgnore)
          /\ tree' = [tree EXCEPT ![a] = source[a] + 1]
          /\ ignore' = [ignore EXCEPT ![a] = IgnoreAt(source[a] + 1, ignore[a])]
      BY <1>5 DEF SourcesMove
    <2>2. /\ IgnoreAt(source[a] + 1, ignore[a]) \in {"none", "own", "managed"}
          /\ IgnoreAt(source[a] + 1, ignore[a]) = "own" <=> source[a] + 1 \in OwnIgnore
          /\ IgnoreAt(source[a] + 1, ignore[a]) = "managed" => ignore[a] = "managed"
      BY DEF Inv, Types, IgnoreAt
    <2>3. Types'
      BY <1>1, <1>2, <2>1, <2>2 DEF Inv, Types
    <2>4. InPlace'
      BY <1>1, <2>1, <2>2 DEF Inv, Types, InPlace
    <2>5. Sourced'
      BY <1>1, <1>5, <2>1 DEF Inv, Sourced, SourcedAt
    <2>6. ASSUME NEW j \in Jobs, managed[j], app[j] = a PROVE ignore'[a] = "managed"
      <3>1. ignore[a] = "managed" /\ Running(a) # {}
        BY <2>6 DEF Inv, Ignored, IgnoredAt, Running
      <3>2. source[a] \notin OwnIgnore
        BY <1>5, <3>1 DEF Inv, InPlace
      <3> QED BY <2>1, <3>1, <3>2 DEF IgnoreAt
    <2>7. Ignored'
      <3> SUFFICES ASSUME NEW j \in Jobs PROVE IgnoredAt(j)'
        BY DEF Ignored
      <3>1. CASE app[j] = a
        BY <1>1, <1>5, <2>4, <2>6, <3>1 DEF Inv, InPlace, Ignored, IgnoredAt
      <3>2. CASE app[j] # a
        BY <1>1, <2>1, <3>2 DEF Inv, Ignored, IgnoredAt
      <3> QED BY <3>1, <3>2
    <2>8. Tidy'
      BY <1>1, <2>1, <2>2 DEF Inv, Tidy
    <2> QED BY <1>3, <2>3, <2>4, <2>5, <2>7, <2>8 DEF Inv
  <1> QED BY <1>4, <1>5

\* Nobody but the browser notices its polling, and who read a finished row reads the
\* whole log.
LEMMA PollStep ==
    ASSUME Inv, PollRow \/ PollFile
    PROVE  Inv'
  <1>1. UNCHANGED <<source, clone, tree, ignore, app, pc, row, fetched, revision, evidence, image,
                    managed, err, reached, output, kept, atEnd, crashes>>
    BY DEF PollRow, PollFile, copies, results, logs
  <1>2. Exclusive' /\ Sourced' /\ Ignored' /\ InPlace' /\ Tidy' /\ Reported' /\ Logged'
    BY <1>1 DEF Inv, Exclusive, Sourced, SourcedAt, Ignored, IgnoredAt, InPlace, Tidy, Reported,
       ReportedAt, Logged, LoggedAt, Active, Raised
  <1>3. CASE PollRow
    <2>1. Types'
      BY <1>1, <1>3 DEF Inv, Types, PollRow
    <2>2. Streamed'
      BY <1>3 DEF Inv, Streamed, PollRow
    <2> QED BY <1>2, <2>1, <2>2 DEF Inv
  <1>4. CASE PollFile
    <2>1. Types'
      BY <1>1, <1>4 DEF Inv, Types, PollFile
    <2>2. /\ LoggedAt(viewer.job) /\ kept[viewer.job] \in Nat /\ output[viewer.job] \in Nat
          /\ atEnd[viewer.job] \in Nat
      BY DEF Inv, Types, Logged
    <2>3. /\ viewer'.job = viewer.job /\ viewer'.status = viewer.status
          /\ viewer'.sent = kept[viewer.job]
          /\ viewer.at = "file" /\ viewer'.at \in {"ended", "row"}
          /\ viewer'.at = "ended" => viewer.status \in {"successful", "failed"}
      BY <1>4 DEF PollFile
    <2>4. viewer.status \in {"successful", "failed"} => row[viewer.job] = viewer.status
      BY <2>3 DEF Inv, Streamed
    <2>5. Streamed'
      BY <1>1, <2>2, <2>3, <2>4 DEF Streamed, LoggedAt
    <2> QED BY <1>2, <2>1, <2>5 DEF Inv
  <1> QED BY <1>3, <1>4

\* After a crash no row is active and nobody watches; what was half done is torn.
LEMMA CrashStep ==
    ASSUME Inv, Crash
    PROVE  Inv'
  <1>1. /\ UNCHANGED <<source, ignore, app, fetched, revision, evidence, image, reached, output,
                       kept, atEnd>>
        /\ crashes' = crashes + 1
        /\ pc' = [j \in Jobs |-> IF Active(j) THEN "done" ELSE pc[j]]
        /\ managed' = [j \in Jobs |-> FALSE]
    BY DEF Crash, Active, results, logs
  <1>2. \A j \in Jobs : /\ pc'[j] = IF Active(j) THEN "done" ELSE pc[j]
                        /\ row'[j] = IF Active(j) /\ row[j] = "running" THEN "failed" ELSE row[j]
                        /\ err'[j] = IF Active(j) /\ row[j] = "running"
                                     THEN Restarted ELSE err[j]
    BY DEF Crash, Active
  <1>3. tree' = [a \in Apps |-> IF \E j \in Jobs : Active(j) /\ app[j] = a /\ pc[j] = "checkout"
                               THEN 0 ELSE tree[a]]
    BY DEF Crash, Active
  <1>4. viewer' = IF viewer.at = "ended" THEN viewer ELSE [viewer EXCEPT !.at = "lost"]
    BY DEF Crash
  <1>5. Types'
    <2>1. tree' \in [Apps -> Trees]
      BY <1>3, RevisionsAssumption DEF Inv, Types, Trees
    <2>2. /\ row' \in [Jobs -> {"queued", "running", "successful", "failed", "cancelled"}]
          /\ DOMAIN err' = Jobs
      BY DEF Inv, Types, Crash
    <2>3. viewer' \in [job : Jobs, at : {"row", "file", "ended", "lost"},
                   status : {"queued", "running", "successful", "failed", "cancelled"}, sent : Nat]
      BY <1>4 DEF Inv, Types
    <2> QED BY <1>1, <2>1, <2>2, <2>3 DEF Inv, Types
  <1>6. Exclusive' /\ Sourced' /\ Ignored'
    BY <1>1 DEF Inv, Exclusive, Active, Sourced, SourcedAt, Ignored, IgnoredAt
  <1>7. InPlace'
    BY <1>1, <1>3, LocalAssumption DEF Inv, InPlace, Exclusive
  <1>8. Tidy'
    BY <1>1 DEF Inv, Types, Tidy
  <1>9. Reported'
    <2> SUFFICES ASSUME NEW j \in Jobs PROVE ReportedAt(j)'
      BY DEF Reported
    <2>1. CASE ~Active(j)
      BY <1>1, <1>2, <2>1 DEF Inv, Reported, ReportedAt, Active, Raised
    <2>2. CASE Active(j) /\ row[j] = "running"
      <3>1. pc'[j] = "done" /\ row'[j] = "failed" /\ err'[j] = Restarted
        BY <1>2, <2>2
      <3>2. err'[j] # NoError
        BY <3>1 DEF NoError, Restarted
      <3> QED BY <3>1, <3>2 DEF ReportedAt, Active, Closing
    <2>3. CASE Active(j) /\ row[j] # "running"
      <3>1. /\ pc[j] = "notifying" /\ pc'[j] = "done" /\ row'[j] = row[j] /\ err'[j] = err[j]
            /\ reached'[j] = reached[j]
        BY <1>1, <1>2, <2>3 DEF Inv, Reported, ReportedAt
      <3> QED BY <3>1 DEF Inv, Reported, ReportedAt, Active, Raised, Carried, Closing
    <2> QED BY <2>1, <2>2, <2>3
  <1>10. Logged'
    <2> SUFFICES ASSUME NEW j \in Jobs PROVE LoggedAt(j)'
      BY DEF Logged
    <2> QED BY <1>1 DEF Inv, Logged, LoggedAt
  <1>11. Streamed'
    BY <1>1, <1>2, <1>4 DEF Inv, Types, Streamed
  <1> QED BY <1>5, <1>6, <1>7, <1>8, <1>9, <1>10, <1>11 DEF Inv

-----------------------------------------------------------------------------
\* Nothing is cloned, built or logged yet.
LEMMA InitInv == Init => Inv
  <1> SUFFICES ASSUME Init PROVE Inv
    OBVIOUS
  <1>1. PICK b \in Apps : app = [j \in Jobs |-> b]
    BY DEF Init
  <1>2. PICK w \in Watched : viewer = [job |-> w, at |-> "row", status |-> "queued", sent |-> 0]
    BY DEF Init
  <1>3. Types
    <2>1. viewer \in [job : Jobs, at : {"row", "file", "ended", "lost"},
                   status : {"queued", "running", "successful", "failed", "cancelled"}, sent : Nat]
      BY <1>2, WatchedAssumption
    <2>2. tree \in [Apps -> Trees] /\ source \in [Apps -> 1 .. Revisions]
      BY RevisionsAssumption DEF Init, Trees
    <2>3. 0 \in Trees
      BY RevisionsAssumption DEF Trees
    <2> QED BY <2>1, <2>2, <2>3 DEF Init, Types
  <1>4. Exclusive /\ Sourced /\ Ignored
    BY DEF Init, Exclusive, Active, Sourced, SourcedAt, Ignored, IgnoredAt
  <1>5. InPlace /\ Tidy
    BY LocalAssumption DEF Init, InPlace, Tidy
  <1>6. Reported
    <2> QED BY DEF Init, Reported, ReportedAt, Active, Carried
  <1>7. Logged /\ Streamed
    BY LimitAssumption DEF Init, Logged, LoggedAt, Streamed
  <1> QED BY <1>3, <1>4, <1>5, <1>6, <1>7 DEF Inv

\* A step that changes nothing.
LEMMA Stuttering == Inv /\ UNCHANGED vars => Inv'
  BY DEF Inv, Types, Exclusive, Active, Sourced, SourcedAt, Ignored, IgnoredAt, InPlace, Tidy,
     Reported, ReportedAt, Raised, Logged, LoggedAt, Streamed, vars, copies, results, logs

\* The invariant is inductive.
THEOREM Invariance == Spec => []Inv
  <1>1. Inv /\ [Next]_vars => Inv'
    BY RowStep, MoveStep, PollStep, CrashStep, Stuttering DEF Next
  <1> QED BY <1>1, InitInv, PTL DEF Spec

\* Whatever earlier deployments, failures and crashes left in the working copy, the image of a
\* release from Git was built from the tree and the revision its evidence names.
THEOREM BuiltEvidence == Spec => []EvidenceIsBuilt
  <1>1. Inv => EvidenceIsBuilt
    BY DEF Inv, Sourced, SourcedAt, EvidenceIsBuilt
  <1> QED BY <1>1, Invariance, PTL

\* An image is built under its revision's own .dockerignore or under none of another's, and
\* without a crash no managed file outlives its deployment.
THEOREM RightIgnore == Spec => []IgnoreIsRight
  <1>1. Inv => IgnoreIsRight
    BY DEF Inv, Ignored, IgnoredAt, Tidy, Running, IgnoreIsRight
  <1> QED BY <1>1, Invariance, PTL

\* The page shows a failure that Deploy classified at the step where it happened, and no
\* step as done that was not carried out.
THEOREM ShownFailure == Spec => []FailureIsShown
  <1>1. Inv => FailureIsShown
    <2> SUFFICES ASSUME Inv, NEW j \in Jobs, row[j] \in {"successful", "failed"},
                        ~Unexplained(j), NEW step \in 1 .. 6
                 PROVE  /\ PipelineStatus(j)[step] = "done" => step \in reached[j]
                        /\ PipelineStatus(j)[step] = "failed" => step \notin reached[j]
      BY DEF FailureIsShown
    <2>1. pc[j] \in {"notifying", "done"} /\ ReportedAt(j)
      BY DEF Inv, Reported, ReportedAt, Active
    <2>2. CASE row[j] = "successful"
      <3>1. reached[j] = 1 .. 6
        BY <2>1, <2>2 DEF ReportedAt, Carried
      <3>2. PipelineStatus(j)[step] = "done"
        BY <2>2 DEF PipelineStatus
      <3> QED BY <3>1, <3>2
    <2>3. CASE row[j] = "failed"
      <3> DEFINE failed == FailedStep(err[j][1], err[j][2])
      <3>1. reached[j] = 1 .. failed - 1
        BY <2>1, <2>3 DEF ReportedAt, Raised, Unexplained
      <3>2. failed \in 1 .. 6
        BY DEF FailedStep
      <3>3. PipelineStatus(j)[step] = IF step < failed THEN "done"
                                      ELSE IF step = failed THEN "failed" ELSE "pending"
        BY <2>3 DEF PipelineStatus
      <3> HIDE DEF failed
      <3> QED BY <3>1, <3>2, <3>3
    <2> QED BY <2>2, <2>3
  <1> QED BY <1>1, Invariance, PTL

\* A log stream that ended by itself has shown what the row had written when it was finished,
\* up to the limit of the log: the safety half of StreamDelivers.
THEOREM CompleteStream == Spec => []EndedStreamIsComplete
  <1>1. Inv => EndedStreamIsComplete
    <2> SUFFICES ASSUME Inv, viewer.at = "ended"
                 PROVE  viewer.sent \in Min({atEnd[viewer.job], Limit}) .. Limit
      BY DEF EndedStreamIsComplete
    <2>1. viewer.job \in Jobs /\ viewer.sent \in Nat
      BY DEF Inv, Types
    <2>2. atEnd[viewer.job] \in Nat
      BY DEF Inv, Types
    <2>3. Min({atEnd[viewer.job], Limit}) =
              IF atEnd[viewer.job] <= Limit THEN atEnd[viewer.job] ELSE Limit
      BY <2>2, MinOfTwo, LimitAssumption
    <2> QED BY <2>1, <2>2, <2>3, LimitAssumption DEF Inv, Streamed
  <1> QED BY <1>1, Invariance, PTL

=============================================================================
