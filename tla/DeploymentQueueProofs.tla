------------------------ MODULE DeploymentQueueProofs ------------------------
(***************************************************************************)
(* Proofs about DeploymentQueue for any applications, any number of        *)
(* workers, any number of requests and any number of crashes.              *)
(*                                                                         *)
(* ExclusiveExecution and RunningIsOwned are not inductive by themselves.  *)
(* The inductive invariant IInv relates the two halves of the state: a     *)
(* worker between its claim and its FinishDeployment holds a row that is   *)
(* running in the table and that no other worker holds (Ownership), the    *)
(* table has one active row per application (OneActive), and a process     *)
(* that is down has no worker (DownIdle).                                  *)
(*                                                                         *)
(* What the rows record (CancelHonoured, ImageProvenance,                  *)
(* NewestSuccessIsReleased, AutoRollbackBounded) rests on a second         *)
(* invariant, JInv, which is inductive relative to IInv; see the last part *)
(* of the module.                                                          *)
(***************************************************************************)
EXTENDS DeploymentQueue, SequenceTheorems, FiniteSetTheorems, TLAPS

OwnedSteps == Steps \ {"idle", "queueing", "describing"}

\* What a worker holds is a running row, and every worker holds another one.
Ownership ==
    /\ \A w \in Workers : pc[w] # "idle" => job[w] \in Ids
    /\ \A w \in Workers : Owns(w) => deployments[job[w]].status = "running"
    /\ \A v, w \in Workers : v # w /\ Owns(v) /\ Owns(w) => job[v] # job[w]

OneActive ==
    \A i, j \in Ids :
        /\ deployments[i].app = deployments[j].app
        /\ deployments[i].status \in Active
        /\ deployments[j].status \in Active
        => i = j

DownIdle == ~up => \A w \in Workers : pc[w] = "idle"

Decided == \A w \in Workers : pc[w] = "finishing" => verdict[w] # ""

IInv == TypeOK /\ Ownership /\ OneActive /\ RunningIsOwned /\ DownIdle /\ Decided

\* How an action may touch the table: not at all as far as applications and
\* statuses go, the status of one row, or a new row at the end.
Kept ==
    /\ deployments' \in Seq(Row)
    /\ Len(deployments') = Len(deployments)
    /\ \A i \in Ids : /\ deployments'[i].app = deployments[i].app
                      /\ deployments'[i].status = deployments[i].status

Moved(id, status) ==
    /\ deployments' \in Seq(Row)
    /\ Len(deployments') = Len(deployments)
    /\ \A i \in Ids : /\ deployments'[i].app = deployments[i].app
                      /\ deployments'[i].status = IF i = id THEN status
                                                  ELSE deployments[i].status

Added(a) ==
    /\ deployments' \in Seq(Row)
    /\ Len(deployments') = Len(deployments) + 1
    /\ \A i \in Ids : deployments'[i] = deployments[i]
    /\ deployments'[Len(deployments) + 1].app = a
    /\ deployments'[Len(deployments) + 1].status = "queued"

\* The restart: every running row fails.
Recovered ==
    /\ deployments' \in Seq(Row)
    /\ Len(deployments') = Len(deployments)
    /\ \A i \in Ids :
          /\ deployments'[i].app = deployments[i].app
          /\ deployments'[i].status = IF deployments[i].status = "running"
                                      THEN "failed" ELSE deployments[i].status

\* The only ways in which a step changes applications and statuses.
Lawful ==
    \/ Kept
    \/ \E a \in Apps : ~HasActive(a) /\ Added(a)
    \/ \E id \in Queued : (\A other \in Queued : id <= other) /\ Moved(id, "running")
    \/ \E id \in Queued : Moved(id, "cancelled")
    \/ \E id \in Ids, final \in Statuses \ Active :
          deployments[id].status = "running" /\ Moved(id, final)
    \/ Recovered

-----------------------------------------------------------------------------
\* The effect of an UPDATE of one row, element by element.
LEMMA ReplaceRow ==
    ASSUME TypeOK, NEW id \in Ids, NEW r \in Row,
           deployments' = [deployments EXCEPT ![id] = r]
    PROVE  /\ deployments' \in Seq(Row)
           /\ Len(deployments') = Len(deployments)
           /\ \A i \in Ids : deployments'[i] = IF i = id THEN r ELSE deployments[i]
<1>1. deployments \in Seq(Row) /\ id \in 1 .. Len(deployments)
  BY DEF TypeOK, Ids
<1>2. /\ [deployments EXCEPT ![id] = r] \in Seq(Row)
      /\ Len([deployments EXCEPT ![id] = r]) = Len(deployments)
      /\ \A i \in 1 .. Len(deployments) :
            [deployments EXCEPT ![id] = r][i] = IF i = id THEN r ELSE deployments[i]
  BY <1>1, ExceptSeq
<1> QED
  BY <1>2 DEF Ids

\* Replacing a row by one with the same application and status keeps the table.
LEMMA ReplaceKeeps ==
    ASSUME TypeOK, NEW id \in Ids, NEW r \in Row,
           r.app = deployments[id].app, r.status = deployments[id].status,
           deployments' = [deployments EXCEPT ![id] = r]
    PROVE  Kept
<1>1. /\ deployments' \in Seq(Row)
      /\ Len(deployments') = Len(deployments)
      /\ \A i \in Ids : deployments'[i] = IF i = id THEN r ELSE deployments[i]
  BY ReplaceRow
<1> QED
  BY <1>1 DEF Kept

\* Replacing a row by one with another status moves that row only.
LEMMA ReplaceMoves ==
    ASSUME TypeOK, NEW id \in Ids, NEW r \in Row,
           r.app = deployments[id].app,
           deployments' = [deployments EXCEPT ![id] = r]
    PROVE  Moved(id, r.status)
<1>1. /\ deployments' \in Seq(Row)
      /\ Len(deployments') = Len(deployments)
      /\ \A i \in Ids : deployments'[i] = IF i = id THEN r ELSE deployments[i]
  BY ReplaceRow
<1> QED
  BY <1>1 DEF Moved

\* A table that is not assigned is kept.
LEMMA UnchangedKeeps ==
    ASSUME TypeOK, deployments' = deployments
    PROVE  Kept
BY DEF TypeOK, Ids, Kept

\* The INSERT of a queued row.
LEMMA AppendAdds ==
    ASSUME TypeOK, NEW a \in Apps, NEW row \in Row, row.app = a, row.status = "queued",
           deployments' = Append(deployments, row)
    PROVE  Added(a)
<1>1. deployments \in Seq(Row)
  BY DEF TypeOK
<1>2. /\ Append(deployments, row) \in Seq(Row)
      /\ Len(Append(deployments, row)) = Len(deployments) + 1
      /\ \A i \in 1 .. Len(deployments) : Append(deployments, row)[i] = deployments[i]
      /\ Append(deployments, row)[Len(deployments) + 1] = row
  BY <1>1, AppendProperties
<1> QED
  BY <1>2 DEF Ids, Added

\* The rows that are inserted.
LEMMA NewRowIsQueued ==
    ASSUME NEW a \in Apps, NEW action \in Actions, NEW r \in Refs
    PROVE  /\ NewRow(a, action) \in Row
           /\ NewRow(a, action).app = a /\ NewRow(a, action).status = "queued"
           /\ [NewRow(a, action) EXCEPT !.ref = r] \in Row
           /\ [NewRow(a, action) EXCEPT !.ref = r].app = a
           /\ [NewRow(a, action) EXCEPT !.ref = r].status = "queued"
BY DEF NewRow, Row, Refs, Statuses, RowStages, Actions, Stages

-----------------------------------------------------------------------------
(***************************************************************************)
(* One lemma per kind of step, about everything in IInv except the types.  *)
(***************************************************************************)

Safe == Ownership /\ OneActive /\ RunningIsOwned /\ DownIdle /\ Decided

\* No worker moves and no status changes: metadata, a cancellation request,
\* a heartbeat.
LEMMA QuietStep ==
    ASSUME IInv, Kept, pc' = pc, job' = job, up' = up, verdict' = verdict
    PROVE  Safe'
BY DEF IInv, Kept, Safe, Ids, Ownership, OneActive, RunningIsOwned, DownIdle, Decided, Owns

\* A worker goes on with the row it owns.
LEMMA WorkStep ==
    ASSUME IInv, Kept, NEW w \in Workers, Owns(w), NEW s \in OwnedSteps,
           pc' = [pc EXCEPT ![w] = s], job' = job, up' = up,
           \A v \in Workers \ {w} : verdict'[v] = verdict[v],
           s = "finishing" => verdict'[w] # ""
    PROVE  Safe'
<1> USE DEF IInv, Kept, Ids, OwnedSteps
<1>1. pc \in [Workers -> Steps]
  BY DEF TypeOK
<1>2. \A v \in Workers : Owns(v)' <=> Owns(v)
  BY <1>1 DEF Owns
<1>3. Ownership'
  BY <1>1, <1>2 DEF Ownership, Owns
<1>4. OneActive'
  BY DEF OneActive
<1>5. RunningIsOwned'
  BY <1>2 DEF RunningIsOwned
<1>6. DownIdle'
  BY <1>1 DEF DownIdle, Owns
<1>7. Decided'
  BY <1>1 DEF Decided
<1> QED
  BY <1>3, <1>4, <1>5, <1>6, <1>7 DEF Safe

\* An idle worker claims a queued row.
LEMMA ClaimStep ==
    ASSUME IInv, up, NEW w \in Workers, pc[w] = "idle", NEW id \in Queued,
           Moved(id, "running"),
           pc' = [pc EXCEPT ![w] = "claimed"], job' = [job EXCEPT ![w] = id],
           up' = up, verdict' = verdict
    PROVE  Safe'
<1> USE DEF IInv, Moved, Ids
<1>1. pc \in [Workers -> Steps] /\ job \in [Workers -> Nat]
  BY DEF TypeOK
<1>2. id \in Ids /\ deployments[id].status = "queued"
  BY DEF Queued
<1>3. \A v \in Workers : Owns(v)' <=> (Owns(v) \/ v = w)
  BY <1>1 DEF Owns, Steps
<1>4. \A v \in Workers : Owns(v) => v # w /\ job[v] \in Ids /\ job[v] # id
  BY <1>2 DEF Ownership, Owns
<1>5. Ownership'
  <2>1. \A v \in Workers : pc'[v] # "idle" => job'[v] \in Ids'
    BY <1>1, <1>2 DEF Ownership
  <2>2. \A v \in Workers : Owns(v)' => deployments'[job'[v]].status = "running"
    BY <1>1, <1>2, <1>3, <1>4 DEF Ownership
  <2>3. \A u, v \in Workers : u # v /\ Owns(u)' /\ Owns(v)' => job'[u] # job'[v]
    BY <1>1, <1>3, <1>4 DEF Ownership
  <2> QED
    BY <2>1, <2>2, <2>3 DEF Ownership, Owns
<1>6. OneActive'
  BY <1>2 DEF OneActive, Active
<1>7. RunningIsOwned'
  BY <1>1, <1>2, <1>3, <1>4 DEF RunningIsOwned
<1>8. DownIdle' /\ Decided'
  BY <1>1 DEF DownIdle, Decided
<1> QED
  BY <1>5, <1>6, <1>7, <1>8 DEF Safe

\* A worker finishes the row it owns, and returns or stays for the rollback.
LEMMA FinishStep ==
    ASSUME IInv, NEW w \in Workers, Owns(w),
           NEW status \in Statuses \ Active, Moved(job[w], status),
           NEW s \in {"idle", "queueing"}, pc' = [pc EXCEPT ![w] = s],
           job' \in [Workers -> Nat],
           \A v \in Workers : v # w \/ s = "queueing" => job'[v] = job[v],
           up' = up, \A v \in Workers \ {w} : verdict'[v] = verdict[v]
    PROVE  Safe'
<1> USE DEF IInv, Moved, Ids
<1>1. pc \in [Workers -> Steps] /\ job \in [Workers -> Nat]
  BY DEF TypeOK
<1>2. job[w] \in Ids /\ deployments[job[w]].status = "running" /\ pc[w] # "idle"
  BY DEF Ownership, Owns
<1>3. \A v \in Workers : Owns(v)' <=> (Owns(v) /\ v # w)
  BY <1>1 DEF Owns, Steps
<1>4. \A v \in Workers : Owns(v) /\ v # w => job[v] # job[w] /\ job'[v] = job[v]
  BY DEF Ownership
<1>5. Ownership'
  <2>1. \A v \in Workers : pc'[v] # "idle" => job'[v] \in Ids'
    BY <1>1, <1>2 DEF Ownership
  <2>2. \A v \in Workers : Owns(v)' => deployments'[job'[v]].status = "running"
    BY <1>1, <1>3, <1>4 DEF Ownership, Owns
  <2>3. \A u, v \in Workers : u # v /\ Owns(u)' /\ Owns(v)' => job'[u] # job'[v]
    BY <1>3, <1>4 DEF Ownership
  <2> QED
    BY <2>1, <2>2, <2>3 DEF Ownership, Owns
<1>6. OneActive'
  BY <1>2 DEF OneActive, Active
<1>7. RunningIsOwned'
  <2> SUFFICES ASSUME up', NEW i \in Ids', deployments'[i].status = "running"
               PROVE  \E v \in Workers : Owns(v)' /\ job'[v] = i
    BY DEF RunningIsOwned, Owns
  <2>1. i # job[w] /\ i \in Ids /\ deployments[i].status = "running"
    BY DEF Active
  <2>2. PICK v \in Workers : Owns(v) /\ job[v] = i
    BY <2>1 DEF RunningIsOwned
  <2>3. v # w
    BY <2>1, <2>2
  <2> QED
    BY <1>3, <1>4, <2>2, <2>3
<1>8. DownIdle' /\ Decided'
  BY <1>1, <1>2 DEF DownIdle, Decided
<1> QED
  BY <1>5, <1>6, <1>7, <1>8 DEF Safe

\* A queued row is closed by the operator.
LEMMA CancelStep ==
    ASSUME IInv, NEW id \in Queued, Moved(id, "cancelled"),
           pc' = pc, job' = job, up' = up, verdict' = verdict
    PROVE  Safe'
<1> USE DEF IInv, Moved, Ids
<1>1. id \in Ids /\ deployments[id].status = "queued"
  BY DEF Queued
<1>2. Ownership'
  BY <1>1 DEF Ownership, Owns
<1>3. OneActive'
  BY <1>1 DEF OneActive, Active
<1>4. RunningIsOwned' /\ DownIdle' /\ Decided'
  BY <1>1 DEF RunningIsOwned, DownIdle, Decided, Owns
<1> QED
  BY <1>2, <1>3, <1>4 DEF Safe

\* A row is added for an application without an active one, by a request or
\* by a worker that has finished its own row.
LEMMA AddStep ==
    ASSUME IInv, NEW a \in Apps, ~HasActive(a), Added(a),
           pc' \in [Workers -> Steps], job' \in [Workers -> Nat],
           \A v \in Workers : \/ pc'[v] = pc[v] /\ job'[v] = job[v]
                              \/ /\ pc[v] = "queueing" /\ pc'[v] = "describing"
                                 /\ job'[v] = Len(deployments) + 1,
           up' = up, verdict' = verdict
    PROVE  Safe'
<1> USE DEF IInv, Added
<1>1. Len(deployments) \in Nat /\ Ids' = 1 .. (Len(deployments) + 1)
  <2>1. Len(deployments) \in Nat
    BY LenProperties DEF TypeOK
  <2> QED
    BY <2>1 DEF Ids
<1>2. \A v \in Workers : Owns(v)' <=> Owns(v)
  BY DEF Owns
<1>3. \A v \in Workers : Owns(v) => job'[v] = job[v] /\ job[v] \in Ids
  BY DEF Owns, Ownership
<1>4. Ownership'
  <2>1. \A v \in Workers : pc'[v] # "idle" => job'[v] \in Ids'
    BY <1>1 DEF Ownership, Ids
  <2>2. \A v \in Workers : Owns(v)' => deployments'[job'[v]].status = "running"
    BY <1>2, <1>3 DEF Ownership
  <2>3. \A u, v \in Workers : u # v /\ Owns(u)' /\ Owns(v)' => job'[u] # job'[v]
    BY <1>2, <1>3 DEF Ownership
  <2> QED
    BY <2>1, <2>2, <2>3 DEF Ownership, Owns
<1>5. OneActive'
  BY <1>1 DEF OneActive, HasActive, Ids
<1>6. RunningIsOwned'
  BY <1>1, <1>2, <1>3 DEF RunningIsOwned, Ids
<1>7. DownIdle' /\ Decided'
  BY DEF DownIdle, Decided
<1> QED
  BY <1>4, <1>5, <1>6, <1>7 DEF Safe

\* A worker that owns no row returns.
LEMMA ReturnStep ==
    ASSUME IInv, Kept, NEW w \in Workers, ~Owns(w),
           pc' = [pc EXCEPT ![w] = "idle"], job' = [job EXCEPT ![w] = 0],
           up' = up, verdict' = [verdict EXCEPT ![w] = ""]
    PROVE  Safe'
<1> USE DEF IInv, Kept, Ids
<1>1. /\ pc \in [Workers -> Steps] /\ job \in [Workers -> Nat]
      /\ verdict \in [Workers -> {"", "successful", "failed", "cancelled"}]
  BY DEF TypeOK
<1>2. \A v \in Workers : Owns(v)' <=> Owns(v)
  BY <1>1 DEF Owns
<1>3. \A v \in Workers : Owns(v) => job'[v] = job[v]
  BY <1>1
<1>4. Ownership'
  <2>1. \A v \in Workers : pc'[v] # "idle" => job'[v] \in Ids
    BY <1>1 DEF Ownership
  <2>2. \A v \in Workers : Owns(v)' => deployments'[job'[v]].status = "running"
    <3> SUFFICES ASSUME NEW v \in Workers, Owns(v)'
                 PROVE  deployments'[job'[v]].status = "running"
      OBVIOUS
    <3>1. Owns(v) /\ job'[v] = job[v]
      BY <1>2, <1>3
    <3>2. job[v] \in Ids /\ deployments[job[v]].status = "running"
      BY <3>1 DEF Ownership, Owns
    <3>3. deployments'[job[v]].status = deployments[job[v]].status
      BY <3>2
    <3> QED
      BY <3>1, <3>2, <3>3
  <2>3. \A u, v \in Workers : u # v /\ Owns(u)' /\ Owns(v)' => job'[u] # job'[v]
    BY <1>2, <1>3 DEF Ownership
  <2> QED
    BY <2>1, <2>2, <2>3 DEF Ownership
<1>5. OneActive'
  BY DEF OneActive
<1>6. RunningIsOwned'
  BY <1>2, <1>3 DEF RunningIsOwned
<1>7. DownIdle' /\ Decided'
  BY <1>1 DEF DownIdle, Decided
<1> QED
  BY <1>4, <1>5, <1>6, <1>7 DEF Safe

-----------------------------------------------------------------------------
(***************************************************************************)
(* What the actions assign to the table.                                   *)
(***************************************************************************)

\* Every id of the table names a row.
LEMMA RowAt ==
    ASSUME TypeOK, NEW id \in Ids
    PROVE  deployments[id] \in Row
BY ElementOfSeq DEF TypeOK, Ids

\* SetDeploymentReleaseMetadata and SetDeploymentImage keep the table.
LEMMA MetadataKeeps ==
    ASSUME TypeOK, NEW id \in Ids, NEW m \in Nat, NEW r \in Refs, NEW d \in BOOLEAN,
           deployments' = [deployments EXCEPT ![id] =
                              [@ EXCEPT !.image = m, !.ref = r, !.digest = d]]
    PROVE  Kept
<1> DEFINE row == [deployments[id] EXCEPT !.image = m, !.ref = r, !.digest = d]
<1>1. deployments[id] \in Row
  BY RowAt
<1>2. row \in Row /\ row.app = deployments[id].app /\ row.status = deployments[id].status
  BY <1>1 DEF Row
<1>3. deployments' = [deployments EXCEPT ![id] = row]
  OBVIOUS
<1> HIDE DEF row
<1> QED
  BY <1>2, <1>3, ReplaceKeeps

\* The metadata UPDATE of a request keeps the table.
LEMMA DescribeKeeps ==
    ASSUME TypeOK, NEW id \in Ids, NEW r \in Refs,
           deployments' = [deployments EXCEPT ![id] = [@ EXCEPT !.ref = r, !.digest = FALSE]]
    PROVE  Kept
<1> DEFINE row == [deployments[id] EXCEPT !.ref = r, !.digest = FALSE]
<1>1. deployments[id] \in Row
  BY RowAt
<1>2. row \in Row /\ row.app = deployments[id].app /\ row.status = deployments[id].status
  BY <1>1 DEF Row
<1>3. deployments' = [deployments EXCEPT ![id] = row]
  OBVIOUS
<1> HIDE DEF row
<1> QED
  BY <1>2, <1>3, ReplaceKeeps

\* A statement that assigns a status moves its row.
LEMMA StatusMoves ==
    ASSUME TypeOK, NEW id \in Ids, NEW status \in Statuses,
           deployments' = [deployments EXCEPT ![id].status = status]
    PROVE  Moved(id, status)
<1> DEFINE row == [deployments[id] EXCEPT !.status = status]
<1>1. deployments[id] \in Row
  BY RowAt
<1>2. row \in Row /\ row.app = deployments[id].app /\ row.status = status
  BY <1>1 DEF Row
<1>3. deployments' = [deployments EXCEPT ![id] = row]
  OBVIOUS
<1> HIDE DEF row
<1> QED
  BY <1>2, <1>3, ReplaceMoves

\* FinishDeployment moves its row to a final status.
LEMMA FinishMoves ==
    ASSUME TypeOK, NEW id \in Ids, NEW status \in {"successful", "failed", "cancelled"},
           FinishDeployment(id, status)
    PROVE  \E final \in Statuses \ Active : Moved(id, final)
<1> DEFINE final == IF deployments[id].cancel THEN "cancelled" ELSE status
<1>1. final \in Statuses \ Active
  BY DEF Statuses, Active
<1>2. deployments' = [deployments EXCEPT ![id].status = final]
  BY DEF FinishDeployment
<1> HIDE DEF final
<1>3. Moved(id, final)
  BY <1>1, <1>2, StatusMoves
<1> QED
  BY <1>1, <1>3

\* The types, once the table and the locals of the workers are known.
LEMMA TypesFollow ==
    ASSUME TypeOK, Kept \/ (\E id \in Ids, s \in Statuses : Moved(id, s)),
           describing' \subseteq describing, up' \in BOOLEAN, crashes' \in Nat,
           pc' \in [Workers -> Steps], job' \in [Workers -> Nat],
           ref' \in [Workers -> Refs], image' \in [Workers -> Nat],
           err' \in [Workers -> Stages \cup {""}],
           verdict' \in [Workers -> {"", "successful", "failed", "cancelled"}],
           heartbeat' \in [Workers -> {"off", "waiting", "failed"}],
           stopped' \in [Workers -> BOOLEAN], released' \in [Apps -> Nat]
    PROVE  TypeOK'
<1>1. deployments' \in Seq(Row) /\ Ids' = Ids
  BY DEF Kept, Moved, Ids
<1> QED
  BY <1>1 DEF TypeOK

\* The types after an INSERT.
LEMMA TypesAfterInsert ==
    ASSUME TypeOK, NEW a \in Apps, Added(a), NEW r \in Refs,
           \/ describing' = describing
           \/ describing' = describing \cup {[id |-> Len(deployments) + 1, ref |-> r]},
           pc' \in [Workers -> Steps], job' \in [Workers -> Nat],
           UNCHANGED <<process, ref, image, err, verdict, beat, released>>
    PROVE  TypeOK'
<1>1. Len(deployments) \in Nat
  BY LenProperties DEF TypeOK
<1>2. deployments' \in Seq(Row) /\ Ids \subseteq Ids' /\ Len(deployments) + 1 \in Ids'
  BY <1>1 DEF Added, Ids
<1>3. describing' \subseteq [id: Ids', ref: Refs]
  <2>1. describing \subseteq [id: Ids, ref: Refs]
    BY DEF TypeOK
  <2>2. [id: Ids, ref: Refs] \subseteq [id: Ids', ref: Refs]
    BY <1>2
  <2>3. [id |-> Len(deployments) + 1, ref |-> r] \in [id: Ids', ref: Refs]
    BY <1>2
  <2> QED
    BY <2>1, <2>2, <2>3
<1> QED
  BY <1>2, <1>3 DEF TypeOK, process, beat

-----------------------------------------------------------------------------
(***************************************************************************)
(* Every action preserves IInv: the handlers.                              *)
(***************************************************************************)

\* queueDeploymentRef: the INSERT is refused while the application has an active row.
LEMMA QueueDeploymentPreserves ==
    ASSUME IInv, NEW a \in Apps, NEW action \in Actions, NEW r \in Refs,
           QueueDeployment(a, action, r)
    PROVE  IInv' /\ Lawful
<1> USE DEF QueueDeployment, worker, process, beat
<1>1. TypeOK
  BY DEF IInv
<1>2. PICK row \in {NewRow(a, action), [NewRow(a, action) EXCEPT !.ref = r]} :
        deployments' = Append(deployments, row)
  OBVIOUS
<1>3. row \in Row /\ row.app = a /\ row.status = "queued"
  <2>1. row = NewRow(a, action) \/ row = [NewRow(a, action) EXCEPT !.ref = r]
    OBVIOUS
  <2>2. CASE row = NewRow(a, action)
    BY <2>2, NewRowIsQueued
  <2>3. CASE row = [NewRow(a, action) EXCEPT !.ref = r]
    BY <2>3, NewRowIsQueued
  <2> QED
    BY <2>1, <2>2, <2>3
<1>4. Added(a)
  BY <1>1, <1>2, <1>3, AppendAdds
<1>5. TypeOK'
  <2>1. pc' \in [Workers -> Steps] /\ job' \in [Workers -> Nat]
    BY <1>1 DEF TypeOK
  <2> QED
    BY <1>1, <1>4, <2>1, TypesAfterInsert
<1>6. Safe'
  <2>1. pc' \in [Workers -> Steps] /\ job' \in [Workers -> Nat]
    BY <1>1 DEF TypeOK
  <2> QED
    BY <1>4, <2>1, AddStep
<1> QED
  BY <1>4, <1>5, <1>6 DEF IInv, Safe, Lawful

\* The metadata UPDATE of a request, however late, changes no status.
LEMMA SetQueuedMetadataPreserves ==
    ASSUME IInv, NEW request \in describing, SetQueuedMetadata(request)
    PROVE  IInv' /\ Lawful
<1> USE DEF SetQueuedMetadata, worker, process, beat
<1>1. TypeOK
  BY DEF IInv
<1>2. request.id \in Ids /\ request.ref \in Refs
  BY <1>1 DEF TypeOK
<1>3. Kept
  BY <1>1, <1>2, DescribeKeeps
<1>4. TypeOK'
  BY <1>1, <1>3, TypesFollow DEF TypeOK
<1>5. Safe'
  BY <1>3, QuietStep
<1> QED
  BY <1>3, <1>4, <1>5 DEF IInv, Safe, Lawful

\* A request whose client went away leaves its row as the INSERT made it.
LEMMA AbandonRequestPreserves ==
    ASSUME IInv, NEW request \in describing, AbandonRequest(request)
    PROVE  IInv' /\ Lawful
<1> USE DEF AbandonRequest, worker, process, beat
<1>1. TypeOK
  BY DEF IInv
<1>2. Kept
  BY <1>1, UnchangedKeeps
<1>3. TypeOK'
  BY <1>1, <1>2, TypesFollow DEF TypeOK
<1>4. Safe'
  BY <1>2, QuietStep
<1> QED
  BY <1>2, <1>3, <1>4 DEF IInv, Safe, Lawful

\* The cancel handler closes a queued row or marks a running one.
LEMMA CancelDeploymentPreserves ==
    ASSUME IInv, NEW id \in Ids, CancelDeployment(id)
    PROVE  IInv' /\ Lawful
<1> USE DEF CancelDeployment, worker, process, beat
<1>1. TypeOK
  BY DEF IInv
<1>2. CASE /\ deployments[id].status = "queued"
           /\ deployments' = [deployments EXCEPT ![id].status = "cancelled"]
  <2>1. id \in Queued /\ "cancelled" \in Statuses
    BY <1>2 DEF Queued, Statuses
  <2>2. Moved(id, "cancelled")
    BY <1>1, <1>2, <2>1, StatusMoves
  <2>3. TypeOK'
    BY <1>1, <2>1, <2>2, TypesFollow DEF TypeOK
  <2>4. Safe'
    BY <2>1, <2>2, CancelStep
  <2> QED
    BY <2>1, <2>2, <2>3, <2>4 DEF IInv, Safe, Lawful
<1>3. CASE deployments' = [deployments EXCEPT ![id].cancel = TRUE]
  <2> DEFINE row == [deployments[id] EXCEPT !.cancel = TRUE]
  <2>1. deployments[id] \in Row
    BY <1>1, RowAt
  <2>2. row \in Row /\ row.app = deployments[id].app /\ row.status = deployments[id].status
    BY <2>1 DEF Row
  <2>3. deployments' = [deployments EXCEPT ![id] = row]
    BY <1>3
  <2> HIDE DEF row
  <2>4. Kept
    BY <1>1, <2>2, <2>3, ReplaceKeeps
  <2>5. TypeOK'
    BY <1>1, <2>4, TypesFollow DEF TypeOK
  <2>6. Safe'
    BY <2>4, QuietStep
  <2> QED
    BY <2>4, <2>5, <2>6 DEF IInv, Safe, Lawful
<1> QED
  BY <1>2, <1>3

-----------------------------------------------------------------------------
(***************************************************************************)
(* The workers.                                                            *)
(***************************************************************************)

\* Return resets the locals of one worker and nothing else.
LEMMA ReturnTypes ==
    ASSUME TypeOK, NEW w \in Workers, Return(w)
    PROVE  /\ pc' \in [Workers -> Steps] /\ job' \in [Workers -> Nat]
           /\ ref' \in [Workers -> Refs] /\ image' \in [Workers -> Nat]
           /\ err' \in [Workers -> Stages \cup {""}]
           /\ verdict' \in [Workers -> {"", "successful", "failed", "cancelled"}]
           /\ heartbeat' \in [Workers -> {"off", "waiting", "failed"}]
           /\ stopped' \in [Workers -> BOOLEAN]
           /\ \A v \in Workers \ {w} : job'[v] = job[v] /\ verdict'[v] = verdict[v]
BY DEF TypeOK, Return, Steps, Refs

\* The claim moves one queued row, the oldest, to running.
LEMMA NextQueuedDeploymentPreserves ==
    ASSUME IInv, NEW w \in Workers, NextQueuedDeployment(w)
    PROVE  IInv' /\ Lawful
<1> USE DEF NextQueuedDeployment, Goto, process, beat
<1>1. TypeOK
  BY DEF IInv
<1>2. PICK id \in Queued :
         /\ \A other \in Queued : id <= other
         /\ deployments' = [deployments EXCEPT ![id].status = "running"]
         /\ job' = [job EXCEPT ![w] = id]
         /\ ref' = [ref EXCEPT ![w] = deployments[id].ref]
  OBVIOUS
<1>3. id \in Ids /\ id \in Nat /\ "running" \in Statuses
  BY DEF Queued, Ids, Statuses
<1>4. Moved(id, "running")
  BY <1>1, <1>2, <1>3, StatusMoves
<1>5. TypeOK'
  <2>1. deployments[id] \in Row
    BY <1>1, <1>3, RowAt
  <2>2. deployments[id].ref \in Refs
    BY <2>1 DEF Row
  <2>3. /\ pc' \in [Workers -> Steps] /\ job' \in [Workers -> Nat]
        /\ ref' \in [Workers -> Refs]
    BY <1>1, <1>2, <1>3, <2>2 DEF TypeOK, Steps
  <2> QED
    BY <1>1, <1>3, <1>4, <2>3, TypesFollow DEF TypeOK
<1>6. Safe'
  BY <1>2, <1>4, ClaimStep
<1> QED
  BY <1>2, <1>4, <1>5, <1>6 DEF IInv, Safe, Lawful

\* A job without a log file is finished by the worker that claimed it.
LEMMA OpenLogFailsPreserves ==
    ASSUME IInv, NEW w \in Workers, OpenLogFails(w)
    PROVE  IInv' /\ Lawful
<1> USE DEF OpenLogFails, process
<1>1. TypeOK /\ Owns(w) /\ job[w] \in Ids /\ deployments[job[w]].status = "running"
  BY DEF IInv, Ownership, Owns, Steps
<1>2. PICK final \in Statuses \ Active : Moved(job[w], final)
  BY <1>1, FinishMoves
<1>3. TypeOK'
  BY <1>1, <1>2, ReturnTypes, TypesFollow DEF TypeOK
<1>4. Safe'
  <2>1. /\ pc' = [pc EXCEPT ![w] = "idle"] /\ job' \in [Workers -> Nat]
        /\ \A v \in Workers \ {w} : job'[v] = job[v] /\ verdict'[v] = verdict[v]
    BY <1>1, ReturnTypes DEF Return
  <2> QED
    BY <1>1, <1>2, <2>1, FinishStep
<1> QED
  BY <1>1, <1>2, <1>3, <1>4 DEF IInv, Safe, Lawful

\* Starting the heartbeat and reading the configuration leave the table alone.
LEMMA BeginJobPreserves ==
    ASSUME IInv, NEW w \in Workers, BeginJob(w)
    PROVE  IInv' /\ Lawful
<1> USE DEF BeginJob, Goto, process, table
<1>1. TypeOK /\ Owns(w)
  BY DEF IInv, Owns, Steps
<1>2. Kept
  BY <1>1, UnchangedKeeps
<1>3. PICK s \in {"joining", "deploying", "resolving"} : pc' = [pc EXCEPT ![w] = s]
  OBVIOUS
<1>4. TypeOK'
  <2>1. /\ pc' \in [Workers -> Steps]
        /\ err' \in [Workers -> Stages \cup {""}]
        /\ heartbeat' \in [Workers -> {"off", "waiting", "failed"}]
        /\ stopped' \in [Workers -> BOOLEAN]
    BY <1>1, <1>3 DEF TypeOK, Steps, Stages
  <2> QED
    BY <1>1, <1>2, <2>1, TypesFollow DEF TypeOK
<1>5. Safe'
  <2>1. s \in OwnedSteps /\ s # "finishing"
    BY DEF OwnedSteps, Steps
  <2> QED
    BY <1>1, <1>2, <1>3, <2>1, WorkStep
<1> QED
  BY <1>2, <1>4, <1>5 DEF IInv, Safe, Lawful

\* An executor call ends: only the worker's locals and `released' change.
LEMMA ExecutorPreserves ==
    ASSUME IInv, NEW w \in Workers,
           DeploySucceeds(w) \/ DeployFails(w) \/ ResolveTargetFails(w)
           \/ RollbackSucceeds(w) \/ RollbackFails(w)
    PROVE  IInv' /\ Lawful
<1> USE DEF DeploySucceeds, DeployFails, ResolveTargetFails, RollbackSucceeds,
            RollbackFails, Goto, process, table, beat
<1>1. TypeOK /\ Owns(w) /\ job[w] \in Ids
  BY DEF IInv, Owns, Steps, Ownership
<1>2. Kept
  BY <1>1, UnchangedKeeps
<1>3. PICK s \in {"joining", "recording"} : pc' = [pc EXCEPT ![w] = s]
  OBVIOUS
<1>4. TypeOK'
  <2>1. deployments[job[w]].app \in Apps
    BY <1>1, RowAt DEF Row
  <2>2. pc' \in [Workers -> Steps]
    BY <1>1, <1>3 DEF TypeOK, Steps
  <2>3. err' \in [Workers -> Stages \cup {""}]
    BY <1>1 DEF TypeOK, Stages
  <2>4. image' \in [Workers -> Nat]
    <3>1. PICK i \in Nat : image' = [image EXCEPT ![w] = i] \/ image' = image
      BY <1>1 DEF TypeOK
    <3> QED
      BY <1>1, <3>1 DEF TypeOK
  <2>5. stopped' \in [Workers -> BOOLEAN]
    <3>1. stopped' = [stopped EXCEPT ![w] = TRUE] \/ stopped' = stopped
      OBVIOUS
    <3> QED
      BY <1>1, <3>1 DEF TypeOK
  <2>6. released' \in [Apps -> Nat]
    <3>1. PICK i \in Nat : \/ released' = [released EXCEPT ![deployments[job[w]].app] = i]
                           \/ released' = released
      BY <1>1 DEF TypeOK
    <3> HIDE DEF DeploySucceeds, DeployFails, ResolveTargetFails, RollbackSucceeds, RollbackFails
    <3> QED
      BY <1>1, <2>1, <3>1 DEF TypeOK
  <2> QED
    BY <1>1, <1>2, <2>2, <2>3, <2>4, <2>5, <2>6, TypesFollow DEF TypeOK
<1>5. Safe'
  <2>1. s \in OwnedSteps /\ s # "finishing"
    BY DEF OwnedSteps, Steps
  <2> QED
    BY <1>1, <1>2, <1>3, <2>1, WorkStep
<1> QED
  BY <1>2, <1>4, <1>5 DEF IInv, Safe, Lawful

\* Copying the evidence of a rollback target into the row changes no status.
LEMMA ResolveTargetPreserves ==
    ASSUME IInv, NEW w \in Workers, ResolveTarget(w)
    PROVE  IInv' /\ Lawful
<1> USE DEF ResolveTarget, Goto, process, beat
<1>1. TypeOK /\ Owns(w) /\ job[w] \in Ids
  BY DEF IInv, Owns, Steps, Ownership
<1>2. PICK i \in Ids :
         /\ image' = [image EXCEPT ![w] = deployments[i].image]
         /\ ref' = [ref EXCEPT ![w] = deployments[i].ref]
         /\ deployments' = [deployments EXCEPT ![job[w]] =
               [@ EXCEPT !.image = deployments[i].image, !.ref = deployments[i].ref,
                         !.digest = TRUE]]
  OBVIOUS
<1>3. deployments[i].image \in Nat /\ deployments[i].ref \in Refs
  BY <1>1, RowAt DEF Row
<1>4. Kept
  BY <1>1, <1>2, <1>3, MetadataKeeps
<1>5. TypeOK'
  <2>1. /\ pc' \in [Workers -> Steps] /\ image' \in [Workers -> Nat]
        /\ ref' \in [Workers -> Refs]
    BY <1>1, <1>2, <1>3 DEF TypeOK, Steps
  <2> QED
    BY <1>1, <1>4, <2>1, TypesFollow DEF TypeOK
<1>6. Safe'
  <2>1. "starting" \in OwnedSteps
    BY DEF OwnedSteps, Steps
  <2> QED
    BY <1>1, <1>4, <2>1, WorkStep
<1> QED
  BY <1>4, <1>5, <1>6 DEF IInv, Safe, Lawful

\* Recording image, ref and digest changes no status.
LEMMA RecordReleasePreserves ==
    ASSUME IInv, NEW w \in Workers, RecordRelease(w)
    PROVE  IInv' /\ Lawful
<1> USE DEF RecordRelease, Goto, process
<1>1. TypeOK /\ Owns(w) /\ job[w] \in Ids
  BY DEF IInv, Owns, Steps, Ownership
<1> DEFINE m == IF image[w] # 0 THEN image[w] ELSE deployments[job[w]].image
<1>2. PICK d \in BOOLEAN :
         deployments' = [deployments EXCEPT ![job[w]] =
               [@ EXCEPT !.image = m, !.ref = ref[w], !.digest = d]]
  BY Zenon
<1>3. m \in Nat /\ ref[w] \in Refs
  BY <1>1, RowAt DEF TypeOK, Row
<1> HIDE DEF m
<1>4. Kept
  BY <1>1, <1>2, <1>3, MetadataKeeps
<1>5. TypeOK'
  <2>1. /\ pc' \in [Workers -> Steps] /\ image' \in [Workers -> Nat]
        /\ ref' \in [Workers -> Refs]
    BY <1>1 DEF TypeOK, Steps, Refs
  <2>2. stopped' \in [Workers -> BOOLEAN]
    BY <1>1 DEF TypeOK
  <2> QED
    BY <1>1, <1>4, <2>1, <2>2, TypesFollow DEF TypeOK
<1>6. Safe'
  <2>1. "joining" \in OwnedSteps
    BY DEF OwnedSteps, Steps
  <2> QED
    BY <1>1, <1>4, <2>1, WorkStep
<1> QED
  BY <1>4, <1>5, <1>6 DEF IInv, Safe, Lawful

\* Joining the heartbeat and recording the failure stage change no status.
LEMMA DecideStatusPreserves ==
    ASSUME IInv, NEW w \in Workers, DecideStatus(w)
    PROVE  IInv' /\ Lawful
<1> USE DEF DecideStatus, JoinHeartbeat, Goto, process
<1>1. TypeOK /\ Owns(w) /\ job[w] \in Ids
  BY DEF IInv, Owns, Steps, Ownership
<1>2. err' \in [Workers -> Stages \cup {""}]
  BY <1>1 DEF TypeOK, Stages
<1>3. Kept
  <2>1. CASE deployments' = deployments
    BY <1>1, <2>1, UnchangedKeeps
  <2>2. CASE deployments' = [deployments EXCEPT ![job[w]].stage = FailureStage(w)]
    <3> DEFINE row == [deployments[job[w]] EXCEPT !.stage = FailureStage(w)]
    <3>1. deployments[job[w]] \in Row
      BY <1>1, RowAt
    <3>2. FailureStage(w) \in RowStages
      BY <1>2 DEF FailureStage, RowStages
    <3>3. row \in Row /\ row.app = deployments[job[w]].app
          /\ row.status = deployments[job[w]].status
      BY <3>1, <3>2 DEF Row
    <3>4. deployments' = [deployments EXCEPT ![job[w]] = row]
      BY <2>2
    <3> HIDE DEF row
    <3> QED
      BY <1>1, <3>3, <3>4, ReplaceKeeps
  <2> QED
    BY <2>1, <2>2
<1>4. PICK final \in {"successful", "failed", "cancelled"} :
         verdict' = [verdict EXCEPT ![w] = final]
  OBVIOUS
<1>5. /\ verdict' \in [Workers -> {"", "successful", "failed", "cancelled"}]
      /\ verdict'[w] # ""
      /\ \A v \in Workers \ {w} : verdict'[v] = verdict[v]
  BY <1>1, <1>4 DEF TypeOK
<1>6. TypeOK'
  <2>1. /\ pc' \in [Workers -> Steps]
        /\ heartbeat' \in [Workers -> {"off", "waiting", "failed"}]
    BY <1>1 DEF TypeOK, Steps
  <2> QED
    BY <1>1, <1>2, <1>3, <1>5, <2>1, TypesFollow DEF TypeOK
<1>7. Safe'
  <2>1. "finishing" \in OwnedSteps
    BY DEF OwnedSteps, Steps
  <2> QED
    BY <1>1, <1>3, <1>5, <2>1, WorkStep
<1> QED
  BY <1>3, <1>6, <1>7 DEF IInv, Safe, Lawful

\* FinishDeployment moves a row that is still running and still owned.
LEMMA FinishJobPreserves ==
    ASSUME IInv, NEW w \in Workers, FinishJob(w)
    PROVE  IInv' /\ Lawful
<1> USE DEF FinishJob, Goto, process, beat
<1>1. TypeOK /\ Owns(w) /\ job[w] \in Ids /\ deployments[job[w]].status = "running"
  BY DEF IInv, Owns, Steps, Ownership
<1>2. verdict[w] \in {"successful", "failed", "cancelled"}
  BY <1>1 DEF IInv, TypeOK, Decided
<1>3. PICK final \in Statuses \ Active : Moved(job[w], final)
  BY <1>1, <1>2, FinishMoves
<1>4. CASE Return(w)
  <2>1. TypeOK'
    BY <1>1, <1>3, <1>4, ReturnTypes, TypesFollow DEF TypeOK
  <2>2. /\ pc' = [pc EXCEPT ![w] = "idle"] /\ job' \in [Workers -> Nat]
        /\ \A v \in Workers \ {w} : job'[v] = job[v] /\ verdict'[v] = verdict[v]
    BY <1>1, <1>4, ReturnTypes DEF Return
  <2>3. Safe'
    BY <1>1, <1>3, <2>2, FinishStep
  <2> QED
    BY <1>1, <1>3, <2>1, <2>3 DEF IInv, Safe, Lawful
<1>5. CASE /\ pc' = [pc EXCEPT ![w] = "queueing"]
           /\ UNCHANGED <<job, ref, image, err, verdict, beat>>
  <2>1. pc' \in [Workers -> Steps] /\ job' \in [Workers -> Nat]
    BY <1>1, <1>5 DEF TypeOK, Steps
  <2>2. TypeOK'
    BY <1>1, <1>3, <1>5, <2>1, TypesFollow DEF TypeOK
  <2>3. Safe'
    BY <1>1, <1>3, <1>5, <2>1, FinishStep
  <2> QED
    BY <1>1, <1>3, <2>2, <2>3 DEF IInv, Safe, Lawful
<1> QED
  BY <1>4, <1>5

\* The automatic rollback is inserted under the same index as any request.
LEMMA QueueAutoRollbackPreserves ==
    ASSUME IInv, NEW w \in Workers, QueueAutoRollback(w)
    PROVE  IInv' /\ Lawful
<1> USE DEF QueueAutoRollback, Goto, process, beat
<1> DEFINE a == deployments[job[w]].app
<1>1. TypeOK /\ ~Owns(w) /\ job[w] \in Ids
  BY DEF IInv, Owns, Steps, Ownership
<1>2. a \in Apps
  BY <1>1, RowAt DEF Row
<1>3. CASE Return(w) /\ deployments' = deployments
  <2>1. Kept
    BY <1>1, <1>3, UnchangedKeeps
  <2>2. TypeOK'
    BY <1>1, <1>3, <2>1, ReturnTypes, TypesFollow DEF TypeOK
  <2>3. Safe'
    BY <1>1, <1>3, <2>1, ReturnStep DEF Return
  <2> QED
    BY <2>1, <2>2, <2>3 DEF IInv, Safe, Lawful
<1>4. CASE /\ ~HasActive(a)
           /\ deployments' = Append(deployments, NewRow(a, "auto_rollback"))
           /\ job' = [job EXCEPT ![w] = Len(deployments) + 1]
           /\ pc' = [pc EXCEPT ![w] = "describing"]
           /\ UNCHANGED <<ref, image, err, verdict, beat>>
  <2> HIDE DEF a
  <2>1. "auto_rollback" \in Actions /\ "" \in Refs
    BY DEF Actions, Refs
  <2>2. Added(a)
    BY <1>1, <1>2, <1>4, <2>1, NewRowIsQueued, AppendAdds
  <2>3. pc' \in [Workers -> Steps] /\ job' \in [Workers -> Nat]
    <3>1. Len(deployments) \in Nat
      BY <1>1, LenProperties DEF TypeOK
    <3>2. pc \in [Workers -> Steps] /\ job \in [Workers -> Nat] /\ "describing" \in Steps
      BY <1>1 DEF TypeOK, Steps
    <3> HIDE DEF QueueAutoRollback
    <3> QED
      BY <1>4, <3>1, <3>2
  <2>4. TypeOK'
    BY <1>1, <1>2, <1>4, <2>1, <2>2, <2>3, TypesAfterInsert
  <2>5. \A v \in Workers : \/ pc'[v] = pc[v] /\ job'[v] = job[v]
                           \/ /\ pc[v] = "queueing" /\ pc'[v] = "describing"
                              /\ job'[v] = Len(deployments) + 1
    BY <1>1, <1>4 DEF TypeOK
  <2>6. Safe'
    BY <1>2, <1>4, <2>2, <2>3, <2>5, AddStep
  <2> QED
    BY <1>2, <1>4, <2>2, <2>4, <2>6 DEF IInv, Safe, Lawful
<1> QED
  BY <1>3, <1>4

\* The metadata of the automatic rollback changes no status.
LEMMA DescribeAutoRollbackPreserves ==
    ASSUME IInv, NEW w \in Workers, DescribeAutoRollback(w)
    PROVE  IInv' /\ Lawful
<1> USE DEF DescribeAutoRollback, process
<1>1. TypeOK /\ ~Owns(w) /\ job[w] \in Ids
  BY DEF IInv, Owns, Steps, Ownership
<1>2. Kept
  <2>1. "" \in Refs
    BY DEF Refs
  <2> QED
    BY <1>1, <2>1, DescribeKeeps
<1>3. TypeOK'
  BY <1>1, <1>2, ReturnTypes, TypesFollow DEF TypeOK
<1>4. Safe'
  BY <1>1, <1>2, ReturnStep DEF Return
<1> QED
  BY <1>2, <1>3, <1>4 DEF IInv, Safe, Lawful

-----------------------------------------------------------------------------
(***************************************************************************)
(* The heartbeats, a crash and the start of the process.                   *)
(***************************************************************************)

\* A heartbeat never writes to the table.
LEMMA HeartbeatPreserves ==
    ASSUME IInv, NEW w \in Workers, HeartbeatStep(w)
    PROVE  IInv' /\ Lawful
<1> USE DEF HeartbeatStep, HeartbeatDeployment, HeartbeatExit, table, process, worker
<1>1. TypeOK
  BY DEF IInv
<1>2. Kept
  BY <1>1, UnchangedKeeps
<1>3. TypeOK'
  <2>1. heartbeat' \in [Workers -> {"off", "waiting", "failed"}]
    BY <1>1 DEF TypeOK
  <2>2. stopped' \in [Workers -> BOOLEAN]
    <3>1. stopped' = [stopped EXCEPT ![w] = TRUE] \/ stopped' = stopped
      OBVIOUS
    <3> QED
      BY <1>1, <3>1 DEF TypeOK
  <2> QED
    BY <1>1, <1>2, <2>1, <2>2, TypesFollow DEF TypeOK
<1>4. Safe'
  BY <1>2, QuietStep
<1> QED
  BY <1>2, <1>3, <1>4 DEF IInv, Safe, Lawful

\* A crash loses the workers and keeps the table.
LEMMA CrashPreserves ==
    ASSUME IInv, Crash
    PROVE  IInv' /\ Lawful
<1> USE DEF Crash
<1>1. TypeOK
  BY DEF IInv
<1>2. Kept
  BY <1>1, UnchangedKeeps
<1>3. TypeOK'
  <2>1. /\ pc' \in [Workers -> Steps] /\ job' \in [Workers -> Nat]
        /\ ref' \in [Workers -> Refs] /\ image' \in [Workers -> Nat]
    BY DEF Steps, Refs
  <2>2. /\ err' \in [Workers -> Stages \cup {""}]
        /\ verdict' \in [Workers -> {"", "successful", "failed", "cancelled"}]
        /\ heartbeat' \in [Workers -> {"off", "waiting", "failed"}]
        /\ stopped' \in [Workers -> BOOLEAN]
    OBVIOUS
  <2>3. crashes' \in Nat
    <3>1. crashes \in Nat /\ crashes' = crashes + 1
      BY <1>1, Zenon DEF TypeOK
    <3> HIDE DEF Crash
    <3> QED
      BY <3>1
  <2>4. up' \in BOOLEAN /\ describing' \subseteq describing
    OBVIOUS
  <2> QED
    BY <1>1, <1>2, <2>1, <2>2, <2>3, <2>4, TypesFollow DEF TypeOK
<1>4. Safe'
  <2>1. \A w \in Workers : pc'[w] = "idle"
    OBVIOUS
  <2>2. Ownership'
    BY <2>1 DEF Ownership, Owns
  <2>3. OneActive'
    BY DEF IInv, OneActive, Ids
  <2>4. RunningIsOwned' /\ DownIdle' /\ Decided'
    BY <2>1 DEF RunningIsOwned, DownIdle, Decided
  <2> QED
    BY <2>2, <2>3, <2>4 DEF Safe
<1> QED
  BY <1>2, <1>3, <1>4 DEF IInv, Safe, Lawful

\* RecoverInterruptedDeployments is a table of the same rows, none running.
LEMMA RecoveredTable ==
    ASSUME TypeOK, deployments' = RecoverInterruptedDeployments
    PROVE  Recovered
<1>1. Len(deployments) \in Nat
  BY LenProperties DEF TypeOK
<1>2. \A i \in Ids : deployments[i] \in Row
  BY RowAt
<1> DEFINE row(i) == IF deployments[i].status = "running"
                     THEN [deployments[i] EXCEPT !.status = "failed", !.stage = "restarted"]
                     ELSE deployments[i]
<1>3. \A i \in Ids : /\ row(i) \in Row
                      /\ row(i).app = deployments[i].app
                      /\ row(i).status = IF deployments[i].status = "running"
                                         THEN "failed" ELSE deployments[i].status
  BY <1>2 DEF Row, Statuses, RowStages
<1>4. deployments' = [i \in 1 .. Len(deployments) |-> row(i)]
  BY DEF RecoverInterruptedDeployments, Ids
<1> HIDE DEF row
<1>5. deployments' \in [1 .. Len(deployments) -> Row]
  BY <1>3, <1>4 DEF Ids
<1>6. deployments' \in Seq(Row)
  BY <1>1, <1>5, SeqDef
<1>7. Len(deployments') = Len(deployments)
  <2>1. /\ Len(deployments') \in Nat
        /\ DOMAIN deployments' = 1 .. Len(deployments')
    BY <1>6, LenProperties
  <2>2. DOMAIN deployments' = 1 .. Len(deployments)
    BY <1>5
  <2> QED
    BY <1>1, <2>1, <2>2
<1> QED
  BY <1>3, <1>4, <1>6, <1>7 DEF Ids, Recovered

\* A start fails every running row before any worker exists.
LEMMA StartQueuePreserves ==
    ASSUME IInv, StartQueue
    PROVE  IInv' /\ Lawful
<1> USE DEF StartQueue, worker, beat
<1>1. TypeOK /\ \A w \in Workers : pc'[w] = "idle"
  BY DEF IInv, DownIdle
<1>2. Recovered
  BY <1>1, RecoveredTable
<1>3. TypeOK'
  BY <1>1, <1>2 DEF TypeOK, Ids, Recovered
<1>4. Ownership'
  BY <1>1 DEF Ownership, Owns
<1>5. OneActive'
  BY <1>2 DEF IInv, OneActive, Active, Ids, Recovered
<1>6. RunningIsOwned'
  BY <1>2 DEF RunningIsOwned, Ids, Recovered
<1>7. DownIdle' /\ Decided'
  BY <1>1 DEF DownIdle, Decided
<1> QED
  BY <1>2, <1>3, <1>4, <1>5, <1>6, <1>7 DEF IInv, Lawful

-----------------------------------------------------------------------------
(***************************************************************************)
(* The theorems.                                                           *)
(***************************************************************************)

\* The empty table of a new installation satisfies the invariant.
LEMMA InitEstablishes == Init => IInv
<1> SUFFICES ASSUME Init PROVE IInv
  OBVIOUS
<1> USE DEF Init
<1>1. deployments \in Seq(Row) /\ Ids = {}
  <2>1. <<>> \in Seq(Row) /\ Len(<<>>) = 0
    BY EmptySeq
  <2>2. deployments = <<>>
    OBVIOUS
  <2> HIDE DEF Init
  <2>3. 1 .. 0 = {}
    <3>1. \A n \in 1 .. 0 : FALSE
      OBVIOUS
    <3> QED
      BY <3>1
  <2> QED
    BY <2>1, <2>2, <2>3, Zenon DEF Ids
<1>2. TypeOK
  BY <1>1 DEF TypeOK, Steps, Refs
<1>3. Ownership /\ OneActive /\ RunningIsOwned /\ DownIdle /\ Decided
  BY <1>1 DEF Ownership, Owns, OneActive, RunningIsOwned, DownIdle, Decided
<1> QED
  BY <1>2, <1>3 DEF IInv

\* So does a state in which nothing has changed.
LEMMA StutterPreserves == IInv /\ UNCHANGED vars => IInv' /\ Lawful
<1> SUFFICES ASSUME IInv, UNCHANGED vars PROVE IInv' /\ Lawful
  OBVIOUS
<1> USE DEF vars
<1>1. TypeOK'
  BY DEF IInv, TypeOK, Ids
<1>2. Kept
  BY UnchangedKeeps DEF IInv
<1>3. Safe'
  BY <1>2, QuietStep
<1> QED
  BY <1>1, <1>2, <1>3 DEF IInv, Safe, Lawful

\* The inductive step, one case per action.
LEMMA NextPreserves == IInv /\ [Next]_vars => IInv' /\ Lawful
<1> SUFFICES ASSUME IInv, Next PROVE IInv' /\ Lawful
  BY StutterPreserves
<1>1. ASSUME NEW a \in Apps, RequestDeploy(a) \/ RequestRollback(a) \/ WebhookPush(a)
      PROVE  IInv' /\ Lawful
  <2>1. {"deploy", "rollback"} \subseteq Actions /\ {"", "sha"} \subseteq Refs
    BY DEF Actions, Refs
  <2> QED
    BY <1>1, <2>1, QueueDeploymentPreserves DEF RequestDeploy, RequestRollback, WebhookPush
<1>2. ASSUME NEW request \in describing,
             SetQueuedMetadata(request) \/ AbandonRequest(request)
      PROVE  IInv' /\ Lawful
  BY <1>2, SetQueuedMetadataPreserves, AbandonRequestPreserves
<1>3. ASSUME NEW id \in Ids, RequestCancel(id)
      PROVE  IInv' /\ Lawful
  BY <1>3, CancelDeploymentPreserves DEF RequestCancel
<1>4. ASSUME NEW w \in Workers, WorkerStep(w)
      PROVE  IInv' /\ Lawful
  BY <1>4, NextQueuedDeploymentPreserves, OpenLogFailsPreserves, BeginJobPreserves,
     ExecutorPreserves, ResolveTargetPreserves, RecordReleasePreserves,
     DecideStatusPreserves, FinishJobPreserves, QueueAutoRollbackPreserves,
     DescribeAutoRollbackPreserves DEF WorkerStep
<1>5. ASSUME NEW w \in Workers, HeartbeatStep(w)
      PROVE  IInv' /\ Lawful
  BY <1>5, HeartbeatPreserves
<1> QED
  BY <1>1, <1>2, <1>3, <1>4, <1>5, CrashPreserves, StartQueuePreserves DEF Next, Request

\* IInv holds in every reachable state of runNextDeployment, the handlers,
\* the heartbeats and the restarts.
THEOREM Invariance == Spec => []IInv
BY InitEstablishes, NextPreserves, PTL DEF Spec

\* Type correctness: the table, the requests in flight and the locals of the
\* workers always have their types, whatever the bounds.
THEOREM TypeCorrect == Spec => []TypeOK
<1>1. IInv => TypeOK
  BY DEF IInv
<1> QED
  BY <1>1, Invariance, PTL

\* NextQueuedDeployment and the unique index keep two workers of any pool from
\* executing jobs of one application at the same time.
THEOREM Exclusive == Spec => []ExclusiveExecution
<1>1. IInv => ExclusiveExecution
  <2> SUFFICES ASSUME IInv, NEW v \in Workers, NEW w \in Workers, v # w, Owns(v), Owns(w),
                      deployments[job[v]].app = deployments[job[w]].app
               PROVE  FALSE
    BY DEF ExclusiveExecution
  <2>1. /\ job[v] \in Ids /\ deployments[job[v]].status = "running"
        /\ job[w] \in Ids /\ deployments[job[w]].status = "running"
        /\ job[v] # job[w]
    BY DEF IInv, Ownership, Owns
  <2> QED
    BY <2>1 DEF IInv, OneActive, Active
<1> QED
  BY <1>1, Invariance, PTL

\* While the process is up no row is running that no worker will finish, so a
\* crash never blocks the later releases of an application.
THEOREM NoOrphan == Spec => []RunningIsOwned
<1>1. IInv => RunningIsOwned
  BY DEF IInv
<1> QED
  BY <1>1, Invariance, PTL

-----------------------------------------------------------------------------
(***************************************************************************)
(* The refinement of JobLifecycle.  The step lemma NextPreserves has shown *)
(* that every step is Lawful; each disjunct of Lawful is one action of the *)
(* abstract specification, or a stutter.                                   *)
(***************************************************************************)

\* The abstract variable: what the refinement mapping of Lifecycle gives jobs.
ViewOf(d) == [i \in 1 .. Len(d) |-> [app |-> d[i].app, status |-> d[i].status]]
View == [i \in Ids |-> [app |-> deployments[i].app, status |-> deployments[i].status]]

Jobs == [app: Apps, status: Statuses]

\* The view of a table is a sequence as long as the table.
LEMMA ViewIsSeq ==
    ASSUME NEW d \in Seq(Row)
    PROVE  ViewOf(d) \in Seq(Jobs) /\ Len(ViewOf(d)) = Len(d)
<1>1. Len(d) \in Nat
  BY LenProperties
<1>2. \A i \in 1 .. Len(d) : d[i] \in Row
  BY ElementOfSeq
<1>3. ViewOf(d) \in [1 .. Len(d) -> Jobs]
  BY <1>2 DEF ViewOf, Jobs, Row
<1>4. ViewOf(d) \in Seq(Jobs)
  BY <1>1, <1>3, SeqDef
<1>5. Len(ViewOf(d)) \in Nat /\ DOMAIN ViewOf(d) = 1 .. Len(ViewOf(d))
  BY <1>4, LenProperties
<1> QED
  BY <1>1, <1>3, <1>4, <1>5

\* So is the abstract variable, before and after a step.
LEMMA ViewType ==
    /\ deployments \in Seq(Row) => View \in Seq(Jobs) /\ Len(View) = Len(deployments)
    /\ deployments' \in Seq(Row) => View' \in Seq(Jobs) /\ Len(View') = Len(deployments')
<1>1. View = ViewOf(deployments) /\ View' = ViewOf(deployments')
  BY DEF View, ViewOf, Ids
<1> HIDE DEF View
<1> QED
  BY <1>1, ViewIsSeq

\* A table that keeps its applications and statuses is a stutter of the view.
LEMMA KeptStutters ==
    ASSUME Kept
    PROVE  View' = View
BY DEF Kept, View, Ids

\* An INSERT appends a queued job to the view.
LEMMA AddedAppends ==
    ASSUME TypeOK, NEW a \in Apps, Added(a)
    PROVE  View' = Append(View, [app |-> a, status |-> "queued"])
<1>0. deployments \in Seq(Row) /\ Len(deployments) \in Nat
  <2>1. deployments \in Seq(Row)
    BY Zenon DEF TypeOK
  <2> QED
    BY <2>1, LenProperties, Zenon
<1> DEFINE new == [app |-> a, status |-> "queued"]
           old == View
           next == View'
<1>1. /\ old \in Seq(Jobs) /\ Len(old) = Len(deployments)
      /\ \A i \in Ids : old[i] = [app |-> deployments[i].app, status |-> deployments[i].status]
  <2>1. View \in Seq(Jobs) /\ Len(View) = Len(deployments)
    BY <1>0, ViewType
  <2>2. \A i \in Ids : View[i] = [app |-> deployments[i].app, status |-> deployments[i].status]
    BY DEF View
  <2> QED
    BY <2>1, <2>2
<1>2. next \in Seq(Jobs) /\ Len(next) = Len(deployments) + 1
  BY ViewType DEF Added
<1>3. new \in Jobs
  BY DEF Jobs, Statuses
<1>5. \A i \in Ids' : next[i] = [app |-> deployments'[i].app, status |-> deployments'[i].status]
  BY DEF View
<1>6. /\ \A i \in 1 .. Len(deployments) : next[i] = old[i]
      /\ next[Len(deployments) + 1] = new
  <2>1. Ids = 1 .. Len(deployments) /\ Ids' = 1 .. (Len(deployments) + 1)
    BY DEF Ids, Added
  <2>2. \A i \in Ids : i \in Ids' /\ deployments'[i] = deployments[i]
    BY <1>0, <2>1 DEF Added
  <2>3. Len(deployments) + 1 \in Ids'
    BY <1>0, <2>1
  <2>4. /\ deployments'[Len(deployments) + 1].app = a
        /\ deployments'[Len(deployments) + 1].status = "queued"
    BY DEF Added
  <2> HIDE DEF old, next
  <2>5. \A i \in Ids : next[i] = old[i]
    BY <1>1, <1>5, <2>2
  <2>6. next[Len(deployments) + 1] = new
    BY <1>5, <2>3, <2>4
  <2> QED
    BY <2>1, <2>5, <2>6
<1> HIDE DEF old, next, new
<1>7. /\ Append(old, new) \in Seq(Jobs)
      /\ Len(Append(old, new)) = Len(old) + 1
      /\ \A i \in 1 .. Len(old) : Append(old, new)[i] = old[i]
      /\ Append(old, new)[Len(old) + 1] = new
  BY <1>1, <1>3, AppendProperties
<1>8. \A i \in 1 .. (Len(deployments) + 1) : next[i] = Append(old, new)[i]
  BY <1>0, <1>1, <1>6, <1>7
<1>9. next = Append(old, new)
  BY <1>1, <1>2, <1>7, <1>8, SeqEqual
<1> QED
  BY <1>9 DEF old, next, new

\* An UPDATE of one status is the same update of the view.
LEMMA MovedUpdates ==
    ASSUME NEW id \in Ids, NEW status, Moved(id, status)
    PROVE  View' = [View EXCEPT ![id].status = status]
<1>1. Ids' = Ids
  BY DEF Moved, Ids
<1>2. \A i \in Ids : /\ deployments'[i].app = deployments[i].app
                      /\ deployments'[i].status = IF i = id THEN status
                                                  ELSE deployments[i].status
  BY DEF Moved
<1>3. View' = [i \in Ids |-> [app |-> deployments'[i].app, status |-> deployments'[i].status]]
  BY <1>1 DEF View
<1>4. View = [i \in Ids |-> [app |-> deployments[i].app, status |-> deployments[i].status]]
  BY DEF View
<1> HIDE DEF View
<1> QED
  BY <1>2, <1>3, <1>4

\* A restart fails the running jobs of the view.
LEMMA RecoveredRestarts ==
    ASSUME Recovered
    PROVE  View' = [i \in Ids |-> IF View[i].status = "running"
                                  THEN [View[i] EXCEPT !.status = "failed"]
                                  ELSE View[i]]
<1>1. Ids' = Ids
  BY DEF Recovered, Ids
<1>2. \A i \in Ids : /\ deployments'[i].app = deployments[i].app
                      /\ deployments'[i].status = IF deployments[i].status = "running"
                                                  THEN "failed" ELSE deployments[i].status
  BY DEF Recovered
<1>3. View' = [i \in Ids |-> [app |-> deployments'[i].app, status |-> deployments'[i].status]]
  BY <1>1 DEF View
<1>4. View = [i \in Ids |-> [app |-> deployments[i].app, status |-> deployments[i].status]]
  BY DEF View
<1> HIDE DEF View
<1> QED
  BY <1>2, <1>3, <1>4

\* Every lawful step is a step of JobLifecycle or leaves its jobs alone.
LEMMA LawfulRefines ==
    ASSUME IInv, Lawful
    PROVE  [Lifecycle!Next]_View
<1> USE DEF Lifecycle!Positions, Lifecycle!IsActive
<1>1. TypeOK /\ Len(View) = Len(deployments)
  <2>1. TypeOK /\ deployments \in Seq(Row)
    BY Zenon DEF IInv, TypeOK
  <2> QED
    BY <2>1, ViewType
<1>2. \A i \in Ids : View[i].app = deployments[i].app /\ View[i].status = deployments[i].status
  BY DEF View
<1>3. CASE Kept
  BY <1>3, KeptStutters
<1>4. ASSUME NEW a \in Apps, ~HasActive(a), Added(a)
      PROVE  Lifecycle!Next
  <2>1. View' = Append(View, [app |-> a, status |-> "queued"])
    BY <1>1, <1>4, AddedAppends
  <2>2. \A i \in 1 .. Len(View) : View[i].app = a => View[i].status \notin {"queued", "running"}
    BY <1>1, <1>2, <1>4 DEF HasActive, Ids, Active
  <2>3. Lifecycle!Submit(a)
    BY <2>1, <2>2 DEF Lifecycle!Submit, View
  <2> QED
    BY <2>3 DEF Lifecycle!Next
<1>5. ASSUME NEW id \in Queued, \A other \in Queued : id <= other, Moved(id, "running")
      PROVE  Lifecycle!Next
  <2>1. id \in Ids /\ View' = [View EXCEPT ![id].status = "running"]
    BY <1>5, MovedUpdates DEF Queued
  <2>2. /\ View[id].status = "queued"
        /\ \A j \in 1 .. Len(View) : View[j].status = "queued" => id <= j
    BY <1>1, <1>2, <1>5 DEF Queued, Ids
  <2>3. Lifecycle!Begin(id)
    BY <2>1, <2>2 DEF Lifecycle!Begin, View
  <2> QED
    BY <1>1, <2>1, <2>3 DEF Lifecycle!Next, Ids, View
<1>6. ASSUME NEW id \in Ids, NEW final \in Statuses \ Active, Moved(id, final),
             \/ deployments[id].status = "queued" /\ final = "cancelled"
             \/ deployments[id].status = "running"
      PROVE  Lifecycle!Next
  <2>1. View' = [View EXCEPT ![id].status = final]
    BY <1>6, MovedUpdates
  <2>2. View[id].status = deployments[id].status
    BY <1>2
  <2>3. Lifecycle!Close(id, final)
    BY <1>6, <2>1, <2>2 DEF Lifecycle!Close, View
  <2>4. final \in {"successful", "failed", "cancelled"} /\ id \in 1 .. Len(View)
    BY <1>1 DEF Statuses, Active, Ids
  <2> QED
    BY <2>3, <2>4 DEF Lifecycle!Next, View
<1>7. CASE Recovered
  <2>1. Lifecycle!Restart
    BY <1>1, <1>7, RecoveredRestarts DEF Lifecycle!Restart, View, Ids
  <2> QED
    BY <2>1 DEF Lifecycle!Next
<1>8. ASSUME NEW id \in Queued, Moved(id, "cancelled")
      PROVE  Lifecycle!Next
  <2>1. id \in Ids /\ deployments[id].status = "queued" /\ "cancelled" \in Statuses \ Active
    BY DEF Queued, Statuses, Active
  <2> QED
    BY <1>6, <1>8, <2>1
<1> QED
  BY <1>3, <1>4, <1>5, <1>6, <1>7, <1>8 DEF Lawful

\* The statuses "successful", "failed" and "cancelled" are final, for any pool
\* of workers and any number of restarts, although FinishDeployment and the
\* cancel handler write to rows that other goroutines also write to.
THEOREM FinalIsFinal == Spec => FinalStatusIsFinal
<1> DEFINE Final == \A i \in Ids : deployments[i].status \notin Active =>
                        deployments'[i].status = deployments[i].status
<1>1. ASSUME Lawful PROVE Final
  BY <1>1 DEF Lawful, Kept, Added, Moved, Recovered, Queued, Active
<1>2. IInv /\ [Next]_vars => [Final]_vars
  BY <1>1, NextPreserves
<1> HIDE DEF Final
<1>3. Spec => [][Final]_vars
  BY <1>2, Invariance, PTL DEF Spec
<1> QED
  BY <1>3 DEF FinalStatusIsFinal, Final

\* The queue implements JobLifecycle for any applications, workers, requests
\* and crashes: at most one active job per application, claims in the order
\* of submission, no way back from a final status.
THEOREM Refinement == Spec => ImplementsLifecycle
<1>1. Init => Lifecycle!Init
  <2> SUFFICES ASSUME Init PROVE View = <<>>
    BY DEF Lifecycle!Init, View
  <2>1. deployments = <<>>
    BY Zenon DEF Init
  <2>2. <<>> \in Seq(Row) /\ Len(<<>>) = 0
    BY EmptySeq
  <2>3. View \in Seq(Jobs) /\ Len(View) = 0
    BY <2>1, <2>2, ViewType
  <2> QED
    BY <2>3, EmptySeq
<1>2. IInv /\ [Next]_vars => [Lifecycle!Next]_View
  BY NextPreserves, LawfulRefines
<1> QED
  BY <1>1, <1>2, Invariance, PTL DEF Spec, ImplementsLifecycle, Lifecycle!Spec, View

-----------------------------------------------------------------------------
(***************************************************************************)
(* What the history says.  IInv knows who owns which row; the rest of the  *)
(* safety properties is about what the rows record.  JInv adds what a      *)
(* worker has already established for the row it will finish (Evidence),   *)
(* that an active row is the newest of its application (Newest), and a     *)
(* count of the failed deploys that have had their chance to start an      *)
(* automatic rollback (Causes).                                            *)
(***************************************************************************)

\* Row i is a successful deploy of application a: an image others may name.
Origin(i, a) ==
    /\ i \in Ids
    /\ deployments[i].app = a
    /\ deployments[i].action = "deploy"
    /\ deployments[i].status = "successful"

\* The same in the next state.
OriginNext(i, a) ==
    /\ i \in Ids'
    /\ deployments'[i].app = a
    /\ deployments'[i].action = "deploy"
    /\ deployments'[i].status = "successful"

\* Image m is the one job id may record: its own build, or its target's.
Sound(m, id) ==
    IF deployments[id].action = "deploy" THEN m = id ELSE Origin(m, deployments[id].app)

Serves(m, id) == Sound(m, id) /\ released[deployments[id].app] = m

Newest ==
    \A i, j \in Ids :
        deployments[i].app = deployments[j].app /\ deployments[i].status \in Active => j <= i

\* What the program counter of a worker says about its row.
Evidence(w) ==
    LET row == deployments[job[w]] IN
    /\ pc[w] = "deploying" => row.action = "deploy"
    /\ pc[w] = "starting" => row.action # "deploy" /\ Origin(image[w], row.app)
    /\ pc[w] = "recording" /\ err[w] = "" => Serves(image[w], job[w])
    /\ pc[w] = "joining" /\ err[w] = "" => Serves(row.image, job[w])
    /\ pc[w] = "finishing" /\ verdict[w] = "successful" => Serves(row.image, job[w])
    /\ pc[w] = "finishing" /\ verdict[w] = "failed" /\ row.action = "deploy" => row.stage = err[w]
    /\ pc[w] = "queueing" =>
          row.action = "deploy" /\ row.stage = "start" /\ row.status \notin Active

Evident == \A w \in Workers : Evidence(w)

\* Two workers never queue the rollback of the same deploy.
Answering ==
    \A v, w \in Workers :
        v # w /\ pc[v] = "queueing" /\ pc[w] = "queueing" => job[v] # job[w]

Rollbacks(a) == {i \in Ids : deployments[i].app = a /\ deployments[i].action = "auto_rollback"}

\* The deploys that failed to start and that no worker is about to answer.
Causes(a) ==
    {i \in Ids : /\ deployments[i].app = a
                 /\ deployments[i].action = "deploy"
                 /\ deployments[i].stage = "start"
                 /\ deployments[i].status \notin Active
                 /\ \A w \in Workers : pc[w] = "queueing" => job[w] # i}

Counted == \A a \in Apps : Cardinality(Rollbacks(a)) <= Cardinality(Causes(a))

Recorded == CancelHonoured /\ ImageProvenance /\ NewestSuccessIsReleased

JInv == Newest /\ Recorded /\ Evident /\ Answering /\ Counted

\* What a step may do to one row: a closed row keeps its record, a row that
\* closes obeys its cancellation request, and a row becomes successful only
\* by the hand of the worker that has the evidence.
RowEvolves(i) ==
    LET old == deployments[i]
        new == deployments'[i]
    IN  /\ new.app = old.app /\ new.action = old.action
        /\ old.status \notin Active =>
              /\ new.status = old.status /\ new.stage = old.stage
              /\ new.image = old.image /\ new.cancel = old.cancel
        /\ old.status \in Active /\ new.status \notin Active /\ new.cancel =>
              new.status = "cancelled" \/ new.stage = "restarted"
        /\ old.status \in Active /\ new.status = "successful" =>
              /\ new.image = old.image /\ released' = released
              /\ \E w \in Workers :
                    pc[w] = "finishing" /\ verdict[w] = "successful" /\ job[w] = i

\* What a step may do to the table: rows evolve, and at most one is added, for
\* an application without an active row.
RowsEvolve ==
    /\ Ids \subseteq Ids'
    /\ \A i \in Ids : RowEvolves(i)
    /\ \A i \in Ids' \ Ids :
          /\ deployments'[i].status = "queued" /\ ~deployments'[i].cancel
          /\ ~HasActive(deployments'[i].app)
          /\ \A j \in Ids' : j <= i

\* Only a job that is running, and goes on, switches the release.
ReleasedByJob ==
    \A a \in Apps : released'[a] # released[a] =>
        \E i \in Ids : /\ deployments[i].app = a
                       /\ deployments[i].status = "running"
                       /\ deployments'[i].status = "running"

Evolves == RowsEvolve /\ ReleasedByJob

-----------------------------------------------------------------------------
\* A successful deploy stays one.
LEMMA OriginStays ==
    ASSUME Evolves
    PROVE  \A i \in Ids, a \in Apps : Origin(i, a) => OriginNext(i, a)
BY DEF OriginNext, Evolves, RowsEvolve, RowEvolves, Origin, Active

\* An active row stays the newest of its application.
LEMMA NewestStays ==
    ASSUME Newest, Evolves
    PROVE  Newest'
<1> SUFFICES ASSUME NEW i \in Ids', NEW j \in Ids',
                    deployments'[i].app = deployments'[j].app,
                    deployments'[i].status \in Active
             PROVE  j <= i
  BY DEF Newest
<1>1. CASE i \notin Ids
  BY <1>1 DEF Evolves, RowsEvolve
<1>2. CASE i \in Ids /\ j \in Ids
  <2>1. RowEvolves(i) /\ RowEvolves(j)
    BY <1>2 DEF Evolves, RowsEvolve
  <2> QED
    BY <1>2, <2>1 DEF RowEvolves, Newest
<1>3. CASE i \in Ids /\ j \notin Ids
  <2>1. RowEvolves(i) /\ ~HasActive(deployments'[j].app)
    BY <1>3 DEF Evolves, RowsEvolve
  <2> QED
    BY <1>3, <2>1 DEF RowEvolves, HasActive
<1> QED
  BY <1>1, <1>2, <1>3

\* Every closed row with a cancellation request is cancelled or restarted.
LEMMA CancelStays ==
    ASSUME CancelHonoured, Evolves
    PROVE  CancelHonoured'
<1> SUFFICES ASSUME NEW i \in Ids', deployments'[i].cancel, deployments'[i].status \notin Active
             PROVE  deployments'[i].status = "cancelled" \/ deployments'[i].stage = "restarted"
  BY DEF CancelHonoured
<1>1. i \in Ids
  BY DEF Evolves, RowsEvolve
<1>2. RowEvolves(i)
  BY <1>1 DEF Evolves, RowsEvolve
<1> QED
  BY <1>1, <1>2 DEF RowEvolves, CancelHonoured

\* A row that has just become successful records the image it serves.
LEMMA SuccessIsServed ==
    ASSUME Evident, NEW i \in Ids, RowEvolves(i),
           deployments[i].status \in Active, deployments'[i].status = "successful"
    PROVE  /\ deployments'[i].image = deployments[i].image /\ released' = released
           /\ Serves(deployments[i].image, i)
<1>1. PICK w \in Workers : pc[w] = "finishing" /\ verdict[w] = "successful" /\ job[w] = i
  BY DEF RowEvolves
<1>2. Serves(deployments[i].image, i)
  BY <1>1 DEF Evident, Evidence
<1> QED
  BY <1>2 DEF RowEvolves

\* The images of successful rows keep their provenance.
LEMMA ProvenanceStays ==
    ASSUME IInv, ImageProvenance, Evident, Evolves
    PROVE  ImageProvenance'
<1> SUFFICES ASSUME NEW i \in Ids', deployments'[i].status = "successful"
             PROVE  OriginNext(deployments'[i].image, deployments'[i].app)
  BY DEF ImageProvenance, OriginNext
<1>1. i \in Ids /\ RowEvolves(i)
  BY DEF Evolves, RowsEvolve
<1>4. deployments[i].app \in Apps
  BY <1>1, RowAt DEF IInv, Row
<1>2. CASE deployments[i].status \notin Active
  <2>1. /\ deployments'[i].image = deployments[i].image /\ deployments'[i].app = deployments[i].app
        /\ deployments[i].status = "successful"
    BY <1>1, <1>2 DEF RowEvolves
  <2>2. Origin(deployments[i].image, deployments[i].app)
    BY <1>1, <2>1 DEF ImageProvenance, Origin
  <2> QED
    BY <1>4, <2>1, <2>2, OriginStays DEF Origin
<1>3. CASE deployments[i].status \in Active
  <2>1. deployments'[i].image = deployments[i].image /\ Sound(deployments[i].image, i)
    BY <1>1, <1>3, SuccessIsServed DEF Serves
  <2>2. deployments'[i].app = deployments[i].app /\ deployments'[i].action = deployments[i].action
    BY <1>1 DEF RowEvolves
  <2>3. CASE deployments[i].action = "deploy"
    BY <1>1, <2>1, <2>2, <2>3 DEF Sound, OriginNext, Evolves, RowsEvolve
  <2>4. CASE deployments[i].action # "deploy"
    <3>1. Origin(deployments[i].image, deployments[i].app)
      BY <2>1, <2>4 DEF Sound
    <3> QED
      BY <1>4, <2>1, <2>2, <3>1, OriginStays DEF Origin
  <2> QED
    BY <2>3, <2>4
<1> QED
  BY <1>2, <1>3

\* The newest row of an application names the release, if it is successful.
LEMMA ReleaseStays ==
    ASSUME IInv, TypeOK', Newest, NewestSuccessIsReleased, Evident, Evolves
    PROVE  NewestSuccessIsReleased'
<1> SUFFICES ASSUME NEW i \in Ids', deployments'[i].status = "successful",
                    \A j \in Ids' : deployments'[j].app = deployments'[i].app => j <= i
             PROVE  released'[deployments'[i].app] = deployments'[i].image
  BY DEF NewestSuccessIsReleased
<1>1. i \in Ids /\ RowEvolves(i)
  BY DEF Evolves, RowsEvolve
<1>2. deployments'[i].app = deployments[i].app /\ deployments[i].app \in Apps
  <2>1. deployments[i] \in Row
    BY <1>1, RowAt DEF IInv
  <2> QED
    BY <1>1, <2>1 DEF RowEvolves, Row
<1>3. CASE deployments[i].status \notin Active
  <2>1. deployments[i].status = "successful" /\ deployments'[i].image = deployments[i].image
    BY <1>1, <1>3 DEF RowEvolves
  <2>2. \A j \in Ids : deployments[j].app = deployments[i].app => j <= i
    <3> TAKE j \in Ids
    <3>1. j \in Ids' /\ RowEvolves(j)
      BY DEF Evolves, RowsEvolve
    <3> QED
      BY <1>2, <3>1 DEF RowEvolves
  <2>3. released[deployments[i].app] = deployments[i].image
    BY <1>1, <2>1, <2>2 DEF NewestSuccessIsReleased
  <2>4. ASSUME released'[deployments[i].app] # released[deployments[i].app]
        PROVE  FALSE
    <3>1. PICK k \in Ids : /\ deployments[k].app = deployments[i].app
                           /\ deployments[k].status = "running"
      BY <1>2, <2>4 DEF Evolves, ReleasedByJob
    <3>2. i <= k /\ k <= i
      BY <1>1, <2>2, <3>1 DEF Newest, Active
    <3>3. k = i
      BY <1>1, <3>2 DEF Ids
    <3> QED
      BY <2>1, <3>1, <3>3
  <2> QED
    BY <1>2, <2>1, <2>3, <2>4
<1>4. CASE deployments[i].status \in Active
  BY <1>1, <1>2, <1>4, SuccessIsServed DEF Serves
<1> QED
  BY <1>3, <1>4

-----------------------------------------------------------------------------
(***************************************************************************)
(* The evidence of the workers and the count of the rollbacks.             *)
(***************************************************************************)

\* Worker v does not move, and nobody touches what its evidence is about.
Steady(v) ==
    /\ pc'[v] = pc[v] /\ job'[v] = job[v] /\ image'[v] = image[v]
    /\ err'[v] = err[v] /\ verdict'[v] = verdict[v]
    /\ Owns(v) => /\ deployments'[job[v]].image = deployments[job[v]].image
                  /\ deployments'[job[v]].stage = deployments[job[v]].stage
                  /\ released'[deployments[job[v]].app] = released[deployments[job[v]].app]

\* Such a worker keeps its evidence.
LEMMA SteadyKeepsEvidence ==
    ASSUME IInv, Evolves, NEW v \in Workers, Evidence(v), Steady(v)
    PROVE  Evidence(v)'
<1>1. CASE pc[v] \in {"idle", "claimed", "resolving", "describing"}
  BY <1>1 DEF Evidence, Steady
<1>2. CASE pc[v] \notin {"idle", "claimed", "resolving", "describing"}
  <2>1. job[v] \in Ids
    BY <1>2 DEF IInv, Ownership
  <2>2. RowEvolves(job[v]) /\ deployments[job[v]].app \in Apps
    <3>1. deployments[job[v]] \in Row
      BY <2>1, RowAt DEF IInv
    <3> QED
      BY <2>1, <3>1 DEF Evolves, RowsEvolve, Row
  <2>3. /\ deployments'[job[v]].app = deployments[job[v]].app
        /\ deployments'[job[v]].action = deployments[job[v]].action
    BY <2>2 DEF RowEvolves
  <2>4. CASE pc[v] = "queueing"
    BY <2>2, <2>4 DEF RowEvolves, Evidence, Steady
  <2>5. CASE pc[v] # "queueing"
    <3>1. Owns(v)
      BY <1>2, <2>5 DEF Owns, IInv, TypeOK
    <3>2. \A m : Origin(m, deployments[job[v]].app) => OriginNext(m, deployments[job[v]].app)
      BY <2>2, OriginStays DEF Origin
    <3>3. \A m : Serves(m, job[v]) =>
             /\ IF deployments'[job[v]].action = "deploy" THEN m = job[v]
                ELSE OriginNext(m, deployments'[job[v]].app)
             /\ released'[deployments'[job[v]].app] = m
      BY <2>3, <3>1, <3>2 DEF Serves, Sound, Steady
    <3>4. CASE pc[v] \in {"deploying", "starting"}
      BY <2>3, <3>2, <3>4 DEF Evidence, Steady, Origin, OriginNext
    <3>5. CASE pc[v] = "recording"
      <4>1. err[v] = "" => Serves(image[v], job[v])
        BY <3>5 DEF Evidence
      <4>2. /\ pc'[v] = "recording" /\ job'[v] = job[v]
            /\ err'[v] = err[v] /\ image'[v] = image[v]
        BY <3>5 DEF Steady
      <4>3. err'[v] = "" =>
               /\ IF deployments'[job'[v]].action = "deploy" THEN image'[v] = job'[v]
                  ELSE OriginNext(image'[v], deployments'[job'[v]].app)
               /\ released'[deployments'[job'[v]].app] = image'[v]
        BY <3>3, <4>1, <4>2
      <4>4. err'[v] = "" => Serves(image[v], job[v])'
        BY <4>3 DEF Serves, Sound, Origin, OriginNext
      <4> QED
        BY <4>2, <4>4 DEF Evidence
    <3>6. CASE pc[v] = "joining"
      <4>1. err[v] = "" => Serves(deployments[job[v]].image, job[v])
        BY <3>6 DEF Evidence
      <4>2. /\ pc'[v] = "joining" /\ job'[v] = job[v] /\ err'[v] = err[v]
            /\ deployments'[job[v]].image = deployments[job[v]].image
        BY <3>1, <3>6 DEF Steady
      <4>3. err'[v] = "" =>
               /\ IF deployments'[job'[v]].action = "deploy"
                  THEN deployments'[job'[v]].image = job'[v]
                  ELSE OriginNext(deployments'[job'[v]].image, deployments'[job'[v]].app)
               /\ released'[deployments'[job'[v]].app] = deployments'[job'[v]].image
        BY <3>3, <4>1, <4>2
      <4>4. err'[v] = "" => Serves(deployments[job[v]].image, job[v])'
        BY <4>3 DEF Serves, Sound, Origin, OriginNext
      <4> QED
        BY <4>2, <4>4 DEF Evidence
    <3>7. CASE pc[v] = "finishing"
      <4>1. verdict[v] = "successful" => Serves(deployments[job[v]].image, job[v])
        BY <3>7 DEF Evidence
      <4>2. verdict[v] = "failed" /\ deployments[job[v]].action = "deploy"
               => deployments[job[v]].stage = err[v]
        BY <3>7 DEF Evidence
      <4> QED
        BY <2>3, <3>1, <3>3, <3>7, <4>1, <4>2 DEF Evidence, Steady, Serves, Sound, Origin,
           OriginNext
    <3> QED
      BY <1>2, <2>5, <3>4, <3>5, <3>6, <3>7 DEF IInv, TypeOK, Steps
  <2> QED
    BY <2>4, <2>5
<1> QED
  BY <1>1, <1>2

\* A step of worker w that writes at most to its own row and releases at most
\* for its own application leaves the other workers' evidence alone.
LEMMA OthersAreSteady ==
    ASSUME IInv, NEW w \in Workers,
           \A v \in Workers \ {w} :
              /\ pc'[v] = pc[v] /\ job'[v] = job[v] /\ image'[v] = image[v]
              /\ err'[v] = err[v] /\ verdict'[v] = verdict[v],
           \A i \in Ids :
              \/ /\ deployments'[i].image = deployments[i].image
                 /\ deployments'[i].stage = deployments[i].stage
              \/ Owns(w) /\ i = job[w],
           \/ released' = released
           \/ Owns(w) /\ \A a \in Apps : a # deployments[job[w]].app => released'[a] = released[a]
    PROVE  \A v \in Workers \ {w} : Steady(v)
<1> SUFFICES ASSUME NEW v \in Workers \ {w}, Owns(v)
             PROVE  /\ deployments'[job[v]].image = deployments[job[v]].image
                    /\ deployments'[job[v]].stage = deployments[job[v]].stage
                    /\ released'[deployments[job[v]].app] = released[deployments[job[v]].app]
  BY DEF Steady
<1>1. job[v] \in Ids /\ (Owns(w) => job[w] \in Ids /\ job[w] # job[v])
  BY DEF IInv, Ownership, Owns
<1>2. Owns(w) => deployments[job[w]].app # deployments[job[v]].app
  BY <1>1 DEF IInv, Ownership, OneActive, Active
<1>3. deployments[job[v]].app \in Apps
  BY <1>1, RowAt DEF IInv, Row
<1> QED
  BY <1>1, <1>2, <1>3

\* Every worker that is about to queue a rollback was, or has just closed its row.
TurnsFromOwner ==
    \A v \in Workers : pc'[v] = "queueing" =>
        job'[v] = job[v] /\ (pc[v] = "queueing" \/ Owns(v))

\* The workers about to queue a rollback answer different deploys.
LEMMA AnsweringStays ==
    ASSUME IInv, Evident, Answering, TurnsFromOwner
    PROVE  Answering'
<1> SUFFICES ASSUME NEW v \in Workers, NEW w \in Workers, v # w,
                    pc'[v] = "queueing", pc'[w] = "queueing"
             PROVE  job'[v] # job'[w]
  BY DEF Answering
<1>1. job'[v] = job[v] /\ job'[w] = job[w]
  BY DEF TurnsFromOwner
<1>2. \A u \in Workers : pc[u] = "queueing" => deployments[job[u]].status \notin Active
  BY DEF Evident, Evidence
<1>3. \A u \in Workers : Owns(u) => deployments[job[u]].status \in Active
  BY DEF IInv, Ownership, Active
<1>4. (pc[v] = "queueing" \/ Owns(v)) /\ (pc[w] = "queueing" \/ Owns(w))
  BY DEF TurnsFromOwner
<1>5. Owns(v) /\ Owns(w) => job[v] # job[w]
  BY DEF IInv, Ownership
<1>6. pc[v] = "queueing" /\ pc[w] = "queueing" => job[v] # job[w]
  BY DEF Answering
<1> QED
  BY <1>1, <1>2, <1>3, <1>4, <1>5, <1>6

\* The rows of a table are finitely many.
LEMMA RowsAreFinite ==
    ASSUME TypeOK, NEW S \in SUBSET Ids
    PROVE  IsFiniteSet(S)
<1>1. Len(deployments) \in Nat
  BY LenProperties DEF TypeOK
<1>2. IsFiniteSet(1 .. Len(deployments))
  BY <1>1, FS_Interval
<1> QED
  BY <1>2, FS_Subset DEF Ids

\* A failed deploy that had its chance is never forgotten.
LEMMA CausesStay ==
    ASSUME IInv, Evolves, TurnsFromOwner, NEW a \in Apps
    PROVE  Causes(a) \subseteq Causes(a)'
<1> SUFFICES ASSUME NEW i \in Causes(a) PROVE i \in Causes(a)'
  OBVIOUS
<1>1. i \in Ids /\ i \in Ids' /\ RowEvolves(i)
  BY DEF Causes, Evolves, RowsEvolve
<1>2. /\ deployments'[i].app = a /\ deployments'[i].action = "deploy"
      /\ deployments'[i].stage = "start" /\ deployments'[i].status \notin Active
  BY <1>1 DEF RowEvolves, Causes
<1>3. \A w \in Workers : pc'[w] = "queueing" => job'[w] # i
  BY DEF TurnsFromOwner, Causes, IInv, Ownership, Active
<1> QED
  BY <1>1, <1>2, <1>3 DEF Causes

\* A step that adds no automatic rollback keeps the count.
LEMMA CountStays ==
    ASSUME IInv, TypeOK', Evolves, TurnsFromOwner, Counted,
           \A i \in Ids' \ Ids : deployments'[i].action # "auto_rollback"
    PROVE  Counted'
<1> SUFFICES ASSUME NEW a \in Apps
             PROVE  Cardinality(Rollbacks(a)') <= Cardinality(Causes(a)')
  BY DEF Counted
<1>1. Rollbacks(a)' = Rollbacks(a)
  BY DEF Rollbacks, Evolves, RowsEvolve, RowEvolves
<1>2. Causes(a) \subseteq Causes(a)'
  BY CausesStay
<1>3. Causes(a)' \subseteq Ids' /\ Causes(a) \subseteq Ids /\ Rollbacks(a) \subseteq Ids
  BY DEF Causes, Rollbacks
<1>4. IsFiniteSet(Causes(a)') /\ IsFiniteSet(Causes(a)) /\ IsFiniteSet(Rollbacks(a))
  <2>1. IsFiniteSet(Causes(a)) /\ IsFiniteSet(Rollbacks(a))
    BY <1>3, RowsAreFinite DEF IInv
  <2>2. Len(deployments') \in Nat
    BY LenProperties DEF TypeOK
  <2>3. IsFiniteSet(1 .. Len(deployments'))
    BY <2>2, FS_Interval
  <2>4. IsFiniteSet(Causes(a)')
    BY <1>3, <2>3, FS_Subset DEF Ids
  <2> QED
    BY <2>1, <2>4
<1>5. Cardinality(Causes(a)) <= Cardinality(Causes(a)')
  BY <1>2, <1>4, FS_Subset
<1>6. /\ Cardinality(Causes(a)) \in Nat /\ Cardinality(Causes(a)') \in Nat
      /\ Cardinality(Rollbacks(a)) \in Nat
  BY <1>4, FS_CardinalityType
<1>7. Cardinality(Rollbacks(a)) <= Cardinality(Causes(a))
  BY DEF Counted
<1> QED
  BY <1>1, <1>5, <1>6, <1>7

\* A step preserves JInv when the rows evolve, the workers have their evidence
\* and no automatic rollback is added.
LEMMA JStep ==
    ASSUME IInv, TypeOK', JInv, Evolves, TurnsFromOwner, \A v \in Workers : Evidence(v)',
           \A i \in Ids' \ Ids : deployments'[i].action # "auto_rollback"
    PROVE  JInv'
<1>1. /\ Newest /\ CancelHonoured /\ ImageProvenance /\ NewestSuccessIsReleased
      /\ Evident /\ Answering /\ Counted
  BY DEF JInv, Recorded
<1>2. Newest' /\ CancelHonoured' /\ ImageProvenance' /\ NewestSuccessIsReleased'
  BY <1>1, NewestStays, CancelStays, ProvenanceStays, ReleaseStays
<1>3. Evident'
  BY DEF Evident
<1>4. Answering' /\ Counted'
  BY <1>1, AnsweringStays, CountStays
<1> QED
  BY <1>2, <1>3, <1>4 DEF JInv, Recorded

-----------------------------------------------------------------------------
(***************************************************************************)
(* What the statements do to the table.                                    *)
(***************************************************************************)

\* An UPDATE of one row that keeps it active, rewrites no record, or closes it
\* with due regard to its cancellation request and to the worker's evidence.
LEMMA RewriteEvolves ==
    ASSUME TypeOK, NEW id \in Ids, NEW r \in Row,
           deployments' = [deployments EXCEPT ![id] = r],
           r.app = deployments[id].app, r.action = deployments[id].action,
           \/ deployments[id].status \in Active /\ r.status \in Active
           \/ /\ r.status = deployments[id].status /\ r.stage = deployments[id].stage
              /\ r.image = deployments[id].image /\ r.cancel = deployments[id].cancel
           \/ /\ deployments[id].status \in Active /\ r.status \notin Active
              /\ r.cancel => r.status = "cancelled"
              /\ r.status = "successful" =>
                    /\ r.image = deployments[id].image /\ released' = released
                    /\ \E w \in Workers :
                          pc[w] = "finishing" /\ verdict[w] = "successful" /\ job[w] = id
    PROVE  /\ RowsEvolve /\ Ids' = Ids
           /\ deployments'[id] = r
           /\ \A i \in Ids : i # id => deployments'[i] = deployments[i]
<1>1. /\ Len(deployments') = Len(deployments)
      /\ \A i \in Ids : deployments'[i] = IF i = id THEN r ELSE deployments[i]
  BY ReplaceRow
<1>2. Ids' = Ids
  BY <1>1 DEF Ids
<1>3. RowEvolves(id)
  BY <1>1 DEF RowEvolves, Active
<1>4. ASSUME NEW i \in Ids, i # id PROVE RowEvolves(i)
  <2>1. deployments'[i] = deployments[i]
    BY <1>1, <1>4
  <2> QED
    BY <2>1 DEF RowEvolves, Active
<1> QED
  BY <1>1, <1>2, <1>3, <1>4 DEF RowsEvolve

\* A table that is not assigned.
LEMMA SameTableEvolves ==
    ASSUME deployments' = deployments
    PROVE  RowsEvolve /\ Ids' = Ids
<1>1. Ids' = Ids
  BY DEF Ids
<1>2. \A i \in Ids : RowEvolves(i)
  BY DEF RowEvolves, Active
<1> QED
  BY <1>1, <1>2 DEF RowsEvolve

\* The INSERT of a queued row for an application without an active one.
LEMMA InsertEvolves ==
    ASSUME TypeOK, NEW a \in Apps, ~HasActive(a), NEW row \in Row,
           row.app = a, row.status = "queued", ~row.cancel,
           deployments' = Append(deployments, row)
    PROVE  /\ RowsEvolve /\ Ids' = Ids \cup {Len(deployments) + 1}
           /\ Len(deployments) + 1 \notin Ids
           /\ deployments'[Len(deployments) + 1] = row
           /\ \A i \in Ids : deployments'[i] = deployments[i]
<1>1. deployments \in Seq(Row) /\ Len(deployments) \in Nat
  BY LenProperties DEF TypeOK
<1>2. /\ Len(deployments') = Len(deployments) + 1
      /\ \A i \in Ids : deployments'[i] = deployments[i]
      /\ deployments'[Len(deployments) + 1] = row
  BY <1>1, AppendProperties DEF Ids
<1>3. Ids' = Ids \cup {Len(deployments) + 1} /\ Len(deployments) + 1 \notin Ids
  BY <1>1, <1>2 DEF Ids
<1>4. \A i \in Ids : RowEvolves(i)
  BY <1>2 DEF RowEvolves, Active
<1>5. \A j \in Ids' : j <= Len(deployments) + 1
  BY <1>1, <1>2 DEF Ids
<1> QED
  BY <1>2, <1>3, <1>4, <1>5 DEF RowsEvolve

\* The restart closes the running rows as failed by a restart.
LEMMA RecoveryEvolves ==
    ASSUME TypeOK, deployments' = RecoverInterruptedDeployments
    PROVE  RowsEvolve /\ Ids' = Ids
<1>1. Ids' = Ids
  <2>1. Recovered
    BY RecoveredTable
  <2> QED
    BY <2>1 DEF Recovered, Ids
<1>2. ASSUME NEW i \in Ids PROVE RowEvolves(i)
  <2>1. deployments[i] \in Row
    BY RowAt
  <2>2. deployments'[i] = IF deployments[i].status = "running"
                          THEN [deployments[i] EXCEPT !.status = "failed", !.stage = "restarted"]
                          ELSE deployments[i]
    BY DEF RecoverInterruptedDeployments
  <2>3. CASE deployments[i].status = "running"
    BY <2>1, <2>2, <2>3 DEF RowEvolves, Row, Active
  <2>4. CASE deployments[i].status # "running"
    BY <2>2, <2>4 DEF RowEvolves, Active
  <2> QED
    BY <2>3, <2>4
<1> QED
  BY <1>1, <1>2 DEF RowsEvolve

\* The worker that finishes its row.
LEMMA FinishEvolves ==
    ASSUME TypeOK, NEW id \in Ids, deployments[id].status = "running",
           NEW status \in {"successful", "failed", "cancelled"}, FinishDeployment(id, status),
           status = "successful" =>
              /\ released' = released
              /\ \E w \in Workers :
                    pc[w] = "finishing" /\ verdict[w] = "successful" /\ job[w] = id
    PROVE  /\ RowsEvolve /\ Ids' = Ids
           /\ \A i \in Ids : /\ deployments'[i].image = deployments[i].image
                              /\ deployments'[i].stage = deployments[i].stage
           /\ deployments'[id].status \notin Active
<1> DEFINE final == IF deployments[id].cancel THEN "cancelled" ELSE status
           r == [deployments[id] EXCEPT !.status = final]
<1>1. deployments[id] \in Row
  BY RowAt
<1>2. final \in Statuses /\ final \notin Active /\ deployments[id].status \in Active
  BY DEF Statuses, Active
<1>3. /\ deployments[id].cancel => final = "cancelled"
      /\ final = "successful" => status = "successful"
  OBVIOUS
<1>4. deployments' = [deployments EXCEPT ![id] = r]
  BY DEF FinishDeployment
<1> HIDE DEF final
<1>5. /\ r \in Row /\ r.app = deployments[id].app /\ r.action = deployments[id].action
      /\ r.status = final /\ r.stage = deployments[id].stage /\ r.image = deployments[id].image
      /\ r.cancel = deployments[id].cancel
  BY <1>1, <1>2 DEF Row
<1> HIDE DEF r
<1>6. r.cancel => r.status = "cancelled"
  BY <1>3, <1>5
<1>7. r.status = "successful" =>
         /\ r.image = deployments[id].image /\ released' = released
         /\ \E w \in Workers : pc[w] = "finishing" /\ verdict[w] = "successful" /\ job[w] = id
  BY <1>3, <1>5
<1>8. /\ RowsEvolve /\ Ids' = Ids /\ deployments'[id] = r
      /\ \A i \in Ids : i # id => deployments'[i] = deployments[i]
  BY <1>2, <1>4, <1>5, <1>6, <1>7, RewriteEvolves
<1> QED
  BY <1>2, <1>5, <1>8

\* SetDeploymentImage and SetDeploymentReleaseMetadata on a running row.
LEMMA RecordEvolves ==
    ASSUME TypeOK, NEW id \in Ids, deployments[id].status = "running",
           NEW m \in Nat, NEW t \in Refs, NEW d \in BOOLEAN,
           deployments' = [deployments EXCEPT ![id] =
                              [@ EXCEPT !.image = m, !.ref = t, !.digest = d]]
    PROVE  /\ RowsEvolve /\ Ids' = Ids /\ deployments'[id].image = m
           /\ deployments'[id].app = deployments[id].app
           /\ deployments'[id].action = deployments[id].action
           /\ \A i \in Ids : i # id => deployments'[i] = deployments[i]
<1> DEFINE r == [deployments[id] EXCEPT !.image = m, !.ref = t, !.digest = d]
<1>1. deployments[id] \in Row
  BY RowAt
<1>2. /\ r \in Row /\ r.app = deployments[id].app /\ r.action = deployments[id].action
      /\ r.status = deployments[id].status /\ r.image = m
  BY <1>1 DEF Row
<1>3. deployments' = [deployments EXCEPT ![id] = r]
  OBVIOUS
<1>4. deployments[id].status \in Active
  BY DEF Active
<1> HIDE DEF r
<1>5. /\ RowsEvolve /\ Ids' = Ids /\ deployments'[id] = r
      /\ \A i \in Ids : i # id => deployments'[i] = deployments[i]
  BY <1>2, <1>3, <1>4, RewriteEvolves
<1> QED
  BY <1>2, <1>5

\* The metadata UPDATE of a request touches no part of the record.
LEMMA DescribeEvolves ==
    ASSUME TypeOK, NEW id \in Ids, NEW t \in Refs,
           deployments' = [deployments EXCEPT ![id] = [@ EXCEPT !.ref = t, !.digest = FALSE]]
    PROVE  /\ RowsEvolve /\ Ids' = Ids
           /\ \A i \in Ids : /\ deployments'[i].image = deployments[i].image
                              /\ deployments'[i].stage = deployments[i].stage
<1> DEFINE r == [deployments[id] EXCEPT !.ref = t, !.digest = FALSE]
<1>1. deployments[id] \in Row
  BY RowAt
<1>2. /\ r \in Row /\ r.app = deployments[id].app /\ r.action = deployments[id].action
      /\ r.status = deployments[id].status /\ r.stage = deployments[id].stage
      /\ r.image = deployments[id].image /\ r.cancel = deployments[id].cancel
  BY <1>1 DEF Row
<1>3. deployments' = [deployments EXCEPT ![id] = r]
  OBVIOUS
<1> HIDE DEF r
<1>4. /\ RowsEvolve /\ Ids' = Ids /\ deployments'[id] = r
      /\ \A i \in Ids : i # id => deployments'[i] = deployments[i]
  BY <1>2, <1>3, RewriteEvolves
<1> QED
  BY <1>2, <1>4

-----------------------------------------------------------------------------
(***************************************************************************)
(* Every action preserves JInv: the handlers.                              *)
(***************************************************************************)

\* A step in which no worker moves and no owned row changes its record.
LEMMA QuietHistory ==
    ASSUME IInv, TypeOK', JInv, RowsEvolve, released' = released,
           pc' = pc, job' = job, image' = image, err' = err, verdict' = verdict,
           \A v \in Workers : Owns(v) =>
              /\ deployments'[job[v]].image = deployments[job[v]].image
              /\ deployments'[job[v]].stage = deployments[job[v]].stage,
           \A i \in Ids' \ Ids : deployments'[i].action # "auto_rollback"
    PROVE  JInv'
<1>1. Evolves
  BY DEF Evolves, ReleasedByJob
<1>2. \A v \in Workers : Evidence(v) /\ Steady(v)
  BY DEF JInv, Evident, Steady
<1>3. \A v \in Workers : Evidence(v)'
  BY <1>1, <1>2, SteadyKeepsEvidence
<1>4. TurnsFromOwner
  BY DEF TurnsFromOwner
<1> QED
  BY <1>1, <1>3, <1>4, JStep

\* The INSERT of a deploy or of a rollback that an operator or a push asks for.
LEMMA QueueDeploymentHistory ==
    ASSUME IInv, TypeOK', JInv, NEW a \in Apps, NEW action \in {"deploy", "rollback"},
           NEW t \in Refs, QueueDeployment(a, action, t)
    PROVE  JInv'
<1> USE DEF QueueDeployment, worker
<1>1. TypeOK
  BY DEF IInv
<1>2. PICK row \in {NewRow(a, action), [NewRow(a, action) EXCEPT !.ref = t]} :
        deployments' = Append(deployments, row)
  OBVIOUS
<1>3. row \in Row /\ row.app = a /\ row.status = "queued" /\ ~row.cancel /\ row.action = action
  <2>1. action \in Actions
    BY DEF Actions
  <2>2. NewRow(a, action) \in Row /\ [NewRow(a, action) EXCEPT !.ref = t] \in Row
    BY <2>1, NewRowIsQueued
  <2>3. row = NewRow(a, action) \/ row = [NewRow(a, action) EXCEPT !.ref = t]
    OBVIOUS
  <2> HIDE DEF QueueDeployment
  <2>4. row \in Row
    BY <2>2, <2>3
  <2>5. CASE row = NewRow(a, action)
    BY <2>4, <2>5 DEF NewRow
  <2>6. CASE row = [NewRow(a, action) EXCEPT !.ref = t]
    BY <2>4, <2>6 DEF NewRow
  <2> QED
    BY <2>3, <2>5, <2>6
<1>4. /\ RowsEvolve /\ Ids' = Ids \cup {Len(deployments) + 1}
      /\ deployments'[Len(deployments) + 1] = row
      /\ \A i \in Ids : deployments'[i] = deployments[i]
  BY <1>1, <1>2, <1>3, InsertEvolves
<1>5. \A v \in Workers : Owns(v) => job[v] \in Ids
  BY DEF IInv, Ownership, Owns
<1> QED
  BY <1>3, <1>4, <1>5, QuietHistory

\* The metadata UPDATE of a request, or its loss.
LEMMA DescribingHistory ==
    ASSUME IInv, TypeOK', JInv, NEW request \in describing,
           SetQueuedMetadata(request) \/ AbandonRequest(request)
    PROVE  JInv'
<1> USE DEF worker
<1>1. TypeOK /\ request.id \in Ids /\ request.ref \in Refs
  BY DEF IInv, TypeOK
<1>2. \A v \in Workers : Owns(v) => job[v] \in Ids
  BY DEF IInv, Ownership, Owns
<1>3. CASE SetQueuedMetadata(request)
  <2>1. /\ RowsEvolve /\ Ids' = Ids
        /\ \A i \in Ids : /\ deployments'[i].image = deployments[i].image
                           /\ deployments'[i].stage = deployments[i].stage
    BY <1>1, <1>3, DescribeEvolves DEF SetQueuedMetadata
  <2> QED
    BY <1>2, <1>3, <2>1, QuietHistory DEF SetQueuedMetadata
<1>4. CASE AbandonRequest(request)
  <2>1. RowsEvolve /\ Ids' = Ids
    BY <1>4, SameTableEvolves DEF AbandonRequest
  <2> QED
    BY <1>4, <2>1, QuietHistory DEF AbandonRequest
<1> QED
  BY <1>3, <1>4

\* The cancel handler closes a queued row, or leaves a request in a running one.
LEMMA CancelDeploymentHistory ==
    ASSUME IInv, TypeOK', JInv, NEW id \in Ids, CancelDeployment(id)
    PROVE  JInv'
<1> USE DEF CancelDeployment, worker
<1>1. TypeOK
  BY DEF IInv
<1>2. deployments[id] \in Row
  BY <1>1, RowAt
<1>3. PICK r \in Row :
         /\ deployments' = [deployments EXCEPT ![id] = r]
         /\ r.app = deployments[id].app /\ r.action = deployments[id].action
         /\ r.image = deployments[id].image /\ r.stage = deployments[id].stage
         /\ deployments[id].status \in Active
         /\ r.status \in Active \cup {"cancelled"}
  <2>1. CASE /\ deployments[id].status = "queued"
             /\ deployments' = [deployments EXCEPT ![id].status = "cancelled"]
    <3> DEFINE r == [deployments[id] EXCEPT !.status = "cancelled"]
    <3>1. /\ r \in Row /\ r.app = deployments[id].app /\ r.action = deployments[id].action
          /\ r.image = deployments[id].image /\ r.stage = deployments[id].stage
          /\ r.status = "cancelled"
      BY <1>2 DEF Row, Statuses
    <3>2. deployments' = [deployments EXCEPT ![id] = r]
      BY <2>1
    <3> HIDE DEF r
    <3> QED
      BY <2>1, <3>1, <3>2 DEF Active
  <2>2. CASE /\ deployments[id].status = "running"
             /\ deployments' = [deployments EXCEPT ![id].cancel = TRUE]
    <3> DEFINE r == [deployments[id] EXCEPT !.cancel = TRUE]
    <3>1. /\ r \in Row /\ r.app = deployments[id].app /\ r.action = deployments[id].action
          /\ r.image = deployments[id].image /\ r.stage = deployments[id].stage
          /\ r.status = deployments[id].status
      BY <1>2 DEF Row
    <3>2. deployments' = [deployments EXCEPT ![id] = r]
      BY <2>2
    <3> HIDE DEF r
    <3> QED
      BY <2>2, <3>1, <3>2 DEF Active
  <2> QED
    BY <2>1, <2>2
<1>4. /\ RowsEvolve /\ Ids' = Ids
      /\ \A i \in Ids : /\ deployments'[i].image = deployments[i].image
                         /\ deployments'[i].stage = deployments[i].stage
  <2>1. /\ RowsEvolve /\ Ids' = Ids /\ deployments'[id] = r
        /\ \A i \in Ids : i # id => deployments'[i] = deployments[i]
    BY <1>1, <1>3, RewriteEvolves DEF Active
  <2> QED
    BY <1>3, <2>1
<1>5. \A v \in Workers : Owns(v) => job[v] \in Ids
  BY DEF IInv, Ownership, Owns
<1> QED
  BY <1>4, <1>5, QuietHistory

\* A heartbeat writes nothing that the history is about.
LEMMA HeartbeatHistory ==
    ASSUME IInv, TypeOK', JInv, NEW w \in Workers, HeartbeatStep(w)
    PROVE  JInv'
<1> USE DEF HeartbeatStep, HeartbeatDeployment, HeartbeatExit, table, worker
<1>1. RowsEvolve /\ Ids' = Ids
  BY SameTableEvolves
<1> QED
  BY <1>1, QuietHistory

\* A crash forgets the workers, and every failed deploy keeps its single chance.
LEMMA CrashHistory ==
    ASSUME IInv, TypeOK', JInv, Crash
    PROVE  JInv'
<1> USE DEF Crash
<1>1. RowsEvolve /\ Ids' = Ids
  BY SameTableEvolves
<1>2. Evolves
  BY <1>1 DEF Evolves, ReleasedByJob
<1>3. \A v \in Workers : pc'[v] = "idle"
  OBVIOUS
<1>4. TurnsFromOwner /\ \A v \in Workers : Evidence(v)'
  BY <1>3 DEF TurnsFromOwner, Evidence
<1> QED
  BY <1>1, <1>2, <1>4, JStep

\* The start closes the running rows before there is a worker.
LEMMA StartQueueHistory ==
    ASSUME IInv, TypeOK', JInv, StartQueue
    PROVE  JInv'
<1> USE DEF StartQueue, worker
<1>1. TypeOK /\ \A v \in Workers : ~Owns(v)
  BY DEF IInv, DownIdle, Owns
<1>2. RowsEvolve /\ Ids' = Ids
  BY <1>1, RecoveryEvolves
<1> QED
  BY <1>1, <1>2, QuietHistory

-----------------------------------------------------------------------------
(***************************************************************************)
(* The workers.                                                            *)
(***************************************************************************)

\* A step of one worker: the others are steady, so its own evidence is what
\* remains to be shown.
LEMMA WorkerHistory ==
    ASSUME IInv, TypeOK', JInv, NEW w \in Workers, RowsEvolve, Ids' = Ids,
           \A v \in Workers \ {w} :
              /\ pc'[v] = pc[v] /\ job'[v] = job[v] /\ image'[v] = image[v]
              /\ err'[v] = err[v] /\ verdict'[v] = verdict[v],
           \A i \in Ids :
              \/ /\ deployments'[i].image = deployments[i].image
                 /\ deployments'[i].stage = deployments[i].stage
              \/ Owns(w) /\ i = job[w],
           \/ released' = released
           \/ /\ Owns(w) /\ deployments'[job[w]].status = "running"
              /\ \A a \in Apps : a # deployments[job[w]].app => released'[a] = released[a],
           pc'[w] = "queueing" => job'[w] = job[w] /\ Owns(w),
           Evidence(w)'
    PROVE  JInv'
<1>1. \A v \in Workers \ {w} : Steady(v)
  BY OthersAreSteady
<1>2. Evolves
  BY DEF Evolves, ReleasedByJob, IInv, Ownership, Owns
<1>3. \A v \in Workers : Evidence(v)'
  BY <1>1, <1>2, SteadyKeepsEvidence DEF JInv, Evident
<1>4. TurnsFromOwner
  BY DEF TurnsFromOwner
<1> QED
  BY <1>2, <1>3, <1>4, JStep

\* Return leaves the other workers alone and needs no evidence.
LEMMA ReturnLocals ==
    ASSUME TypeOK, NEW w \in Workers, Return(w)
    PROVE  /\ \A v \in Workers \ {w} :
                 /\ pc'[v] = pc[v] /\ job'[v] = job[v] /\ image'[v] = image[v]
                 /\ err'[v] = err[v] /\ verdict'[v] = verdict[v]
           /\ pc'[w] = "idle" /\ Evidence(w)'
<1>1. pc'[w] = "idle"
  BY DEF TypeOK, Return
<1> QED
  BY <1>1 DEF TypeOK, Return, Evidence

\* The claim of a queued row.
LEMMA ClaimHistory ==
    ASSUME IInv, TypeOK', JInv, NEW w \in Workers, NextQueuedDeployment(w)
    PROVE  JInv'
<1> USE DEF NextQueuedDeployment, Goto
<1>1. TypeOK
  BY DEF IInv
<1>2. PICK id \in Queued :
         /\ deployments' = [deployments EXCEPT ![id].status = "running"]
         /\ job' = [job EXCEPT ![w] = id]
  OBVIOUS
<1> DEFINE r == [deployments[id] EXCEPT !.status = "running"]
<1>3. id \in Ids /\ deployments[id].status = "queued" /\ deployments[id] \in Row
  BY <1>1, RowAt DEF Queued
<1>4. /\ r \in Row /\ r.app = deployments[id].app /\ r.action = deployments[id].action
      /\ r.image = deployments[id].image /\ r.stage = deployments[id].stage
      /\ r.status = "running"
  BY <1>3 DEF Row, Statuses
<1>5. deployments' = [deployments EXCEPT ![id] = r]
  BY <1>2
<1> HIDE DEF r
<1>6. /\ RowsEvolve /\ Ids' = Ids /\ deployments'[id] = r
      /\ \A i \in Ids : i # id => deployments'[i] = deployments[i]
  BY <1>1, <1>3, <1>4, <1>5, RewriteEvolves DEF Active
<1>7. \A v \in Workers \ {w} :
         /\ pc'[v] = pc[v] /\ job'[v] = job[v] /\ image'[v] = image[v]
         /\ err'[v] = err[v] /\ verdict'[v] = verdict[v]
  BY <1>1, <1>2 DEF TypeOK
<1>8. pc'[w] = "claimed"
  BY <1>1 DEF TypeOK
<1>9. Evidence(w)'
  BY <1>8 DEF Evidence
<1>10. \A i \in Ids : /\ deployments'[i].image = deployments[i].image
                      /\ deployments'[i].stage = deployments[i].stage
  BY <1>4, <1>6
<1>11. released' = released
  OBVIOUS
<1> HIDE DEF NextQueuedDeployment
<1> QED
  BY <1>6, <1>7, <1>8, <1>9, <1>10, <1>11, WorkerHistory

\* A job without a log file fails and records nothing.
LEMMA OpenLogFailsHistory ==
    ASSUME IInv, TypeOK', JInv, NEW w \in Workers, OpenLogFails(w)
    PROVE  JInv'
<1> USE DEF OpenLogFails
<1>1. TypeOK /\ job[w] \in Ids /\ deployments[job[w]].status = "running"
  BY DEF IInv, Ownership, Owns, Steps
<1>2. /\ RowsEvolve /\ Ids' = Ids
      /\ \A i \in Ids : /\ deployments'[i].image = deployments[i].image
                         /\ deployments'[i].stage = deployments[i].stage
  BY <1>1, FinishEvolves
<1> QED
  BY <1>1, <1>2, ReturnLocals, WorkerHistory

\* The variables of the worker goroutines are functions on the workers.
LEMMA LocalTypes ==
    ASSUME IInv
    PROVE  /\ pc \in [Workers -> Steps] /\ job \in [Workers -> Nat]
           /\ image \in [Workers -> Nat] /\ err \in [Workers -> Stages \cup {""}]
           /\ verdict \in [Workers -> {"", "successful", "failed", "cancelled"}]
BY DEF IInv, TypeOK

\* The configuration is read: the branch follows the action of the row.
LEMMA BeginJobHistory ==
    ASSUME IInv, TypeOK', JInv, NEW w \in Workers, BeginJob(w)
    PROVE  JInv'
<1> USE DEF BeginJob, Goto, table
<1>1. TypeOK
  BY DEF IInv
<1>2. RowsEvolve /\ Ids' = Ids /\ released' = released
  BY SameTableEvolves
<1>3. \A v \in Workers \ {w} :
         /\ pc'[v] = pc[v] /\ job'[v] = job[v] /\ image'[v] = image[v]
         /\ err'[v] = err[v] /\ verdict'[v] = verdict[v]
  BY LocalTypes
<1>4. Evidence(w)' /\ pc'[w] # "queueing"
  <2>1. CASE /\ err' = [err EXCEPT ![w] = "start"]
             /\ pc' = [pc EXCEPT ![w] = "joining"]
    <3>1. err'[w] = "start" /\ pc'[w] = "joining"
      BY <2>1, LocalTypes
    <3> QED
      BY <3>1 DEF Evidence
  <2>2. CASE pc' = [pc EXCEPT ![w] = IF deployments[job[w]].action = "deploy"
                                     THEN "deploying" ELSE "resolving"]
    <3>1. /\ pc'[w] = IF deployments[job[w]].action = "deploy" THEN "deploying" ELSE "resolving"
          /\ deployments' = deployments /\ job' = job
      BY <1>1, <2>2 DEF TypeOK
    <3> QED
      BY <3>1 DEF Evidence
  <2> QED
    BY <2>1, <2>2
<1>5. deployments' = deployments
  OBVIOUS
<1> HIDE DEF BeginJob
<1> QED
  BY <1>2, <1>3, <1>4, <1>5, WorkerHistory

\* The number 0 stands for no image, and no row has it as its id.
LEMMA IdsArePositive == \A i \in Ids : i # 0
BY DEF Ids

\* What every step of a worker that owns its row starts from.
LEMMA OwnedRow ==
    ASSUME IInv, NEW w \in Workers, Owns(w)
    PROVE  /\ TypeOK /\ job[w] \in Ids /\ deployments[job[w]] \in Row
           /\ deployments[job[w]].status = "running" /\ deployments[job[w]].app \in Apps
<1>1. TypeOK /\ job[w] \in Ids /\ deployments[job[w]].status = "running"
  BY DEF IInv, Ownership, Owns
<1>2. deployments[job[w]] \in Row
  BY <1>1, RowAt
<1> QED
  BY <1>1, <1>2 DEF Row

\* An executor call succeeds: the release is the image the worker will record.
LEMMA ReleaseHistory ==
    ASSUME IInv, TypeOK', JInv, NEW w \in Workers, DeploySucceeds(w) \/ RollbackSucceeds(w)
    PROVE  JInv'
<1> USE DEF DeploySucceeds, RollbackSucceeds, Goto, table
<1> DEFINE a == deployments[job[w]].app
<1>1. /\ TypeOK /\ Owns(w) /\ job[w] \in Ids /\ a \in Apps
      /\ deployments[job[w]].status = "running"
  <2>1. Owns(w)
    BY DEF Owns, Steps
  <2> QED
    BY <2>1, OwnedRow
<1>2. RowsEvolve /\ Ids' = Ids /\ deployments' = deployments /\ job' = job
  BY SameTableEvolves
<1>3. \A v \in Workers \ {w} :
         /\ pc'[v] = pc[v] /\ job'[v] = job[v] /\ image'[v] = image[v]
         /\ err'[v] = err[v] /\ verdict'[v] = verdict[v]
  BY LocalTypes
<1>4. pc'[w] = "recording"
  BY <1>1 DEF TypeOK
<1>5. released'[a] = image'[w] /\ \A b \in Apps : b # a => released'[b] = released[b]
  <2>1. released \in [Apps -> Nat] /\ image \in [Workers -> Nat]
    BY <1>1 DEF TypeOK
  <2>2. CASE DeploySucceeds(w)
    BY <1>1, <2>1, <2>2
  <2>3. CASE RollbackSucceeds(w)
    BY <1>1, <2>1, <2>3
  <2> QED
    BY <2>2, <2>3
<1>6. Sound(image'[w], job[w])
  <2>1. Evidence(w)
    BY DEF JInv, Evident
  <2>2. CASE DeploySucceeds(w)
    <3>1. image'[w] = job[w]
      BY <1>1, <2>2 DEF TypeOK
    <3> QED
      BY <2>1, <2>2, <3>1 DEF Evidence, Sound
  <2>3. CASE RollbackSucceeds(w)
    BY <2>1, <2>3 DEF Evidence, Sound
  <2> QED
    BY <2>2, <2>3
<1> HIDE DEF DeploySucceeds, RollbackSucceeds
<1>7. Serves(image[w], job[w])'
  BY <1>2, <1>5, <1>6 DEF Serves, Sound, Origin, Ids
<1>8. Evidence(w)'
  BY <1>4, <1>7 DEF Evidence
<1> QED
  BY <1>1, <1>2, <1>3, <1>4, <1>5, <1>8, WorkerHistory

\* An executor call, or the search for its target, fails: the worker holds an
\* error from here on.
LEMMA FailureHistory ==
    ASSUME IInv, TypeOK', JInv, NEW w \in Workers,
           DeployFails(w) \/ ResolveTargetFails(w) \/ RollbackFails(w)
    PROVE  JInv'
<1> USE DEF DeployFails, ResolveTargetFails, RollbackFails, Goto, table
<1>1. TypeOK
  BY DEF IInv
<1>2. RowsEvolve /\ Ids' = Ids /\ deployments' = deployments /\ released' = released
  BY SameTableEvolves
<1>3. \A v \in Workers \ {w} :
         /\ pc'[v] = pc[v] /\ job'[v] = job[v] /\ image'[v] = image[v]
         /\ err'[v] = err[v] /\ verdict'[v] = verdict[v]
  BY LocalTypes
<1>4. pc'[w] \in {"recording", "joining"} /\ err'[w] \in Stages
  BY <1>1 DEF TypeOK, Stages
<1>5. Evidence(w)'
  BY <1>4 DEF Evidence, Stages
<1> HIDE DEF DeployFails, ResolveTargetFails, RollbackFails
<1> QED
  BY <1>2, <1>3, <1>4, <1>5, WorkerHistory

\* The target of a rollback is a successful row, so its image has an origin.
LEMMA ResolveTargetHistory ==
    ASSUME IInv, TypeOK', JInv, NEW w \in Workers, ResolveTarget(w)
    PROVE  JInv'
<1> USE DEF ResolveTarget, Goto
<1> DEFINE a == deployments[job[w]].app
<1>1. /\ TypeOK /\ Owns(w) /\ job[w] \in Ids /\ a \in Apps
      /\ deployments[job[w]].status = "running"
  <2>1. Owns(w)
    BY DEF Owns, Steps
  <2> QED
    BY <2>1, OwnedRow
<1>2. PICK i \in Ids :
         /\ IsTarget(i, job[w])
         /\ image' = [image EXCEPT ![w] = deployments[i].image]
         /\ deployments' = [deployments EXCEPT ![job[w]] =
               [@ EXCEPT !.image = deployments[i].image, !.ref = deployments[i].ref,
                         !.digest = TRUE]]
  OBVIOUS
<1>3. /\ deployments[i].app = a /\ deployments[i].status = "successful"
      /\ deployments[job[w]].action # "deploy"
  BY <1>2 DEF IsTarget, IsPreviousSuccessful, IsLatestSuccessful, Successful
<1>4. Origin(deployments[i].image, a)
  BY <1>3 DEF JInv, Recorded, ImageProvenance, Origin
<1>5. deployments[i].image \in Nat /\ deployments[i].ref \in Refs
  BY <1>1, RowAt DEF Row
<1>6. /\ RowsEvolve /\ Ids' = Ids
      /\ deployments'[job[w]].app = a
      /\ deployments'[job[w]].action = deployments[job[w]].action
      /\ \A k \in Ids : k # job[w] => deployments'[k] = deployments[k]
  BY <1>1, <1>2, <1>5, RecordEvolves
<1>7. \A v \in Workers \ {w} :
         /\ pc'[v] = pc[v] /\ job'[v] = job[v] /\ image'[v] = image[v]
         /\ err'[v] = err[v] /\ verdict'[v] = verdict[v]
  BY <1>1, <1>2 DEF TypeOK
<1>8. pc'[w] = "starting" /\ image'[w] = deployments[i].image /\ job' = job
      /\ released' = released
  BY <1>1, <1>2 DEF TypeOK
<1> HIDE DEF ResolveTarget
<1>9. Origin(image[w], deployments[job[w]].app)'
  <2>1. deployments[i].image # job[w]
    BY <1>1, <1>3, <1>4 DEF Origin
  <2>2. deployments'[deployments[i].image] = deployments[deployments[i].image]
    BY <1>4, <1>6, <2>1 DEF Origin
  <2> QED
    BY <1>4, <1>6, <1>8, <2>2 DEF Origin
<1>10. Evidence(w)'
  BY <1>3, <1>6, <1>8, <1>9 DEF Evidence
<1> QED
  BY <1>1, <1>6, <1>7, <1>8, <1>10, WorkerHistory

\* The evidence moves from the worker's locals into the row.
LEMMA RecordReleaseHistory ==
    ASSUME IInv, TypeOK', JInv, NEW w \in Workers, RecordRelease(w)
    PROVE  JInv'
<1> USE DEF RecordRelease, Goto
<1> DEFINE a == deployments[job[w]].app
           m == IF image[w] # 0 THEN image[w] ELSE deployments[job[w]].image
<1>1. /\ TypeOK /\ Owns(w) /\ job[w] \in Ids /\ a \in Apps
      /\ deployments[job[w]].status = "running"
  <2>1. Owns(w)
    BY DEF Owns, Steps
  <2> QED
    BY <2>1, OwnedRow
<1>2. PICK d \in BOOLEAN :
         deployments' = [deployments EXCEPT ![job[w]] =
               [@ EXCEPT !.image = m, !.ref = ref[w], !.digest = d]]
  BY Zenon
<1>3. m \in Nat /\ ref[w] \in Refs
  BY <1>1, RowAt DEF TypeOK, Row
<1>4. err[w] = "" => Serves(image[w], job[w]) /\ m = image[w]
  <2> SUFFICES ASSUME err[w] = "" PROVE Serves(image[w], job[w]) /\ m = image[w]
    OBVIOUS
  <2>1. Serves(image[w], job[w])
    BY DEF JInv, Evident, Evidence
  <2>2. image[w] \in Ids
    BY <1>1, <2>1 DEF Serves, Sound, Origin
  <2>3. image[w] # 0
    BY <2>2, IdsArePositive, Zenon
  <2> QED
    BY <2>1, <2>3
<1> HIDE DEF m
<1>5. /\ RowsEvolve /\ Ids' = Ids /\ deployments'[job[w]].image = m
      /\ deployments'[job[w]].app = a
      /\ deployments'[job[w]].action = deployments[job[w]].action
      /\ \A k \in Ids : k # job[w] => deployments'[k] = deployments[k]
  BY <1>1, <1>2, <1>3, RecordEvolves
<1>6. \A v \in Workers \ {w} :
         /\ pc'[v] = pc[v] /\ job'[v] = job[v] /\ image'[v] = image[v]
         /\ err'[v] = err[v] /\ verdict'[v] = verdict[v]
  BY LocalTypes
<1>7. pc'[w] = "joining" /\ job' = job /\ err' = err /\ released' = released
  BY <1>1 DEF TypeOK
<1> HIDE DEF RecordRelease
<1>8. err[w] = "" => Serves(deployments[job[w]].image, job[w])'
  <2> SUFFICES ASSUME err[w] = "" PROVE Serves(deployments[job[w]].image, job[w])'
    OBVIOUS
  <2>1. Sound(m, job[w]) /\ released[a] = m
    BY <1>4 DEF Serves
  <2>2. CASE deployments[job[w]].action = "deploy"
    BY <1>5, <1>7, <2>1, <2>2 DEF Serves, Sound
  <2>3. CASE deployments[job[w]].action # "deploy"
    <3>1. Origin(m, a)
      BY <2>1, <2>3 DEF Sound
    <3>2. m \in Ids /\ deployments'[m] = deployments[m]
      BY <1>1, <1>5, <3>1 DEF Origin
    <3> QED
      BY <1>5, <1>7, <2>1, <2>3, <3>1, <3>2 DEF Serves, Sound, Origin
  <2> QED
    BY <2>2, <2>3
<1>9. Evidence(w)'
  BY <1>7, <1>8 DEF Evidence
<1> QED
  BY <1>1, <1>5, <1>6, <1>7, <1>9, WorkerHistory

\* Joining the heartbeat may only take a success away; a failure nobody asked
\* for is recorded under the stage of the error.
LEMMA DecideStatusHistory ==
    ASSUME IInv, TypeOK', JInv, NEW w \in Workers, DecideStatus(w)
    PROVE  JInv'
<1> USE DEF DecideStatus, JoinHeartbeat, Goto
<1> DEFINE id == job[w]
           cancelled == deployments[job[w]].cancel
<1>1. /\ TypeOK /\ Owns(w) /\ id \in Ids /\ deployments[id] \in Row
      /\ deployments[id].status = "running"
  <2>1. Owns(w)
    BY DEF Owns, Steps
  <2> QED
    BY <2>1, OwnedRow
<1>2. /\ err' \in [Workers -> Stages \cup {""}]
      /\ err'[w] = "" => err[w] = ""
  BY <1>1 DEF TypeOK, Stages
<1>3. PICK r \in Row :
         /\ deployments' = [deployments EXCEPT ![id] = r]
         /\ r.app = deployments[id].app /\ r.action = deployments[id].action
         /\ r.status = deployments[id].status /\ r.image = deployments[id].image
         /\ ~cancelled /\ err'[w] # "" => r.stage = FailureStage(w)
  <2>1. FailureStage(w) \in RowStages
    BY <1>1, <1>2 DEF FailureStage, RowStages
  <2>2. CASE ~cancelled /\ err'[w] # ""
    <3> DEFINE r == [deployments[id] EXCEPT !.stage = FailureStage(w)]
    <3>1. /\ r \in Row /\ r.app = deployments[id].app /\ r.action = deployments[id].action
          /\ r.status = deployments[id].status /\ r.image = deployments[id].image
          /\ r.stage = FailureStage(w)
      BY <1>1, <2>1 DEF Row
    <3>2. deployments' = [deployments EXCEPT ![id] = r]
      BY <2>2
    <3> HIDE DEF r
    <3> QED
      BY <3>1, <3>2
  <2>3. CASE ~(~cancelled /\ err'[w] # "")
    <3>1. deployments' = deployments
      BY <2>3
    <3>2. deployments = [deployments EXCEPT ![id] = deployments[id]]
      <4>1. deployments \in [1 .. Len(deployments) -> Row]
        BY <1>1, LenProperties DEF TypeOK
      <4> HIDE DEF DecideStatus
      <4> QED
        BY <4>1
    <3> HIDE DEF DecideStatus
    <3> QED
      BY <1>1, <2>3, <3>1, <3>2
  <2> QED
    BY <2>2, <2>3
<1>4. /\ RowsEvolve /\ Ids' = Ids /\ deployments'[id] = r
      /\ \A k \in Ids : k # id => deployments'[k] = deployments[k]
  <2>1. deployments[id].status \in Active /\ r.status \in Active
    BY <1>1, <1>3 DEF Active
  <2> HIDE DEF id, cancelled, DecideStatus
  <2> QED
    BY <1>1, <1>3, <2>1, RewriteEvolves
<1>5. \A v \in Workers \ {w} :
         /\ pc'[v] = pc[v] /\ job'[v] = job[v] /\ image'[v] = image[v]
         /\ err'[v] = err[v] /\ verdict'[v] = verdict[v]
  BY LocalTypes
<1>6. pc'[w] = "finishing" /\ job' = job /\ released' = released
  BY <1>1 DEF TypeOK
<1>7. verdict'[w] = IF cancelled THEN "cancelled"
                    ELSE IF err'[w] # "" THEN "failed" ELSE "successful"
  BY <1>1 DEF TypeOK
<1>8. err[w] = "" => Serves(deployments[id].image, id)
  BY DEF JInv, Evident, Evidence
<1> HIDE DEF DecideStatus
<1>9. verdict'[w] = "successful" => Serves(deployments[job[w]].image, job[w])'
  <2> SUFFICES ASSUME verdict'[w] = "successful"
               PROVE  Serves(deployments[job[w]].image, job[w])'
    OBVIOUS
  <2>1. Serves(r.image, id)
    BY <1>2, <1>3, <1>7, <1>8
  <2>2. \A k \in Ids : /\ deployments'[k].app = deployments[k].app
                       /\ deployments'[k].action = deployments[k].action
                       /\ deployments'[k].status = deployments[k].status
    BY <1>3, <1>4
  <2> QED
    BY <1>1, <1>4, <1>6, <2>1, <2>2 DEF Serves, Sound, Origin
<1>10. verdict'[w] = "failed" /\ deployments'[id].action = "deploy"
          => deployments'[id].stage = err'[w]
  BY <1>3, <1>4, <1>7 DEF FailureStage
<1>11. Evidence(w)'
  BY <1>6, <1>9, <1>10 DEF Evidence
<1> QED
  BY <1>1, <1>4, <1>5, <1>6, <1>11, WorkerHistory

\* The row is closed; a worker that stays has a deploy that failed to start.
LEMMA FinishJobHistory ==
    ASSUME IInv, TypeOK', JInv, NEW w \in Workers, FinishJob(w)
    PROVE  JInv'
<1> USE DEF FinishJob, Goto
<1>1. /\ TypeOK /\ Owns(w) /\ job[w] \in Ids /\ deployments[job[w]].status = "running"
  <2>1. Owns(w)
    BY DEF Owns, Steps
  <2> QED
    BY <2>1, OwnedRow
<1>2. verdict[w] \in {"successful", "failed", "cancelled"} /\ released' = released
  BY <1>1 DEF IInv, TypeOK, Decided
<1>3. /\ RowsEvolve /\ Ids' = Ids
      /\ \A i \in Ids : /\ deployments'[i].image = deployments[i].image
                         /\ deployments'[i].stage = deployments[i].stage
      /\ deployments'[job[w]].status \notin Active
  BY <1>1, <1>2, FinishEvolves
<1>4. CASE Return(w)
  BY <1>1, <1>2, <1>3, <1>4, ReturnLocals, WorkerHistory
<1>5. CASE /\ TriggersAutoRollback(w)
           /\ pc' = [pc EXCEPT ![w] = "queueing"]
           /\ UNCHANGED <<job, ref, image, err, verdict, beat>>
  <2> HIDE DEF FinishJob
  <2>1. /\ pc'[w] = "queueing" /\ job' = job
        /\ \A v \in Workers \ {w} :
              /\ pc'[v] = pc[v] /\ job'[v] = job[v] /\ image'[v] = image[v]
              /\ err'[v] = err[v] /\ verdict'[v] = verdict[v]
    BY <1>1, <1>5 DEF TypeOK
  <2>2. deployments[job[w]].action = "deploy" /\ deployments[job[w]].stage = "start"
    <3>1. verdict[w] = "failed" /\ deployments[job[w]].action = "deploy" /\ err[w] = "start"
      BY <1>5 DEF TriggersAutoRollback
    <3>2. Evidence(w) /\ pc[w] = "finishing"
      BY DEF JInv, Evident, FinishJob
    <3> QED
      BY <3>1, <3>2 DEF Evidence
  <2>3. deployments'[job[w]].action = deployments[job[w]].action
    BY <1>1, <1>3 DEF RowsEvolve, RowEvolves
  <2>4. Evidence(w)'
    BY <1>1, <1>3, <2>1, <2>2, <2>3 DEF Evidence
  <2> QED
    BY <1>1, <1>2, <1>3, <2>1, <2>4, WorkerHistory
<1> QED
  BY <1>4, <1>5

\* The metadata of the automatic rollback.
LEMMA DescribeAutoRollbackHistory ==
    ASSUME IInv, TypeOK', JInv, NEW w \in Workers, DescribeAutoRollback(w)
    PROVE  JInv'
<1> USE DEF DescribeAutoRollback
<1>1. TypeOK /\ job[w] \in Ids /\ "" \in Refs
  BY DEF IInv, Ownership, Refs
<1>2. /\ RowsEvolve /\ Ids' = Ids
      /\ \A i \in Ids : /\ deployments'[i].image = deployments[i].image
                         /\ deployments'[i].stage = deployments[i].stage
  BY <1>1, DescribeEvolves
<1> QED
  BY <1>1, <1>2, ReturnLocals, WorkerHistory

\* The automatic rollback is inserted: the deploy that caused it had its one
\* chance and joins the causes, so the count goes up on both sides.
LEMMA InsertedRollback ==
    ASSUME IInv, TypeOK', JInv, NEW w \in Workers, pc[w] = "queueing",
           NEW a \in Apps, a = deployments[job[w]].app, ~HasActive(a),
           deployments' = Append(deployments, NewRow(a, "auto_rollback")),
           job' = [job EXCEPT ![w] = Len(deployments) + 1],
           pc' = [pc EXCEPT ![w] = "describing"],
           UNCHANGED <<image, err, verdict, released>>
    PROVE  JInv'
<1> DEFINE row == NewRow(a, "auto_rollback")
           new == Len(deployments) + 1
<1>1. TypeOK /\ ~Owns(w) /\ job[w] \in Ids
  BY DEF IInv, Owns, Steps, Ownership
<1>2. row \in Row /\ row.app = a /\ row.status = "queued" /\ ~row.cancel
      /\ row.action = "auto_rollback"
  <2>1. "auto_rollback" \in Actions /\ "" \in Refs
    BY DEF Actions, Refs
  <2>2. row \in Row
    BY <2>1, NewRowIsQueued
  <2> QED
    BY <2>2 DEF NewRow
<1> HIDE DEF row
<1>3. /\ RowsEvolve /\ Ids' = Ids \cup {new} /\ new \notin Ids
      /\ deployments'[new] = row
      /\ \A i \in Ids : deployments'[i] = deployments[i]
  BY <1>1, <1>2, InsertEvolves DEF row
<1>4. Evolves
  BY <1>3 DEF Evolves, ReleasedByJob
<1>5. \A v \in Workers \ {w} :
         /\ pc'[v] = pc[v] /\ job'[v] = job[v] /\ image'[v] = image[v]
         /\ err'[v] = err[v] /\ verdict'[v] = verdict[v]
  BY LocalTypes
<1>6. pc'[w] = "describing"
  BY <1>1 DEF TypeOK
<1>7. Evident'
  <2>1. \A v \in Workers \ {w} : Steady(v)
    BY <1>3, <1>5, OthersAreSteady
  <2>2. \A v \in Workers \ {w} : Evidence(v)'
    BY <1>4, <2>1, SteadyKeepsEvidence DEF JInv, Evident
  <2>3. Evidence(w)'
    BY <1>6 DEF Evidence
  <2> QED
    BY <2>2, <2>3 DEF Evident
<1>8. TurnsFromOwner
  BY <1>5, <1>6 DEF TurnsFromOwner
<1>9. Answering'
  BY <1>8, AnsweringStays DEF JInv
<1>10. Newest' /\ Recorded'
  BY <1>4, NewestStays, CancelStays, ProvenanceStays, ReleaseStays DEF JInv, Recorded
<1>11. Counted'
  <2> SUFFICES ASSUME NEW b \in Apps
               PROVE  Cardinality(Rollbacks(b)') <= Cardinality(Causes(b)')
    BY DEF Counted
  <2>1. Causes(b) \subseteq Causes(b)'
    BY <1>4, <1>8, CausesStay
  <2>2. Rollbacks(b)' = IF b = a THEN Rollbacks(b) \cup {new} ELSE Rollbacks(b)
    BY <1>2, <1>3 DEF Rollbacks
  <2>3. /\ IsFiniteSet(Causes(b)) /\ IsFiniteSet(Rollbacks(b))
        /\ new \notin Rollbacks(b)
    <3>1. Causes(b) \subseteq Ids /\ Rollbacks(b) \subseteq Ids
      BY DEF Causes, Rollbacks
    <3> QED
      BY <1>1, <1>3, <3>1, RowsAreFinite
  <2>4. IsFiniteSet(Causes(b)')
    <3>1. Len(deployments') \in Nat
      BY LenProperties DEF TypeOK
    <3>2. IsFiniteSet(1 .. Len(deployments'))
      BY <3>1, FS_Interval
    <3>3. Causes(b)' \subseteq 1 .. Len(deployments')
      BY DEF Causes, Ids
    <3> QED
      BY <3>2, <3>3, FS_Subset
  <2>5. /\ Cardinality(Causes(b)) \in Nat /\ Cardinality(Causes(b)') \in Nat
        /\ Cardinality(Rollbacks(b)) \in Nat
        /\ Cardinality(Rollbacks(b)) <= Cardinality(Causes(b))
    BY <2>3, <2>4, FS_CardinalityType DEF JInv, Counted
  <2>6. CASE b # a
    <3>1. Cardinality(Causes(b)) <= Cardinality(Causes(b)')
      BY <2>1, <2>4, FS_Subset
    <3> QED
      BY <2>2, <2>5, <2>6, <3>1
  <2>7. CASE b = a
    <3>1. job[w] \notin Causes(b)
      BY DEF Causes
    <3>2. job[w] \in Causes(b)'
      <4>1. /\ deployments[job[w]].action = "deploy" /\ deployments[job[w]].stage = "start"
            /\ deployments[job[w]].status \notin Active
        BY DEF JInv, Evident, Evidence
      <4>2. \A v \in Workers : pc'[v] = "queueing" => job'[v] # job[w]
        BY <1>5, <1>6 DEF JInv, Answering
      <4>3. job[w] \in Ids' /\ deployments'[job[w]] = deployments[job[w]]
        BY <1>1, <1>3
      <4> QED
        BY <2>7, <4>1, <4>2, <4>3 DEF Causes
    <3>3. IsFiniteSet(Causes(b) \cup {job[w]})
          /\ Cardinality(Causes(b) \cup {job[w]}) = Cardinality(Causes(b)) + 1
      BY <2>3, <3>1, FS_AddElement
    <3>4. Cardinality(Causes(b) \cup {job[w]}) <= Cardinality(Causes(b)')
      <4>1. Causes(b) \cup {job[w]} \subseteq Causes(b)'
        BY <2>1, <3>2
      <4> QED
        BY <2>4, <4>1, FS_Subset
    <3>5. Cardinality(Rollbacks(b) \cup {new}) = Cardinality(Rollbacks(b)) + 1
      BY <2>3, FS_AddElement
    <3> QED
      BY <2>2, <2>5, <2>7, <3>3, <3>4, <3>5
  <2> QED
    BY <2>6, <2>7
<1> QED
  BY <1>7, <1>9, <1>10, <1>11 DEF JInv

\* The worker inserts its rollback, or finds the application busy and returns.
LEMMA QueueAutoRollbackHistory ==
    ASSUME IInv, TypeOK', JInv, NEW w \in Workers, QueueAutoRollback(w)
    PROVE  JInv'
<1> USE DEF QueueAutoRollback, Goto
<1>1. TypeOK /\ job[w] \in Ids /\ deployments[job[w]].app \in Apps
  <2>1. TypeOK /\ job[w] \in Ids
    BY DEF IInv, Ownership
  <2> QED
    BY <2>1, RowAt DEF Row
<1>2. CASE Return(w) /\ deployments' = deployments
  <2>1. RowsEvolve /\ Ids' = Ids /\ released' = released
    BY <1>2, SameTableEvolves
  <2> HIDE DEF QueueAutoRollback
  <2> QED
    BY <1>1, <1>2, <2>1, ReturnLocals, WorkerHistory
<1>3. CASE /\ ~HasActive(deployments[job[w]].app)
           /\ deployments' = Append(deployments, NewRow(deployments[job[w]].app, "auto_rollback"))
           /\ job' = [job EXCEPT ![w] = Len(deployments) + 1]
           /\ pc' = [pc EXCEPT ![w] = "describing"]
           /\ UNCHANGED <<ref, image, err, verdict, beat>>
  <2>1. pc[w] = "queueing" /\ released' = released
    OBVIOUS
  <2> HIDE DEF QueueAutoRollback
  <2> QED
    BY <1>1, <1>3, <2>1, InsertedRollback
<1> QED
  BY <1>2, <1>3

-----------------------------------------------------------------------------
(***************************************************************************)
(* The theorems about the history.                                         *)
(***************************************************************************)

\* An empty history satisfies JInv.
LEMMA InitHistory == Init => JInv
<1> SUFFICES ASSUME Init PROVE JInv
  OBVIOUS
<1> USE DEF Init
<1>1. Ids = {}
  <2>1. deployments = <<>>
    BY Zenon
  <2> HIDE DEF Init
  <2>2. Len(<<>>) = 0
    BY EmptySeq
  <2>3. \A n \in 1 .. 0 : FALSE
    OBVIOUS
  <2>4. 1 .. 0 = {}
    BY <2>3
  <2> QED
    BY <2>1, <2>2, <2>4, Zenon DEF Ids
<1>2. \A w \in Workers : pc[w] = "idle"
  OBVIOUS
<1>3. \A a \in Apps : Rollbacks(a) = {} /\ Causes(a) = {}
  BY <1>1 DEF Rollbacks, Causes
<1> HIDE DEF Init
<1>4. Counted
  BY <1>3, FS_EmptySet DEF Counted
<1>5. Newest /\ Recorded
  BY <1>1 DEF Newest, Recorded, CancelHonoured, ImageProvenance, NewestSuccessIsReleased
<1>6. Evident /\ Answering
  BY <1>2 DEF Evident, Evidence, Answering
<1> QED
  BY <1>4, <1>5, <1>6 DEF JInv

\* The inductive step, one case per action.
LEMMA NextHistory == IInv /\ JInv /\ [Next]_vars => JInv'
<1> SUFFICES ASSUME IInv, JInv, [Next]_vars PROVE JInv'
  OBVIOUS
<1>1. TypeOK'
  BY NextPreserves DEF IInv
<1>2. CASE UNCHANGED vars
  <2>1. RowsEvolve /\ Ids' = Ids
    BY <1>2, SameTableEvolves DEF vars
  <2> QED
    BY <1>1, <1>2, <2>1, QuietHistory DEF vars
<1>3. ASSUME NEW a \in Apps, RequestDeploy(a) \/ RequestRollback(a) \/ WebhookPush(a)
      PROVE  JInv'
  <2>1. {"", "sha"} \subseteq Refs
    BY DEF Refs
  <2> QED
    BY <1>1, <1>3, <2>1, QueueDeploymentHistory DEF RequestDeploy, RequestRollback, WebhookPush
<1>4. ASSUME NEW request \in describing,
             SetQueuedMetadata(request) \/ AbandonRequest(request)
      PROVE  JInv'
  BY <1>1, <1>4, DescribingHistory
<1>5. ASSUME NEW id \in Ids, RequestCancel(id)
      PROVE  JInv'
  BY <1>1, <1>5, CancelDeploymentHistory DEF RequestCancel
<1>6. ASSUME NEW w \in Workers, WorkerStep(w)
      PROVE  JInv'
  BY <1>1, <1>6, ClaimHistory, OpenLogFailsHistory, BeginJobHistory, ReleaseHistory, FailureHistory,
     ResolveTargetHistory, RecordReleaseHistory, DecideStatusHistory, FinishJobHistory,
     QueueAutoRollbackHistory, DescribeAutoRollbackHistory DEF WorkerStep
<1>7. ASSUME NEW w \in Workers, HeartbeatStep(w)
      PROVE  JInv'
  BY <1>1, <1>7, HeartbeatHistory
<1> QED
  BY <1>1, <1>2, <1>3, <1>4, <1>5, <1>6, <1>7, CrashHistory, StartQueueHistory DEF Next, Request

\* IInv and JInv hold in every reachable state.
THEOREM HistoryInvariance == Spec => []JInv
BY InitHistory, NextHistory, Invariance, PTL DEF Spec

\* A durable cancellation request decides how its job ends, for any number of
\* workers and however it interleaves with FinishDeployment; only
\* RecoverInterruptedDeployments may turn it into a failure.
THEOREM CancelIsHonoured == Spec => []CancelHonoured
<1>1. JInv => CancelHonoured
  BY DEF JInv, Recorded
<1> QED
  BY <1>1, HistoryInvariance, PTL

\* Along any chain of deploys, rollbacks and automatic rollbacks a successful row
\* runs an image that a successful deploy of the same application built.
THEOREM Provenance == Spec => []ImageProvenance
<1>1. JInv => ImageProvenance
  BY DEF JInv, Recorded
<1> QED
  BY <1>1, HistoryInvariance, PTL

\* When the newest row of an application says "successful", its image is the
\* one the executor released last, through crashes and late cancellations.
THEOREM NewestIsReleased == Spec => []NewestSuccessIsReleased
<1>1. JInv => NewestSuccessIsReleased
  BY DEF JInv, Recorded
<1> QED
  BY <1>1, HistoryInvariance, PTL

\* Automatic rollbacks never outnumber the deploys that failed to start, in any
\* application and for any number of requests.
THEOREM RollbacksAreBounded == Spec => []AutoRollbackBounded
<1>1. IInv /\ JInv => AutoRollbackBounded
  <2> SUFFICES ASSUME IInv, JInv, NEW a \in Apps
               PROVE  Cardinality(Rollbacks(a)) <=
                      Cardinality({i \in Ids : /\ deployments[i].app = a
                                               /\ deployments[i].action = "deploy"
                                               /\ deployments[i].stage = "start"})
    BY DEF AutoRollbackBounded, Rollbacks
  <2> DEFINE Failed == {i \in Ids : /\ deployments[i].app = a
                                    /\ deployments[i].action = "deploy"
                                    /\ deployments[i].stage = "start"}
  <2>1. Causes(a) \subseteq Failed /\ Failed \subseteq Ids /\ Rollbacks(a) \subseteq Ids
    BY DEF Causes, Rollbacks
  <2> HIDE DEF Failed
  <2>2. IsFiniteSet(Failed) /\ IsFiniteSet(Rollbacks(a))
    BY <2>1, RowsAreFinite DEF IInv
  <2>3. IsFiniteSet(Causes(a)) /\ Cardinality(Causes(a)) <= Cardinality(Failed)
    BY <2>1, <2>2, FS_Subset
  <2>4. /\ Cardinality(Failed) \in Nat /\ Cardinality(Causes(a)) \in Nat
        /\ Cardinality(Rollbacks(a)) \in Nat
    BY <2>2, <2>3, FS_CardinalityType
  <2>5. Cardinality(Rollbacks(a)) <= Cardinality(Causes(a))
    BY DEF JInv, Counted
  <2>6. Cardinality(Rollbacks(a)) <= Cardinality(Failed)
    BY <2>3, <2>4, <2>5
  <2> QED
    BY <2>6 DEF Failed
<1> QED
  BY <1>1, HistoryInvariance, Invariance, PTL

=============================================================================
