---------------------------- MODULE JobPipeline -----------------------------
(***************************************************************************)
(* An upload's enhancement job, from the HTTP request that records it to   *)
(* the notes section that shows its result:                                *)
(*                                                                         *)
(*   request    gateway/src/http/routes/media.ts and manage.ts             *)
(*   database   the enhancement_jobs, media_items and job_artifacts rows   *)
(*   dispatcher gateway/src/queue/dispatcher.ts, one loop per replica      *)
(*   broker     the worker pool's Redis list                               *)
(*   worker     workers/tasks.py under Celery                              *)
(*   stream     the Redis stream of job events                             *)
(*   consumer   gateway/src/jobs/eventConsumer.ts, one per replica         *)
(*                                                                         *)
(* Each of them runs concurrently with all the others, one step between    *)
(* two of its awaits.  `faults' counts the crashes, kills and failed calls *)
(* so far; MaxFaults bounds it.  One pool is modelled: pools share nothing *)
(* but the lock.  Which waiting jobs a dispatch picks is left open here;   *)
(* FairQueue gives the order.                                              *)
(***************************************************************************)
EXTENDS Naturals, Sequences, FiniteSets

CONSTANTS
  Items,          \* uploads
  MaxJobs,        \* jobs are numbered in creation order, 1 .. MaxJobs
  Requests,       \* HTTP requests in progress at once
  Replicas,       \* gateway replicas
  Workers,        \* Celery worker processes of the pool
  DispatchAhead,  \* config.dispatchAhead
  ReadBatch,      \* XREADGROUP COUNT
  MaxRetries,     \* MAX_RETRIES of the enhance task
  MaxFaults,      \* bound on `faults'
  NoItem

ASSUME MaxJobsAssumption  == MaxJobs \in Nat
ASSUME DispatchAssumption == DispatchAhead \in Nat \ {0}
ASSUME BatchAssumption    == ReadBatch \in Nat \ {0}
ASSUME RetriesAssumption  == MaxRetries \in Nat
ASSUME FaultsAssumption   == MaxFaults \in Nat
ASSUME NoItemAssumption   == NoItem \notin Items

Jobs  == 1 .. MaxJobs
NoJob == 0

VARIABLES
  \* The database.
  item,        \* per upload: no row yet, stored, row deleted but files there, gone
  itemOf,      \* media_item_id
  status,      \* status, "none" before the insert and "gone" after the cascade
  ready,       \* payload IS NOT NULL
  dispatched,  \* dispatched_at IS NOT NULL
  artifacts,   \* how many times the job's artifacts were inserted
  section,     \* the upload's section in the stored room notes
  \* The processes.
  req,         \* the HTTP requests
  disp,        \* each replica's dispatch transaction
  broker,      \* the pool's list, oldest first
  work,        \* the workers
  stream,      \* job events no consumer has read
  cons,        \* each replica's job-event consumer
  faults,
  \* History: what happened, read by the properties and by no action.
  sends,       \* times the job was pushed to the broker by a dispatch
  rolled,      \* of those, in a dispatch that did not commit
  unsaid,      \* jobs of which a worker failed to announce the outcome
  unheard,     \* jobs of which a consumer read the outcome and dropped it
  told,        \* the status of the job last published to its room
  bare         \* jobs whose section was filled as done without their results

database == <<item, itemOf, status, ready, dispatched, artifacts, section>>
history  == <<sends, rolled, unsaid, unheard, told, bare>>
vars     == <<item, itemOf, status, ready, dispatched, artifacts, section,
              req, disp, broker, work, stream, cons, faults,
              sends, rolled, unsaid, unheard, told, bare>>

Live     == {"queued", "processing"}
Terminal == {"done", "failed"}
Statuses == {"none", "gone"} \cup Live \cup Terminal

Event   == [job : Jobs, status : {"processing"} \cup Terminal]
\* `fresh': pushed by a dispatch; a retry or a redelivery is not.
Message == [job : Jobs, try : 0 .. MaxRetries, fresh : BOOLEAN]
NoMessage == [job |-> NoJob, try |-> 0, fresh |-> FALSE]

\* The states of the processes, and of each the one it starts in.
RequestState ==
  [at : {"idle", "insertUpload", "insertRetry", "placeholder", "waitAgain",
         "submit", "refused", "noteFailure", "removeFiles", "removeSection"},
   item : Items \cup {NoItem}, job : Jobs \cup {NoJob}]
DispatchState ==
  [at : {"closed", "measured", "sending"}, free : Nat,
   locked : SUBSET Jobs, plan : SUBSET Jobs, marked : SUBSET Jobs]
ReaderState ==
  {c \in [at : {"next", "artifacts", "reread", "publish", "lookup", "texts", "fill"},
          batch : Seq(Event), seen : Statuses, texts : BOOLEAN] :
     /\ c.at \in {"lookup", "texts", "fill"} => c.seen \in Terminal
     /\ c.batch = <<>> => c.at = "next"}

IdleRequest == [at |-> "idle", item |-> NoItem, job |-> NoJob]
NoDispatch  == [at |-> "closed", free |-> 0, locked |-> {}, plan |-> {}, marked |-> {}]
IdleWorker  == [at |-> "idle", msg |-> NoMessage]
WorkerState ==
  {IdleWorker} \cup [at : {"taken", "running", "finished"}, msg : Message]
Reader(batch) == [at |-> "next", batch |-> batch, seen |-> "none", texts |-> FALSE]

Row(j) == status[j] \notin {"none", "gone"}

(***************************************************************************)
(* Type invariant.                                                         *)
(***************************************************************************)
TypeOK ==
  /\ item \in [Items -> {"none", "stored", "rowless", "gone"}]
  /\ itemOf \in [Jobs -> Items \cup {NoItem}]
  /\ status \in [Jobs -> Statuses]
  /\ ready \in [Jobs -> BOOLEAN]
  /\ dispatched \in [Jobs -> BOOLEAN]
  /\ artifacts \in [Jobs -> Nat]
  /\ section \in [Items -> {"none", "processing", "done", "failed", "removed"}]
  /\ req \in [Requests -> RequestState]
  /\ disp \in [Replicas -> DispatchState]
  /\ broker \in Seq(Message)
  /\ work \in [Workers -> WorkerState]
  /\ stream \in Seq(Event)
  /\ cons \in [Replicas -> ReaderState]
  /\ faults \in 0 .. MaxFaults
  /\ sends \in [Jobs -> Nat]
  /\ rolled \in [Jobs -> Nat]
  /\ unsaid \in SUBSET Jobs
  /\ unheard \in SUBSET Jobs
  /\ told \in [Jobs -> {"nothing", "processing"} \cup Terminal]
  /\ bare \in SUBSET Jobs

Init ==
  /\ item = [i \in Items |-> "none"]
  /\ itemOf = [j \in Jobs |-> NoItem]
  /\ status = [j \in Jobs |-> "none"]
  /\ ready = [j \in Jobs |-> FALSE]
  /\ dispatched = [j \in Jobs |-> FALSE]
  /\ artifacts = [j \in Jobs |-> 0]
  /\ section = [i \in Items |-> "none"]
  /\ req = [q \in Requests |-> IdleRequest]
  /\ disp = [r \in Replicas |-> NoDispatch]
  /\ broker = <<>>
  /\ work = [w \in Workers |-> IdleWorker]
  /\ stream = <<>>
  /\ cons = [r \in Replicas |-> Reader(<<>>)]
  /\ faults = 0
  /\ sends = [j \in Jobs |-> 0]
  /\ rolled = [j \in Jobs |-> 0]
  /\ unsaid = {}
  /\ unheard = {}
  /\ told = [j \in Jobs |-> "nothing"]
  /\ bare = {}

\* Every crash, kill or failed call is one of these.
Fault == faults < MaxFaults /\ faults' = faults + 1

\* Rows a dispatch holds FOR UPDATE: another transaction's write of one waits.
Unlocked(j) == \A r \in Replicas : j \notin disp[r].locked

JobsOf(i) == {j \in Jobs : itemOf[j] = i /\ Row(j)}

(***************************************************************************)
(* Operations several processes call.                                      *)
(***************************************************************************)

\* Mutant: the UPDATE without its WHERE status NOT IN ('done', 'failed').
UpdatableAlways(j) == Row(j)

\* The rows updateJobFromEvent's UPDATE matches.
Updatable(j) == status[j] \in Live

\* Mutant: a section that was written once and is gone is made again.
FinishedAnyway(i, outcome) == section' = [section EXCEPT ![i] = outcome]

\* Mutant: a failure leaves the section waiting.
FinishedIfDone(i, outcome) ==
  section' = [section EXCEPT ![i] =
                IF outcome = "failed" \/ @ = "removed" THEN @ ELSE outcome]

\* NotesWriter.finished: the outcome goes into the upload's section, unless the
\* section already says so (@ = outcome) or was written once and is gone.
Finished(i, outcome) ==
  section' = [section EXCEPT ![i] = IF @ = "removed" THEN @ ELSE outcome]

(***************************************************************************)
(* HTTP requests.  Each handler is a sequence of awaits; RequestDies is    *)
(* its replica stopping between two of them.                               *)
(***************************************************************************)
Goto(q, at) == req' = [req EXCEPT ![q].at = at]
Answer(q)   == req' = [req EXCEPT ![q] = IdleRequest]

Unused == {j \in Jobs : status[j] = "none"}
\* MaxJobs bounds the model: a request starts only if it can get a job.
JobLeft ==
  Cardinality(Unused) >
    Cardinality({q \in Requests : req[q].at \in {"insertUpload", "insertRetry"}})

\* receiveUpload up to the media_items row.
Upload(q, i) ==
  /\ req[q].at = "idle" /\ item[i] = "none" /\ JobLeft
  /\ item' = [item EXCEPT ![i] = "stored"]
  /\ req' = [req EXCEPT ![q] = [at |-> "insertUpload", item |-> i, job |-> NoJob]]
  /\ UNCHANGED <<itemOf, status, ready, dispatched, artifacts, section>>
  /\ UNCHANGED <<disp, broker, work, stream, cons, faults, history>>

\* The retry handler's check: the upload's newest job must have failed.
RetryCheck(q, i) ==
  /\ req[q].at = "idle" /\ item[i] = "stored" /\ JobLeft
  /\ \E latest \in JobsOf(i) :
       /\ \A j \in JobsOf(i) : j <= latest
       /\ status[latest] = "failed"
  /\ req' = [req EXCEPT ![q] = [at |-> "insertRetry", item |-> i, job |-> NoJob]]
  /\ UNCHANGED <<database, disp, broker, work, stream, cons, faults, history>>

InsertJob(q) ==
  /\ req[q].at \in {"insertUpload", "insertRetry"}
  /\ item[req[q].item] = "stored"
  /\ \E j \in Unused :
       /\ \A k \in Unused : j <= k
       /\ status' = [status EXCEPT ![j] = "queued"]
       /\ itemOf' = [itemOf EXCEPT ![j] = req[q].item]
       /\ req' = [req EXCEPT ![q] =
            [at   |-> IF req[q].at = "insertUpload" THEN "placeholder" ELSE "waitAgain",
             item |-> req[q].item,
             job  |-> j]]
  /\ UNCHANGED <<item, ready, dispatched, artifacts, section>>
  /\ UNCHANGED <<disp, broker, work, stream, cons, faults, history>>

\* The upload was deleted meanwhile: the insert breaks its foreign key.
InsertRefused(q) ==
  /\ req[q].at \in {"insertUpload", "insertRetry"}
  /\ item[req[q].item] # "stored"
  /\ Answer(q)
  /\ UNCHANGED <<database, disp, broker, work, stream, cons, faults, history>>

\* NotesWriter.uploaded: a placeholder section, unless there is or was one.
Placeholder(q) ==
  /\ req[q].at = "placeholder"
  /\ LET i == req[q].item IN
     section' = [section EXCEPT ![i] = IF @ = "none" THEN "processing" ELSE @]
  /\ Goto(q, "submit")
  /\ UNCHANGED <<item, itemOf, status, ready, dispatched, artifacts>>
  /\ UNCHANGED <<disp, broker, work, stream, cons, faults, history>>

\* NotesWriter.retrying: the section waits again, if it is there.
WaitAgain(q) ==
  /\ req[q].at = "waitAgain"
  /\ LET i == req[q].item IN
     section' = [section EXCEPT ![i] = IF @ \in {"none", "removed"} THEN @ ELSE "processing"]
  /\ Goto(q, "submit")
  /\ UNCHANGED <<item, itemOf, status, ready, dispatched, artifacts>>
  /\ UNCHANGED <<disp, broker, work, stream, cons, faults, history>>

\* The notes could not be edited, which is logged and must not fail the request.
EditFails(q) ==
  /\ req[q].at \in {"placeholder", "waitAgain"}
  /\ Fault
  /\ Goto(q, "submit")
  /\ UNCHANGED <<database, disp, broker, work, stream, cons, history>>

\* submitJob stores the payload (in no row, if it was deleted meanwhile).
Submit(q) ==
  /\ req[q].at = "submit"
  /\ ready' = [ready EXCEPT ![req[q].job] = Row(req[q].job)]
  /\ Answer(q)
  /\ UNCHANGED <<item, itemOf, status, dispatched, artifacts, section>>
  /\ UNCHANGED <<disp, broker, work, stream, cons, faults, history>>

\* submitJob throws: the UPDATE did not happen, or its answer was lost.
SubmitFails(q) ==
  /\ req[q].at = "submit"
  /\ Fault
  /\ \E stored \in {FALSE, Row(req[q].job)} :
       ready' = [ready EXCEPT ![req[q].job] = stored]
  /\ Goto(q, "refused")
  /\ UNCHANGED <<item, itemOf, status, dispatched, artifacts, section>>
  /\ UNCHANGED <<disp, broker, work, stream, cons, history>>

\* Mutant: the catch block writes the status whatever became of the job.
RefuseAnyway(q) ==
  LET j == req[q].job IN
  /\ req[q].at = "refused" /\ Unlocked(j)
  /\ IF Row(j)
     THEN status' = [status EXCEPT ![j] = "failed"] /\ Goto(q, "noteFailure")
     ELSE Answer(q) /\ UNCHANGED status
  /\ UNCHANGED <<item, itemOf, ready, dispatched, artifacts, section>>
  /\ UNCHANGED <<disp, broker, work, stream, cons, faults, history>>

\* The catch block fails the job itself, through the same gate as an event.
Refuse(q) ==
  LET j == req[q].job IN
  /\ req[q].at = "refused" /\ Unlocked(j)
  /\ IF Updatable(j)
     THEN status' = [status EXCEPT ![j] = "failed"] /\ Goto(q, "noteFailure")
     ELSE Answer(q) /\ UNCHANGED status
  /\ UNCHANGED <<item, itemOf, ready, dispatched, artifacts, section>>
  /\ UNCHANGED <<disp, broker, work, stream, cons, faults, history>>

NoteFailure(q) ==
  /\ req[q].at = "noteFailure"
  /\ Finished(req[q].item, "failed")
  /\ Answer(q)
  /\ UNCHANGED <<item, itemOf, status, ready, dispatched, artifacts>>
  /\ UNCHANGED <<disp, broker, work, stream, cons, faults, history>>

\* DELETE of an upload: the row first, and with it the rows of its jobs.
Delete(q, i) ==
  /\ req[q].at = "idle" /\ item[i] = "stored"
  /\ \A j \in JobsOf(i) : Unlocked(j)
  /\ item' = [item EXCEPT ![i] = "rowless"]
  /\ status' = [j \in Jobs |-> IF j \in JobsOf(i) THEN "gone" ELSE status[j]]
  /\ artifacts' = [j \in Jobs |-> IF j \in JobsOf(i) THEN 0 ELSE artifacts[j]]
  /\ ready' = [j \in Jobs |-> ready[j] /\ j \notin JobsOf(i)]
  /\ dispatched' = [j \in Jobs |-> dispatched[j] /\ j \notin JobsOf(i)]
  /\ req' = [req EXCEPT ![q] = [at |-> "removeFiles", item |-> i, job |-> NoJob]]
  /\ UNCHANGED <<itemOf, section, disp, broker, work, stream, cons, faults, history>>

RemoveFiles(q) ==
  /\ req[q].at = "removeFiles"
  /\ item' = [item EXCEPT ![req[q].item] = "gone"]
  /\ Goto(q, "removeSection")
  /\ UNCHANGED <<itemOf, status, ready, dispatched, artifacts, section>>
  /\ UNCHANGED <<disp, broker, work, stream, cons, faults, history>>

\* NotesWriter.removed: the section goes, and stays marked as written.
RemoveSection(q) ==
  /\ req[q].at = "removeSection"
  /\ section' = [section EXCEPT ![req[q].item] = "removed"]
  /\ Answer(q)
  /\ UNCHANGED <<item, itemOf, status, ready, dispatched, artifacts>>
  /\ UNCHANGED <<disp, broker, work, stream, cons, faults, history>>

\* The replica stops, or the call fails and the handler with it.
RequestDies(q) ==
  /\ req[q].at # "idle"
  /\ Fault
  /\ Answer(q)
  /\ UNCHANGED <<database, disp, broker, work, stream, cons, history>>
(***************************************************************************)
(* Dispatcher: one transaction per pass, under an advisory lock that the   *)
(* replicas take in turn.  A pass that finds the lock taken, the list full *)
(* or nothing waiting changes nothing.                                     *)
(***************************************************************************)

\* Mutant: no advisory lock, only the row locks.
AnyTime == TRUE

\* pg_try_advisory_xact_lock: no other replica is in a dispatch.
LockFree == \A r \in Replicas : disp[r].at = "closed"

\* Mutant: rows already handed over are sent again.
WaitingOrSent == {j \in Jobs : status[j] = "queued" /\ ready[j]}

Waiting == {j \in Jobs : status[j] = "queued" /\ ready[j] /\ ~dispatched[j]}

\* The lock, the queues with waiting jobs, and LLEN of the pool's list.
Measure(r) ==
  /\ disp[r].at = "closed" /\ LockFree
  /\ Waiting # {} /\ Len(broker) < DispatchAhead
  /\ disp' = [disp EXCEPT ![r].at = "measured", ![r].free = DispatchAhead - Len(broker)]
  /\ UNCHANGED <<database, req, broker, work, stream, cons, faults, history>>

\* SELECT ... FOR UPDATE SKIP LOCKED, then the first `free' in fair order.
Choose(r) ==
  /\ disp[r].at = "measured"
  /\ LET found == {j \in Waiting : Unlocked(j)} IN
     \E plan \in SUBSET found :
       /\ Cardinality(plan) = IF Cardinality(found) < disp[r].free
                              THEN Cardinality(found) ELSE disp[r].free
       /\ disp' = [disp EXCEPT ![r].at = "sending", ![r].locked = found,
                               ![r].plan = plan]
  /\ UNCHANGED <<database, req, broker, work, stream, cons, faults, history>>

\* LPUSH, then the row's dispatched_at, which nobody else sees before COMMIT.
Send(r, j) ==
  /\ disp[r].at = "sending" /\ j \in disp[r].plan \ disp[r].marked
  /\ broker' = Append(broker, [job |-> j, try |-> 0, fresh |-> TRUE])
  /\ sends' = [sends EXCEPT ![j] = @ + 1]
  /\ disp' = [disp EXCEPT ![r].marked = @ \cup {j}]
  /\ UNCHANGED <<database, req, work, stream, cons, faults>>
  /\ UNCHANGED <<rolled, unsaid, unheard, told, bare>>

\* Mutant: every chosen job is marked, and the transaction does not wait for
\* the pushes.
CommitEarly(r) ==
  /\ disp[r].at = "sending"
  /\ dispatched' = [j \in Jobs |-> dispatched[j] \/ j \in disp[r].plan]
  /\ disp' = [disp EXCEPT ![r] = NoDispatch]
  /\ UNCHANGED <<item, itemOf, status, ready, artifacts, section>>
  /\ UNCHANGED <<req, broker, work, stream, cons, faults, history>>

Commit(r) ==
  /\ disp[r].at = "sending" /\ disp[r].marked = disp[r].plan
  /\ dispatched' = [j \in Jobs |-> dispatched[j] \/ j \in disp[r].marked]
  /\ disp' = [disp EXCEPT ![r] = NoDispatch]
  /\ UNCHANGED <<item, itemOf, status, ready, artifacts, section>>
  /\ UNCHANGED <<req, broker, work, stream, cons, faults, history>>

\* The transaction ends without its marks, the pushes stay.
RollBack(r) ==
  /\ disp' = [disp EXCEPT ![r] = NoDispatch]
  /\ rolled' = [j \in Jobs |-> IF j \in disp[r].marked THEN rolled[j] + 1 ELSE rolled[j]]

\* A query, a push or the COMMIT fails.
Abort(r) ==
  /\ disp[r].at # "closed"
  /\ Fault
  /\ RollBack(r)
  /\ UNCHANGED <<database, req, broker, work, stream, cons>>
  /\ UNCHANGED <<sends, unsaid, unheard, told, bare>>

(***************************************************************************)
(* Workers: acks_late, so a message leaves the broker only when its task   *)
(* has returned or raised.                                                 *)
(***************************************************************************)

\* JobEventEmitter: a failed XADD is logged and forgotten.
Emit(j, outcome) ==
  \/ /\ stream' = Append(stream, [job |-> j, status |-> outcome])
     /\ UNCHANGED <<faults, unsaid>>
  \/ /\ Fault
     /\ unsaid' = IF outcome \in Terminal THEN unsaid \cup {j} ELSE unsaid
     /\ UNCHANGED stream

Working(w, at) == work' = [work EXCEPT ![w].at = at]

Take(w) ==
  /\ work[w].at = "idle" /\ broker # <<>>
  /\ work' = [work EXCEPT ![w] = [at |-> "taken", msg |-> Head(broker)]]
  /\ broker' = Tail(broker)
  /\ UNCHANGED <<database, req, disp, stream, cons, faults, history>>

\* The input file is there; the first of the progress events stands for all.
Start(w) ==
  LET j == work[w].msg.job IN
  /\ work[w].at = "taken" /\ item[itemOf[j]] # "gone"
  /\ Emit(j, "processing")
  /\ Working(w, "running")
  /\ UNCHANGED <<database, req, disp, broker, cons, sends, rolled, unheard, told, bare>>

Finish(w) ==
  /\ work[w].at = "running"
  /\ Emit(work[w].msg.job, "done")
  /\ Working(w, "finished")
  /\ UNCHANGED <<database, req, disp, broker, cons, sends, rolled, unheard, told, bare>>

Fail(w) ==
  /\ work[w].at \in {"taken", "running"}
  /\ Emit(work[w].msg.job, "failed")
  /\ Working(w, "finished")
  /\ UNCHANGED <<database, req, disp, broker, cons, sends, rolled, unheard, told, bare>>

\* Mutant: the last try is not told from the others.
TransientForever(w) ==
  LET m == work[w].msg IN
  /\ work[w].at \in {"taken", "running"}
  /\ broker' = Append(broker, [m EXCEPT !.try = @ + 1, !.fresh = FALSE])
  /\ Working(w, "finished")
  /\ UNCHANGED <<database, req, disp, stream, cons, faults, history>>

\* A connection error: another try, announced by nothing, or none left.
Transient(w) ==
  LET m == work[w].msg IN
  /\ work[w].at \in {"taken", "running"}
  /\ IF m.try < MaxRetries
     THEN /\ broker' = Append(broker, [m EXCEPT !.try = @ + 1, !.fresh = FALSE])
          /\ UNCHANGED <<stream, faults, unsaid>>
     ELSE Emit(m.job, "failed") /\ UNCHANGED broker
  /\ Working(w, "finished")
  /\ UNCHANGED <<database, req, disp, cons, sends, rolled, unheard, told, bare>>

Ack(w) ==
  /\ work[w].at = "finished"
  /\ work' = [work EXCEPT ![w] = IdleWorker]
  /\ UNCHANGED <<database, req, disp, broker, stream, cons, faults, history>>

\* Mutant: the message was acknowledged when it was taken.
KillEarlyAck(w) ==
  /\ work[w].at # "idle"
  /\ Fault
  /\ work' = [work EXCEPT ![w] = IdleWorker]
  /\ UNCHANGED <<database, req, disp, broker, stream, cons, history>>

\* The worker is killed: its unacknowledged message goes back into the list.
Kill(w) ==
  LET m == [work[w].msg EXCEPT !.fresh = FALSE] IN
  /\ work[w].at # "idle"
  /\ Fault
  /\ broker' \in {<<m>> \o broker, Append(broker, m)}
  /\ work' = [work EXCEPT ![w] = IdleWorker]
  /\ UNCHANGED <<database, req, disp, stream, cons, history>>

\* The hard time limit kills the task; Celery acknowledges and no event says so.
HardLimit(w) ==
  /\ work[w].at = "running"
  /\ Fault
  /\ unsaid' = unsaid \cup {work[w].msg.job}
  /\ work' = [work EXCEPT ![w] = IdleWorker]
  /\ UNCHANGED <<database, req, disp, broker, stream, cons>>
  /\ UNCHANGED <<sends, rolled, unheard, told, bare>>

(***************************************************************************)
(* Job-event consumers: one consumer group, so each entry is read by one   *)
(* replica, which handles its entries one after the other and then         *)
(* acknowledges each.  Entries of one job may be in two replicas' hands.   *)
(***************************************************************************)
Entry(r) == Head(cons[r].batch)
Reading(r, at) == /\ cons[r].batch # <<>>
                  /\ cons[r].at = at
Continue(r, at) == cons' = [cons EXCEPT ![r].at = at]
\* XACK, and on to the next entry read.
Done(r) == cons' = [cons EXCEPT ![r] = Reader(Tail(@.batch))]

Read(r) ==
  LET n == IF Len(stream) < ReadBatch THEN Len(stream) ELSE ReadBatch IN
  /\ cons[r].batch = <<>> /\ stream # <<>>
  /\ cons' = [cons EXCEPT ![r] = Reader(SubSeq(stream, 1, n))]
  /\ stream' = SubSeq(stream, n + 1, Len(stream))
  /\ UNCHANGED <<database, req, disp, broker, work, faults, history>>

\* Mutant: an event that matched no row is handled like one that did.
ApplyAnyway(r) ==
  LET e == Entry(r) IN
  /\ Reading(r, "next") /\ Unlocked(e.job)
  /\ status' = [status EXCEPT ![e.job] = IF Updatable(e.job) THEN e.status ELSE @]
  /\ Continue(r, IF Updatable(e.job) /\ e.status = "done" THEN "artifacts" ELSE "reread")
  /\ UNCHANGED <<item, itemOf, ready, dispatched, artifacts, section>>
  /\ UNCHANGED <<req, disp, broker, work, stream, faults, history>>

\* updateJobFromEvent's UPDATE, which waits for a dispatch that has the row.
Apply(r) ==
  LET e == Entry(r) IN
  /\ Reading(r, "next") /\ Unlocked(e.job)
  /\ IF Updatable(e.job)
     THEN /\ status' = [status EXCEPT ![e.job] = e.status]
          /\ Continue(r, IF e.status = "done" THEN "artifacts" ELSE "reread")
     ELSE Done(r) /\ UNCHANGED status
  /\ UNCHANGED <<item, itemOf, ready, dispatched, artifacts, section>>
  /\ UNCHANGED <<req, disp, broker, work, stream, faults, history>>

\* The job_artifacts rows; without the job's row they break a foreign key.
InsertArtifacts(r) ==
  LET j == Entry(r).job IN
  /\ Reading(r, "artifacts")
  /\ IF Row(j)
     THEN artifacts' = [artifacts EXCEPT ![j] = @ + 1] /\ Continue(r, "reread")
     ELSE Done(r) /\ UNCHANGED artifacts
  /\ UNCHANGED <<item, itemOf, status, ready, dispatched, section>>
  /\ UNCHANGED <<req, disp, broker, work, stream, faults, history>>

\* getJob: the row as it is by now.
Reread(r) ==
  LET j == Entry(r).job IN
  /\ Reading(r, "reread")
  /\ IF Row(j)
     THEN cons' = [cons EXCEPT ![r].at = "publish", ![r].seen = status[j]]
     ELSE Done(r)
  /\ UNCHANGED <<database, req, disp, broker, work, stream, faults, history>>

\* The room hears of the event; a job read back as settled has its section filled.
Publish(r) ==
  LET e == Entry(r) IN
  /\ Reading(r, "publish")
  /\ told' = [told EXCEPT ![e.job] = e.status]
  /\ IF cons[r].seen \in Terminal
     THEN Continue(r, "lookup")
     ELSE Done(r)
  /\ UNCHANGED <<database, req, disp, broker, work, stream, faults>>
  /\ UNCHANGED <<sends, rolled, unsaid, unheard, bare>>

LookUp(r) ==
  /\ Reading(r, "lookup")
  /\ IF item[itemOf[Entry(r).job]] = "stored" THEN Continue(r, "texts") ELSE Done(r)
  /\ UNCHANGED <<database, req, disp, broker, work, stream, faults, history>>

GetTexts(r) ==
  /\ Reading(r, "texts")
  /\ cons' = [cons EXCEPT ![r].at = "fill", ![r].texts = artifacts[Entry(r).job] > 0]
  /\ UNCHANGED <<database, req, disp, broker, work, stream, faults, history>>

Fill(r) ==
  LET j == Entry(r).job IN
  /\ Reading(r, "fill")
  /\ Finished(itemOf[j], cons[r].seen)
  /\ bare' = IF section' # section /\ cons[r].seen = "done" /\ ~cons[r].texts
             THEN bare \cup {j} ELSE bare
  /\ Done(r)
  /\ UNCHANGED <<item, itemOf, status, ready, dispatched, artifacts>>
  /\ UNCHANGED <<req, disp, broker, work, stream, faults>>
  /\ UNCHANGED <<sends, rolled, unsaid, unheard, told>>

\* An entry that is read and not applied: its outcome, if it had one, is lost.
Dropped(batch) == {batch[n].job : n \in {k \in 1 .. Len(batch) : batch[k].status \in Terminal}}

\* A query fails: the entry is logged and acknowledged all the same.
HandlerFails(r) ==
  /\ cons[r].batch # <<>>
  /\ Fault
  /\ unheard' = IF cons[r].at = "next" THEN unheard \cup Dropped(<<Entry(r)>>) ELSE unheard
  /\ Done(r)
  /\ UNCHANGED <<database, req, disp, broker, work, stream>>
  /\ UNCHANGED <<sends, rolled, unsaid, told, bare>>

\* The replica stops.  Nobody claims what its consumer had read, and its
\* dispatch rolls back.  (An XACK that fails also leaves the rest unhandled.)
ReplicaCrash(r) ==
  LET unread == IF cons[r].at = "next" THEN cons[r].batch ELSE Tail(cons[r].batch) IN
  /\ cons[r].batch # <<>> \/ disp[r].at # "closed"
  /\ Fault
  /\ cons' = [cons EXCEPT ![r] = Reader(<<>>)]
  /\ unheard' = unheard \cup Dropped(unread)
  /\ RollBack(r)
  /\ UNCHANGED <<database, req, broker, work, stream>>
  /\ UNCHANGED <<sends, unsaid, told, bare>>

(***************************************************************************)
(* The system.  It may stop: every upload settled, nothing asked for.      *)
(***************************************************************************)
RequestStep(q) ==
  \/ InsertJob(q) \/ InsertRefused(q) \/ Placeholder(q) \/ WaitAgain(q)
  \/ Submit(q) \/ Refuse(q) \/ NoteFailure(q)
  \/ RemoveFiles(q) \/ RemoveSection(q)

RequestFails(q) == EditFails(q) \/ SubmitFails(q) \/ RequestDies(q)

DispatchStep(r) ==
  \/ Measure(r) \/ Choose(r) \/ Commit(r)
  \/ \E j \in Jobs : Send(r, j)

WorkerStep(w) == Take(w) \/ Start(w) \/ Finish(w) \/ Fail(w) \/ Transient(w) \/ Ack(w)

ConsumerStep(r) ==
  \/ Read(r) \/ Apply(r) \/ InsertArtifacts(r) \/ Reread(r)
  \/ Publish(r) \/ LookUp(r) \/ GetTexts(r) \/ Fill(r)

Next ==
  \/ \E q \in Requests, i \in Items : Upload(q, i) \/ RetryCheck(q, i) \/ Delete(q, i)
  \/ \E q \in Requests : RequestStep(q) \/ RequestFails(q)
  \/ \E r \in Replicas :
       DispatchStep(r) \/ Abort(r) \/ ConsumerStep(r) \/ HandlerFails(r) \/ ReplicaCrash(r)
  \/ \E w \in Workers : WorkerStep(w) \/ Kill(w) \/ HardLimit(w)

Spec == Init /\ [][Next]_vars

\* A handler runs to its end, the dispatcher has a timer, and the workers and
\* consumers are loops.  Nobody has to upload, retry or delete anything.
Fairness ==
  /\ \A q \in Requests : WF_vars(RequestStep(q))
  /\ \A r \in Replicas : WF_vars(DispatchStep(r)) /\ WF_vars(ConsumerStep(r))
  /\ \A w \in Workers : WF_vars(WorkerStep(w))

FairSpec == Spec /\ Fairness
(***************************************************************************)
(* Properties.                                                             *)
(***************************************************************************)
Messages(j)   == {n \in 1 .. Len(broker) : broker[n].job = j}
Holders(j)    == {w \in Workers : work[w].at \in {"taken", "running"} /\ work[w].msg.job = j}
Reports(j)    == {n \in 1 .. Len(stream) : stream[n].job = j /\ stream[n].status \in Terminal}
Delivering(j) == {r \in Replicas : j \in Dropped(cons[r].batch)}

\* README.md:82, dispatcher.ts:19-21: a job that was queued and is not settled
\* is waiting for a dispatch, or its message is in the list or with a worker,
\* or its outcome is on its way - through crashed dispatches, killed workers
\* and retries; unless an event with its outcome was itself dropped.
NoJobLost ==
  \A j \in Jobs :
    status[j] \in Live /\ ready[j] =>
      \/ status[j] = "queued" /\ ~dispatched[j]
      \/ Messages(j) # {}
      \/ Holders(j) # {}
      \/ Reports(j) # {}
      \/ Delivering(j) # {}
      \/ j \in unsaid \cup unheard

\* repositories.ts:745-746: however often a job is run and reported, its
\* artifacts are inserted once, and only for a job that ended as done.
ArtifactsOnce ==
  \A j \in Jobs : artifacts[j] <= 1 /\ (artifacts[j] = 1 => status[j] = "done")

\* eventConsumer.ts:103-108: the outcome a room was told of is the outcome the
\* row has, whatever the events of other runs of the same job said.
ToldOutcomeIsStored ==
  \A j \in Jobs : told[j] \in Terminal /\ Row(j) => status[j] = told[j]

\* dispatcher.ts:16-21: a job is sent once for each dispatch that took it, and
\* of those only the last can have been committed: it goes out again only
\* because the one before rolled back.
SentOncePerCommit ==
  \A j \in Jobs :
    Row(j) =>
      sends[j] = rolled[j] +
        (IF dispatched[j] \/ \E r \in Replicas : j \in disp[r].marked THEN 1 ELSE 0)

\* dispatcher.ts:12-17: however many replicas dispatch, they never leave more
\* than DispatchAhead dispatched jobs waiting in the pool's list.
PoolNotOverfilled ==
  Cardinality({n \in 1 .. Len(broker) : broker[n].fresh}) <= DispatchAhead

\* writer.ts:174-177, 205-207: a section removed with its upload never comes
\* back, whatever completions, retries and placeholders are still in flight.
RemovedStaysRemoved ==
  [][\A i \in Items : section[i] = "removed" => section'[i] = "removed"]_section

Quiet ==
  /\ \A q \in Requests : req[q].at = "idle"
  /\ \A r \in Replicas : disp[r].at = "closed" /\ cons[r].batch = <<>>
  /\ \A w \in Workers : work[w].at = "idle"
  /\ broker = <<>> /\ stream = <<>> /\ Waiting = {}

\* writer.ts:117-192: if nothing failed, then once everything has come to rest
\* every job is settled and no upload's section still says it is being
\* enhanced, in whatever order retries, deletions and outcomes reached it.
RestsSettled ==
  faults = 0 /\ Quiet =>
    /\ \A j \in Jobs : status[j] \notin Live
    /\ \A i \in Items : section[i] # "processing"

\* The pipeline keeps the promise of JobLifecycle.
Lifecycle == INSTANCE JobLifecycle WITH results <- artifacts
ImplementsLifecycle == Lifecycle!Spec

\* README.md:82: a job that was queued is settled in the end, unless its upload
\* goes or the event with its outcome was dropped.
EventuallySettled ==
  \A j \in Jobs : ready[j] ~> (status[j] \in Terminal \cup {"gone"} \/ j \in unsaid \cup unheard)

(***************************************************************************)
(* What the source says and the code does not do.                          *)
(***************************************************************************)

\* writer.ts:191-202: a section that says done was filled with the results.
FilledWithResults == bare = {}
=============================================================================
