------------------------- MODULE JobPipelineProofs -------------------------
(***************************************************************************)
(* Theorems about JobPipeline, for any number of uploads, jobs, requests,  *)
(* replicas, workers and faults: what an outcome is, and that every step   *)
(* is one of JobLifecycle; how jobs are handed over, none lost and none    *)
(* sent again; and what they leave in the notes.                           *)
(***************************************************************************)
EXTENDS JobPipeline, SequenceTheorems, FiniteSetTheorems, TLAPS

-----------------------------------------------------------------------------
(***************************************************************************)
(* What the helpers of the actions do to the types.                        *)
(***************************************************************************)

\* A request that goes on, in any state of its handler, keeps its type.
LEMMA GotoType ==
  ASSUME req \in [Requests -> RequestState], NEW q \in Requests,
         NEW at \in {"idle", "insertUpload", "insertRetry", "placeholder", "waitAgain",
                     "submit", "refused", "noteFailure", "removeFiles", "removeSection"},
         Goto(q, at)
  PROVE  req' \in [Requests -> RequestState]
  <1>1. [req[q] EXCEPT !.at = at] \in RequestState
    <2>1. req[q] \in RequestState
      OBVIOUS
    <2> QED
      BY <2>1 DEF RequestState
  <1>2. req' = [req EXCEPT ![q] = [req[q] EXCEPT !.at = at]]
    BY DEF Goto
  <1> QED
    BY <1>1, <1>2

\* An answered request is idle.
LEMMA AnswerType ==
  ASSUME req \in [Requests -> RequestState], NEW q \in Requests, Answer(q)
  PROVE  req' \in [Requests -> RequestState]
  <1>1. IdleRequest \in RequestState
    BY DEF IdleRequest, RequestState
  <1> QED
    BY <1>1 DEF Answer

\* One more fault is still within the bound.
LEMMA FaultType ==
  ASSUME faults \in 0 .. MaxFaults, Fault
  PROVE  faults' \in 0 .. MaxFaults
  BY FaultsAssumption DEF Fault

\* Writing an outcome keeps the type of the sections.
LEMMA FinishedType ==
  ASSUME TypeOK, NEW i, NEW outcome \in Terminal, Finished(i, outcome)
  PROVE  section' \in [Items -> {"none", "processing", "done", "failed", "removed"}]
  BY DEF TypeOK, Finished, Terminal

-----------------------------------------------------------------------------
\* Init is of the right type.
LEMMA InitTypeOK == Init => TypeOK
  BY MaxJobsAssumption, FaultsAssumption
  DEF Init, TypeOK, Jobs, NoJob, Statuses, Live, Terminal, IdleRequest, NoDispatch,
      IdleWorker, Reader, Event, Message, RequestState, DispatchState, WorkerState,
      ReaderState

\* A step of a request handler keeps every type, also when a call fails.
LEMMA RequestTypeOK ==
  ASSUME TypeOK, NEW q \in Requests,
         RequestStep(q) \/ RequestFails(q)
  PROVE  TypeOK'
  <1> USE DEF TypeOK, database, history
  <1>1. CASE InsertJob(q)
    <2> PICK j \in Unused :
          /\ status' = [status EXCEPT ![j] = "queued"]
          /\ itemOf' = [itemOf EXCEPT ![j] = req[q].item]
          /\ req' = [req EXCEPT ![q] =
               [at   |-> IF req[q].at = "insertUpload" THEN "placeholder" ELSE "waitAgain",
                item |-> req[q].item,
                job  |-> j]]
      BY <1>1 DEF InsertJob
    <2>1. req[q] \in RequestState /\ j \in Jobs
      BY DEF Unused
    <2>3. [at   |-> IF req[q].at = "insertUpload" THEN "placeholder" ELSE "waitAgain",
           item |-> req[q].item,
           job  |-> j] \in RequestState
      BY <2>1 DEF RequestState
    <2>4. req' \in [Requests -> RequestState]
      BY <2>3
    <2>5. status' \in [Jobs -> Statuses]
      BY <2>1 DEF Statuses, Live
    <2>6. itemOf' \in [Jobs -> Items \cup {NoItem}]
      <3>1. req[q].item \in Items \cup {NoItem}
        BY <2>1 DEF RequestState
      <3> QED
        BY <2>1, <3>1
    <2> QED
      BY <1>1, <2>4, <2>5, <2>6 DEF InsertJob
  <1>2. CASE InsertRefused(q)
    BY <1>2, AnswerType DEF InsertRefused
  <1>3. CASE Placeholder(q)
    <2>1. section' \in [Items -> {"none", "processing", "done", "failed", "removed"}]
      BY <1>3 DEF Placeholder
    <2> QED
      BY <1>3, <2>1, GotoType DEF Placeholder
  <1>4. CASE WaitAgain(q)
    <2>1. section' \in [Items -> {"none", "processing", "done", "failed", "removed"}]
      BY <1>4 DEF WaitAgain
    <2> QED
      BY <1>4, <2>1, GotoType DEF WaitAgain
  <1>5. CASE Submit(q)
    BY <1>5, AnswerType DEF Submit, Row
  <1>6. CASE SubmitFails(q)
    BY ZenonT(60), <1>6, GotoType, FaultType DEF SubmitFails, Row
  <1>7. CASE Refuse(q)
    <2>1. status' \in [Jobs -> Statuses]
      BY <1>7 DEF Refuse, Statuses, Terminal
    <2>2. req' \in [Requests -> RequestState]
      BY <1>7, GotoType, AnswerType DEF Refuse
    <2> QED
      BY <1>7, <2>1, <2>2 DEF Refuse
  <1>8. CASE NoteFailure(q)
    BY <1>8, AnswerType, FinishedType DEF NoteFailure, Terminal
  <1>9. CASE RemoveFiles(q)
    <2>1. item' \in [Items -> {"none", "stored", "rowless", "gone"}]
      BY <1>9 DEF RemoveFiles
    <2> QED
      BY <1>9, <2>1, GotoType DEF RemoveFiles
  <1>10. CASE RemoveSection(q)
    <2>1. section' \in [Items -> {"none", "processing", "done", "failed", "removed"}]
      BY <1>10 DEF RemoveSection
    <2> QED
      BY <1>10, <2>1, AnswerType DEF RemoveSection
  <1>11. CASE RequestDies(q)
    BY <1>11, AnswerType, FaultType DEF RequestDies
  <1>12. CASE EditFails(q)
    BY <1>12, GotoType, FaultType DEF EditFails
  <1> QED
    BY <1>1, <1>2, <1>3, <1>4, <1>5, <1>6, <1>7, <1>8, <1>9, <1>10, <1>11, <1>12
    DEF RequestStep, RequestFails

\* So does the start of a request.
LEMMA AskTypeOK ==
  ASSUME TypeOK, NEW q \in Requests, NEW i \in Items,
         Upload(q, i) \/ RetryCheck(q, i) \/ Delete(q, i)
  PROVE  TypeOK'
  <1> USE DEF TypeOK, database, history, RequestState, NoJob
  <1>1. CASE Upload(q, i)
    BY <1>1 DEF Upload
  <1>2. CASE RetryCheck(q, i)
    BY <1>2 DEF RetryCheck
  <1>3. CASE Delete(q, i)
    BY <1>3 DEF Delete, Statuses, JobsOf
  <1> QED
    BY <1>1, <1>2, <1>3

\* What waits for a dispatch are jobs.
LEMMA WaitingInJobs == Waiting \subseteq Jobs
  BY DEF Waiting

\* A step of a dispatch, or its rollback, keeps every type.
LEMMA DispatchTypeOK ==
  ASSUME TypeOK, NEW r \in Replicas, DispatchStep(r) \/ Abort(r)
  PROVE  TypeOK'
  <1> USE DEF TypeOK, database, history
  <1>1. disp[r] \in DispatchState /\ NoDispatch \in DispatchState
    BY DEF DispatchState, NoDispatch
  <1>2. CASE Measure(r)
    <2>1. Len(broker) \in Nat /\ DispatchAhead - Len(broker) \in Nat
      BY <1>2, DispatchAssumption DEF Measure
    <2>2. [disp[r] EXCEPT !.at = "measured", !.free = DispatchAhead - Len(broker)] \in DispatchState
      BY <1>1, <2>1 DEF DispatchState
    <2>3. disp' = [disp EXCEPT ![r] =
            [disp[r] EXCEPT !.at = "measured", !.free = DispatchAhead - Len(broker)]]
      BY <1>2 DEF Measure
    <2> QED
      BY <1>2, <2>2, <2>3 DEF Measure
  <1>3. CASE Choose(r)
    <2> DEFINE found == {j \in Waiting : Unlocked(j)}
    <2>1. PICK plan \in SUBSET found :
            disp' = [disp EXCEPT ![r].at = "sending", ![r].locked = found, ![r].plan = plan]
      BY <1>3 DEF Choose
    <2>2. found \in SUBSET Jobs /\ plan \in SUBSET Jobs
      BY WaitingInJobs
    <2> HIDE DEF found
    <2>3. [disp[r] EXCEPT !.at = "sending", !.locked = found, !.plan = plan] \in DispatchState
      BY <1>1, <2>2 DEF DispatchState
    <2>4. disp' = [disp EXCEPT ![r] =
            [disp[r] EXCEPT !.at = "sending", !.locked = found, !.plan = plan]]
      BY <2>1
    <2> QED
      BY ZenonT(60), <1>3, <2>3, <2>4 DEF Choose
  <1>4. CASE \E j \in Jobs : Send(r, j)
    <2> PICK j \in Jobs : Send(r, j)
      BY <1>4
    <2>1. [job |-> j, try |-> 0, fresh |-> TRUE] \in Message
      BY RetriesAssumption DEF Message
    <2>2. broker' \in Seq(Message)
      BY <2>1 DEF Send
    <2>3. [disp[r] EXCEPT !.marked = disp[r].marked \cup {j}] \in DispatchState
      BY <1>1 DEF DispatchState
    <2>4. disp' = [disp EXCEPT ![r] = [disp[r] EXCEPT !.marked = disp[r].marked \cup {j}]]
      BY DEF Send
    <2> QED
      BY <2>2, <2>3, <2>4 DEF Send
  <1>5. CASE Commit(r)
    BY <1>1, <1>5 DEF Commit
  <1>6. CASE Abort(r)
    BY <1>1, <1>6, FaultType DEF Abort, RollBack
  <1> QED
    BY <1>2, <1>3, <1>4, <1>5, <1>6 DEF DispatchStep

\* A worker that is not idle has a message in its hands.
LEMMA BusyWorker ==
  ASSUME TypeOK, NEW w \in Workers, work[w].at # "idle"
  PROVE  /\ work[w].at \in {"taken", "running", "finished"}
         /\ work[w].msg \in Message
         /\ work[w].msg.job \in Jobs
         /\ work[w].msg.try \in 0 .. MaxRetries
  <1>1. work[w] \in [at : {"taken", "running", "finished"}, msg : Message]
    BY DEF TypeOK, WorkerState, IdleWorker
  <1> QED
    BY <1>1 DEF Message

\* A busy worker that goes on keeps its message.
LEMMA WorkingType ==
  ASSUME TypeOK, NEW w \in Workers, NEW at \in {"taken", "running", "finished"},
         work[w].at # "idle", Working(w, at)
  PROVE  work' \in [Workers -> WorkerState]
  <1>1. work[w] \in [at : {"taken", "running", "finished"}, msg : Message]
    BY DEF TypeOK, WorkerState, IdleWorker
  <1>2. [work[w] EXCEPT !.at = at] \in WorkerState
    BY <1>1 DEF WorkerState
  <1>3. work' = [work EXCEPT ![w] = [work[w] EXCEPT !.at = at]]
    BY DEF Working
  <1> QED
    BY <1>2, <1>3 DEF TypeOK

\* An event is one more of the stream, or one more fault.
LEMMA EmitType ==
  ASSUME TypeOK, NEW j \in Jobs, NEW outcome \in {"processing"} \cup Terminal, Emit(j, outcome)
  PROVE  /\ stream' \in Seq(Event)
         /\ faults' \in 0 .. MaxFaults
         /\ unsaid' \in SUBSET Jobs
  <1>1. [job |-> j, status |-> outcome] \in Event
    BY DEF Event
  <1>2. CASE /\ stream' = Append(stream, [job |-> j, status |-> outcome])
             /\ UNCHANGED <<faults, unsaid>>
    <2>1. stream' \in Seq(Event)
      BY <1>1, <1>2 DEF TypeOK
    <2> QED
      BY <1>2, <2>1 DEF TypeOK
  <1>3. CASE /\ Fault
             /\ unsaid' = IF outcome \in Terminal THEN unsaid \cup {j} ELSE unsaid
             /\ UNCHANGED stream
    BY <1>3, FaultType DEF TypeOK
  <1> QED
    BY <1>2, <1>3 DEF Emit

\* A step of a worker, its kill or its time limit keeps every type.
LEMMA WorkerTypeOK ==
  ASSUME TypeOK, NEW w \in Workers, WorkerStep(w) \/ Kill(w) \/ HardLimit(w)
  PROVE  TypeOK'
  <1> USE DEF database, history
  <1>1. IdleWorker \in WorkerState
    BY DEF WorkerState
  <1>2. CASE Take(w)
    <2>1. Head(broker) \in Message /\ Tail(broker) \in Seq(Message)
      BY <1>2 DEF Take, TypeOK
    <2>2. [at |-> "taken", msg |-> Head(broker)] \in WorkerState
      BY <2>1 DEF WorkerState
    <2> QED
      BY <1>2, <2>1, <2>2 DEF Take, TypeOK
  <1>3. CASE Start(w)
    <2>1. work' \in [Workers -> WorkerState]
      BY <1>3, WorkingType DEF Start
    <2>2. /\ stream' \in Seq(Event)
          /\ faults' \in 0 .. MaxFaults
          /\ unsaid' \in SUBSET Jobs
      BY <1>3, BusyWorker, EmitType DEF Start
    <2> QED
      BY <1>3, <2>1, <2>2 DEF Start, TypeOK
  <1>4. CASE Finish(w)
    <2>1. work' \in [Workers -> WorkerState]
      BY <1>4, WorkingType DEF Finish
    <2>2. /\ stream' \in Seq(Event)
          /\ faults' \in 0 .. MaxFaults
          /\ unsaid' \in SUBSET Jobs
      BY <1>4, BusyWorker, EmitType DEF Finish, Terminal
    <2> QED
      BY <1>4, <2>1, <2>2 DEF Finish, TypeOK
  <1>5. CASE Fail(w)
    <2>1. work' \in [Workers -> WorkerState]
      BY <1>5, WorkingType DEF Fail
    <2>2. /\ stream' \in Seq(Event)
          /\ faults' \in 0 .. MaxFaults
          /\ unsaid' \in SUBSET Jobs
      BY <1>5, BusyWorker, EmitType DEF Fail, Terminal
    <2> QED
      BY <1>5, <2>1, <2>2 DEF Fail, TypeOK
  <1>6. CASE Transient(w)
    <2>1. work' \in [Workers -> WorkerState]
      BY <1>6, WorkingType DEF Transient
    <2>2. work[w].msg \in Message /\ work[w].msg.job \in Jobs /\ work[w].msg.try \in 0 .. MaxRetries
      BY <1>6, BusyWorker DEF Transient
    <2>3. CASE work[w].msg.try < MaxRetries
      <3> DEFINE again == [work[w].msg EXCEPT !.try = work[w].msg.try + 1, !.fresh = FALSE]
      <3>1. again \in Message
        <4>1. work[w].msg.try + 1 \in 0 .. MaxRetries
          BY <2>2, <2>3, RetriesAssumption
        <4> QED
          BY <2>2, <4>1 DEF Message
      <3>2. broker' = Append(broker, again) /\ UNCHANGED <<stream, faults, unsaid>>
        BY <1>6, <2>3 DEF Transient
      <3> HIDE DEF again
      <3>3. broker' \in Seq(Message)
        BY <3>1, <3>2, AppendProperties DEF TypeOK
      <3> QED
        BY <1>6, <2>1, <3>2, <3>3 DEF Transient, TypeOK
    <2>4. CASE ~(work[w].msg.try < MaxRetries)
      <3>1. /\ stream' \in Seq(Event)
            /\ faults' \in 0 .. MaxFaults
            /\ unsaid' \in SUBSET Jobs
        BY <1>6, <2>2, <2>4, EmitType DEF Transient, Terminal
      <3>2. UNCHANGED broker
        BY <1>6, <2>4 DEF Transient
      <3> QED
        BY <1>6, <2>1, <3>1, <3>2 DEF Transient, TypeOK
    <2> QED
      BY <2>3, <2>4
  <1>7. CASE Ack(w)
    BY <1>1, <1>7 DEF Ack, TypeOK
  <1>8. CASE Kill(w)
    <2> DEFINE m == [work[w].msg EXCEPT !.fresh = FALSE]
    <2>1. m \in Message
      <3>1. work[w].msg \in Message
        BY <1>8, BusyWorker DEF Kill
      <3> QED
        BY <3>1 DEF Message
    <2>2. broker' \in {<<m>> \o broker, Append(broker, m)}
      BY <1>8 DEF Kill
    <2>3. broker' \in Seq(Message)
      <3> HIDE DEF m
      <3>1. <<m>> \in Seq(Message) /\ broker \in Seq(Message)
        BY <2>1 DEF TypeOK
      <3>2. <<m>> \o broker \in Seq(Message)
        BY <3>1, ConcatProperties
      <3>3. Append(broker, m) \in Seq(Message)
        BY <2>1, <3>1, AppendProperties
      <3> QED
        BY <2>2, <3>2, <3>3
    <2> QED
      BY <1>1, <1>8, <2>3, FaultType DEF Kill, TypeOK
  <1>9. CASE HardLimit(w)
    <2>1. work[w].msg.job \in Jobs
      BY <1>9, BusyWorker DEF HardLimit
    <2> QED
      BY <1>1, <1>9, <2>1, FaultType DEF HardLimit, TypeOK
  <1> QED
    BY <1>2, <1>3, <1>4, <1>5, <1>6, <1>7, <1>8, <1>9 DEF WorkerStep

\* A consumer that turns to the next of its entries is of the right type.
LEMMA ReaderType ==
  ASSUME NEW batch \in Seq(Event)
  PROVE  Reader(batch) \in ReaderState
  BY DEF Reader, ReaderState, Statuses

\* A consumer with entries has an event at their head and events behind it.
LEMMA EntryType ==
  ASSUME TypeOK, NEW r \in Replicas, cons[r].batch # <<>>
  PROVE  /\ Entry(r) \in Event
         /\ Entry(r).job \in Jobs
         /\ Entry(r).status \in {"processing"} \cup Terminal
         /\ cons[r].batch \in Seq(Event)
         /\ Tail(cons[r].batch) \in Seq(Event)
  <1>1. cons[r].batch \in Seq(Event)
    BY DEF TypeOK, ReaderState
  <1>2. Entry(r) \in Event /\ Tail(cons[r].batch) \in Seq(Event)
    BY <1>1, HeadTailProperties DEF Entry
  <1> QED
    BY <1>1, <1>2 DEF Event

\* A consumer that is done with an entry has the others left.
LEMMA DoneType ==
  ASSUME TypeOK, NEW r \in Replicas, cons[r].batch # <<>>, Done(r)
  PROVE  cons' \in [Replicas -> ReaderState]
  <1>1. Reader(Tail(cons[r].batch)) \in ReaderState
    BY EntryType, ReaderType
  <1> QED
    BY <1>1 DEF Done, TypeOK

\* A consumer that goes on with its entry is of the right type: only one that
\* read a settled row gets to the notes.
LEMMA ContinueType ==
  ASSUME TypeOK, NEW r \in Replicas,
         NEW at \in {"next", "artifacts", "reread", "publish", "lookup", "texts", "fill"},
         at \in {"lookup", "texts", "fill"} => cons[r].seen \in Terminal,
         cons[r].batch # <<>>,
         Continue(r, at)
  PROVE  cons' \in [Replicas -> ReaderState]
  <1>1. [cons[r] EXCEPT !.at = at] \in ReaderState
    <2>1. cons[r] \in ReaderState
      BY DEF TypeOK
    <2> QED
      BY <2>1 DEF ReaderState
  <1>2. cons' = [cons EXCEPT ![r] = [cons[r] EXCEPT !.at = at]]
    BY DEF Continue
  <1> QED
    BY <1>1, <1>2 DEF TypeOK

\* The outcomes in a batch are those of jobs.
LEMMA DroppedInJobs ==
  ASSUME NEW batch \in Seq(Event)
  PROVE  Dropped(batch) \in SUBSET Jobs
  <1>1. \A k \in 1 .. Len(batch) : batch[k].job \in Jobs
    <2> TAKE k \in 1 .. Len(batch)
    <2>1. batch[k] \in Event
      OBVIOUS
    <2> QED
      BY <2>1 DEF Event
  <1> QED
    BY <1>1 DEF Dropped

\* A step of a consumer, a failure of its handler or its crash keeps every type.
LEMMA ConsumerTypeOK ==
  ASSUME TypeOK, NEW r \in Replicas,
         ConsumerStep(r) \/ HandlerFails(r) \/ ReplicaCrash(r)
  PROVE  TypeOK'
  <1> USE DEF database, history
  <1>1. CASE Read(r)
    <2> DEFINE n == IF Len(stream) < ReadBatch THEN Len(stream) ELSE ReadBatch
    <2>1. n \in 0 .. Len(stream) /\ Len(stream) \in Nat /\ stream \in Seq(Event)
      BY BatchAssumption DEF TypeOK
    <2> HIDE DEF n
    <2>2. SubSeq(stream, 1, n) \in Seq(Event)
      BY <2>1, SubSeqProperties
    <2>3. SubSeq(stream, n + 1, Len(stream)) \in Seq(Event)
      BY <2>1, SubSeqProperties
    <2>4. Reader(SubSeq(stream, 1, n)) \in ReaderState
      BY <2>2, ReaderType
    <2>5. /\ cons' = [cons EXCEPT ![r] = Reader(SubSeq(stream, 1, n))]
          /\ stream' = SubSeq(stream, n + 1, Len(stream))
      BY <1>1 DEF Read, n
    <2> QED
      BY <1>1, <2>3, <2>4, <2>5 DEF Read, TypeOK
  <1>2. CASE Apply(r)
    <2>1. Entry(r).job \in Jobs /\ Entry(r).status \in {"processing"} \cup Terminal
      BY <1>2, EntryType DEF Apply, Reading
    <2>2. status' \in [Jobs -> Statuses]
      BY <1>2, <2>1 DEF Apply, TypeOK, Statuses, Live, Terminal
    <2>3. cons' \in [Replicas -> ReaderState]
      BY <1>2, DoneType, ContinueType DEF Apply, Reading
    <2> QED
      BY <1>2, <2>2, <2>3 DEF Apply, TypeOK
  <1>3. CASE InsertArtifacts(r)
    <2>1. Entry(r).job \in Jobs
      BY <1>3, EntryType DEF InsertArtifacts, Reading
    <2>2. artifacts' \in [Jobs -> Nat]
      <3>1. artifacts \in [Jobs -> Nat] /\ artifacts[Entry(r).job] + 1 \in Nat
        BY <2>1 DEF TypeOK
      <3>2. \/ artifacts' = [artifacts EXCEPT ![Entry(r).job] = artifacts[Entry(r).job] + 1]
            \/ artifacts' = artifacts
        BY <1>3 DEF InsertArtifacts
      <3> QED
        BY <3>1, <3>2
    <2>3. cons' \in [Replicas -> ReaderState]
      BY <1>3, DoneType, ContinueType DEF InsertArtifacts, Reading
    <2> QED
      BY <1>3, <2>2, <2>3 DEF InsertArtifacts, TypeOK
  <1>4. CASE Reread(r)
    <2> DEFINE j == Entry(r).job
    <2>1. j \in Jobs /\ status[j] \in Statuses /\ cons[r] \in ReaderState
      BY <1>4, EntryType DEF Reread, Reading, TypeOK
    <2> HIDE DEF j
    <2>2. [cons[r] EXCEPT !.at = "publish", !.seen = status[j]] \in ReaderState
      BY <1>4, <2>1 DEF ReaderState, Reread, Reading
    <2>3. CASE Row(j)
      <3>1. cons' = [cons EXCEPT ![r] = [cons[r] EXCEPT !.at = "publish", !.seen = status[j]]]
        BY <1>4, <2>3 DEF Reread, j
      <3> QED
        BY <1>4, <2>2, <3>1 DEF Reread, TypeOK
    <2>4. CASE ~Row(j)
      <3>1. cons' \in [Replicas -> ReaderState]
        BY <1>4, <2>4, DoneType DEF Reread, Reading, j
      <3> QED
        BY <1>4, <3>1 DEF Reread, TypeOK
    <2> QED
      BY <2>3, <2>4
  <1>5. CASE Publish(r)
    <2>1. Entry(r).job \in Jobs /\ Entry(r).status \in {"processing"} \cup Terminal
      BY <1>5, EntryType DEF Publish, Reading
    <2>2. told' \in [Jobs -> {"nothing", "processing"} \cup Terminal]
      BY <1>5, <2>1 DEF Publish, TypeOK
    <2>3. cons' \in [Replicas -> ReaderState]
      BY <1>5, DoneType, ContinueType DEF Publish, Reading
    <2> QED
      BY <1>5, <2>2, <2>3 DEF Publish, TypeOK
  <1>6. CASE LookUp(r)
    <2>1. cons' \in [Replicas -> ReaderState]
      <3>1. cons[r].seen \in Terminal
        BY <1>6 DEF LookUp, Reading, TypeOK, ReaderState
      <3> QED
        BY <1>6, <3>1, DoneType, ContinueType DEF LookUp, Reading
    <2> QED
      BY <1>6, <2>1 DEF LookUp, TypeOK
  <1>7. CASE GetTexts(r)
    <2> DEFINE found == artifacts[Entry(r).job] > 0
    <2>1. cons[r] \in ReaderState /\ found \in BOOLEAN
      BY DEF TypeOK
    <2>2. cons' = [cons EXCEPT ![r] = [cons[r] EXCEPT !.at = "fill", !.texts = found]]
      BY <1>7 DEF GetTexts
    <2> HIDE DEF found
    <2>3. [cons[r] EXCEPT !.at = "fill", !.texts = found] \in ReaderState
      BY <1>7, <2>1 DEF ReaderState, GetTexts, Reading
    <2> QED
      BY ZenonT(60), <1>7, <2>2, <2>3 DEF GetTexts, TypeOK
  <1>8. CASE Fill(r)
    <2>1. Entry(r).job \in Jobs
      BY <1>8, EntryType DEF Fill, Reading
    <2>2. cons' \in [Replicas -> ReaderState]
      BY <1>8, DoneType DEF Fill, Reading
    <2>3. bare' \in SUBSET Jobs
      BY <1>8, <2>1 DEF Fill, TypeOK
    <2>4. cons[r].seen \in Terminal
      BY <1>8 DEF Fill, Reading, TypeOK, ReaderState
    <2>5. section' \in [Items -> {"none", "processing", "done", "failed", "removed"}]
      BY <1>8, <2>4, FinishedType DEF Fill
    <2> QED
      BY <1>8, <2>2, <2>3, <2>5 DEF Fill, TypeOK
  <1>9. CASE HandlerFails(r)
    <2>1. cons' \in [Replicas -> ReaderState]
      BY <1>9, DoneType DEF HandlerFails
    <2>2. <<Entry(r)>> \in Seq(Event)
      BY <1>9, EntryType DEF HandlerFails
    <2>3. unheard' \in SUBSET Jobs
      BY <1>9, <2>2, DroppedInJobs DEF HandlerFails, TypeOK
    <2> QED
      BY <1>9, <2>1, <2>3, FaultType DEF HandlerFails, TypeOK
  <1>10. CASE ReplicaCrash(r)
    <2>1. <<>> \in Seq(Event) /\ NoDispatch \in DispatchState
      BY DEF NoDispatch, DispatchState
    <2>2. cons' \in [Replicas -> ReaderState]
      BY <1>10, <2>1, ReaderType DEF ReplicaCrash, TypeOK
    <2>3. unheard' \in SUBSET Jobs
      <3> DEFINE unread == IF cons[r].at = "next" THEN cons[r].batch ELSE Tail(cons[r].batch)
      <3>1. cons[r].batch \in Seq(Event) /\ cons[r] \in ReaderState
        BY DEF TypeOK, ReaderState
      <3>2. CASE cons[r].batch # <<>>
        BY <1>10, <3>2, EntryType, DroppedInJobs DEF ReplicaCrash, TypeOK
      <3>3. CASE cons[r].batch = <<>>
        <4>1. unread = cons[r].batch
          BY <3>1, <3>3 DEF ReaderState
        <4> QED
          BY <1>10, <3>1, <4>1, DroppedInJobs DEF ReplicaCrash, TypeOK
      <3> QED
        BY <3>2, <3>3
    <2> QED
      BY <1>10, <2>1, <2>2, <2>3, FaultType DEF ReplicaCrash, RollBack, TypeOK
  <1> QED
    BY <1>1, <1>2, <1>3, <1>4, <1>5, <1>6, <1>7, <1>8, <1>9, <1>10 DEF ConsumerStep

\* TypeOK is inductive.
LEMMA NextTypeOK == TypeOK /\ [Next]_vars => TypeOK'
  <1> SUFFICES ASSUME TypeOK, [Next]_vars PROVE TypeOK'
    OBVIOUS
  <1>1. CASE UNCHANGED vars
    BY <1>1 DEF vars, TypeOK
  <1>2. CASE Next
    BY <1>2, AskTypeOK, RequestTypeOK, DispatchTypeOK, WorkerTypeOK, ConsumerTypeOK DEF Next
  <1> QED
    BY <1>1, <1>2

\* Every variable keeps its type, whatever the interleaving and the faults: no
\* worker without a message, no consumer handling an entry it has not read, no
\* message with more tries than MAX_RETRIES.
THEOREM TypeCorrect == Spec => []TypeOK
  BY InitTypeOK, NextTypeOK, PTL DEF Spec

-----------------------------------------------------------------------------
(***************************************************************************)
(* Outcomes.  ArtifactsOnce and ToldOutcomeIsStored are not inductive: they *)
(* rest on what is true of a consumer between its UPDATE, which let it      *)
(* through, and the insert and the publishing it does later.  By then the   *)
(* row holds the outcome the consumer has in hand, or is gone; nobody has   *)
(* inserted artifacts; and no other consumer is about to.                   *)
(***************************************************************************)
LetThrough(r) == cons[r].at \in {"artifacts", "reread", "publish"}

RowHoldsOutcome ==
  \A r \in Replicas : LetThrough(r) =>
    /\ status[Entry(r).job] # "none"
    /\ Entry(r).status \in Terminal => status[Entry(r).job] \in {Entry(r).status, "gone"}

AboutToInsert ==
  \A r \in Replicas : cons[r].at = "artifacts" =>
    Entry(r).status = "done" /\ artifacts[Entry(r).job] = 0

OneInserter ==
  \A r, s \in Replicas :
    cons[r].at = "artifacts" /\ cons[s].at = "artifacts" /\ r # s
      => Entry(r).job # Entry(s).job

ToldAfterCreated == \A j \in Jobs : told[j] # "nothing" => status[j] # "none"

OutcomeInv ==
  /\ ArtifactsOnce
  /\ ToldOutcomeIsStored
  /\ ToldAfterCreated
  /\ RowHoldsOutcome
  /\ AboutToInsert
  /\ OneInserter

\* A step of another process leaves OutcomeInv alone.
LEMMA OutcomeFrame ==
  ASSUME OutcomeInv, UNCHANGED <<status, artifacts, told, cons>>
  PROVE  OutcomeInv'
  BY DEF OutcomeInv, ArtifactsOnce, ToldOutcomeIsStored, ToldAfterCreated, RowHoldsOutcome,
         AboutToInsert, OneInserter, LetThrough, Entry, Row

\* So does a consumer that gets to a place where it writes neither.
LEMMA ReaderFrame ==
  ASSUME TypeOK, OutcomeInv, NEW r \in Replicas, NEW c,
         c.at \notin {"artifacts", "reread", "publish"},
         cons' = [cons EXCEPT ![r] = c],
         UNCHANGED <<status, artifacts, told>>
  PROVE  OutcomeInv'
  <1>1. \A s \in Replicas : cons'[s] = IF s = r THEN c ELSE cons[s]
    BY DEF TypeOK
  <1> QED
    BY <1>1 DEF OutcomeInv, ArtifactsOnce, ToldOutcomeIsStored, ToldAfterCreated, RowHoldsOutcome,
           AboutToInsert, OneInserter, LetThrough, Entry, Row

\* A consumer that is done with an entry leaves OutcomeInv alone.
LEMMA DoneFrame ==
  ASSUME TypeOK, OutcomeInv, NEW r \in Replicas, Done(r), UNCHANGED <<status, artifacts, told>>
  PROVE  OutcomeInv'
  <1>1. Reader(Tail(cons[r].batch)).at = "next"
    BY DEF Reader
  <1> QED
    BY <1>1, ReaderFrame DEF Done

\* No consumer has the entry of a job that does not exist yet, nor of one that
\* has no outcome yet and it is about to write.
LEMMA OutcomeStatus ==
  ASSUME TypeOK, OutcomeInv, NEW j \in Jobs, NEW new \in Statuses,
         status' = [status EXCEPT ![j] = new],
         UNCHANGED <<artifacts, told, cons>>,
         \/ status[j] = "none" /\ new = "queued"
         \/ status[j] \in Live /\ new \in Terminal \cup {"processing"}
  PROVE  OutcomeInv'
  <1>1. \A k \in Jobs : status'[k] = IF k = j THEN new ELSE status[k]
    BY DEF TypeOK
  <1>2. \A r \in Replicas : LetThrough(r) => Entry(r).job \in Jobs
    BY EntryType DEF TypeOK, ReaderState, LetThrough
  <1>3. ArtifactsOnce'
    BY <1>1 DEF OutcomeInv, ArtifactsOnce, TypeOK, Live
  <1>4. ToldOutcomeIsStored' /\ ToldAfterCreated'
    BY <1>1 DEF OutcomeInv, ToldOutcomeIsStored, ToldAfterCreated, Row, TypeOK, Live, Terminal
  <1>5. RowHoldsOutcome'
    <2> SUFFICES ASSUME NEW r \in Replicas, LetThrough(r)
                 PROVE  /\ status'[Entry(r).job] # "none"
                        /\ Entry(r).status \in Terminal =>
                             status'[Entry(r).job] \in {Entry(r).status, "gone"}
      BY DEF RowHoldsOutcome, LetThrough, Entry
    <2>1. /\ status[Entry(r).job] # "none"
          /\ Entry(r).status \in Terminal => status[Entry(r).job] \in {Entry(r).status, "gone"}
      BY DEF OutcomeInv, RowHoldsOutcome
    <2> QED
      BY <1>1, <1>2, <2>1 DEF Live, Terminal
  <1>6. AboutToInsert' /\ OneInserter'
    BY DEF OutcomeInv, AboutToInsert, OneInserter, Entry
  <1> QED
    BY <1>3, <1>4, <1>5, <1>6 DEF OutcomeInv

\* There are no outcomes to begin with.
LEMMA InitOutcome == Init => OutcomeInv
  BY DEF Init, OutcomeInv, ArtifactsOnce, ToldOutcomeIsStored, ToldAfterCreated, RowHoldsOutcome,
         AboutToInsert, OneInserter, LetThrough, Reader, Terminal

\* A request writes a status only of a new job or of one with no outcome yet.
LEMMA RequestOutcome ==
  ASSUME TypeOK, OutcomeInv, NEW q \in Requests,
         RequestStep(q) \/ RequestFails(q)
  PROVE  OutcomeInv'
  <1> USE DEF database, history
  <1>1. CASE InsertJob(q)
    <2> PICK j \in Unused : status' = [status EXCEPT ![j] = "queued"]
      BY <1>1 DEF InsertJob
    <2>1. j \in Jobs /\ status[j] = "none" /\ "queued" \in Statuses
      BY DEF Unused, Statuses, Live
    <2> QED
      BY <1>1, <2>1, OutcomeStatus DEF InsertJob
  <1>2. CASE Refuse(q)
    <2>1. CASE Updatable(req[q].job)
      <3>1. CASE req[q].job \in Jobs
        BY <1>2, <2>1, <3>1, OutcomeStatus DEF Refuse, Updatable, Statuses, Terminal
      <3>2. CASE req[q].job \notin Jobs
        <4>1. status' = status
          BY <1>2, <2>1, <3>2 DEF Refuse, TypeOK
        <4> QED
          BY <1>2, <2>1, <4>1, OutcomeFrame DEF Refuse
      <3> QED
        BY <3>1, <3>2
    <2>2. CASE ~Updatable(req[q].job)
      BY <1>2, <2>2, OutcomeFrame DEF Refuse
    <2> QED
      BY <2>1, <2>2
  <1>3. CASE ~InsertJob(q) /\ ~Refuse(q)
    <2>1. UNCHANGED <<status, artifacts, told, cons>>
      BY <1>3 DEF RequestStep, RequestFails, InsertRefused, Placeholder, WaitAgain, Submit, NoteFailure,
         RemoveFiles, RemoveSection, EditFails, SubmitFails, RequestDies
    <2> QED
      BY <2>1, OutcomeFrame
  <1> QED
    BY <1>1, <1>2, <1>3

\* A deletion takes a job's outcome and its artifacts along, at any moment.
LEMMA AskOutcome ==
  ASSUME TypeOK, OutcomeInv, NEW q \in Requests, NEW i \in Items,
         Upload(q, i) \/ RetryCheck(q, i) \/ Delete(q, i)
  PROVE  OutcomeInv'
  <1> USE DEF database, history
  <1>1. CASE Upload(q, i)
    BY <1>1, OutcomeFrame DEF Upload
  <1>2. CASE RetryCheck(q, i)
    BY <1>2, OutcomeFrame DEF RetryCheck
  <1>3. CASE Delete(q, i)
    <2>1. /\ \A j \in Jobs : status'[j] = IF j \in JobsOf(i) THEN "gone" ELSE status[j]
          /\ \A j \in Jobs : artifacts'[j] = IF j \in JobsOf(i) THEN 0 ELSE artifacts[j]
          /\ UNCHANGED <<told, cons>>
      BY <1>3 DEF Delete
    <2>2. \A r \in Replicas : LetThrough(r) => Entry(r).job \in Jobs
      BY EntryType DEF TypeOK, ReaderState, LetThrough
    <2>3. \A j \in JobsOf(i) : Row(j)
      BY DEF JobsOf
    <2>4. ArtifactsOnce'
      BY <2>1 DEF OutcomeInv, ArtifactsOnce
    <2>5. ToldOutcomeIsStored' /\ ToldAfterCreated'
      BY <2>1 DEF OutcomeInv, ToldOutcomeIsStored, ToldAfterCreated, Row
    <2>6. RowHoldsOutcome'
      BY <2>1, <2>2 DEF OutcomeInv, RowHoldsOutcome, LetThrough, Entry
    <2>7. AboutToInsert' /\ OneInserter'
      BY <2>1, <2>2 DEF OutcomeInv, AboutToInsert, OneInserter, LetThrough, Entry
    <2> QED
      BY <2>4, <2>5, <2>6, <2>7 DEF OutcomeInv
  <1> QED
    BY <1>1, <1>2, <1>3

\* Dispatches write nothing the outcomes are about.
LEMMA DispatchOutcome ==
  ASSUME TypeOK, OutcomeInv, NEW r \in Replicas, DispatchStep(r) \/ Abort(r)
  PROVE  OutcomeInv'
  <1>1. UNCHANGED <<status, artifacts, told, cons>>
    BY DEF DispatchStep, Measure, Choose, Send, Commit, Abort, database, history
  <1> QED
    BY <1>1, OutcomeFrame

\* Nor do workers.
LEMMA WorkerOutcome ==
  ASSUME TypeOK, OutcomeInv, NEW w \in Workers, WorkerStep(w) \/ Kill(w) \/ HardLimit(w)
  PROVE  OutcomeInv'
  <1>1. UNCHANGED <<status, artifacts, told, cons>>
    BY DEF WorkerStep, Take, Start, Finish, Fail, Transient, Ack, Kill, HardLimit, database, history
  <1> QED
    BY <1>1, OutcomeFrame

\* The UPDATE is the gate.  It lets a consumer through only if the job has no
\* outcome yet, so no other consumer can be past it with an outcome.
LEMMA ApplyOutcome ==
  ASSUME TypeOK, OutcomeInv, NEW r \in Replicas, Apply(r)
  PROVE  OutcomeInv'
  <1> DEFINE e == Entry(r)
             at == IF e.status = "done" THEN "artifacts" ELSE "reread"
  <1>1. e.job \in Jobs /\ e.status \in {"processing"} \cup Terminal /\ e.status \in Statuses
    BY EntryType DEF Apply, Reading, Statuses, Live, Terminal
  <1>2. CASE ~Updatable(e.job)
    BY <1>2, DoneFrame DEF Apply, history
  <1>3. CASE Updatable(e.job)
    <2>1. /\ \A k \in Jobs : status'[k] = IF k = e.job THEN e.status ELSE status[k]
          /\ \A s \in Replicas : cons'[s].batch = cons[s].batch
          /\ \A s \in Replicas : cons'[s].at = IF s = r THEN at ELSE cons[s].at
          /\ UNCHANGED <<artifacts, told>>
      <3>1. /\ status' = [status EXCEPT ![e.job] = e.status]
            /\ cons' = [cons EXCEPT ![r] = [cons[r] EXCEPT !.at = at]]
            /\ UNCHANGED <<artifacts, told>>
        BY <1>3 DEF Apply, Continue, history
      <3>2. status \in [Jobs -> Statuses] /\ cons \in [Replicas -> ReaderState]
        BY DEF TypeOK
      <3>3. \A s \in Replicas : cons'[s] = IF s = r THEN [cons[r] EXCEPT !.at = at] ELSE cons[s]
        BY <3>1, <3>2
      <3>4. cons[r] \in ReaderState
        BY <3>2
      <3> HIDE DEF e, at
      <3>5. [cons[r] EXCEPT !.at = at].batch = cons[r].batch /\ [cons[r] EXCEPT !.at = at].at = at
        BY <3>4 DEF ReaderState
      <3> QED
        BY <3>1, <3>2, <3>3, <3>5
    <2>2. \A s \in Replicas : Entry(s)' = Entry(s)
      BY <2>1 DEF Entry
    <2>3. status[e.job] \in Live
      BY <1>3 DEF Updatable
    <2>4. \A s \in Replicas : LetThrough(s) => Entry(s).job \in Jobs
      BY EntryType DEF TypeOK, ReaderState, LetThrough
    <2> HIDE DEF e, at
    <2>5. ArtifactsOnce'
      BY <1>1, <2>1, <2>3 DEF OutcomeInv, ArtifactsOnce, Live
    <2>6. ToldOutcomeIsStored' /\ ToldAfterCreated'
      BY <1>1, <2>1, <2>3 DEF OutcomeInv, ToldOutcomeIsStored, ToldAfterCreated, Row, Live, Terminal
    <2>7. RowHoldsOutcome'
      <3> SUFFICES ASSUME NEW s \in Replicas, LetThrough(s)'
                   PROVE  /\ status'[Entry(s).job] # "none"
                          /\ Entry(s).status \in Terminal =>
                               status'[Entry(s).job] \in {Entry(s).status, "gone"}
        BY <2>2 DEF RowHoldsOutcome
      <3>1. CASE s = r
        BY <1>1, <2>1, <3>1 DEF e, Terminal
      <3>2. CASE s # r
        <4>1. LetThrough(s)
          BY <2>1, <3>2 DEF LetThrough
        <4> QED
          BY <1>1, <2>1, <2>3, <2>4, <4>1 DEF OutcomeInv, RowHoldsOutcome, Live, Terminal
      <3> QED
        BY <3>1, <3>2
    <2>8. AboutToInsert'
      <3> SUFFICES ASSUME NEW s \in Replicas, cons'[s].at = "artifacts"
                   PROVE  Entry(s).status = "done" /\ artifacts[Entry(s).job] = 0
        BY <2>1, <2>2 DEF AboutToInsert
      <3>1. CASE s = r
        <4>1. artifacts[e.job] = 0
          <5>1. artifacts[e.job] \in Nat /\ artifacts[e.job] <= 1
            BY <1>1 DEF OutcomeInv, ArtifactsOnce, TypeOK
          <5>2. artifacts[e.job] # 1
            BY <1>1, <2>3 DEF OutcomeInv, ArtifactsOnce, Live
          <5> QED
            BY <5>1, <5>2
        <4> QED
          BY <2>1, <3>1, <4>1 DEF e, at
      <3>2. CASE s # r
        BY <2>1, <3>2 DEF OutcomeInv, AboutToInsert
      <3> QED
        BY <3>1, <3>2
    <2>9. OneInserter'
      <3> SUFFICES ASSUME NEW s \in Replicas, s # r, cons[s].at = "artifacts"
                   PROVE  Entry(s).job # e.job
        BY <2>1, <2>2 DEF OutcomeInv, OneInserter, e
      <3>1. Entry(s).status = "done" /\ LetThrough(s)
        BY DEF OutcomeInv, AboutToInsert, LetThrough
      <3>2. status[Entry(s).job] \in {"done", "gone"}
        BY <3>1 DEF OutcomeInv, RowHoldsOutcome, Terminal
      <3> QED
        BY <2>3, <3>2 DEF Live
    <2> QED
      BY <2>5, <2>6, <2>7, <2>8, <2>9 DEF OutcomeInv
  <1> QED
    BY <1>2, <1>3

\* Where the inserting consumer goes on to, it has inserted for its job alone:
\* OneInserter says that nobody else is about to insert for the same job.
LEMMA InsertOutcome ==
  ASSUME TypeOK, OutcomeInv, NEW r \in Replicas, InsertArtifacts(r)
  PROVE  OutcomeInv'
  <1> DEFINE j == Entry(r).job
  <1>1. j \in Jobs /\ cons[r].at = "artifacts"
    BY EntryType DEF InsertArtifacts, Reading
  <1>2. CASE ~Row(j)
    BY <1>2, DoneFrame DEF InsertArtifacts, history
  <1>3. CASE Row(j)
    <2>1. /\ artifacts' = [artifacts EXCEPT ![j] = artifacts[j] + 1]
          /\ cons' = [cons EXCEPT ![r] = [cons[r] EXCEPT !.at = "reread"]]
          /\ UNCHANGED <<status, told>>
      BY <1>3 DEF InsertArtifacts, Continue, history
    <2>2. /\ Entry(r).status = "done"
          /\ artifacts[j] = 0
          /\ status[j] \in {"done", "gone"}
      BY <1>1 DEF OutcomeInv, AboutToInsert, RowHoldsOutcome, LetThrough, Terminal
    <2>3. status[j] = "done"
      BY <1>3, <2>2 DEF Row
    <2>4. \A k \in Jobs : artifacts'[k] = IF k = j THEN 1 ELSE artifacts[k]
      BY <2>1, <2>2 DEF TypeOK
    <2>5. /\ \A s \in Replicas : cons'[s].batch = cons[s].batch
          /\ \A s \in Replicas : cons'[s].at = IF s = r THEN "reread" ELSE cons[s].at
      <3>1. cons \in [Replicas -> ReaderState] /\ cons[r] \in ReaderState
        BY DEF TypeOK
      <3>2. [cons[r] EXCEPT !.at = "reread"].batch = cons[r].batch
            /\ [cons[r] EXCEPT !.at = "reread"].at = "reread"
        BY <3>1 DEF ReaderState
      <3> QED
        BY <2>1, <3>1, <3>2
    <2>6. \A s \in Replicas : Entry(s)' = Entry(s)
      BY <2>5 DEF Entry
    <2>7. \A s \in Replicas : LetThrough(s) => Entry(s).job \in Jobs
      BY EntryType DEF TypeOK, ReaderState, LetThrough
    <2>8. ArtifactsOnce'
      BY <2>1, <2>3, <2>4 DEF OutcomeInv, ArtifactsOnce
    <2>9. ToldOutcomeIsStored' /\ ToldAfterCreated'
      BY <2>1 DEF OutcomeInv, ToldOutcomeIsStored, ToldAfterCreated, Row
    <2>10. RowHoldsOutcome'
      <3> SUFFICES ASSUME NEW s \in Replicas, LetThrough(s)'
                   PROVE  /\ status[Entry(s).job] # "none"
                          /\ Entry(s).status \in Terminal =>
                               status[Entry(s).job] \in {Entry(s).status, "gone"}
        BY <2>1, <2>6 DEF RowHoldsOutcome
      <3>1. LetThrough(s)
        BY <1>1, <2>5 DEF LetThrough
      <3> QED
        BY <3>1 DEF OutcomeInv, RowHoldsOutcome
    <2>11. AboutToInsert'
      <3> SUFFICES ASSUME NEW s \in Replicas, s # r, cons[s].at = "artifacts"
                   PROVE  Entry(s).status = "done" /\ artifacts'[Entry(s).job] = 0
        BY <2>5, <2>6 DEF AboutToInsert
      <3>1. Entry(s).job # j
        BY <1>1 DEF OutcomeInv, OneInserter
      <3>2. Entry(s).status = "done" /\ artifacts[Entry(s).job] = 0
        BY DEF OutcomeInv, AboutToInsert
      <3> QED
        BY <2>4, <2>7, <3>1, <3>2 DEF LetThrough
    <2>12. OneInserter'
      BY <2>5, <2>6 DEF OutcomeInv, OneInserter
    <2> QED
      BY <2>8, <2>9, <2>10, <2>11, <2>12 DEF OutcomeInv
  <1> QED
    BY <1>2, <1>3

\* Reading the row again lets nobody through that the UPDATE did not.
LEMMA RereadOutcome ==
  ASSUME TypeOK, OutcomeInv, NEW r \in Replicas, Reread(r)
  PROVE  OutcomeInv'
  <1> DEFINE j == Entry(r).job
             c == [cons[r] EXCEPT !.at = "publish", !.seen = status[j]]
  <1>1. cons[r].at = "reread" /\ UNCHANGED <<status, artifacts, told>>
    BY DEF Reread, Reading, database, history
  <1>2. CASE ~Row(j)
    BY <1>1, <1>2, DoneFrame DEF Reread
  <1>3. CASE Row(j)
    <2>1. cons' = [cons EXCEPT ![r] = c]
      BY <1>3 DEF Reread
    <2>2. cons \in [Replicas -> ReaderState] /\ cons[r] \in ReaderState
      BY DEF TypeOK
    <2>3. c.batch = cons[r].batch /\ c.at = "publish"
      BY <2>2 DEF ReaderState
    <2> HIDE DEF c
    <2>4. /\ \A s \in Replicas : cons'[s].batch = cons[s].batch
          /\ \A s \in Replicas : cons'[s].at = IF s = r THEN "publish" ELSE cons[s].at
      BY <2>1, <2>2, <2>3
    <2>5. \A s \in Replicas : Entry(s)' = Entry(s) /\ LetThrough(s)' = LetThrough(s)
      BY <1>1, <2>4 DEF Entry, LetThrough
    <2> QED
      BY <1>1, <2>4, <2>5 DEF OutcomeInv, ArtifactsOnce, ToldOutcomeIsStored, ToldAfterCreated,
         RowHoldsOutcome, AboutToInsert, OneInserter, Row
  <1> QED
    BY <1>2, <1>3

\* What is published is what RowHoldsOutcome says the row holds.
LEMMA PublishOutcome ==
  ASSUME TypeOK, OutcomeInv, NEW r \in Replicas, Publish(r)
  PROVE  OutcomeInv'
  <1> DEFINE e == Entry(r)
  <1>1. e.job \in Jobs /\ e.status \in {"processing"} \cup Terminal
    BY EntryType DEF Publish, Reading
  <1>2. /\ status[e.job] # "none"
        /\ e.status \in Terminal => status[e.job] \in {e.status, "gone"}
    BY DEF OutcomeInv, RowHoldsOutcome, LetThrough, Publish, Reading
  <1>3. told' = [told EXCEPT ![e.job] = e.status] /\ UNCHANGED <<status, artifacts>>
    BY DEF Publish, database
  <1>4. \A k \in Jobs : told'[k] = IF k = e.job THEN e.status ELSE told[k]
    BY <1>3 DEF TypeOK
  <1>5. PICK c : cons' = [cons EXCEPT ![r] = c] /\ c.at \in {"next", "lookup"}
    <2>1. CASE cons[r].seen \in Terminal
      <3>1. cons' = [cons EXCEPT ![r] = [cons[r] EXCEPT !.at = "lookup"]]
        BY <2>1 DEF Publish, Continue
      <3>2. [cons[r] EXCEPT !.at = "lookup"].at = "lookup"
        BY DEF TypeOK, ReaderState
      <3> QED
        BY <3>1, <3>2
    <2>2. CASE cons[r].seen \notin Terminal
      <3>1. cons' = [cons EXCEPT ![r] = Reader(Tail(cons[r].batch))]
        BY <2>2 DEF Publish, Done
      <3>2. Reader(Tail(cons[r].batch)).at = "next"
        BY DEF Reader
      <3> QED
        BY <3>1, <3>2
    <2> QED
      BY <2>1, <2>2
  <1>6. \A s \in Replicas : cons'[s] = IF s = r THEN c ELSE cons[s]
    BY <1>5 DEF TypeOK
  <1> HIDE DEF e
  <1>7. ToldOutcomeIsStored' /\ ToldAfterCreated'
    BY <1>1, <1>2, <1>3, <1>4 DEF OutcomeInv, ToldOutcomeIsStored, ToldAfterCreated, Row
  <1>8. ArtifactsOnce' /\ RowHoldsOutcome' /\ AboutToInsert' /\ OneInserter'
    BY <1>3, <1>5, <1>6 DEF OutcomeInv, ArtifactsOnce, RowHoldsOutcome, AboutToInsert,
       OneInserter, LetThrough, Entry
  <1> QED
    BY <1>7, <1>8 DEF OutcomeInv

\* Every step of a consumer preserves OutcomeInv.
LEMMA ConsumerOutcome ==
  ASSUME TypeOK, OutcomeInv, NEW r \in Replicas,
         ConsumerStep(r) \/ HandlerFails(r) \/ ReplicaCrash(r)
  PROVE  OutcomeInv'
  <1> USE DEF database, history
  <1>1. CASE Read(r)
    <2> DEFINE n == IF Len(stream) < ReadBatch THEN Len(stream) ELSE ReadBatch
               c == Reader(SubSeq(stream, 1, n))
    <2>1. c.at = "next"
      BY DEF Reader
    <2>2. cons' = [cons EXCEPT ![r] = c]
      BY <1>1 DEF Read
    <2> HIDE DEF c
    <2> QED
      BY <1>1, <2>1, <2>2, ReaderFrame DEF Read
  <1>2. CASE LookUp(r)
    <2>1. CASE item[itemOf[Entry(r).job]] = "stored"
      <3>1. cons' = [cons EXCEPT ![r] = [cons[r] EXCEPT !.at = "texts"]]
        BY <1>2, <2>1 DEF LookUp, Continue
      <3>2. [cons[r] EXCEPT !.at = "texts"].at = "texts"
        BY DEF TypeOK, ReaderState
      <3> QED
        BY <1>2, <3>1, <3>2, ReaderFrame DEF LookUp
    <2>2. CASE item[itemOf[Entry(r).job]] # "stored"
      BY <1>2, <2>2, DoneFrame DEF LookUp
    <2> QED
      BY <2>1, <2>2
  <1>3. CASE GetTexts(r)
    <2> DEFINE found == artifacts[Entry(r).job] > 0
    <2>1. cons' = [cons EXCEPT ![r] = [cons[r] EXCEPT !.at = "fill", !.texts = found]]
      BY <1>3 DEF GetTexts
    <2> HIDE DEF found
    <2>2. [cons[r] EXCEPT !.at = "fill", !.texts = found].at = "fill"
      BY DEF TypeOK, ReaderState
    <2> QED
      BY <1>3, <2>1, <2>2, ReaderFrame DEF GetTexts
  <1>4. CASE Fill(r)
    BY <1>4, DoneFrame DEF Fill
  <1>5. CASE HandlerFails(r)
    BY <1>5, DoneFrame DEF HandlerFails
  <1>6. CASE ReplicaCrash(r)
    <2>1. cons' = [cons EXCEPT ![r] = Reader(<<>>)] /\ Reader(<<>>).at = "next"
      BY <1>6 DEF ReplicaCrash, Reader
    <2> QED
      BY <1>6, <2>1, ReaderFrame DEF ReplicaCrash
  <1> QED
    BY <1>1, <1>2, <1>3, <1>4, <1>5, <1>6, ApplyOutcome, InsertOutcome, RereadOutcome,
       PublishOutcome DEF ConsumerStep

\* OutcomeInv is inductive, given the types.
LEMMA NextOutcome == TypeOK /\ OutcomeInv /\ [Next]_vars => OutcomeInv'
  <1> SUFFICES ASSUME TypeOK, OutcomeInv, [Next]_vars PROVE OutcomeInv'
    OBVIOUS
  <1>1. CASE UNCHANGED vars
    BY <1>1, OutcomeFrame DEF vars
  <1>2. CASE Next
    BY <1>2, AskOutcome, RequestOutcome, DispatchOutcome, WorkerOutcome, ConsumerOutcome DEF Next
  <1> QED
    BY <1>1, <1>2

\* At every moment a consumer past the UPDATE has the outcome its row has, and
\* is alone in being about to insert the job's artifacts.
THEOREM OutcomeCorrect == Spec => []OutcomeInv
  BY InitOutcome, NextOutcome, TypeCorrect, PTL DEF Spec

\* Through kills, redeliveries, retries and duplicated sends, a job's artifacts
\* are inserted at most once, and only if it ended as done.
THEOREM ArtifactsInsertedOnce == Spec => []ArtifactsOnce
  <1>1. OutcomeInv => ArtifactsOnce
    BY DEF OutcomeInv
  <1> QED
    BY <1>1, OutcomeCorrect, PTL

\* A room is never told an outcome its job's row does not hold.
THEOREM ToldWhatIsStored == Spec => []ToldOutcomeIsStored
  <1>1. OutcomeInv => ToldOutcomeIsStored
    BY DEF OutcomeInv
  <1> QED
    BY <1>1, OutcomeCorrect, PTL

-----------------------------------------------------------------------------
(***************************************************************************)
(* Refinement: every step of the pipeline is a step of JobLifecycle, or    *)
(* leaves the statuses and artifacts alone.                                *)
(***************************************************************************)
\* The pipeline starts where JobLifecycle does.
LEMMA InitLifecycle == Init => Lifecycle!Init
  BY DEF Init, Lifecycle!Init

\* A request creates a job or fails one that is live.
LEMMA RequestLifecycle ==
  ASSUME TypeOK, NEW q \in Requests, RequestStep(q) \/ RequestFails(q)
  PROVE  [Lifecycle!Next]_(Lifecycle!vars)
  <1> USE DEF database, history
  <1>1. CASE InsertJob(q)
    <2> PICK j \in Unused : status' = [status EXCEPT ![j] = "queued"]
      BY <1>1 DEF InsertJob
    <2>1. Lifecycle!Create(j)
      BY <1>1 DEF InsertJob, Unused, Lifecycle!Create
    <2> QED
      BY <2>1 DEF Lifecycle!Next, Unused
  <1>2. CASE Refuse(q) /\ Updatable(req[q].job)
    <2>1. CASE req[q].job \in Jobs
      <3>1. Lifecycle!Settle(req[q].job, "failed")
        BY <1>2 DEF Refuse, Updatable, Live, Lifecycle!Settle, Lifecycle!Live
      <3> QED
        BY <2>1, <3>1 DEF Lifecycle!Next, Lifecycle!Terminal
    <2>2. CASE req[q].job \notin Jobs
      BY <1>2, <2>2 DEF Refuse, TypeOK, Lifecycle!vars
    <2> QED
      BY <2>1, <2>2
  <1>3. CASE ~InsertJob(q) /\ ~(Refuse(q) /\ Updatable(req[q].job))
    BY <1>3 DEF RequestStep, RequestFails, InsertRefused, Placeholder, WaitAgain, Submit, Refuse, NoteFailure,
       RemoveFiles, RemoveSection, EditFails, SubmitFails, RequestDies, Lifecycle!vars
  <1> QED
    BY <1>1, <1>2, <1>3

\* A deletion forgets the upload's jobs.
LEMMA AskLifecycle ==
  ASSUME TypeOK, NEW q \in Requests, NEW i \in Items,
         Upload(q, i) \/ RetryCheck(q, i) \/ Delete(q, i)
  PROVE  [Lifecycle!Next]_(Lifecycle!vars)
  <1>1. CASE Upload(q, i) \/ RetryCheck(q, i)
    BY <1>1 DEF Upload, RetryCheck, database, Lifecycle!vars
  <1>2. CASE Delete(q, i)
    <2>1. JobsOf(i) \in SUBSET Jobs
      BY DEF JobsOf
    <2>2. CASE JobsOf(i) = {}
      <3>1. status' = status /\ artifacts' = artifacts
        BY <1>2, <2>2 DEF Delete, TypeOK
      <3> QED
        BY <3>1 DEF Lifecycle!vars
    <2>3. CASE JobsOf(i) # {}
      <3>1. Lifecycle!Forget(JobsOf(i))
        BY <1>2, <2>3 DEF Delete, JobsOf, Row, Lifecycle!Forget
      <3> QED
        BY <2>1, <3>1 DEF Lifecycle!Next
    <2> QED
      BY <2>2, <2>3
  <1> QED
    BY <1>1, <1>2

\* A consumer's UPDATE starts or settles a live job, and its insert records the
\* results of one that is done and has none.
LEMMA ConsumerLifecycle ==
  ASSUME TypeOK, OutcomeInv, NEW r \in Replicas,
         ConsumerStep(r) \/ HandlerFails(r) \/ ReplicaCrash(r)
  PROVE  [Lifecycle!Next]_(Lifecycle!vars)
  <1> USE DEF database, history
  <1>1. CASE Apply(r)
    <2> DEFINE e == Entry(r)
    <2>1. e.job \in Jobs /\ e.status \in {"processing"} \cup Terminal
      BY <1>1, EntryType DEF Apply, Reading
    <2>2. CASE ~Updatable(e.job)
      BY <1>1, <2>2 DEF Apply, Lifecycle!vars
    <2>3. CASE Updatable(e.job)
      <3>1. status' = [status EXCEPT ![e.job] = e.status] /\ UNCHANGED artifacts
        BY <1>1, <2>3 DEF Apply
      <3>2. status[e.job] \in {"queued", "processing"}
        BY <2>3 DEF Updatable, Live
      <3> HIDE DEF e
      <3>3. CASE e.status \in Terminal
        <4>1. Lifecycle!Settle(e.job, e.status)
          BY <3>1, <3>2 DEF Lifecycle!Settle, Lifecycle!Live
        <4> QED
          BY <2>1, <3>3, <4>1 DEF Lifecycle!Next, Lifecycle!Terminal, Terminal
      <3>4. CASE e.status = "processing" /\ status[e.job] = "queued"
        <4>1. Lifecycle!Start(e.job)
          BY <3>1, <3>4 DEF Lifecycle!Start
        <4> QED
          BY <2>1, <4>1 DEF Lifecycle!Next
      <3>5. CASE e.status = "processing" /\ status[e.job] = "processing"
        <4>1. status' = status
          BY <3>1, <3>5 DEF TypeOK
        <4> QED
          BY <3>1, <4>1 DEF Lifecycle!vars
      <3> QED
        BY <2>1, <3>2, <3>3, <3>4, <3>5
    <2> QED
      BY <2>2, <2>3
  <1>2. CASE InsertArtifacts(r)
    <2> DEFINE j == Entry(r).job
    <2>1. j \in Jobs /\ cons[r].at = "artifacts"
      BY <1>2, EntryType DEF InsertArtifacts, Reading
    <2>2. CASE ~Row(j)
      BY <1>2, <2>2 DEF InsertArtifacts, Lifecycle!vars
    <2>3. CASE Row(j)
      <3>1. artifacts[j] = 0 /\ status[j] = "done"
        BY <2>1, <2>3 DEF OutcomeInv, AboutToInsert, RowHoldsOutcome, LetThrough, Terminal, Row
      <3>2. artifacts' = [artifacts EXCEPT ![j] = artifacts[j] + 1] /\ UNCHANGED status
        BY <1>2, <2>3 DEF InsertArtifacts
      <3>3. artifacts' = [artifacts EXCEPT ![j] = 1]
        BY <3>1, <3>2
      <3>4. Lifecycle!Record(j)
        BY <3>1, <3>2, <3>3 DEF Lifecycle!Record
      <3> QED
        BY <2>1, <3>4 DEF Lifecycle!Next
    <2> QED
      BY <2>2, <2>3
  <1>3. CASE ~Apply(r) /\ ~InsertArtifacts(r)
    BY <1>3 DEF ConsumerStep, Read, Reread, Publish, LookUp, GetTexts, Fill, HandlerFails,
       ReplicaCrash, Lifecycle!vars
  <1> QED
    BY <1>1, <1>2, <1>3

\* Every step of the pipeline is one of JobLifecycle, or leaves it alone.
LEMMA NextLifecycle == TypeOK /\ OutcomeInv /\ [Next]_vars => [Lifecycle!Next]_(Lifecycle!vars)
  <1> SUFFICES ASSUME TypeOK, OutcomeInv, [Next]_vars PROVE [Lifecycle!Next]_(Lifecycle!vars)
    OBVIOUS
  <1>1. CASE UNCHANGED vars
    BY <1>1 DEF vars, Lifecycle!vars
  <1>2. CASE \E r \in Replicas : DispatchStep(r) \/ Abort(r)
    BY <1>2 DEF DispatchStep, Measure, Choose, Send, Commit, Abort, database, Lifecycle!vars
  <1>3. CASE \E w \in Workers : WorkerStep(w) \/ Kill(w) \/ HardLimit(w)
    BY <1>3 DEF WorkerStep, Take, Start, Finish, Fail, Transient, Ack, Kill, HardLimit, database,
       Lifecycle!vars
  <1> QED
    BY <1>1, <1>2, <1>3, AskLifecycle, RequestLifecycle, ConsumerLifecycle DEF Next

\* Requests, dispatcher, workers, stream and consumers together keep the
\* promise of JobLifecycle: a job is settled once, its results are recorded
\* once and after that, and it goes only with its upload.
THEOREM Implements == Spec => ImplementsLifecycle
  <1>1. Spec => [][Lifecycle!Next]_(Lifecycle!vars)
    BY NextLifecycle, TypeCorrect, OutcomeCorrect, PTL DEF Spec
  <1> QED
    BY <1>1, InitLifecycle DEF Spec, ImplementsLifecycle, Lifecycle!Spec

-----------------------------------------------------------------------------
(***************************************************************************)
(* Delivery.  NoJobLost is not inductive: that a job is in no dispatch's   *)
(* hands says nothing of where it is.  What is true from the moment it was *)
(* first pushed, committed or not, is that something of it travels on      *)
(* until its row holds an outcome.                                         *)
(***************************************************************************)
Travelling(j) ==
  \/ Messages(j) # {}
  \/ Holders(j) # {}
  \/ Reports(j) # {}
  \/ Delivering(j) # {}
  \/ j \in unsaid \cup unheard

SentTravels == \A j \in Jobs : sends[j] > 0 /\ status[j] \in Live => Travelling(j)

\* What was given to the broker and comes back from it was sent.
OnlySentTravel ==
  /\ \A n \in 1 .. Len(broker) : sends[broker[n].job] > 0
  /\ \A w \in Workers : work[w].at # "idle" => sends[work[w].msg.job] > 0
  /\ \A n \in 1 .. Len(stream) : sends[stream[n].job] > 0
  /\ \A r \in Replicas : \A n \in 1 .. Len(cons[r].batch) : sends[cons[r].batch[n].job] > 0

\* Neither a mark nor a status comes before the push.
SentFirst ==
  \A j \in Jobs :
    /\ dispatched[j] \/ status[j] = "processing" => sends[j] > 0
    /\ \A r \in Replicas : j \in disp[r].marked => sends[j] > 0

\* An outcome a consumer has passed the gate with is no longer awaited.
PastGate ==
  \A r \in Replicas :
    cons[r].batch # <<>> /\ cons[r].at # "next" /\ Entry(r).status \in Terminal
      => status[Entry(r).job] \in Terminal \cup {"gone"}

\* A job that does not exist yet is in no dispatch and was not sent.
NewIsUnsent ==
  \A j \in Jobs : status[j] = "none" =>
    /\ sends[j] = 0
    /\ \A r \in Replicas : j \notin disp[r].plan

MarkedIsPlanned == \A r \in Replicas : disp[r].marked \subseteq disp[r].plan

\* Only a dispatch that is sending has chosen or pushed anything.
EmptyHanded ==
  \A r \in Replicas : disp[r].at # "sending" => disp[r].plan = {} /\ disp[r].marked = {}

DeliveryInv ==
  /\ SentTravels
  /\ OnlySentTravel
  /\ SentFirst
  /\ PastGate
  /\ NewIsUnsent
  /\ MarkedIsPlanned
  /\ EmptyHanded

\* A job travels exactly if there is something of it somewhere.
LEMMA TravellingMeans ==
  ASSUME NEW j
  PROVE  Travelling(j) <=>
           \/ \E n \in 1 .. Len(broker) : broker[n].job = j
           \/ \E w \in Workers : work[w].at \in {"taken", "running"} /\ work[w].msg.job = j
           \/ \E n \in 1 .. Len(stream) : stream[n].job = j /\ stream[n].status \in Terminal
           \/ \E r \in Replicas : \E n \in 1 .. Len(cons[r].batch) :
                cons[r].batch[n].job = j /\ cons[r].batch[n].status \in Terminal
           \/ j \in unsaid \cup unheard
  BY DEF Travelling, Messages, Holders, Reports, Delivering, Dropped

\* The list, the stream and the batches are about jobs.
LEMMA MessageJobs ==
  ASSUME TypeOK
  PROVE  \A n \in 1 .. Len(broker) : broker[n] \in Message /\ broker[n].job \in Jobs
  <1>1. broker \in Seq(Message)
    BY DEF TypeOK
  <1>2. \A n \in 1 .. Len(broker) : broker[n] \in Message
    BY <1>1, ElementOfSeq
  <1> QED
    BY <1>2 DEF Message

\* An event, read or not, is of a job.
LEMMA EventJobs ==
  ASSUME TypeOK
  PROVE  /\ \A n \in 1 .. Len(stream) : stream[n] \in Event /\ stream[n].job \in Jobs
         /\ \A r \in Replicas : \A n \in 1 .. Len(cons[r].batch) :
              cons[r].batch[n] \in Event /\ cons[r].batch[n].job \in Jobs
  <1>1. \A n \in 1 .. Len(stream) : stream[n] \in Event
    BY ElementOfSeq DEF TypeOK
  <1>2. \A r \in Replicas : cons[r].batch \in Seq(Event)
    BY DEF TypeOK, ReaderState
  <1>3. \A r \in Replicas : \A n \in 1 .. Len(cons[r].batch) : cons[r].batch[n] \in Event
    BY <1>2, ElementOfSeq
  <1> QED
    BY <1>1, <1>3 DEF Event

\* There is nothing to begin with.
LEMMA InitDelivery == Init => DeliveryInv
  <1> SUFFICES ASSUME Init PROVE DeliveryInv
    OBVIOUS
  <1>1. SentTravels /\ SentFirst /\ NewIsUnsent /\ MarkedIsPlanned /\ EmptyHanded
    BY DEF Init, SentTravels, SentFirst, NewIsUnsent, MarkedIsPlanned, EmptyHanded, NoDispatch
  <1>2. OnlySentTravel /\ PastGate
    BY DEF Init, OnlySentTravel, PastGate, IdleWorker, Reader
  <1> QED
    BY <1>1, <1>2 DEF DeliveryInv

\* A step that touches none of this.
LEMMA DeliveryFrame ==
  ASSUME DeliveryInv,
         UNCHANGED <<status, dispatched, sends, disp, broker, work, stream, cons, unsaid, unheard>>
  PROVE  DeliveryInv'
  BY DEF DeliveryInv, SentTravels, OnlySentTravel, SentFirst, PastGate, NewIsUnsent,
         MarkedIsPlanned, EmptyHanded, Travelling, Messages, Holders, Reports, Delivering, Dropped, Entry

\* A step that makes a job, or ends one: nothing of another job changes hands.
LEMMA DeliveryStatus ==
  ASSUME TypeOK, DeliveryInv,
         UNCHANGED <<sends, disp, broker, work, stream, cons, unsaid, unheard>>,
         \A j \in Jobs : dispatched'[j] => dispatched[j],
         \A j \in Jobs :
           \/ status'[j] = status[j]
           \/ status[j] = "none" /\ status'[j] = "queued"
           \/ status[j] # "none" /\ status'[j] \in Terminal \cup {"gone"}
  PROVE  DeliveryInv'
  <1>1. \A r \in Replicas : cons[r].batch # <<>> => Entry(r).job \in Jobs
    BY EntryType
  <1>2. SentTravels'
    <2> SUFFICES ASSUME NEW j \in Jobs, sends[j] > 0, status'[j] \in Live
                 PROVE  Travelling(j)
      BY DEF SentTravels, Travelling, Messages, Holders, Reports, Delivering
    <2>1. status[j] # "none"
      BY DEF DeliveryInv, NewIsUnsent
    <2>2. status[j] \in Live
      BY <2>1 DEF Live, Terminal
    <2> QED
      BY <2>2 DEF DeliveryInv, SentTravels
  <1>3. OnlySentTravel' /\ MarkedIsPlanned' /\ EmptyHanded'
    BY DEF DeliveryInv, OnlySentTravel, MarkedIsPlanned, EmptyHanded
  <1>4. SentFirst'
    BY DEF DeliveryInv, SentFirst, Terminal
  <1>5. PastGate'
    BY <1>1 DEF DeliveryInv, PastGate, Entry, Terminal
  <1>6. NewIsUnsent'
    BY DEF DeliveryInv, NewIsUnsent, Terminal
  <1> QED
    BY <1>2, <1>3, <1>4, <1>5, <1>6 DEF DeliveryInv

\* A request makes a job that was never sent, or fails or deletes one.
LEMMA RequestDelivery ==
  ASSUME TypeOK, DeliveryInv, NEW q \in Requests, RequestStep(q) \/ RequestFails(q)
  PROVE  DeliveryInv'
  <1> USE DEF database, history
  <1>1. CASE InsertJob(q)
    <2> PICK j \in Unused : status' = [status EXCEPT ![j] = "queued"]
      BY <1>1 DEF InsertJob
    <2>1. \A k \in Jobs : status'[k] = status[k] \/ (status[k] = "none" /\ status'[k] = "queued")
      BY DEF Unused, TypeOK
    <2> QED
      BY <1>1, <2>1, DeliveryStatus DEF InsertJob
  <1>2. CASE Refuse(q)
    <2>1. \A k \in Jobs :
            status'[k] = status[k] \/ (status[k] # "none" /\ status'[k] \in Terminal \cup {"gone"})
      BY <1>2 DEF Refuse, Updatable, Live, Terminal, TypeOK
    <2> QED
      BY <1>2, <2>1, DeliveryStatus DEF Refuse
  <1>3. CASE ~InsertJob(q) /\ ~Refuse(q)
    <2>1. UNCHANGED <<status, dispatched, sends, disp, broker, work, stream, cons, unsaid, unheard>>
      BY <1>3 DEF RequestStep, RequestFails, InsertRefused, Placeholder, WaitAgain, Submit, NoteFailure,
         RemoveFiles, RemoveSection, EditFails, SubmitFails, RequestDies
    <2> QED
      BY <2>1, DeliveryFrame
  <1> QED
    BY <1>1, <1>2, <1>3

\* Requests keep the jobs that are delivered.
LEMMA AskDelivery ==
  ASSUME TypeOK, DeliveryInv, NEW q \in Requests, NEW i \in Items,
         Upload(q, i) \/ RetryCheck(q, i) \/ Delete(q, i)
  PROVE  DeliveryInv'
  <1> USE DEF database, history
  <1>1. CASE Upload(q, i) \/ RetryCheck(q, i)
    BY <1>1, DeliveryFrame DEF Upload, RetryCheck
  <1>2. CASE Delete(q, i)
    <2>1. /\ \A j \in Jobs : status'[j] = IF j \in JobsOf(i) THEN "gone" ELSE status[j]
          /\ \A j \in Jobs : dispatched'[j] => dispatched[j]
          /\ UNCHANGED <<sends, disp, broker, work, stream, cons, unsaid, unheard>>
      BY <1>2 DEF Delete
    <2>2. \A j \in JobsOf(i) : status[j] # "none"
      BY DEF JobsOf, Row
    <2> QED
      BY <2>1, <2>2, DeliveryStatus
  <1> QED
    BY <1>1, <1>2

\* A dispatch that measures, chooses, commits or ends: no push and no message.
LEMMA DispatchFrame ==
  ASSUME DeliveryInv,
         UNCHANGED <<status, sends, broker, work, stream, cons, unsaid, unheard>>,
         \A j \in Jobs : dispatched'[j] => dispatched[j] \/ \E s \in Replicas : j \in disp[s].marked,
         \A s \in Replicas :
           /\ disp'[s].marked \subseteq disp[s].marked
           /\ disp'[s].marked \subseteq disp'[s].plan
           /\ \A j \in disp'[s].plan : j \in disp[s].plan \/ status[j] # "none"
           /\ disp'[s].at # "sending" => disp'[s].plan = {}
  PROVE  DeliveryInv'
  <1>1. SentTravels' /\ OnlySentTravel' /\ PastGate'
    BY DEF DeliveryInv, SentTravels, OnlySentTravel, PastGate, Travelling, Messages, Holders,
           Reports, Delivering, Dropped, Entry
  <1>2. SentFirst'
    BY DEF DeliveryInv, SentFirst
  <1>3. NewIsUnsent' /\ MarkedIsPlanned' /\ EmptyHanded'
    BY DEF DeliveryInv, NewIsUnsent, MarkedIsPlanned, EmptyHanded
  <1> QED
    BY <1>1, <1>2, <1>3 DEF DeliveryInv

\* A dispatch that ends, whichever way, has nothing left in its hands.
LEMMA ClosedDelivery ==
  ASSUME TypeOK, DeliveryInv, NEW r \in Replicas,
         disp' = [disp EXCEPT ![r] = NoDispatch],
         UNCHANGED <<status, sends, broker, work, stream, cons, unsaid, unheard>>,
         \A j \in Jobs : dispatched'[j] => dispatched[j] \/ j \in disp[r].marked
  PROVE  DeliveryInv'
  <1>1. \A s \in Replicas : disp'[s] = IF s = r THEN NoDispatch ELSE disp[s]
    BY DEF TypeOK
  <1>2. \A s \in Replicas :
          /\ disp'[s].marked \subseteq disp[s].marked
          /\ disp'[s].marked \subseteq disp'[s].plan
          /\ disp'[s].plan \subseteq disp[s].plan
          /\ disp'[s].at # "sending" => disp'[s].plan = {}
    BY <1>1 DEF NoDispatch, DeliveryInv, MarkedIsPlanned, EmptyHanded
  <1> QED
    BY <1>2, DispatchFrame

\* A push: the job is in the list before it is marked, and has been chosen.
LEMMA SendDelivery ==
  ASSUME TypeOK, DeliveryInv, NEW r \in Replicas, NEW j \in Jobs, Send(r, j)
  PROVE  DeliveryInv'
  <1> DEFINE m == [job |-> j, try |-> 0, fresh |-> TRUE]
  <1>1. /\ broker' = Append(broker, m)
        /\ UNCHANGED <<status, dispatched, work, stream, cons, unsaid, unheard>>
    BY DEF Send, database, history
  <1>2. m \in Message /\ m.job = j
    BY RetriesAssumption DEF Message
  <1> HIDE DEF m
  <1>3. /\ Len(broker') = Len(broker) + 1 /\ Len(broker) \in Nat
        /\ \A n \in 1 .. Len(broker) : broker'[n] = broker[n]
        /\ broker'[Len(broker) + 1] = m
    BY <1>1, <1>2, AppendProperties, LenProperties DEF TypeOK
  <1>4. \A k \in Jobs : sends'[k] = IF k = j THEN sends[k] + 1 ELSE sends[k]
    BY DEF Send, TypeOK
  <1>5. \A k \in Jobs : sends[k] \in Nat /\ (sends[k] > 0 => sends'[k] > 0)
    <2>1. sends \in [Jobs -> Nat]
      BY DEF TypeOK
    <2> QED
      BY <1>4, <2>1
  <1>6. /\ \A s \in Replicas : disp'[s].plan = disp[s].plan
        /\ \A s \in Replicas : disp'[s].marked = IF s = r THEN disp[s].marked \cup {j} ELSE disp[s].marked
        /\ \A s \in Replicas : disp'[s].at = disp[s].at
        /\ j \in disp[r].plan /\ disp[r].at = "sending"
    <2>1. disp' = [disp EXCEPT ![r] = [disp[r] EXCEPT !.marked = disp[r].marked \cup {j}]]
      BY DEF Send
    <2>2. disp \in [Replicas -> DispatchState] /\ disp[r] \in DispatchState
      BY DEF TypeOK
    <2>3. [disp[r] EXCEPT !.marked = disp[r].marked \cup {j}].plan = disp[r].plan
          /\ [disp[r] EXCEPT !.marked = disp[r].marked \cup {j}].at = disp[r].at
          /\ [disp[r] EXCEPT !.marked = disp[r].marked \cup {j}].marked = disp[r].marked \cup {j}
      BY <2>2 DEF DispatchState
    <2> QED
      BY <2>1, <2>2, <2>3 DEF Send
  <1>7. sends'[j] > 0 /\ status[j] # "none"
    BY <1>4, <1>5, <1>6 DEF DeliveryInv, NewIsUnsent
  <1>8. SentTravels'
    <2> SUFFICES ASSUME NEW k \in Jobs, sends'[k] > 0, status[k] \in Live
                 PROVE  Travelling(k)'
      BY <1>1 DEF SentTravels
    <2>1. CASE k = j
      <3>1. Len(broker) + 1 \in 1 .. Len(broker') /\ broker'[Len(broker) + 1].job = j
        BY <1>2, <1>3
      <3> QED
        BY <2>1, <3>1 DEF Travelling, Messages
    <2>2. CASE k # j
      <3>1. Travelling(k)
        BY <1>4, <2>2 DEF DeliveryInv, SentTravels
      <3>2. Messages(k) # {} => Messages(k)' # {}
        BY <1>3 DEF Messages
      <3> QED
        BY <1>1, <3>1, <3>2 DEF Travelling, Holders, Reports, Delivering
    <2> QED
      BY <2>1, <2>2
  <1>9. OnlySentTravel'
    <2>1. \A n \in 1 .. Len(broker') : broker'[n].job \in Jobs /\ sends'[broker'[n].job] > 0
      <3> TAKE n \in 1 .. Len(broker')
      <3>1. CASE n \in 1 .. Len(broker)
        BY <1>3, <1>5, <3>1, MessageJobs DEF DeliveryInv, OnlySentTravel
      <3>2. CASE n = Len(broker) + 1
        BY <1>2, <1>3, <1>7, <3>2
      <3> QED
        BY <1>3, <3>1, <3>2
    <2>2. \A w \in Workers : work'[w].at # "idle" => sends'[work'[w].msg.job] > 0
      BY <1>1, <1>5, BusyWorker DEF DeliveryInv, OnlySentTravel
    <2>3. /\ \A n \in 1 .. Len(stream') : sends'[stream'[n].job] > 0
          /\ \A s \in Replicas : \A n \in 1 .. Len(cons'[s].batch) : sends'[cons'[s].batch[n].job] > 0
      BY <1>1, <1>5, EventJobs DEF DeliveryInv, OnlySentTravel
    <2> QED
      BY <2>1, <2>2, <2>3 DEF OnlySentTravel
  <1>10. SentFirst'
    BY <1>1, <1>5, <1>6, <1>7 DEF DeliveryInv, SentFirst
  <1>11. PastGate'
    BY <1>1 DEF DeliveryInv, PastGate, Entry
  <1>12. NewIsUnsent'
    BY <1>1, <1>4, <1>6, <1>7 DEF DeliveryInv, NewIsUnsent
  <1>13. MarkedIsPlanned' /\ EmptyHanded'
    BY <1>6 DEF DeliveryInv, MarkedIsPlanned, EmptyHanded
  <1> QED
    BY <1>8, <1>9, <1>10, <1>11, <1>12, <1>13 DEF DeliveryInv

\* A dispatch pushes before it marks.
LEMMA DispatchDelivery ==
  ASSUME TypeOK, DeliveryInv, NEW r \in Replicas, DispatchStep(r) \/ Abort(r)
  PROVE  DeliveryInv'
  <1> USE DEF database, history
  <1>0. disp \in [Replicas -> DispatchState] /\ disp[r] \in DispatchState
    BY DEF TypeOK
  <1>1. CASE Measure(r)
    <2>1. \A s \in Replicas : disp'[s].marked = disp[s].marked /\ disp'[s].plan = disp[s].plan
      BY <1>0, <1>1 DEF Measure, DispatchState
    <2>2. \A s \in Replicas : disp'[s].at # "sending" => disp[s].at # "sending"
      BY <1>0, <1>1 DEF Measure, DispatchState
    <2> QED
      BY <1>1, <2>1, <2>2, DispatchFrame DEF Measure, DeliveryInv, MarkedIsPlanned, EmptyHanded
  <1>2. CASE Choose(r)
    <2> DEFINE found == {j \in Waiting : Unlocked(j)}
    <2> PICK plan \in SUBSET found :
          disp' = [disp EXCEPT ![r].at = "sending", ![r].locked = found, ![r].plan = plan]
      BY <1>2 DEF Choose
    <2>1. \A j \in plan : status[j] # "none"
      BY DEF Waiting
    <2> HIDE DEF found
    <2>2. \A s \in Replicas :
            /\ disp'[s].marked = disp[s].marked
            /\ disp'[s].plan = IF s = r THEN plan ELSE disp[s].plan
            /\ disp'[s].at = IF s = r THEN "sending" ELSE disp[s].at
      <3> DEFINE d == [disp[r] EXCEPT !.at = "sending", !.locked = found, !.plan = plan]
      <3>1. disp' = [disp EXCEPT ![r] = d]
        OBVIOUS
      <3>2. d.marked = disp[r].marked /\ d.plan = plan /\ d.at = "sending"
        BY <1>0 DEF DispatchState
      <3> HIDE DEF d
      <3> QED
        BY <1>0, <3>1, <3>2
    <2>3. disp[r].marked = {}
      BY <1>2 DEF Choose, DeliveryInv, EmptyHanded
    <2>4. \A s \in Replicas :
            /\ disp'[s].marked \subseteq disp[s].marked
            /\ disp'[s].marked \subseteq disp'[s].plan
            /\ \A j \in disp'[s].plan : j \in disp[s].plan \/ status[j] # "none"
            /\ disp'[s].at # "sending" => disp'[s].plan = {}
      BY ZenonT(60), <2>1, <2>2, <2>3 DEF DeliveryInv, MarkedIsPlanned, EmptyHanded
    <2> QED
      BY <1>2, <2>4, DispatchFrame DEF Choose
  <1>3. CASE \E j \in Jobs : Send(r, j)
    BY <1>3, SendDelivery
  <1>4. CASE Commit(r)
    <2>1. \A j \in Jobs : dispatched'[j] => dispatched[j] \/ j \in disp[r].marked
      BY <1>4 DEF Commit
    <2> QED
      BY <1>4, <2>1, ClosedDelivery DEF Commit
  <1>5. CASE Abort(r)
    BY <1>5, ClosedDelivery DEF Abort, RollBack
  <1> QED
    BY <1>1, <1>2, <1>3, <1>4, <1>5 DEF DispatchStep

-----------------------------------------------------------------------------
\* A worker's step changes neither rows nor dispatches: what remains to be
\* shown is that nothing of a job disappears.
LEMMA CarriedOn ==
  ASSUME DeliveryInv, OnlySentTravel',
         UNCHANGED <<status, dispatched, sends, disp, cons, unheard>>,
         \A j \in Jobs : Travelling(j) => Travelling(j)'
  PROVE  DeliveryInv'
  <1>1. SentTravels'
    BY DEF DeliveryInv, SentTravels
  <1>2. SentFirst' /\ PastGate' /\ NewIsUnsent' /\ MarkedIsPlanned' /\ EmptyHanded'
    BY DEF DeliveryInv, SentFirst, PastGate, NewIsUnsent, MarkedIsPlanned, EmptyHanded, Entry
  <1> QED
    BY <1>1, <1>2 DEF DeliveryInv

\* Taking a message moves it from the list into the worker's hands.
LEMMA TakeDelivery ==
  ASSUME TypeOK, DeliveryInv, NEW w \in Workers, Take(w)
  PROVE  DeliveryInv'
  <1>1. /\ broker \in Seq(Message) /\ broker # <<>>
        /\ UNCHANGED <<status, dispatched, sends, disp, stream, cons, unsaid, unheard>>
    BY DEF Take, TypeOK, database, history
  <1>2. /\ Len(broker) \in Nat \ {0} /\ Len(Tail(broker)) = Len(broker) - 1
        /\ \A n \in 1 .. Len(Tail(broker)) : Tail(broker)[n] = broker[n + 1]
        /\ Head(broker) = broker[1]
    BY <1>1, EmptySeq, HeadTailProperties
  <1>3. /\ broker' = Tail(broker)
        /\ \A v \in Workers : work'[v] = IF v = w THEN [at |-> "taken", msg |-> broker[1]] ELSE work[v]
        /\ work[w].at = "idle"
    BY <1>2 DEF Take, TypeOK
  <1>4. OnlySentTravel'
    <2>1. /\ \A n \in 1 .. Len(broker) : sends[broker[n].job] > 0
          /\ \A v \in Workers : work[v].at # "idle" => sends[work[v].msg.job] > 0
          /\ \A n \in 1 .. Len(stream) : sends[stream[n].job] > 0
          /\ \A r \in Replicas : \A n \in 1 .. Len(cons[r].batch) : sends[cons[r].batch[n].job] > 0
      BY DEF DeliveryInv, OnlySentTravel
    <2>2. \A n \in 1 .. Len(broker') : sends'[broker'[n].job] > 0
      <3> SUFFICES ASSUME NEW n \in 1 .. Len(broker') PROVE sends[broker'[n].job] > 0
        BY <1>1
      <3>1. n + 1 \in 1 .. Len(broker) /\ broker'[n] = broker[n + 1]
        BY <1>2, <1>3
      <3> QED
        BY <2>1, <3>1
    <2>3. \A v \in Workers : work'[v].at # "idle" => sends'[work'[v].msg.job] > 0
      <3>1. 1 \in 1 .. Len(broker)
        BY <1>2
      <3>2. sends[broker[1].job] > 0
        BY <2>1, <3>1
      <3> QED
        BY <1>1, <1>3, <2>1, <3>2
    <2> QED
      BY <1>1, <2>1, <2>2, <2>3 DEF OnlySentTravel
  <1>5. \A j \in Jobs : Travelling(j) => Travelling(j)'
    <2> SUFFICES ASSUME NEW j \in Jobs, Travelling(j) PROVE Travelling(j)'
      OBVIOUS
    <2>1. CASE Messages(j) # {}
      <3>1. PICK n \in 1 .. Len(broker) : broker[n].job = j
        BY <2>1 DEF Messages
      <3>2. CASE n = 1
        <4>1. w \in Holders(j)'
          BY <1>3, <3>1, <3>2 DEF Holders
        <4> QED
          BY <4>1 DEF Travelling
      <3>3. CASE n # 1
        <4>1. n - 1 \in 1 .. Len(broker') /\ broker'[n - 1].job = j
          BY <1>2, <1>3, <3>1, <3>3
        <4> QED
          BY <4>1 DEF Travelling, Messages
      <3> QED
        BY <3>2, <3>3
    <2>2. CASE Holders(j) # {}
      <3>1. PICK v \in Workers : work[v].at \in {"taken", "running"} /\ work[v].msg.job = j
        BY <2>2 DEF Holders
      <3>2. v \in Holders(j)'
        BY <1>3, <3>1 DEF Holders
      <3> QED
        BY <3>2 DEF Travelling
    <2> QED
      BY <1>1, <2>1, <2>2 DEF Travelling, Reports, Delivering
  <1> QED
    BY <1>1, <1>4, <1>5, CarriedOn

\* An announcement adds its job's event to the stream, or is noted as unsaid.
LEMMA Announced ==
  ASSUME TypeOK, NEW j \in Jobs, NEW outcome \in {"processing"} \cup Terminal, Emit(j, outcome),
         sends[j] > 0, OnlySentTravel, sends' = sends
  PROVE  /\ \A n \in 1 .. Len(stream') : sends'[stream'[n].job] > 0
         /\ \A k : Reports(k) # {} => Reports(k)' # {}
         /\ unsaid \subseteq unsaid'
         /\ outcome \in Terminal => Reports(j)' # {} \/ j \in unsaid'
  <1>1. CASE /\ stream' = Append(stream, [job |-> j, status |-> outcome])
             /\ UNCHANGED <<faults, unsaid>>
    <2> DEFINE e == [job |-> j, status |-> outcome]
    <2>1. e \in Event /\ e.job = j /\ e.status = outcome /\ stream \in Seq(Event)
      BY DEF Event, TypeOK
    <2>2. stream' = Append(stream, e) /\ unsaid' = unsaid
      BY <1>1
    <2> HIDE DEF e
    <2>3. /\ Len(stream') = Len(stream) + 1 /\ Len(stream) \in Nat
          /\ \A n \in 1 .. Len(stream) : stream'[n] = stream[n]
          /\ stream'[Len(stream) + 1] = e
      BY <2>1, <2>2, AppendProperties, LenProperties
    <2>4. \A n \in 1 .. Len(stream') : sends'[stream'[n].job] > 0
      <3> TAKE n \in 1 .. Len(stream')
      <3>1. n \in 1 .. Len(stream) \/ n = Len(stream) + 1
        BY <2>3
      <3> QED
        BY <2>1, <2>3, <3>1 DEF OnlySentTravel
    <2>5. \A k : Reports(k) # {} => Reports(k)' # {}
      <3> SUFFICES ASSUME NEW k, NEW n \in Reports(k) PROVE n \in Reports(k)'
        OBVIOUS
      <3> QED
        BY <2>3 DEF Reports
    <2>6. outcome \in Terminal => Len(stream) + 1 \in Reports(j)'
      BY <2>1, <2>3 DEF Reports
    <2> QED
      BY <2>2, <2>4, <2>5, <2>6
  <1>2. CASE /\ Fault
             /\ unsaid' = IF outcome \in Terminal THEN unsaid \cup {j} ELSE unsaid
             /\ UNCHANGED stream
    BY <1>2 DEF OnlySentTravel, Reports
  <1> QED
    BY <1>1, <1>2 DEF Emit

\* A worker that goes on keeps its message, until it has said what came of it.
LEMMA WorkingDelivery ==
  ASSUME TypeOK, DeliveryInv, NEW w \in Workers,
         NEW at \in {"running", "finished"},
         NEW outcome \in {"processing"} \cup Terminal,
         work[w].at \in {"taken", "running"},
         at = "finished" => outcome \in Terminal,
         Emit(work[w].msg.job, outcome), Working(w, at),
         UNCHANGED <<status, dispatched, sends, disp, broker, cons, unheard>>
  PROVE  DeliveryInv'
  <1> PICK j \in Jobs : j = work[w].msg.job
    BY BusyWorker
  <1>1. sends[j] > 0
    BY DEF DeliveryInv, OnlySentTravel
  <1>2. /\ \A n \in 1 .. Len(stream') : sends'[stream'[n].job] > 0
        /\ \A k : Reports(k) # {} => Reports(k)' # {}
        /\ unsaid \subseteq unsaid'
        /\ outcome \in Terminal => Reports(j)' # {} \/ j \in unsaid'
    BY <1>1, Announced DEF DeliveryInv
  <1>3. \A v \in Workers : /\ work'[v].msg = work[v].msg
                           /\ work'[v].at = IF v = w THEN at ELSE work[v].at
    <2>1. work' = [work EXCEPT ![w] = [work[w] EXCEPT !.at = at]] /\ work \in [Workers -> WorkerState]
      BY DEF Working, TypeOK
    <2>2. work[w] \in [at : {"idle", "taken", "running", "finished"}, msg : Message \cup {NoMessage}]
      BY <2>1 DEF WorkerState, IdleWorker
    <2>3. [work[w] EXCEPT !.at = at].at = at /\ [work[w] EXCEPT !.at = at].msg = work[w].msg
      BY <2>2
    <2> QED
      BY <2>1, <2>3
  <1>4. OnlySentTravel'
    BY <1>2, <1>3 DEF DeliveryInv, OnlySentTravel
  <1>5. \A k \in Jobs : Travelling(k) => Travelling(k)'
    <2> SUFFICES ASSUME NEW k \in Jobs, Travelling(k) PROVE Travelling(k)'
      OBVIOUS
    <2>1. CASE Holders(k) # {}
      <3>1. PICK v \in Workers : work[v].at \in {"taken", "running"} /\ work[v].msg.job = k
        BY <2>1 DEF Holders
      <3>2. CASE v = w /\ at = "finished"
        BY <1>2, <3>1, <3>2 DEF Travelling
      <3>3. CASE ~(v = w /\ at = "finished")
        <4>1. v \in Holders(k)'
          BY <1>3, <3>1, <3>3 DEF Holders
        <4> QED
          BY <4>1 DEF Travelling
      <3> QED
        BY <3>2, <3>3
    <2>2. CASE Messages(k) # {} \/ Delivering(k) # {}
      BY <2>2 DEF Travelling, Messages, Delivering
    <2> QED
      BY <1>2, <2>1, <2>2 DEF Travelling
  <1> QED
    BY <1>4, <1>5, CarriedOn

\* A message that goes back, from a worker that then has nothing to do with it
\* any more, is in the list again, at whichever end.
LEMMA ReturnedDelivery ==
  ASSUME TypeOK, DeliveryInv, NEW w \in Workers, NEW m \in Message,
         work[w].at # "idle", m.job = work[w].msg.job,
         broker' \in {<<m>> \o broker, Append(broker, m)},
         NEW v \in WorkerState, v.at = "idle" \/ (v.at = "finished" /\ v.msg = work[w].msg),
         work' = [work EXCEPT ![w] = v],
         UNCHANGED <<status, dispatched, sends, disp, stream, cons, unsaid, unheard>>
  PROVE  DeliveryInv'
  <1>1. broker \in Seq(Message) /\ <<m>> \in Seq(Message) /\ Len(broker) \in Nat
    BY LenProperties DEF TypeOK
  <1>2. /\ Len(broker') = Len(broker) + 1
        /\ \E n \in 1 .. Len(broker') : broker'[n] = m
        /\ \A n \in 1 .. Len(broker) : \E k \in 1 .. Len(broker') : broker'[k] = broker[n]
        /\ \A k \in 1 .. Len(broker') :
             broker'[k] = m \/ \E n \in 1 .. Len(broker) : broker'[k] = broker[n]
    <2>1. CASE broker' = Append(broker, m)
      <3>1. /\ Len(broker') = Len(broker) + 1
            /\ \A n \in 1 .. Len(broker) : broker'[n] = broker[n]
            /\ broker'[Len(broker) + 1] = m
        BY <1>1, <2>1, AppendProperties
      <3>2. \A k \in 1 .. Len(broker') : k \in 1 .. Len(broker) \/ k = Len(broker) + 1
        BY <1>1, <3>1
      <3>3. Len(broker) + 1 \in 1 .. Len(broker') /\ \A n \in 1 .. Len(broker) : n \in 1 .. Len(broker')
        BY <1>1, <3>1
      <3> QED
        BY <3>1, <3>2, <3>3
    <2>2. CASE broker' = <<m>> \o broker
      <3>1. /\ Len(broker') = Len(broker) + 1
            /\ \A n \in 1 .. Len(broker) : broker'[n + 1] = broker[n]
            /\ broker'[1] = m
        <4>1. Len(<<m>>) = 1 /\ <<m>>[1] = m
          OBVIOUS
        <4>2. /\ Len(broker') = 1 + Len(broker)
              /\ \A i \in 1 .. 1 + Len(broker) :
                   broker'[i] = IF i <= 1 THEN <<m>>[i] ELSE broker[i - 1]
          BY <1>1, <2>2, <4>1, ConcatProperties
        <4>3. \A n \in 1 .. Len(broker) : n + 1 \in 1 .. 1 + Len(broker) /\ ~(n + 1 <= 1) /\ (n + 1) - 1 = n
          BY <1>1
        <4>4. 1 \in 1 .. 1 + Len(broker)
          BY <1>1
        <4> QED
          BY <1>1, <4>1, <4>2, <4>3, <4>4
      <3>2. \A k \in 1 .. Len(broker') : k = 1 \/ (k - 1 \in 1 .. Len(broker) /\ (k - 1) + 1 = k)
        BY <1>1, <3>1
      <3>3. 1 \in 1 .. Len(broker') /\ \A n \in 1 .. Len(broker) : n + 1 \in 1 .. Len(broker')
        BY <1>1, <3>1
      <3> QED
        BY SMTT(60), <3>1, <3>2, <3>3
    <2> QED
      BY <2>1, <2>2
  <1>3. \A u \in Workers : work'[u] = IF u = w THEN v ELSE work[u]
    BY DEF TypeOK
  <1>4. sends[m.job] > 0
    BY DEF DeliveryInv, OnlySentTravel
  <1>5. OnlySentTravel'
    <2>1. \A n \in 1 .. Len(broker') : sends'[broker'[n].job] > 0
      BY <1>2, <1>4 DEF DeliveryInv, OnlySentTravel
    <2>2. \A u \in Workers : work'[u].at # "idle" => sends'[work'[u].msg.job] > 0
      BY <1>3, <1>4 DEF DeliveryInv, OnlySentTravel
    <2> QED
      BY <2>1, <2>2 DEF DeliveryInv, OnlySentTravel
  <1>6. \A k \in Jobs : Travelling(k) => Travelling(k)'
    <2> SUFFICES ASSUME NEW k \in Jobs, Travelling(k) PROVE Travelling(k)'
      OBVIOUS
    <2>1. CASE Messages(k) # {}
      BY ZenonT(60), <1>2, <2>1 DEF Travelling, Messages
    <2>2. CASE Holders(k) # {}
      <3>1. PICK u \in Workers : work[u].at \in {"taken", "running"} /\ work[u].msg.job = k
        BY <2>2 DEF Holders
      <3>2. CASE u = w
        BY <1>2, <3>1, <3>2 DEF Travelling, Messages
      <3>3. CASE u # w
        <4>1. u \in Holders(k)'
          BY <1>3, <3>1, <3>3 DEF Holders
        <4> QED
          BY <4>1 DEF Travelling
      <3> QED
        BY <3>2, <3>3
    <2> QED
      BY <2>1, <2>2 DEF Travelling, Reports, Delivering
  <1> QED
    BY <1>5, <1>6, CarriedOn

\* A worker says what came of its message, or gives it back, or is counted out.
LEMMA WorkerDelivery ==
  ASSUME TypeOK, DeliveryInv, NEW w \in Workers, WorkerStep(w) \/ Kill(w) \/ HardLimit(w)
  PROVE  DeliveryInv'
  <1> USE DEF database, history
  <1>1. CASE Take(w)
    BY <1>1, TakeDelivery
  <1>2. CASE Start(w)
    BY <1>2, WorkingDelivery DEF Start
  <1>3. CASE Finish(w)
    BY <1>3, WorkingDelivery DEF Finish, Terminal
  <1>4. CASE Fail(w)
    BY <1>4, WorkingDelivery DEF Fail, Terminal
  <1>5. CASE Transient(w)
    <2>1. CASE work[w].msg.try < MaxRetries
      <3> DEFINE m == [work[w].msg EXCEPT !.try = work[w].msg.try + 1, !.fresh = FALSE]
                 v == [work[w] EXCEPT !.at = "finished"]
      <3>1. work[w] \in [at : {"taken", "running", "finished"}, msg : Message]
        BY <1>5 DEF Transient, TypeOK, WorkerState, IdleWorker
      <3>2. m \in Message /\ m.job = work[w].msg.job
        <4>1. work[w].msg \in Message /\ work[w].msg.try + 1 \in 0 .. MaxRetries
          BY <2>1, <3>1, RetriesAssumption DEF Message
        <4> QED
          BY <4>1 DEF Message
      <3>3. v \in WorkerState /\ v.at = "finished" /\ v.msg = work[w].msg
        BY <3>1 DEF WorkerState
      <3>4. broker' = Append(broker, m) /\ work' = [work EXCEPT ![w] = v]
        BY <1>5, <2>1 DEF Transient, Working
      <3> HIDE DEF m, v
      <3> QED
        BY <1>5, <2>1, <3>2, <3>3, <3>4, ReturnedDelivery DEF Transient
    <2>2. CASE ~(work[w].msg.try < MaxRetries)
      BY <1>5, <2>2, WorkingDelivery DEF Transient, Terminal
    <2> QED
      BY <2>1, <2>2
  <1>6. CASE Ack(w)
    <2>1. \A v \in Workers : work'[v] = IF v = w THEN IdleWorker ELSE work[v]
      BY <1>6 DEF Ack, TypeOK
    <2>2. OnlySentTravel'
      BY <1>6, <2>1 DEF Ack, DeliveryInv, OnlySentTravel, IdleWorker
    <2>3. \A k \in Jobs : Holders(k) \subseteq Holders(k)'
      BY <1>6, <2>1 DEF Ack, Holders
    <2> QED
      BY <1>6, <2>2, <2>3, CarriedOn DEF Ack, Travelling, Messages, Reports, Delivering
  <1>7. CASE Kill(w)
    <2> DEFINE m == [work[w].msg EXCEPT !.fresh = FALSE]
    <2>1. m \in Message /\ m.job = work[w].msg.job
      <3>1. work[w].msg \in Message
        BY <1>7, BusyWorker DEF Kill
      <3> QED
        BY <3>1 DEF Message
    <2>2. broker' \in {<<m>> \o broker, Append(broker, m)} /\ work' = [work EXCEPT ![w] = IdleWorker]
      BY <1>7 DEF Kill
    <2>3. IdleWorker \in WorkerState /\ IdleWorker.at = "idle"
      BY DEF WorkerState, IdleWorker
    <2> HIDE DEF m
    <2> QED
      BY <1>7, <2>1, <2>2, <2>3, ReturnedDelivery DEF Kill
  <1>8. CASE HardLimit(w)
    <2>1. \A v \in Workers : work'[v] = IF v = w THEN IdleWorker ELSE work[v]
      BY <1>8 DEF HardLimit, TypeOK
    <2>2. OnlySentTravel'
      BY <1>8, <2>1 DEF HardLimit, DeliveryInv, OnlySentTravel, IdleWorker
    <2>3. \A k \in Jobs : Holders(k) # {} => Holders(k)' # {} \/ k \in unsaid'
      BY <1>8, <2>1 DEF HardLimit, Holders
    <2> QED
      BY <1>8, <2>2, <2>3, CarriedOn DEF HardLimit, Travelling, Messages, Reports, Delivering
  <1> QED
    BY <1>1, <1>2, <1>3, <1>4, <1>5, <1>6, <1>7, <1>8 DEF WorkerStep

-----------------------------------------------------------------------------
\* A consumer may drop an entry only if its outcome is stored, or is noted as
\* dropped; and it holds nothing it did not hold before.
LEMMA ReaderDelivery ==
  ASSUME TypeOK, DeliveryInv, NEW r \in Replicas, NEW c \in ReaderState,
         cons' = [cons EXCEPT ![r] = c],
         \A n \in 1 .. Len(c.batch) : \E k \in 1 .. Len(cons[r].batch) : c.batch[n] = cons[r].batch[k],
         \A k \in 1 .. Len(cons[r].batch) :
           cons[r].batch[k].status \in Terminal =>
             \/ \E n \in 1 .. Len(c.batch) : c.batch[n] = cons[r].batch[k]
             \/ cons[r].batch[k].job \in unheard'
             \/ status[cons[r].batch[k].job] \notin Live,
         c.batch # <<>> /\ c.at # "next" /\ Head(c.batch).status \in Terminal
           => status[Head(c.batch).job] \in Terminal \cup {"gone"},
         disp' = disp \/ disp' = [disp EXCEPT ![r] = NoDispatch],
         unheard \subseteq unheard',
         UNCHANGED <<status, dispatched, sends, broker, work, stream, unsaid>>
  PROVE  DeliveryInv'
  <1>1. \A s \in Replicas : cons'[s] = IF s = r THEN c ELSE cons[s]
    BY DEF TypeOK
  <1>2. \A s \in Replicas : disp'[s] \in {disp[s], NoDispatch}
    BY DEF TypeOK
  <1>3. SentTravels'
    <2> SUFFICES ASSUME NEW j \in Jobs, sends[j] > 0, status[j] \in Live
                 PROVE  Travelling(j)'
      BY DEF SentTravels
    <2>1. Travelling(j)
      BY DEF DeliveryInv, SentTravels
    <2>2. CASE Delivering(j) # {}
      <3>0. PICK s \in Replicas : \E k \in 1 .. Len(cons[s].batch) :
              cons[s].batch[k].job = j /\ cons[s].batch[k].status \in Terminal
        BY <2>2 DEF Delivering, Dropped
      <3>1. PICK k \in 1 .. Len(cons[s].batch) :
              cons[s].batch[k].job = j /\ cons[s].batch[k].status \in Terminal
        BY <3>0
      <3>2. CASE s = r
        <4>1. j \in unheard' \/ \E n \in 1 .. Len(c.batch) : c.batch[n] = cons[r].batch[k]
          BY <3>1, <3>2
        <4>2. CASE j \in unheard'
          BY <4>2 DEF Travelling
        <4>3. CASE \E n \in 1 .. Len(c.batch) : c.batch[n] = cons[r].batch[k]
          <5>1. PICK n \in 1 .. Len(c.batch) : c.batch[n] = cons[r].batch[k]
            BY <4>3
          <5>2. c.batch[n].job = j /\ c.batch[n].status \in Terminal
            BY <3>1, <3>2, <5>1
          <5>3. j \in Dropped(c.batch)
            BY <5>2 DEF Dropped
          <5>4. cons'[r] = c
            BY <1>1
          <5>5. r \in Delivering(j)'
            BY <5>3, <5>4 DEF Delivering
          <5> QED
            BY <5>5 DEF Travelling
        <4> QED
          BY <4>1, <4>2, <4>3
      <3>3. CASE s # r
        <4>1. s \in Delivering(j)'
          BY <1>1, <3>1, <3>3 DEF Delivering, Dropped
        <4> QED
          BY <4>1 DEF Travelling
      <3> QED
        BY <3>2, <3>3
    <2> QED
      BY <2>1, <2>2 DEF Travelling, Messages, Holders, Reports
  <1>4. OnlySentTravel'
    <2>1. \A s \in Replicas : \A n \in 1 .. Len(cons'[s].batch) : sends[cons'[s].batch[n].job] > 0
      BY SMTT(60), <1>1 DEF DeliveryInv, OnlySentTravel
    <2> QED
      BY <2>1 DEF DeliveryInv, OnlySentTravel
  <1>5. SentFirst'
    BY <1>2 DEF DeliveryInv, SentFirst, NoDispatch
  <1>6. PastGate'
    BY <1>1 DEF DeliveryInv, PastGate, Entry
  <1>7. NewIsUnsent' /\ MarkedIsPlanned' /\ EmptyHanded'
    BY <1>2 DEF DeliveryInv, NewIsUnsent, MarkedIsPlanned, EmptyHanded, NoDispatch
  <1> QED
    BY <1>3, <1>4, <1>5, <1>6, <1>7 DEF DeliveryInv

\* The entries of a batch are its head and those of its tail.
LEMMA BatchEntries ==
  ASSUME TypeOK, NEW r \in Replicas, cons[r].batch # <<>>
  PROVE  LET b == cons[r].batch IN
         /\ Len(b) \in Nat \ {0} /\ Len(Tail(b)) = Len(b) - 1
         /\ Tail(b) \in Seq(Event)
         /\ Entry(r) = b[1]
         /\ \A n \in 1 .. Len(Tail(b)) : n + 1 \in 1 .. Len(b) /\ Tail(b)[n] = b[n + 1]
         /\ \A k \in 1 .. Len(b) : k = 1 \/ (k - 1 \in 1 .. Len(Tail(b)) /\ Tail(b)[k - 1] = b[k])
  <1> DEFINE b == cons[r].batch
  <1>1. b \in Seq(Event) /\ b # <<>>
    BY DEF TypeOK, ReaderState
  <1>2. Entry(r) = b[1]
    BY <1>1 DEF Entry
  <1> HIDE DEF b
  <1>3. /\ Len(b) \in Nat \ {0} /\ Len(Tail(b)) = Len(b) - 1
        /\ Tail(b) \in Seq(Event)
        /\ \A n \in 1 .. Len(Tail(b)) : Tail(b)[n] = b[n + 1]
    BY <1>1, EmptySeq, HeadTailProperties
  <1>4. \A k \in 1 .. Len(b) : k = 1 \/ (k - 1 \in 1 .. Len(Tail(b)) /\ Tail(b)[k - 1] = b[k])
    BY <1>3
  <1> QED
    BY <1>2, <1>3, <1>4 DEF b

\* A consumer turns to its next entry when the outcome it had is stored, or noted.
LEMMA DoneDelivery ==
  ASSUME TypeOK, DeliveryInv, NEW r \in Replicas, cons[r].batch # <<>>, Done(r),
         Entry(r).status \in Terminal => Entry(r).job \in unheard' \/ status[Entry(r).job] \notin Live,
         unheard \subseteq unheard',
         UNCHANGED <<status, dispatched, sends, disp, broker, work, stream, unsaid>>
  PROVE  DeliveryInv'
  <1> DEFINE c == Reader(Tail(cons[r].batch))
  <1>1. c \in ReaderState /\ c.batch = Tail(cons[r].batch) /\ c.at = "next"
    <2>1. Tail(cons[r].batch) \in Seq(Event)
      BY BatchEntries
    <2>2. c \in ReaderState
      BY <2>1, ReaderType
    <2> QED
      BY <2>2 DEF Reader
  <1>2. cons' = [cons EXCEPT ![r] = c]
    BY DEF Done
  <1> HIDE DEF c
  <1>3. \A n \in 1 .. Len(c.batch) : \E k \in 1 .. Len(cons[r].batch) : c.batch[n] = cons[r].batch[k]
    BY <1>1, BatchEntries
  <1>4. \A k \in 1 .. Len(cons[r].batch) :
          cons[r].batch[k].status \in Terminal =>
             \/ \E n \in 1 .. Len(c.batch) : c.batch[n] = cons[r].batch[k]
             \/ cons[r].batch[k].job \in unheard'
             \/ status[cons[r].batch[k].job] \notin Live
    <2> TAKE k \in 1 .. Len(cons[r].batch)
    <2>1. CASE k = 1
      BY <2>1, BatchEntries
    <2>2. CASE k # 1
      <3>1. k - 1 \in 1 .. Len(c.batch) /\ c.batch[k - 1] = cons[r].batch[k]
        BY <1>1, <2>2, BatchEntries
      <3> QED
        BY <3>1
    <2> QED
      BY <2>1, <2>2
  <1>5. c.batch # <<>> /\ c.at # "next" /\ Head(c.batch).status \in Terminal
          => status[Head(c.batch).job] \in Terminal \cup {"gone"}
    BY <1>1
  <1>6. c \in ReaderState
    BY <1>1
  <1> QED
    BY <1>2, <1>3, <1>4, <1>5, <1>6, ReaderDelivery

\* A consumer past the gate is at ease: the outcome of its entry is stored.
LEMMA PastGateStored ==
  ASSUME DeliveryInv, NEW r \in Replicas, cons[r].batch # <<>>, cons[r].at # "next",
         Entry(r).status \in Terminal
  PROVE  status[Entry(r).job] \notin Live
  BY DEF DeliveryInv, PastGate, Live, Terminal

\* It goes on with the entry it has.
LEMMA ContinueDelivery ==
  ASSUME TypeOK, DeliveryInv, NEW r \in Replicas, NEW c \in ReaderState,
         cons[r].batch # <<>>, cons[r].at # "next",
         c.batch = cons[r].batch, cons' = [cons EXCEPT ![r] = c],
         UNCHANGED <<status, dispatched, sends, disp, broker, work, stream, unsaid, unheard>>
  PROVE  DeliveryInv'
  <1>1. c.batch # <<>> /\ c.at # "next" /\ Head(c.batch).status \in Terminal
          => status[Head(c.batch).job] \in Terminal \cup {"gone"}
    BY DEF DeliveryInv, PastGate, Entry
  <1> QED
    BY <1>1, ReaderDelivery

\* So does one that only changes where it is.
LEMMA GoOnDelivery ==
  ASSUME TypeOK, DeliveryInv, NEW r \in Replicas,
         NEW at \in {"reread", "lookup", "texts"},
         at \in {"lookup", "texts"} => cons[r].seen \in Terminal,
         cons[r].batch # <<>>, cons[r].at # "next", Continue(r, at),
         UNCHANGED <<status, dispatched, sends, disp, broker, work, stream, unsaid, unheard>>
  PROVE  DeliveryInv'
  <1> DEFINE c == [cons[r] EXCEPT !.at = at]
  <1>1. cons' = [cons EXCEPT ![r] = c]
    BY DEF Continue
  <1>2. cons[r] \in ReaderState
    BY DEF TypeOK
  <1>3. c \in ReaderState /\ c.batch = cons[r].batch
    BY <1>2 DEF ReaderState
  <1> HIDE DEF c
  <1> QED
    BY <1>1, <1>3, ContinueDelivery

\* The gate: an outcome is stored when it is let through, and only a job that
\* was sent is said to be processing.
LEMMA ApplyDelivery ==
  ASSUME TypeOK, DeliveryInv, NEW r \in Replicas, Apply(r)
  PROVE  DeliveryInv'
  <1> USE DEF database, history
  <1>1. cons[r].batch # <<>>
    BY DEF Apply, Reading
  <1>2. CASE ~Updatable(Entry(r).job)
    BY <1>1, <1>2, DoneDelivery DEF Apply, Updatable
  <1>3. CASE Updatable(Entry(r).job)
    <2> PICK j \in Jobs : j = Entry(r).job
      BY <1>1, EntryType
    <2> PICK new \in {"processing"} \cup Terminal : new = Entry(r).status
      BY <1>1, EntryType
    <2> PICK at \in {"artifacts", "reread"} : Continue(r, at)
      BY <1>3 DEF Apply
    <2>1. /\ \A k \in Jobs : status'[k] = IF k = j THEN new ELSE status[k]
          /\ status[j] \in Live
          /\ UNCHANGED <<dispatched, sends, disp, broker, work, stream, unsaid, unheard>>
      BY <1>3 DEF Apply, Updatable, TypeOK
    <2>2. \A s \in Replicas : cons'[s].batch = cons[s].batch
                              /\ (s # r => cons'[s].at = cons[s].at)
      <3>1. cons' = [cons EXCEPT ![r] = [cons[r] EXCEPT !.at = at]]
        BY DEF Continue
      <3>2. cons \in [Replicas -> ReaderState] /\ cons[r] \in ReaderState
        BY DEF TypeOK
      <3>3. [cons[r] EXCEPT !.at = at].batch = cons[r].batch
        BY <3>2 DEF ReaderState
      <3> QED
        BY <3>1, <3>2, <3>3
    <2>3. \A s \in Replicas : cons[s].batch # <<>> => Entry(s).job \in Jobs
      BY EntryType
    <2>4. sends[j] > 0
      BY <1>1, BatchEntries DEF DeliveryInv, OnlySentTravel
    <2>5. SentTravels'
      <3> SUFFICES ASSUME NEW k \in Jobs, sends[k] > 0, status'[k] \in Live
                   PROVE  Travelling(k)'
        BY <2>1 DEF SentTravels
      <3>1. Travelling(k)
        BY <2>1 DEF DeliveryInv, SentTravels
      <3> QED
        BY <2>1, <2>2, <3>1 DEF Travelling, Messages, Holders, Reports, Delivering, Dropped
    <2>6. OnlySentTravel'
      BY <2>1, <2>2 DEF DeliveryInv, OnlySentTravel
    <2>7. SentFirst'
      BY <2>1, <2>4 DEF DeliveryInv, SentFirst
    <2>8. PastGate'
      <3> SUFFICES ASSUME NEW s \in Replicas, cons[s].batch # <<>>, cons'[s].at # "next",
                          Entry(s).status \in Terminal
                   PROVE  status'[Entry(s).job] \in Terminal \cup {"gone"}
        BY <2>2 DEF PastGate, Entry
      <3>1. CASE s = r
        BY <2>1, <3>1
      <3>2. CASE s # r
        <4>1. status[Entry(s).job] \in Terminal \cup {"gone"}
          BY <2>2, <3>2 DEF DeliveryInv, PastGate
        <4> QED
          BY <2>1, <2>3, <4>1 DEF Live, Terminal
      <3> QED
        BY <3>1, <3>2
    <2>9. NewIsUnsent' /\ MarkedIsPlanned' /\ EmptyHanded'
      BY <2>1 DEF DeliveryInv, NewIsUnsent, MarkedIsPlanned, EmptyHanded, Terminal
    <2> QED
      BY <2>5, <2>6, <2>7, <2>8, <2>9 DEF DeliveryInv
  <1> QED
    BY <1>2, <1>3

\* Entries that are read are those of the stream, in the same order.
LEMMA ReadDelivery ==
  ASSUME TypeOK, DeliveryInv, NEW r \in Replicas, Read(r)
  PROVE  DeliveryInv'
  <1> PICK n : n = IF Len(stream) < ReadBatch THEN Len(stream) ELSE ReadBatch
    OBVIOUS
  <1> DEFINE batch == SubSeq(stream, 1, n)
             rest  == SubSeq(stream, n + 1, Len(stream))
  <1>1. stream \in Seq(Event) /\ Len(stream) \in Nat /\ n \in Nat /\ n <= Len(stream)
    BY BatchAssumption, LenProperties DEF TypeOK
  <1>2. \A k \in 1 .. Len(stream) : stream[k] \in Event
    BY <1>1, ElementOfSeq
  <1>3. /\ batch \in Seq(Event) /\ Len(batch) = n
        /\ \A k \in 1 .. n : batch[k] = stream[k]
    BY <1>1, <1>2, SubSeqProperties
  <1>4. /\ rest \in Seq(Event) /\ Len(rest) = Len(stream) - n
        /\ \A k \in 1 .. Len(stream) - n : rest[k] = stream[n + k]
    BY <1>1, <1>2, SubSeqProperties
  <1>5. /\ cons' = [cons EXCEPT ![r] = Reader(batch)]
        /\ stream' = rest
        /\ cons[r].batch = <<>>
        /\ UNCHANGED <<status, dispatched, sends, disp, broker, work, unsaid, unheard>>
    BY DEF Read, database, history
  <1> HIDE DEF batch, rest
  <1>6. Reader(batch).batch = batch /\ Reader(batch).at = "next"
    BY DEF Reader
  <1>7. \A s \in Replicas : cons'[s] = IF s = r THEN Reader(batch) ELSE cons[s]
    BY <1>5 DEF TypeOK
  <1>8. SentTravels'
    <2> SUFFICES ASSUME NEW j \in Jobs, sends[j] > 0, status[j] \in Live
                 PROVE  Travelling(j)'
      BY <1>5 DEF SentTravels
    <2>1. Travelling(j)
      BY DEF DeliveryInv, SentTravels
    <2>2. CASE Reports(j) # {}
      <3>1. PICK k \in 1 .. Len(stream) : stream[k].job = j /\ stream[k].status \in Terminal
        BY <2>2 DEF Reports
      <3>2. CASE k <= n
        <4>1. k \in 1 .. Len(batch) /\ batch[k] = stream[k]
          BY <1>1, <1>3, <3>1, <3>2
        <4>2. r \in Delivering(j)'
          BY <1>6, <1>7, <3>1, <4>1 DEF Delivering, Dropped
        <4> QED
          BY <4>2 DEF Travelling
      <3>3. CASE k > n
        <4>1. k - n \in 1 .. Len(rest) /\ rest[k - n] = stream[k]
          BY <1>1, <1>4, <3>1, <3>3
        <4> QED
          BY <1>5, <3>1, <4>1 DEF Travelling, Reports
      <3> QED
        BY <1>1, <3>1, <3>2, <3>3
    <2>3. CASE Delivering(j) # {}
      <3>0. PICK s \in Replicas : \E k \in 1 .. Len(cons[s].batch) :
              cons[s].batch[k].job = j /\ cons[s].batch[k].status \in Terminal
        BY <2>3 DEF Delivering, Dropped
      <3>1. PICK k \in 1 .. Len(cons[s].batch) :
              cons[s].batch[k].job = j /\ cons[s].batch[k].status \in Terminal
        BY <3>0
      <3>2. s # r
        BY <1>5, <3>1
      <3>3. s \in Delivering(j)'
        BY <1>7, <3>1, <3>2 DEF Delivering, Dropped
      <3> QED
        BY <3>3 DEF Travelling
    <2> QED
      BY <1>5, <2>1, <2>2, <2>3 DEF Travelling, Messages, Holders
  <1>9. OnlySentTravel'
    <2>1. \A k \in 1 .. Len(rest) : sends[rest[k].job] > 0
      <3> TAKE k \in 1 .. Len(rest)
      <3>1. rest[k] = stream[n + k] /\ n + k \in 1 .. Len(stream)
        BY <1>1, <1>4
      <3> QED
        BY <3>1 DEF DeliveryInv, OnlySentTravel
    <2>2. \A k \in 1 .. Len(batch) : sends[batch[k].job] > 0
      <3> TAKE k \in 1 .. Len(batch)
      <3>1. batch[k] = stream[k] /\ k \in 1 .. Len(stream)
        BY <1>1, <1>3
      <3> QED
        BY <3>1 DEF DeliveryInv, OnlySentTravel
    <2> QED
      BY <1>5, <1>6, <1>7, <2>1, <2>2 DEF DeliveryInv, OnlySentTravel
  <1>10. SentFirst' /\ NewIsUnsent' /\ MarkedIsPlanned' /\ EmptyHanded'
    BY <1>5 DEF DeliveryInv, SentFirst, NewIsUnsent, MarkedIsPlanned, EmptyHanded
  <1>11. PastGate'
    BY <1>5, <1>6, <1>7 DEF DeliveryInv, PastGate, Entry
  <1> QED
    BY <1>8, <1>9, <1>10, <1>11 DEF DeliveryInv

\* A consumer lets no outcome disappear, but for what is noted as unheard.
LEMMA ConsumerDelivery ==
  ASSUME TypeOK, DeliveryInv, NEW r \in Replicas,
         ConsumerStep(r) \/ HandlerFails(r) \/ ReplicaCrash(r)
  PROVE  DeliveryInv'
  <1> USE DEF database, history
  <1>1. CASE InsertArtifacts(r)
    <2>1. CASE Row(Entry(r).job)
      BY <1>1, <2>1, GoOnDelivery DEF InsertArtifacts, Reading
    <2>2. CASE ~Row(Entry(r).job)
      BY <1>1, <2>2, DoneDelivery, PastGateStored DEF InsertArtifacts, Reading
    <2> QED
      BY <2>1, <2>2
  <1>2. CASE Reread(r)
    <2>1. CASE Row(Entry(r).job)
      <3> DEFINE now == status[Entry(r).job]
                 c == [cons[r] EXCEPT !.at = "publish", !.seen = now]
      <3>1. cons' = [cons EXCEPT ![r] = c]
        BY <1>2, <2>1 DEF Reread
      <3>2. cons[r] \in ReaderState /\ now \in Statuses
        BY <1>2, EntryType DEF TypeOK, Reread, Reading
      <3> HIDE DEF now
      <3>3. c \in ReaderState /\ c.batch = cons[r].batch
        BY <1>2, <3>2 DEF ReaderState, Reread, Reading
      <3> HIDE DEF c
      <3> QED
        BY <1>2, <3>1, <3>3, ContinueDelivery DEF Reread, Reading
    <2>2. CASE ~Row(Entry(r).job)
      BY <1>2, <2>2, DoneDelivery, PastGateStored DEF Reread, Reading
    <2> QED
      BY <2>1, <2>2
  <1>3. CASE Publish(r)
    <2>1. CASE cons[r].seen \in Terminal
      BY <1>3, <2>1, GoOnDelivery DEF Publish, Reading
    <2>2. CASE cons[r].seen \notin Terminal
      BY <1>3, <2>2, DoneDelivery, PastGateStored DEF Publish, Reading
    <2> QED
      BY <2>1, <2>2
  <1>4. CASE LookUp(r)
    <2>1. CASE item[itemOf[Entry(r).job]] = "stored"
      BY <1>4, <2>1, GoOnDelivery DEF LookUp, Reading, TypeOK, ReaderState
    <2>2. CASE item[itemOf[Entry(r).job]] # "stored"
      BY <1>4, <2>2, DoneDelivery, PastGateStored DEF LookUp, Reading
    <2> QED
      BY <2>1, <2>2
  <1>5. CASE GetTexts(r)
    <2> DEFINE found == artifacts[Entry(r).job] > 0
               c == [cons[r] EXCEPT !.at = "fill", !.texts = found]
    <2>1. cons' = [cons EXCEPT ![r] = c]
      BY <1>5 DEF GetTexts
    <2>2. cons[r] \in ReaderState /\ found \in BOOLEAN
      BY DEF TypeOK
    <2> HIDE DEF found
    <2>3. c \in ReaderState /\ c.batch = cons[r].batch
      BY <1>5, <2>2 DEF ReaderState, GetTexts, Reading
    <2> HIDE DEF c
    <2> QED
      BY <1>5, <2>1, <2>3, ContinueDelivery DEF GetTexts, Reading
  <1>6. CASE Fill(r)
    BY <1>6, DoneDelivery, PastGateStored DEF Fill, Reading
  <1>7. CASE HandlerFails(r)
    <2>1. Entry(r).status \in Terminal => Entry(r).job \in unheard' \/ status[Entry(r).job] \notin Live
      <3>1. CASE cons[r].at = "next"
        <4>1. Dropped(<<Entry(r)>>) = IF Entry(r).status \in Terminal THEN {Entry(r).job} ELSE {}
          BY DEF Dropped
        <4> QED
          BY <1>7, <3>1, <4>1 DEF HandlerFails
      <3>2. CASE cons[r].at # "next"
        BY <1>7, <3>2, PastGateStored DEF HandlerFails
      <3> QED
        BY <3>1, <3>2
    <2> QED
      BY <1>7, <2>1, DoneDelivery DEF HandlerFails
  <1>8. CASE ReplicaCrash(r)
    <2> DEFINE unread == IF cons[r].at = "next" THEN cons[r].batch ELSE Tail(cons[r].batch)
    <2>1. Reader(<<>>) \in ReaderState /\ Reader(<<>>).batch = <<>>
      <3>1. <<>> \in Seq(Event)
        OBVIOUS
      <3>2. Reader(<<>>) \in ReaderState
        BY <3>1, ReaderType
      <3> QED
        BY <3>2 DEF Reader
    <2>2. unheard' = unheard \cup Dropped(unread)
      BY <1>8 DEF ReplicaCrash
    <2>3. ASSUME NEW k \in 1 .. Len(cons[r].batch), cons[r].batch[k].status \in Terminal
          PROVE  cons[r].batch[k].job \in unheard' \/ status[cons[r].batch[k].job] \notin Live
      <3>1. cons[r].batch # <<>>
        BY <2>3
      <3>2. CASE cons[r].at = "next"
        BY <2>2, <2>3, <3>2 DEF Dropped
      <3>3. CASE cons[r].at # "next" /\ k = 1
        BY <2>3, <3>1, <3>3, BatchEntries, PastGateStored
      <3>4. CASE cons[r].at # "next" /\ k # 1
        <4>1. k - 1 \in 1 .. Len(unread) /\ unread[k - 1] = cons[r].batch[k]
          BY <3>1, <3>4, BatchEntries
        <4> QED
          BY <2>2, <2>3, <4>1 DEF Dropped
      <3> QED
        BY <3>2, <3>3, <3>4
    <2>4. cons' = [cons EXCEPT ![r] = Reader(<<>>)]
      BY <1>8 DEF ReplicaCrash
    <2>5. disp' = [disp EXCEPT ![r] = NoDispatch]
      BY <1>8 DEF ReplicaCrash, RollBack
    <2>6. UNCHANGED <<status, dispatched, sends, broker, work, stream, unsaid>> /\ unheard \subseteq unheard'
      BY <1>8, <2>2 DEF ReplicaCrash
    <2> DEFINE c == Reader(<<>>)
    <2>7. c \in ReaderState /\ c.batch = <<>> /\ cons' = [cons EXCEPT ![r] = c]
      BY <2>1, <2>4
    <2> HIDE DEF c
    <2>8. \A n \in 1 .. Len(c.batch) : \E k \in 1 .. Len(cons[r].batch) : c.batch[n] = cons[r].batch[k]
      BY <2>7
    <2>9. \A k \in 1 .. Len(cons[r].batch) :
            cons[r].batch[k].status \in Terminal =>
               \/ \E n \in 1 .. Len(c.batch) : c.batch[n] = cons[r].batch[k]
               \/ cons[r].batch[k].job \in unheard'
               \/ status[cons[r].batch[k].job] \notin Live
      BY <2>3
    <2>10. c \in ReaderState /\ ~ (c.batch # <<>>)
      BY <2>7
    <2> QED
      BY <2>5, <2>6, <2>7, <2>8, <2>9, <2>10, ReaderDelivery
  <1> QED
    BY <1>1, <1>2, <1>3, <1>4, <1>5, <1>6, <1>7, <1>8, ApplyDelivery, ReadDelivery DEF ConsumerStep

\* DeliveryInv is inductive, given the types.
LEMMA NextDelivery == TypeOK /\ DeliveryInv /\ [Next]_vars => DeliveryInv'
  <1> SUFFICES ASSUME TypeOK, DeliveryInv, [Next]_vars PROVE DeliveryInv'
    OBVIOUS
  <1>1. CASE UNCHANGED vars
    BY <1>1, DeliveryFrame DEF vars
  <1>2. CASE Next
    BY <1>2, AskDelivery, RequestDelivery, DispatchDelivery, WorkerDelivery, ConsumerDelivery DEF Next
  <1> QED
    BY <1>1, <1>2

\* From its first push on, something of a job travels until its row holds an
\* outcome, whatever dies on the way; and only what was pushed travels.
THEOREM DeliveryCorrect == Spec => []DeliveryInv
  BY InitDelivery, NextDelivery, TypeCorrect, PTL DEF Spec

\* A job that was queued is settled, waits for a dispatch, or is on its way:
\* no crash, kill, roll back or retry loses it.  Only an outcome that was not
\* announced, or was read and dropped, does.
THEOREM NoJobIsLost == Spec => []NoJobLost
  <1>1. TypeOK /\ DeliveryInv => NoJobLost
    <2> SUFFICES ASSUME TypeOK, DeliveryInv, NEW j \in Jobs, status[j] \in Live,
                        ~(status[j] = "queued" /\ ~dispatched[j])
                 PROVE  Travelling(j)
      BY DEF NoJobLost, Travelling
    <2>1. sends[j] > 0
      BY DEF DeliveryInv, SentFirst, Live
    <2> QED
      BY <2>1 DEF DeliveryInv, SentTravels
  <1> QED
    BY <1>1, DeliveryCorrect, TypeCorrect, PTL

-----------------------------------------------------------------------------
(***************************************************************************)
(* Sending.  At most one dispatch is open, and what it plans to send is    *)
(* committed by nobody else meanwhile.                                     *)
(***************************************************************************)
OneDispatch ==
  \A r, s \in Replicas : disp[r].at # "closed" /\ disp[s].at # "closed" => r = s

PlannedUncommitted ==
  \A r \in Replicas : \A j \in disp[r].plan : ~dispatched[j]

NewIsUnmarked ==
  \A j \in Jobs : status[j] = "none" => sends[j] = 0 /\ rolled[j] = 0 /\ ~dispatched[j]

SendingInv ==
  /\ SentOncePerCommit
  /\ OneDispatch
  /\ PlannedUncommitted
  /\ NewIsUnmarked

\* Nothing was sent, rolled back or marked to begin with.
LEMMA InitSending == Init => SendingInv
  BY DEF Init, SendingInv, SentOncePerCommit, OneDispatch, PlannedUncommitted, NewIsUnmarked,
         NoDispatch, Row

\* A step that neither sends nor commits: no row comes to be marked.
LEMMA SendingFrame ==
  ASSUME TypeOK, SendingInv, UNCHANGED <<disp, sends, rolled>>,
         \A j \in Jobs : /\ status'[j] = "none" => status[j] = "none"
                         /\ status'[j] \notin {"none", "gone"} =>
                              status[j] \notin {"none", "gone"} /\ dispatched'[j] = dispatched[j]
                         /\ dispatched'[j] => dispatched[j]
  PROVE  SendingInv'
  <1>1. SentOncePerCommit'
    BY DEF SendingInv, SentOncePerCommit, Row
  <1>2. OneDispatch' /\ NewIsUnmarked'
    BY DEF SendingInv, OneDispatch, NewIsUnmarked
  <1>3. PlannedUncommitted'
    <2>1. \A r \in Replicas : disp[r].plan \subseteq Jobs
      BY DEF TypeOK, DispatchState
    <2> QED
      BY <2>1 DEF SendingInv, PlannedUncommitted
  <1> QED
    BY <1>1, <1>2, <1>3 DEF SendingInv

\* A request makes a row nobody has sent, changes a status, or deletes rows.
LEMMA RequestSending ==
  ASSUME TypeOK, DeliveryInv, SendingInv, NEW q \in Requests, RequestStep(q) \/ RequestFails(q)
  PROVE  SendingInv'
  <1> USE DEF database, history
  <1>1. CASE InsertJob(q)
    <2>1. PICK j \in Unused : status' = [status EXCEPT ![j] = "queued"]
      BY <1>1 DEF InsertJob
    <2>2. /\ j \in Jobs /\ status[j] = "none"
          /\ \A k \in Jobs : status'[k] = IF k = j THEN "queued" ELSE status[k]
      BY <2>1 DEF Unused, TypeOK
    <2>3. UNCHANGED <<dispatched, disp, sends, rolled>>
      BY <1>1 DEF InsertJob
    <2>4. sends[j] = 0 /\ rolled[j] = 0 /\ ~dispatched[j]
      BY <2>2 DEF SendingInv, NewIsUnmarked
    <2>5. \A r \in Replicas : j \notin disp[r].marked
      BY <2>2 DEF DeliveryInv, NewIsUnsent, MarkedIsPlanned
    <2>6. SentOncePerCommit'
      <3> SUFFICES ASSUME NEW k \in Jobs, Row(k)'
                   PROVE  sends[k] = rolled[k] +
                            (IF dispatched[k] \/ \E r \in Replicas : k \in disp[r].marked
                             THEN 1 ELSE 0)
        BY <2>3 DEF SentOncePerCommit
      <3>1. CASE k = j
        BY <2>4, <2>5, <3>1
      <3>2. CASE k # j
        BY <2>2, <3>2 DEF SendingInv, SentOncePerCommit, Row
      <3> QED
        BY <3>1, <3>2
    <2>7. OneDispatch' /\ PlannedUncommitted' /\ NewIsUnmarked'
      BY <2>2, <2>3 DEF SendingInv, OneDispatch, PlannedUncommitted, NewIsUnmarked
    <2> QED
      BY <2>6, <2>7 DEF SendingInv
  <1>2. CASE Refuse(q)
    <2>1. UNCHANGED <<dispatched, disp, sends, rolled>>
      BY <1>2 DEF Refuse
    <2>2. CASE Updatable(req[q].job)
      <3>1. status' = [status EXCEPT ![req[q].job] = "failed"]
        BY <1>2, <2>2 DEF Refuse
      <3>2. \A k \in Jobs : status'[k] = IF k = req[q].job THEN "failed" ELSE status[k]
        BY <3>1 DEF TypeOK
      <3> QED
        BY <2>1, <2>2, <3>2, SendingFrame DEF Updatable, Live
    <2>3. CASE ~Updatable(req[q].job)
      BY <1>2, <2>1, <2>3, SendingFrame DEF Refuse
    <2> QED
      BY <2>2, <2>3
  <1>3. CASE ~InsertJob(q) /\ ~Refuse(q)
    <2>1. UNCHANGED <<status, dispatched, disp, sends, rolled>>
      BY <1>3 DEF RequestStep, RequestFails, InsertRefused, Placeholder, WaitAgain, Submit,
                  NoteFailure, RemoveFiles, RemoveSection, EditFails, SubmitFails, RequestDies
    <2> QED
      BY <2>1, SendingFrame
  <1> QED
    BY <1>1, <1>2, <1>3

\* Requests keep what is sent.
LEMMA AskSending ==
  ASSUME TypeOK, SendingInv, NEW q \in Requests, NEW i \in Items,
         Upload(q, i) \/ RetryCheck(q, i) \/ Delete(q, i)
  PROVE  SendingInv'
  <1> USE DEF database, history
  <1>1. CASE Delete(q, i)
    <2>1. /\ UNCHANGED <<disp, sends, rolled>>
          /\ \A j \in Jobs : status'[j] = IF j \in JobsOf(i) THEN "gone" ELSE status[j]
          /\ \A j \in Jobs : dispatched'[j] = (dispatched[j] /\ j \notin JobsOf(i))
      BY <1>1 DEF Delete
    <2>2. \A j \in Jobs : dispatched[j] \in BOOLEAN
      BY DEF TypeOK
    <2> QED
      BY <2>1, <2>2, SendingFrame DEF JobsOf, Row
  <1>2. CASE Upload(q, i) \/ RetryCheck(q, i)
    <2>1. UNCHANGED <<status, dispatched, disp, sends, rolled>>
      BY <1>2 DEF Upload, RetryCheck
    <2> QED
      BY <2>1, SendingFrame
  <1> QED
    BY <1>1, <1>2

\* An open dispatch is the only one: nothing else is marked or planned.
LEMMA OnlyMarks ==
  ASSUME DeliveryInv, SendingInv, NEW r \in Replicas, disp[r].at # "closed"
  PROVE  \A s \in Replicas : s # r => disp[s].marked = {} /\ disp[s].plan = {}
  BY DEF DeliveryInv, EmptyHanded, SendingInv, OneDispatch

\* A dispatch that ends without its commit, or was not open.
LEMMA RolledBack ==
  ASSUME TypeOK, DeliveryInv, SendingInv, NEW r \in Replicas, RollBack(r),
         UNCHANGED <<status, dispatched, sends>>
  PROVE  SendingInv'
  <1>1. \A s \in Replicas : disp'[s] = IF s = r THEN NoDispatch ELSE disp[s]
    BY DEF RollBack, TypeOK
  <1>2. \A j \in Jobs : rolled'[j] = IF j \in disp[r].marked THEN rolled[j] + 1 ELSE rolled[j]
    BY DEF RollBack
  <1>3. \A j \in disp[r].marked : ~dispatched[j] /\ status[j] # "none" /\ disp[r].at # "closed"
    <2>1. \A j \in disp[r].marked : j \in disp[r].plan
      BY DEF DeliveryInv, MarkedIsPlanned
    <2>2. \A j \in disp[r].marked : j \in Jobs
      BY DEF TypeOK, DispatchState
    <2> QED
      BY <2>1, <2>2 DEF DeliveryInv, NewIsUnsent, EmptyHanded, SendingInv, PlannedUncommitted
  <1>4. SentOncePerCommit'
    <2> SUFFICES ASSUME NEW j \in Jobs, Row(j)
                 PROVE  sends[j] = rolled'[j] +
                          (IF dispatched[j] \/ \E s \in Replicas : j \in disp'[s].marked
                           THEN 1 ELSE 0)
      BY DEF SentOncePerCommit, Row
    <2>1. sends[j] = rolled[j] +
            (IF dispatched[j] \/ \E s \in Replicas : j \in disp[s].marked THEN 1 ELSE 0)
      BY DEF SendingInv, SentOncePerCommit
    <2>2. CASE j \in disp[r].marked
      <3>1. \A s \in Replicas : j \notin disp'[s].marked
        BY <1>1, <1>3, <2>2, OnlyMarks DEF NoDispatch
      <3>2. ~dispatched[j] /\ rolled'[j] = rolled[j] + 1 /\ rolled[j] \in Nat
        BY <1>2, <1>3, <2>2 DEF TypeOK
      <3> QED
        BY <2>1, <2>2, <3>1, <3>2
    <2>3. CASE j \notin disp[r].marked
      <3>1. (\E s \in Replicas : j \in disp'[s].marked) <=> \E s \in Replicas : j \in disp[s].marked
        BY <1>1, <2>3 DEF NoDispatch
      <3> QED
        BY <1>2, <2>1, <2>3, <3>1
    <2> QED
      BY <2>2, <2>3
  <1>5. OneDispatch' /\ PlannedUncommitted'
    BY <1>1 DEF SendingInv, OneDispatch, PlannedUncommitted, NoDispatch
  <1>6. NewIsUnmarked'
    BY <1>2, <1>3 DEF SendingInv, NewIsUnmarked
  <1> QED
    BY <1>4, <1>5, <1>6 DEF SendingInv

\* A dispatch plans what is not committed, counts each push, and marks every
\* push it commits.
LEMMA DispatchSending ==
  ASSUME TypeOK, DeliveryInv, SendingInv, NEW r \in Replicas, DispatchStep(r) \/ Abort(r)
  PROVE  SendingInv'
  <1> USE DEF database, history
  <1>1. CASE Measure(r)
    <2> DEFINE d == [disp[r] EXCEPT !.at = "measured", !.free = DispatchAhead - Len(broker)]
    <2>1. d.at = "measured" /\ d.plan = disp[r].plan /\ d.marked = disp[r].marked
      BY DEF TypeOK, DispatchState
    <2>2. disp' = [disp EXCEPT ![r] = d] /\ UNCHANGED <<status, dispatched, sends, rolled>>
      BY <1>1 DEF Measure
    <2> HIDE DEF d
    <2>3. \A s \in Replicas : disp'[s].plan = disp[s].plan /\ disp'[s].marked = disp[s].marked
      BY <2>1, <2>2 DEF TypeOK
    <2>4. OneDispatch'
      BY <1>1, <2>2 DEF Measure, LockFree, OneDispatch, TypeOK
    <2> QED
      BY <2>2, <2>3, <2>4 DEF SendingInv, SentOncePerCommit, PlannedUncommitted, NewIsUnmarked, Row
  <1>2. CASE Choose(r)
    <2> DEFINE found == {j \in Waiting : Unlocked(j)}
    <2>1. PICK plan \in SUBSET found :
            disp' = [disp EXCEPT ![r].at = "sending", ![r].locked = found, ![r].plan = plan]
      BY <1>2 DEF Choose
    <2> DEFINE d == [disp[r] EXCEPT !.at = "sending", !.locked = found, !.plan = plan]
    <2>2. d.at = "sending" /\ d.plan = plan /\ d.marked = disp[r].marked
      BY DEF TypeOK, DispatchState
    <2>3. \A j \in plan : ~dispatched[j]
      BY DEF Waiting
    <2>4. disp' = [disp EXCEPT ![r] = d] /\ UNCHANGED <<status, dispatched, sends, rolled>>
      BY <1>2, <2>1 DEF Choose
    <2> HIDE DEF d, found
    <2>5. \A s \in Replicas : /\ disp'[s].marked = disp[s].marked
                              /\ (disp'[s].at # "closed") = (disp[s].at # "closed")
                              /\ disp'[s].plan = IF s = r THEN plan ELSE disp[s].plan
      BY <1>2, <2>2, <2>4 DEF TypeOK, Choose
    <2> QED
      BY <2>3, <2>4, <2>5 DEF SendingInv, SentOncePerCommit, OneDispatch, PlannedUncommitted,
                              NewIsUnmarked, Row
  <1>3. ASSUME NEW j \in Jobs, Send(r, j) PROVE SendingInv'
    <2> DEFINE d == [disp[r] EXCEPT !.marked = disp[r].marked \cup {j}]
    <2>1. d.at = disp[r].at /\ d.plan = disp[r].plan /\ d.marked = disp[r].marked \cup {j}
      BY DEF TypeOK, DispatchState
    <2>2. disp' = [disp EXCEPT ![r] = d] /\ UNCHANGED <<status, dispatched, rolled>>
      BY <1>3 DEF Send
    <2> HIDE DEF d
    <2>3. \A s \in Replicas :
            /\ disp'[s].at = disp[s].at /\ disp'[s].plan = disp[s].plan
            /\ disp'[s].marked = (IF s = r THEN disp[r].marked \cup {j} ELSE disp[s].marked)
      BY <2>1, <2>2 DEF TypeOK
    <2>4. \A k \in Jobs : sends'[k] = IF k = j THEN sends[j] + 1 ELSE sends[k]
      BY <1>3 DEF Send, TypeOK
    <2>5. j \in disp[r].plan /\ disp[r].at = "sending" /\ j \notin disp[r].marked
      BY <1>3 DEF Send
    <2>6. ~dispatched[j] /\ status[j] # "none"
      BY <2>5 DEF SendingInv, PlannedUncommitted, DeliveryInv, NewIsUnsent
    <2>7. SentOncePerCommit'
      <3> SUFFICES ASSUME NEW k \in Jobs, Row(k)
                   PROVE  sends'[k] = rolled[k] +
                            (IF dispatched[k] \/ \E s \in Replicas : k \in disp'[s].marked
                             THEN 1 ELSE 0)
        BY <2>2 DEF SentOncePerCommit, Row
      <3>1. sends[k] = rolled[k] +
              (IF dispatched[k] \/ \E s \in Replicas : k \in disp[s].marked THEN 1 ELSE 0)
        BY DEF SendingInv, SentOncePerCommit
      <3>2. CASE k = j
        <4>1. \A s \in Replicas : j \notin disp[s].marked
          BY <2>5, OnlyMarks
        <4>2. rolled[j] \in Nat
          BY DEF TypeOK
        <4>3. \E s \in Replicas : j \in disp'[s].marked
          BY <2>3
        <4> QED
          BY <2>4, <2>6, <3>1, <3>2, <4>1, <4>2, <4>3
      <3>3. CASE k # j
        <4>1. \A s \in Replicas : k \in disp'[s].marked <=> k \in disp[s].marked
          BY <2>3, <3>3
        <4> QED
          BY <2>4, <3>1, <3>3, <4>1
      <3> QED
        BY <3>2, <3>3
    <2>8. OneDispatch' /\ PlannedUncommitted' /\ NewIsUnmarked'
      BY <2>2, <2>3, <2>4, <2>6 DEF SendingInv, OneDispatch, PlannedUncommitted, NewIsUnmarked
    <2> QED
      BY <2>7, <2>8 DEF SendingInv
  <1>4. CASE Commit(r)
    <2>1. /\ \A s \in Replicas : disp'[s] = IF s = r THEN NoDispatch ELSE disp[s]
          /\ \A j \in Jobs : dispatched'[j] = (dispatched[j] \/ j \in disp[r].marked)
          /\ UNCHANGED <<status, sends, rolled>>
          /\ disp[r].at = "sending"
      BY <1>4 DEF Commit, TypeOK
    <2>2. \A s \in Replicas : disp'[s].marked = {} /\ disp'[s].plan = {}
                              /\ (s # r => disp[s].marked = {})
      BY <2>1, OnlyMarks DEF NoDispatch
    <2>3. SentOncePerCommit'
      <3> SUFFICES ASSUME NEW j \in Jobs, Row(j)
                   PROVE  sends[j] = rolled[j] +
                            (IF dispatched'[j] \/ \E s \in Replicas : j \in disp'[s].marked
                             THEN 1 ELSE 0)
        BY <2>1 DEF SentOncePerCommit, Row
      <3>1. (dispatched'[j] \/ \E s \in Replicas : j \in disp'[s].marked)
              <=> (dispatched[j] \/ \E s \in Replicas : j \in disp[s].marked)
        BY <2>1, <2>2
      <3> QED
        BY <3>1 DEF SendingInv, SentOncePerCommit
    <2>4. OneDispatch' /\ PlannedUncommitted'
      BY <2>1, <2>2 DEF SendingInv, OneDispatch, PlannedUncommitted, NoDispatch
    <2>5. NewIsUnmarked'
      BY <2>1 DEF SendingInv, NewIsUnmarked, DeliveryInv, NewIsUnsent, MarkedIsPlanned
    <2> QED
      BY <2>3, <2>4, <2>5 DEF SendingInv
  <1>5. CASE Abort(r)
    BY <1>5, RolledBack DEF Abort
  <1> QED
    BY <1>1, <1>2, <1>3, <1>4, <1>5 DEF DispatchStep

\* Workers send nothing.
LEMMA WorkerSending ==
  ASSUME TypeOK, SendingInv, NEW w \in Workers, WorkerStep(w) \/ Kill(w) \/ HardLimit(w)
  PROVE  SendingInv'
  <1>1. UNCHANGED <<status, dispatched, disp, sends, rolled>>
    BY DEF WorkerStep, Take, Start, Finish, Fail, Transient, Ack, Kill, HardLimit, database, history
  <1> QED
    BY <1>1, SendingFrame

\* The consumers send nothing.
LEMMA ConsumerSending ==
  ASSUME TypeOK, DeliveryInv, SendingInv, NEW r \in Replicas,
         ConsumerStep(r) \/ HandlerFails(r) \/ ReplicaCrash(r)
  PROVE  SendingInv'
  <1> USE DEF database, history
  <1>1. CASE Apply(r)
    <2>1. UNCHANGED <<dispatched, disp, sends, rolled>>
      BY <1>1 DEF Apply
    <2>2. CASE Updatable(Entry(r).job)
      <3>1. status' = [status EXCEPT ![Entry(r).job] = Entry(r).status]
        BY <1>1, <2>2 DEF Apply
      <3>2. Entry(r).status \in {"processing"} \cup Terminal
        BY <1>1, EntryType DEF Apply, Reading
      <3>3. \A k \in Jobs : status'[k] = IF k = Entry(r).job THEN Entry(r).status ELSE status[k]
        BY <3>1 DEF TypeOK
      <3> QED
        BY <2>1, <2>2, <3>2, <3>3, SendingFrame DEF Updatable, Live, Terminal
    <2>3. CASE ~Updatable(Entry(r).job)
      BY <1>1, <2>1, <2>3, SendingFrame DEF Apply
    <2> QED
      BY <2>2, <2>3
  <1>2. CASE ReplicaCrash(r)
    BY <1>2, RolledBack DEF ReplicaCrash
  <1>3. CASE ~Apply(r) /\ ~ReplicaCrash(r)
    <2>1. UNCHANGED <<status, dispatched, disp, sends, rolled>>
      BY <1>3 DEF ConsumerStep, Read, InsertArtifacts, Reread, Publish, LookUp, GetTexts, Fill,
                  HandlerFails
    <2> QED
      BY <2>1, SendingFrame
  <1> QED
    BY <1>1, <1>2, <1>3

\* SendingInv is inductive, given the types and DeliveryInv.
LEMMA NextSending == TypeOK /\ DeliveryInv /\ SendingInv /\ [Next]_vars => SendingInv'
  <1> SUFFICES ASSUME TypeOK, DeliveryInv, SendingInv, [Next]_vars PROVE SendingInv'
    OBVIOUS
  <1>1. CASE UNCHANGED vars
    <2>1. UNCHANGED <<status, dispatched, disp, sends, rolled>>
      BY <1>1 DEF vars
    <2> QED
      BY <2>1, SendingFrame
  <1>2. CASE Next
    BY <1>2, AskSending, RequestSending, DispatchSending, WorkerSending, ConsumerSending DEF Next
  <1> QED
    BY <1>1, <1>2

\* One dispatch is open at a time, and what it has chosen is committed by no
\* other meanwhile.
THEOREM SendingCorrect == Spec => []SendingInv
  BY InitSending, NextSending, TypeCorrect, DeliveryCorrect, PTL DEF Spec

\* However many replicas dispatch, a job is pushed again only because the
\* dispatch that pushed it rolled back.
THEOREM SentOnce == Spec => []SentOncePerCommit
  <1>1. SendingInv => SentOncePerCommit
    BY DEF SendingInv
  <1> QED
    BY <1>1, SendingCorrect, PTL

-----------------------------------------------------------------------------
(***************************************************************************)
(* Filling.  While a dispatch is open the room it measured is still there, *)
(* but for what it has pushed itself.                                      *)
(***************************************************************************)
FreshIn(q) == {n \in 1 .. Len(q) : q[n].fresh}

RoomLeft ==
  \A r \in Replicas :
    /\ disp[r].at = "measured" =>
         Cardinality(FreshIn(broker)) + disp[r].free <= DispatchAhead
    /\ disp[r].at = "sending" =>
         /\ Cardinality(FreshIn(broker)) + disp[r].free <= DispatchAhead + Cardinality(disp[r].marked)
         /\ Cardinality(disp[r].plan) <= disp[r].free

PoolInv == PoolNotOverfilled /\ RoomLeft

\* The fresh messages of a list are finitely many, and no more than it has.
LEMMA FreshFinite ==
  ASSUME NEW q \in Seq(Message)
  PROVE  /\ IsFiniteSet(FreshIn(q))
         /\ Cardinality(FreshIn(q)) \in Nat
         /\ Cardinality(FreshIn(q)) <= Len(q)
  <1>1. Len(q) \in Nat
    BY LenProperties
  <1>2. IsFiniteSet(1 .. Len(q)) /\ Cardinality(1 .. Len(q)) = Len(q)
    <2>1. PICK n \in Nat : n = Len(q)
      BY <1>1
    <2>2. 1 \in Int /\ n \in Int
      OBVIOUS
    <2>3. IsFiniteSet(1 .. n) /\ Cardinality(1 .. n) = IF 1 > n THEN 0 ELSE n - 1 + 1
      BY ZenonT(60), <2>2, FS_Interval
    <2>4. (IF 1 > n THEN 0 ELSE n - 1 + 1) = n
      OBVIOUS
    <2> QED
      BY ZenonT(60), <2>1, <2>3, <2>4
  <1>3. FreshIn(q) \in SUBSET (1 .. Len(q))
    BY DEF FreshIn
  <1> QED
    BY <1>2, <1>3, FS_Subset, FS_CardinalityType

\* A list whose fresh messages are, at other places, fresh messages of another
\* has no more of them.
LEMMA FreshMoved ==
  ASSUME NEW p \in Seq(Message), NEW q \in Seq(Message), NEW d \in Int,
         \A n \in FreshIn(p) : n + d \in FreshIn(q)
  PROVE  Cardinality(FreshIn(p)) <= Cardinality(FreshIn(q))
  <1> DEFINE f == [n \in FreshIn(p) |-> n + d]
  <1>1. \A n \in FreshIn(p) : n \in Int
    BY DEF FreshIn
  <1>2. f \in [FreshIn(p) -> FreshIn(q)]
    OBVIOUS
  <1>3. \A m, n \in FreshIn(p) : f[m] = f[n] => m = n
    BY <1>1
  <1>4. f \in Injection(FreshIn(p), FreshIn(q))
    BY <1>2, <1>3 DEF Injection, IsInjective
  <1> QED
    BY <1>4, FreshFinite, FS_Injection

\* What the actions do to the list.
LEMMA FreshOfAppend ==
  ASSUME NEW q \in Seq(Message), NEW m \in Message
  PROVE  /\ Append(q, m) \in Seq(Message)
         /\ Cardinality(FreshIn(Append(q, m))) =
              Cardinality(FreshIn(q)) + (IF m.fresh THEN 1 ELSE 0)
  <1> DEFINE p == Append(q, m)
  <1>1. /\ Len(q) \in Nat /\ p \in Seq(Message) /\ Len(p) = Len(q) + 1
        /\ p[Len(q) + 1] = m
        /\ \A n \in 1 .. Len(q) : p[n] = q[n]
    BY LenProperties, AppendProperties
  <1> HIDE DEF p
  <1>2. Len(q) + 1 \notin FreshIn(q)
    BY <1>1 DEF FreshIn
  <1>3. FreshIn(p) = IF m.fresh THEN FreshIn(q) \cup {Len(q) + 1} ELSE FreshIn(q)
    <2>1. \A n : n \in 1 .. Len(p) <=> n \in 1 .. Len(q) \/ n = Len(q) + 1
      BY <1>1
    <2>2. \A n : n \in FreshIn(p) <=> n \in FreshIn(q) \/ (n = Len(q) + 1 /\ m.fresh)
      BY <1>1, <2>1 DEF FreshIn
    <2>3. CASE m.fresh
      BY <2>2, <2>3
    <2>4. CASE ~m.fresh
      BY <2>2, <2>4
    <2> QED
      BY <2>3, <2>4
  <1>4. IsFiniteSet(FreshIn(q)) /\ Cardinality(FreshIn(q)) \in Nat
    BY FreshFinite
  <1>5. Cardinality(FreshIn(q) \cup {Len(q) + 1}) = Cardinality(FreshIn(q)) + 1
    BY <1>2, <1>4, FS_AddElement
  <1>6. Cardinality(FreshIn(p)) = Cardinality(FreshIn(q)) + (IF m.fresh THEN 1 ELSE 0)
    <2>1. CASE m.fresh
      BY <1>3, <1>5, <2>1
    <2>2. CASE ~m.fresh
      BY <1>3, <1>4, <2>2
    <2> QED
      BY <2>1, <2>2
  <1> QED
    BY <1>1, <1>6 DEF p

\* Taking a message leaves no more fresh ones.
LEMMA FreshOfTail ==
  ASSUME NEW q \in Seq(Message), q # <<>>
  PROVE  Tail(q) \in Seq(Message) /\ Cardinality(FreshIn(Tail(q))) <= Cardinality(FreshIn(q))
  <1> DEFINE p == Tail(q)
  <1>1. /\ p \in Seq(Message) /\ Len(p) = Len(q) - 1 /\ Len(q) \in Nat
        /\ \A n \in 1 .. Len(p) : p[n] = q[n + 1]
    BY LenProperties, EmptySeq, HeadTailProperties
  <1> HIDE DEF p
  <1>2. \A n \in FreshIn(p) : n + 1 \in FreshIn(q)
    BY <1>1 DEF FreshIn
  <1>3. Cardinality(FreshIn(p)) <= Cardinality(FreshIn(q))
    BY <1>1, <1>2, FreshMoved
  <1> QED
    BY <1>1, <1>3 DEF p

\* A message that comes back is not fresh.
LEMMA FreshOfPut ==
  ASSUME NEW q \in Seq(Message), NEW m \in Message, ~m.fresh
  PROVE  /\ <<m>> \o q \in Seq(Message)
         /\ Cardinality(FreshIn(<<m>> \o q)) <= Cardinality(FreshIn(q))
  <1> DEFINE p == <<m>> \o q
  <1>1. <<m>> \in Seq(Message) /\ Len(<<m>>) = 1 /\ <<m>>[1] = m
    OBVIOUS
  <1>2. /\ Len(q) \in Nat /\ p \in Seq(Message) /\ Len(p) = 1 + Len(q)
        /\ \A n \in 1 .. 1 + Len(q) : p[n] = IF n <= 1 THEN <<m>>[n] ELSE q[n - 1]
    BY <1>1, LenProperties, ConcatProperties
  <1> HIDE DEF p
  <1>3. \A n \in FreshIn(p) : n + (-1) \in FreshIn(q)
    <2> SUFFICES ASSUME NEW n \in FreshIn(p) PROVE n - 1 \in FreshIn(q)
      OBVIOUS
    <2>1. n \in 1 .. 1 + Len(q) /\ p[n].fresh
      BY <1>2 DEF FreshIn
    <2>2. n # 1
      BY <1>1, <1>2, <2>1
    <2>3. n - 1 \in 1 .. Len(q) /\ p[n] = q[n - 1]
      BY <1>2, <2>1, <2>2
    <2> QED
      BY <2>1, <2>3 DEF FreshIn
  <1>4. Cardinality(FreshIn(p)) <= Cardinality(FreshIn(q))
    BY <1>2, <1>3, FreshMoved
  <1> QED
    BY <1>2, <1>4 DEF p

\* Plans and marks are finite sets of jobs.
LEMMA PlansFinite ==
  ASSUME TypeOK, NEW r \in Replicas
  PROVE  /\ IsFiniteSet(disp[r].plan) /\ Cardinality(disp[r].plan) \in Nat
         /\ IsFiniteSet(disp[r].marked) /\ Cardinality(disp[r].marked) \in Nat
         /\ disp[r].free \in Nat
  <1>1. IsFiniteSet(Jobs)
    BY MaxJobsAssumption, FS_Interval DEF Jobs
  <1>2. disp[r].plan \in SUBSET Jobs /\ disp[r].marked \in SUBSET Jobs /\ disp[r].free \in Nat
    BY DEF TypeOK, DispatchState
  <1> QED
    BY <1>1, <1>2, FS_Subset, FS_CardinalityType

\* Init has an empty pool.
LEMMA InitPool == Init => PoolInv
  <1> SUFFICES ASSUME Init PROVE PoolInv
    OBVIOUS
  <1>1. FreshIn(broker) = {}
    BY DEF Init, FreshIn
  <1>2. Cardinality(FreshIn(broker)) = 0
    BY <1>1, FS_EmptySet
  <1>3. PoolNotOverfilled
    BY <1>2, DispatchAssumption DEF PoolNotOverfilled, FreshIn
  <1> QED
    BY <1>3 DEF Init, PoolInv, RoomLeft, NoDispatch

\* A step that pushes nothing fresh, and ends a dispatch if it does anything
\* to one.
LEMMA PoolFrame ==
  ASSUME TypeOK, PoolInv, broker' \in Seq(Message),
         Cardinality(FreshIn(broker')) <= Cardinality(FreshIn(broker)),
         \A r \in Replicas : disp'[r] \in {disp[r], NoDispatch}
  PROVE  PoolInv'
  <1>1. Cardinality(FreshIn(broker)) \in Nat /\ Cardinality(FreshIn(broker')) \in Nat
    BY FreshFinite DEF TypeOK
  <1>2. Cardinality(FreshIn(broker')) <= DispatchAhead
    BY <1>1, DispatchAssumption DEF PoolInv, PoolNotOverfilled, FreshIn
  <1>3. PoolNotOverfilled'
    BY <1>2 DEF PoolNotOverfilled, FreshIn
  <1>4. RoomLeft'
    <2> SUFFICES ASSUME NEW r \in Replicas, disp'[r] = disp[r]
                 PROVE  /\ disp[r].at = "measured" =>
                             Cardinality(FreshIn(broker')) + disp[r].free <= DispatchAhead
                        /\ disp[r].at = "sending" =>
                             /\ Cardinality(FreshIn(broker')) + disp[r].free
                                  <= DispatchAhead + Cardinality(disp[r].marked)
                             /\ Cardinality(disp[r].plan) <= disp[r].free
      BY DEF RoomLeft, NoDispatch
    <2>1. disp[r].free \in Nat /\ Cardinality(disp[r].marked) \in Nat /\ DispatchAhead \in Nat
      BY PlansFinite, DispatchAssumption
    <2>2. /\ disp[r].at = "measured" =>
               Cardinality(FreshIn(broker)) + disp[r].free <= DispatchAhead
          /\ disp[r].at = "sending" =>
               /\ Cardinality(FreshIn(broker)) + disp[r].free
                    <= DispatchAhead + Cardinality(disp[r].marked)
               /\ Cardinality(disp[r].plan) <= disp[r].free
      BY DEF PoolInv, RoomLeft
    <2> QED
      BY <1>1, <2>1, <2>2
  <1> QED
    BY <1>3, <1>4 DEF PoolInv

\* A dispatch measures the list when no other is open, plans no more than the
\* room it found, and pushes no more than it planned.
LEMMA DispatchPool ==
  ASSUME TypeOK, DeliveryInv, SendingInv, PoolInv, NEW r \in Replicas, DispatchStep(r)
  PROVE  PoolInv'
  <1> USE DEF database, history
  <1>0. /\ broker \in Seq(Message) /\ Cardinality(FreshIn(broker)) \in Nat
        /\ Cardinality(FreshIn(broker)) <= Len(broker) /\ Len(broker) \in Nat
        /\ DispatchAhead \in Nat
    BY FreshFinite, LenProperties, DispatchAssumption DEF TypeOK
  <1>1. CASE Measure(r)
    <2> DEFINE d == [disp[r] EXCEPT !.at = "measured", !.free = DispatchAhead - Len(broker)]
    <2>1. d.at = "measured" /\ d.free = DispatchAhead - Len(broker)
      BY DEF TypeOK, DispatchState
    <2>2. disp' = [disp EXCEPT ![r] = d] /\ broker' = broker
      BY <1>1 DEF Measure
    <2> HIDE DEF d
    <2>3. \A s \in Replicas : disp'[s] = IF s = r THEN d ELSE disp[s]
      BY <2>2 DEF TypeOK
    <2>4. RoomLeft'
      BY <1>0, <2>1, <2>2, <2>3 DEF RoomLeft, PoolInv
    <2> QED
      BY <2>2, <2>4 DEF PoolInv, PoolNotOverfilled
  <1>2. CASE Choose(r)
    <2> DEFINE found == {j \in Waiting : Unlocked(j)}
    <2>1. PICK plan \in SUBSET found :
            /\ Cardinality(plan) = IF Cardinality(found) < disp[r].free
                                   THEN Cardinality(found) ELSE disp[r].free
            /\ disp' = [disp EXCEPT ![r].at = "sending", ![r].locked = found, ![r].plan = plan]
      BY <1>2 DEF Choose
    <2>2. Cardinality(plan) <= disp[r].free
      <3>1. IsFiniteSet(Jobs)
        BY MaxJobsAssumption, FS_Interval DEF Jobs
      <3>2. found \in SUBSET Jobs
        BY DEF Waiting
      <3>3. Cardinality(found) \in Nat
        BY <3>1, <3>2, FS_Subset, FS_CardinalityType
      <3>4. disp[r].free \in Nat
        BY DEF TypeOK, DispatchState
      <3>5. Cardinality(plan) = IF Cardinality(found) < disp[r].free
                                THEN Cardinality(found) ELSE disp[r].free
        BY <2>1
      <3> HIDE DEF found
      <3> QED
        BY <3>3, <3>4, <3>5
    <2> DEFINE d == [disp[r] EXCEPT !.at = "sending", !.locked = found, !.plan = plan]
    <2>3. d.at = "sending" /\ d.plan = plan /\ d.marked = disp[r].marked /\ d.free = disp[r].free
      BY DEF TypeOK, DispatchState
    <2>4. disp' = [disp EXCEPT ![r] = d] /\ broker' = broker /\ disp[r].at = "measured"
      BY <1>2, <2>1 DEF Choose
    <2> HIDE DEF d, found
    <2>5. \A s \in Replicas : disp'[s] = IF s = r THEN d ELSE disp[s]
      BY <2>4 DEF TypeOK
    <2>6. Cardinality(FreshIn(broker)) + d.free <= DispatchAhead + Cardinality(d.marked)
      BY <1>0, <2>3, <2>4, PlansFinite DEF PoolInv, RoomLeft
    <2>7. RoomLeft'
      BY <2>2, <2>3, <2>4, <2>5, <2>6 DEF PoolInv, RoomLeft
    <2> QED
      BY <2>4, <2>7 DEF PoolInv, PoolNotOverfilled
  <1>3. ASSUME NEW j \in Jobs, Send(r, j) PROVE PoolInv'
    <2> DEFINE m == [job |-> j, try |-> 0, fresh |-> TRUE]
               d == [disp[r] EXCEPT !.marked = disp[r].marked \cup {j}]
    <2>1. m \in Message /\ m.fresh
      BY RetriesAssumption DEF Message
    <2>2. broker' = Append(broker, m) /\ disp' = [disp EXCEPT ![r] = d]
      BY <1>3 DEF Send
    <2>3. d.at = disp[r].at /\ d.plan = disp[r].plan /\ d.free = disp[r].free
          /\ d.marked = disp[r].marked \cup {j}
      BY DEF TypeOK, DispatchState
    <2> HIDE DEF m, d
    <2>4. Cardinality(FreshIn(broker')) = Cardinality(FreshIn(broker)) + 1
      BY <1>0, <2>1, <2>2, FreshOfAppend
    <2>5. /\ Cardinality(d.marked) = Cardinality(disp[r].marked) + 1
          /\ Cardinality(d.marked) <= Cardinality(d.plan)
      <3>1. j \notin disp[r].marked /\ j \in disp[r].plan
        BY <1>3 DEF Send
      <3>2. d.marked \in SUBSET disp[r].plan
        BY <2>3, <3>1 DEF DeliveryInv, MarkedIsPlanned
      <3> QED
        BY ZenonT(60), <2>3, <3>1, <3>2, PlansFinite, FS_AddElement, FS_Subset
    <2>6. /\ disp[r].at = "sending"
          /\ Cardinality(FreshIn(broker)) + disp[r].free
               <= DispatchAhead + Cardinality(disp[r].marked)
          /\ Cardinality(disp[r].plan) <= disp[r].free
      BY <1>3 DEF Send, PoolInv, RoomLeft
    <2>7. /\ Cardinality(FreshIn(broker')) <= DispatchAhead
          /\ Cardinality(FreshIn(broker')) + d.free <= DispatchAhead + Cardinality(d.marked)
          /\ Cardinality(d.plan) <= d.free
      BY <1>0, <2>3, <2>4, <2>5, <2>6, PlansFinite
    <2>8. \A s \in Replicas : disp'[s] = IF s = r THEN d ELSE disp[s]
      BY <2>2 DEF TypeOK
    <2>9. \A s \in Replicas : s # r => disp[s].at = "closed"
      BY <2>6 DEF SendingInv, OneDispatch
    <2>10. RoomLeft'
      BY <2>3, <2>6, <2>7, <2>8, <2>9 DEF RoomLeft
    <2> QED
      BY <2>7, <2>10 DEF PoolInv, PoolNotOverfilled, FreshIn
  <1>4. CASE Commit(r)
    <2>1. broker' = broker /\ \A s \in Replicas : disp'[s] \in {disp[s], NoDispatch}
      BY <1>4 DEF Commit, TypeOK
    <2> QED
      BY <1>0, <2>1, PoolFrame
  <1> QED
    BY <1>1, <1>2, <1>3, <1>4 DEF DispatchStep

\* Whatever a worker puts back is not fresh.
LEMMA WorkerPool ==
  ASSUME TypeOK, PoolInv, NEW w \in Workers, WorkerStep(w) \/ Kill(w) \/ HardLimit(w)
  PROVE  PoolInv'
  <1> USE DEF database, history
  <1>0. /\ broker \in Seq(Message) /\ Cardinality(FreshIn(broker)) \in Nat
        /\ disp' = disp
    BY FreshFinite
    DEF TypeOK, WorkerStep, Take, Start, Finish, Fail, Transient, Ack, Kill, HardLimit
  <1>1. CASE Take(w)
    <2>1. broker # <<>> /\ broker' = Tail(broker)
      BY <1>1 DEF Take
    <2> QED
      BY <1>0, <2>1, FreshOfTail, PoolFrame
  <1>2. CASE Transient(w) /\ work[w].msg.try < MaxRetries
    <2> DEFINE m == [work[w].msg EXCEPT !.try = work[w].msg.try + 1, !.fresh = FALSE]
    <2>1. work[w].msg \in Message
      BY <1>2, BusyWorker DEF Transient
    <2>2. m \in Message /\ ~m.fresh
      <3>1. work[w].msg.try + 1 \in 0 .. MaxRetries
        BY <1>2, <2>1, RetriesAssumption DEF Message
      <3> QED
        BY <2>1, <3>1 DEF Message
    <2>3. broker' = Append(broker, m)
      BY <1>2 DEF Transient
    <2> HIDE DEF m
    <2> QED
      BY <1>0, <2>2, <2>3, FreshOfAppend, PoolFrame
  <1>3. CASE Kill(w)
    <2> DEFINE m == [work[w].msg EXCEPT !.fresh = FALSE]
    <2>1. work[w].msg \in Message
      BY <1>3, BusyWorker DEF Kill
    <2>2. m \in Message /\ ~m.fresh
      BY <2>1 DEF Message
    <2>3. broker' \in {<<m>> \o broker, Append(broker, m)}
      BY <1>3 DEF Kill
    <2> HIDE DEF m
    <2>4. CASE broker' = <<m>> \o broker
      BY <1>0, <2>2, <2>4, FreshOfPut, PoolFrame
    <2>5. CASE broker' = Append(broker, m)
      <3>1. broker' \in Seq(Message)
        BY <1>0, <2>2, <2>5, FreshOfAppend
      <3>2. Cardinality(FreshIn(broker')) = Cardinality(FreshIn(broker)) + 0
        BY <1>0, <2>2, <2>5, FreshOfAppend
      <3> QED
        BY <1>0, <3>1, <3>2, PoolFrame
    <2> QED
      BY <2>3, <2>4, <2>5
  <1>4. CASE ~Take(w) /\ ~Kill(w) /\ ~(Transient(w) /\ work[w].msg.try < MaxRetries)
    <2>1. broker' = broker
      BY <1>4 DEF WorkerStep, Start, Finish, Fail, Transient, Ack, HardLimit
    <2> QED
      BY <1>0, <2>1, PoolFrame
  <1> QED
    BY <1>1, <1>2, <1>3, <1>4

\* PoolInv is inductive, given the types and one dispatch at a time.
LEMMA NextPool == TypeOK /\ DeliveryInv /\ SendingInv /\ PoolInv /\ [Next]_vars => PoolInv'
  <1> SUFFICES ASSUME TypeOK, DeliveryInv, SendingInv, PoolInv, [Next]_vars PROVE PoolInv'
    OBVIOUS
  <1>1. ASSUME broker' = broker, \A r \in Replicas : disp'[r] \in {disp[r], NoDispatch}
        PROVE  PoolInv'
    BY <1>1, FreshFinite, PoolFrame DEF TypeOK
  <1>2. CASE UNCHANGED vars
    BY <1>1, <1>2 DEF vars
  <1>3. ASSUME NEW q \in Requests, NEW i \in Items, Upload(q, i) \/ RetryCheck(q, i) \/ Delete(q, i)
        PROVE  PoolInv'
    BY <1>1, <1>3 DEF Upload, RetryCheck, Delete
  <1>4. ASSUME NEW q \in Requests, RequestStep(q) \/ RequestFails(q)
        PROVE  PoolInv'
    BY <1>1, <1>4 DEF RequestStep, RequestFails, InsertJob, InsertRefused, Placeholder, WaitAgain,
       Submit, Refuse, NoteFailure, RemoveFiles, RemoveSection, EditFails, SubmitFails, RequestDies
  <1>5. ASSUME NEW r \in Replicas, Abort(r) \/ ReplicaCrash(r)
        PROVE  PoolInv'
    BY <1>1, <1>5 DEF Abort, ReplicaCrash, RollBack, TypeOK
  <1>6. ASSUME NEW r \in Replicas, ConsumerStep(r) \/ HandlerFails(r)
        PROVE  PoolInv'
    BY <1>1, <1>6 DEF ConsumerStep, Read, Apply, InsertArtifacts, Reread, Publish, LookUp,
       GetTexts, Fill, HandlerFails
  <1>7. CASE Next
    BY <1>3, <1>4, <1>5, <1>6, <1>7, DispatchPool, WorkerPool DEF Next
  <1> QED
    BY <1>2, <1>7

\* While a dispatch is open, the room it measured is still there.
THEOREM PoolCorrect == Spec => []PoolInv
  BY InitPool, NextPool, TypeCorrect, DeliveryCorrect, SendingCorrect, PTL DEF Spec

\* However many replicas dispatch, and whatever is redelivered meanwhile, no
\* more than DispatchAhead dispatched jobs wait in the pool's list.
THEOREM PoolNeverOverfilled == Spec => []PoolNotOverfilled
  <1>1. PoolInv => PoolNotOverfilled
    BY DEF PoolInv
  <1> QED
    BY <1>1, PoolCorrect, PTL

-----------------------------------------------------------------------------
(***************************************************************************)
(* Rows, requests and dispatches, whatever fails.                          *)
(***************************************************************************)
HasJob(q) == req[q].at \in {"placeholder", "waitAgain", "submit"}
Knows(q) == HasJob(q) \/ req[q].at = "refused"
Removing(q) == req[q].at \in {"removeFiles", "removeSection"}

RequestItems == \A q \in Requests : req[q].at # "idle" => req[q].item \in Items

\* A row belongs to an upload that is there, and goes when the upload goes.
RowsBelong ==
  \A j \in Jobs : status[j] # "none" =>
    /\ itemOf[j] \in Items
    /\ Row(j) => item[itemOf[j]] = "stored"
    /\ ~Row(j) => item[itemOf[j]] \in {"rowless", "gone"}

ReadyRows == \A j \in Jobs : ready[j] => Row(j)

\* A request that has inserted a job is the only one to know it, and until it
\* has stored the payload the job is not touched, unless it is deleted.
JobsKnown ==
  \A q \in Requests : Knows(q) =>
    /\ req[q].job \in Jobs
    /\ status[req[q].job] # "none"
    /\ \A p \in Requests : Knows(p) /\ req[p].job = req[q].job => p = q

JobsHeld ==
  \A q \in Requests : HasJob(q) =>
    /\ itemOf[req[q].job] = req[q].item
    /\ ~ready[req[q].job]
    /\ status[req[q].job] \in {"queued", "gone"}

UnreadyUnsent == \A j \in Jobs : status[j] \in Live /\ ~ready[j] => sends[j] = 0

\* What a dispatch has planned stays as it found it: it has the rows locked.
PlannedWaits ==
  \A r \in Replicas : \A j \in disp[r].plan :
    j \in disp[r].locked /\ status[j] = "queued" /\ ready[j]

\* A deletion has taken the row of its upload.
RemovedRowless ==
  \A q \in Requests : Removing(q) =>
    item[req[q].item] \in {"rowless", "gone"}

RowsInv ==
  /\ RequestItems
  /\ RowsBelong
  /\ ReadyRows
  /\ JobsKnown
  /\ JobsHeld
  /\ UnreadyUnsent
  /\ PlannedWaits
  /\ RemovedRowless


\* Init satisfies RowsInv.
LEMMA InitRows == Init => RowsInv
  BY DEF Init, RowsInv, RequestItems, RowsBelong, ReadyRows, JobsKnown, JobsHeld, UnreadyUnsent,
         PlannedWaits, RemovedRowless, HasJob, Knows, Removing, IdleRequest, NoDispatch, Live

\* What the handlers' two ways on do to the requests.
LEMMA GotoMeans ==
  ASSUME TypeOK, NEW q \in Requests, NEW at, Goto(q, at)
  PROVE  /\ \A p \in Requests \ {q} : req'[p] = req[p]
         /\ req'[q].at = at /\ req'[q].item = req[q].item /\ req'[q].job = req[q].job
  <1>1. req \in [Requests -> RequestState] /\ req[q] \in RequestState
    BY DEF TypeOK
  <1> QED
    BY <1>1 DEF Goto, RequestState

\* An answer ends its request.
LEMMA AnswerMeans ==
  ASSUME TypeOK, NEW q \in Requests, Answer(q)
  PROVE  (\A p \in Requests \ {q} : req'[p] = req[p]) /\ req'[q].at = "idle"
  BY DEF TypeOK, Answer, IdleRequest

\* A request goes on with the job it has, or ends.
LEMMA RequestRows ==
  ASSUME TypeOK, RowsInv, NEW q \in Requests,
         \A p \in Requests \ {q} : req'[p] = req[p],
         \/ req'[q].at = "idle"
         \/ /\ req[q].at # "idle"
            /\ req'[q].item = req[q].item /\ req'[q].job = req[q].job
            /\ HasJob(q)' => HasJob(q)
            /\ Knows(q)' => Knows(q)
            /\ Removing(q)' => Removing(q),
         UNCHANGED <<item, itemOf, status, ready, disp, sends>>
  PROVE  RowsInv'
  <1>1. RequestItems'
    BY DEF RowsInv, RequestItems
  <1>2. RowsBelong' /\ ReadyRows' /\ UnreadyUnsent' /\ PlannedWaits'
    BY DEF RowsInv, RowsBelong, ReadyRows, UnreadyUnsent, PlannedWaits, Row
  <1>3. \A p \in Requests : Knows(p)' => Knows(p) /\ req'[p].job = req[p].job
    BY DEF Knows, HasJob
  <1>4. JobsKnown'
    BY <1>3 DEF RowsInv, JobsKnown
  <1>5. \A p \in Requests : HasJob(p)' => HasJob(p) /\ req'[p].job = req[p].job
                                          /\ req'[p].item = req[p].item
    BY DEF HasJob
  <1>6. JobsHeld'
    BY <1>5 DEF RowsInv, JobsHeld
  <1>7. RemovedRowless'
    BY DEF RowsInv, RemovedRowless, Removing
  <1> QED
    BY <1>1, <1>2, <1>4, <1>6, <1>7 DEF RowsInv

\* The newest row belongs to the upload it was inserted for, and only the
\* request that inserted it knows it.
LEMMA InsertRows ==
  ASSUME TypeOK, DeliveryInv, RowsInv, NEW q \in Requests, InsertJob(q)
  PROVE  RowsInv'
  <1> USE DEF database, history
  <1> DEFINE i == req[q].item
             at == IF req[q].at = "insertUpload" THEN "placeholder" ELSE "waitAgain"
  <1>1. PICK j \in Unused :
          /\ status' = [status EXCEPT ![j] = "queued"]
          /\ itemOf' = [itemOf EXCEPT ![j] = i]
          /\ req' = [req EXCEPT ![q] = [at |-> at, item |-> i, job |-> j]]
    BY DEF InsertJob
  <1>2. /\ j \in Jobs /\ status[j] = "none"
        /\ \A k \in Jobs : status'[k] = IF k = j THEN "queued" ELSE status[k]
        /\ \A k \in Jobs : itemOf'[k] = IF k = j THEN i ELSE itemOf[k]
    BY <1>1 DEF Unused, TypeOK
  <1>3. /\ \A p \in Requests \ {q} : req'[p] = req[p]
        /\ req'[q].item = i /\ req'[q].job = j /\ req'[q].at \in {"placeholder", "waitAgain"}
    BY <1>1 DEF TypeOK
  <1>4. UNCHANGED <<item, ready, disp, sends>> /\ item[i] = "stored" /\ i \in Items
    BY DEF InsertJob, RowsInv, RequestItems
  <1> HIDE DEF i
  <1>5. ~ready[j] /\ sends[j] = 0 /\ \A r \in Replicas : j \notin disp[r].plan
    BY <1>2 DEF RowsInv, ReadyRows, Row, DeliveryInv, NewIsUnsent
  <1>6. RequestItems'
    BY <1>3, <1>4 DEF RowsInv, RequestItems
  <1>7. RowsBelong'
    <2> SUFFICES ASSUME NEW k \in Jobs, status'[k] # "none"
                 PROVE  /\ itemOf'[k] \in Items
                        /\ Row(k)' => item[itemOf'[k]] = "stored"
                        /\ ~Row(k)' => item[itemOf'[k]] \in {"rowless", "gone"}
      BY <1>4 DEF RowsBelong
    <2>1. CASE k = j
      BY <1>2, <1>4, <2>1 DEF Row
    <2>2. CASE k # j
      BY <1>2, <2>2 DEF RowsInv, RowsBelong, Row
    <2> QED
      BY <2>1, <2>2
  <1>8. ReadyRows' /\ UnreadyUnsent'
    BY <1>2, <1>4, <1>5 DEF RowsInv, ReadyRows, UnreadyUnsent, Row
  <1>9. \A p \in Requests \ {q} : Knows(p)' => Knows(p) /\ req[p].job \in Jobs /\ req[p].job # j
    BY <1>2, <1>3 DEF RowsInv, JobsKnown, Knows, HasJob
  <1>10. JobsKnown'
    BY <1>2, <1>3, <1>9 DEF RowsInv, JobsKnown
  <1>11. JobsHeld'
    <2> SUFFICES ASSUME NEW p \in Requests, HasJob(p)'
                 PROVE  /\ itemOf'[req'[p].job] = req'[p].item
                        /\ ~ready[req'[p].job]
                        /\ status'[req'[p].job] \in {"queued", "gone"}
      BY <1>4 DEF JobsHeld
    <2>1. CASE p = q
      BY <1>2, <1>3, <1>5, <2>1
    <2>2. CASE p # q
      <3>1. req'[p] = req[p] /\ HasJob(p) /\ req[p].job \in Jobs /\ req[p].job # j
        BY <1>3, <1>9, <2>2 DEF Knows, HasJob
      <3> QED
        BY <1>2, <3>1 DEF RowsInv, JobsHeld
    <2> QED
      BY <2>1, <2>2
  <1>12. PlannedWaits' /\ RemovedRowless'
    <2>1. PlannedWaits'
      <3>1. \A r \in Replicas : disp[r].plan \subseteq Jobs
        BY DEF TypeOK, DispatchState
      <3> QED
        BY <1>2, <1>4, <1>5, <3>1 DEF RowsInv, PlannedWaits
    <2>2. RemovedRowless'
      BY <1>3, <1>4 DEF RowsInv, RemovedRowless, Removing
    <2> QED
      BY <2>1, <2>2
  <1> QED
    BY <1>6, <1>7, <1>8, <1>10, <1>11, <1>12 DEF RowsInv

\* The request that has stored a payload, or failed to, has its job no longer.
LEMMA SubmitRows ==
  ASSUME TypeOK, RowsInv, NEW q \in Requests, Submit(q) \/ SubmitFails(q)
  PROVE  RowsInv'
  <1> USE DEF database, history
  <1> DEFINE j == req[q].job
  <1>0. HasJob(q) /\ Knows(q) /\ req[q].at # "idle"
    BY DEF Submit, SubmitFails, HasJob, Knows
  <1>1. j \in Jobs /\ ~ready[j]
    BY <1>0 DEF RowsInv, JobsKnown, JobsHeld
  <1>2. PICK stored \in {FALSE, Row(j)} : ready' = [ready EXCEPT ![j] = stored]
    BY DEF Submit, SubmitFails
  <1>3. \A k \in Jobs : ready'[k] = IF k = j THEN stored ELSE ready[k]
    BY <1>2 DEF TypeOK
  <1>4. /\ \A p \in Requests \ {q} : req'[p] = req[p]
        /\ \/ req'[q].at = "idle"
           \/ req'[q].at = "refused" /\ req'[q].item = req[q].item /\ req'[q].job = j
    BY AnswerMeans, GotoMeans DEF Submit, SubmitFails
  <1>5. UNCHANGED <<item, itemOf, status, disp, sends>>
    BY DEF Submit, SubmitFails
  <1>6. \A p \in Requests \ {q} : Knows(p) => req[p].job # j
    BY <1>0 DEF RowsInv, JobsKnown
  <1> HIDE DEF j
  <1>7. RequestItems' /\ RowsBelong'
    BY <1>0, <1>4, <1>5 DEF RowsInv, RequestItems, RowsBelong, Row
  <1>8. ReadyRows'
    BY <1>3, <1>5 DEF RowsInv, ReadyRows, Row
  <1>9. JobsKnown'
    <2>1. \A p \in Requests : Knows(p)' => Knows(p) /\ req'[p].job = req[p].job
      BY <1>0, <1>4 DEF Knows, HasJob, j
    <2> QED
      BY <1>5, <2>1 DEF RowsInv, JobsKnown
  <1>10. JobsHeld'
    <2>1. \A p \in Requests : HasJob(p)' =>
            p # q /\ req'[p] = req[p] /\ HasJob(p) /\ req[p].job \in Jobs /\ req[p].job # j
      BY <1>4, <1>6 DEF HasJob, Knows, RowsInv, JobsKnown
    <2> QED
      BY <1>3, <1>5, <2>1 DEF RowsInv, JobsHeld
  <1>11. UnreadyUnsent'
    BY <1>1, <1>3, <1>5 DEF RowsInv, UnreadyUnsent, Row, Live
  <1>12. PlannedWaits'
    <2>1. \A r \in Replicas : j \notin disp[r].plan /\ disp[r].plan \subseteq Jobs
      BY <1>1 DEF RowsInv, PlannedWaits, TypeOK, DispatchState
    <2> QED
      BY <1>3, <1>5, <2>1 DEF RowsInv, PlannedWaits
  <1>13. RemovedRowless'
    BY <1>4, <1>5 DEF RowsInv, RemovedRowless, Removing
  <1> QED
    BY <1>7, <1>8, <1>9, <1>10, <1>11, <1>12, <1>13 DEF RowsInv

\* A live row that is nobody's plan and no request's may change its status:
\* the row is still there.
LEMMA StatusRows ==
  ASSUME TypeOK, RowsInv, NEW j \in Jobs,
         status[j] \in Live, Unlocked(j), status'[j] \in {"processing"} \cup Terminal,
         \A k \in Jobs : k # j => status'[k] = status[k],
         \A p \in Requests :
           \/ req'[p] = req[p]
           \/ req'[p].at = "noteFailure" /\ req[p].at # "idle" /\ req'[p].item = req[p].item,
         \A p \in Requests : HasJob(p) => req[p].job # j,
         UNCHANGED <<item, itemOf, ready, disp, sends>>
  PROVE  RowsInv'
  <1>1. \A k \in Jobs : \/ status'[k] = status[k]
                        \/ k = j /\ status'[k] \in {"processing"} \cup Terminal
    OBVIOUS
  <1>2. RequestItems' /\ RemovedRowless'
    BY DEF RowsInv, RequestItems, RemovedRowless, Removing
  <1>3. \A k \in Jobs : (Row(k)' <=> Row(k)) /\ (status'[k] = "none" <=> status[k] = "none")
    BY <1>1 DEF Row, Live, Terminal
  <1>4. RowsBelong' /\ ReadyRows'
    BY <1>3 DEF RowsInv, RowsBelong, ReadyRows
  <1>5. \A p \in Requests : Knows(p)' => Knows(p) /\ req'[p] = req[p]
    BY DEF Knows, HasJob
  <1>6. JobsKnown'
    BY <1>3, <1>5 DEF RowsInv, JobsKnown
  <1>7. JobsHeld'
    <2>1. \A p \in Requests : HasJob(p)' => HasJob(p) /\ req'[p] = req[p] /\ req[p].job \in Jobs
      BY <1>5 DEF HasJob, Knows, RowsInv, JobsKnown
    <2> QED
      BY <1>1, <2>1 DEF RowsInv, JobsHeld
  <1>8. UnreadyUnsent'
    BY <1>1 DEF RowsInv, UnreadyUnsent
  <1>9. PlannedWaits'
    <2>1. \A r \in Replicas : j \notin disp[r].plan /\ disp[r].plan \subseteq Jobs
      BY DEF RowsInv, PlannedWaits, Unlocked, TypeOK, DispatchState
    <2> QED
      BY <1>1, <2>1 DEF RowsInv, PlannedWaits
  <1> QED
    BY <1>2, <1>4, <1>6, <1>7, <1>8, <1>9 DEF RowsInv

\* The handlers keep RowsInv.
LEMMA HandlerRows ==
  ASSUME TypeOK, DeliveryInv, RowsInv, NEW q \in Requests, RequestStep(q) \/ RequestFails(q)
  PROVE  RowsInv'
  <1> USE DEF database, history
  <1>1. CASE Placeholder(q) \/ WaitAgain(q) \/ EditFails(q)
    <2>1. Goto(q, "submit") /\ HasJob(q) /\ req[q].at # "idle"
          /\ UNCHANGED <<item, itemOf, status, ready, disp, sends>>
      BY <1>1 DEF Placeholder, WaitAgain, EditFails, HasJob
    <2>2. /\ \A p \in Requests \ {q} : req'[p] = req[p]
          /\ req'[q].at = "submit" /\ req'[q].item = req[q].item /\ req'[q].job = req[q].job
      BY <2>1, GotoMeans
    <2>3. HasJob(q) /\ Knows(q) /\ ~Removing(q)'
      BY <2>1, <2>2 DEF Knows, Removing
    <2> QED
      BY <2>1, <2>2, <2>3, RequestRows
  <1>2. CASE InsertRefused(q) \/ NoteFailure(q) \/ RemoveSection(q) \/ RequestDies(q)
    <2>1. Answer(q) /\ UNCHANGED <<item, itemOf, status, ready, disp, sends>>
      BY <1>2 DEF InsertRefused, NoteFailure, RemoveSection, RequestDies
    <2> QED
      BY <2>1, AnswerMeans, RequestRows
  <1>3. CASE Refuse(q)
    <2>1. req[q].at = "refused" /\ Unlocked(req[q].job)
          /\ UNCHANGED <<item, itemOf, ready, disp, sends>>
      BY <1>3 DEF Refuse
    <2>2. Knows(q) /\ req[q].job \in Jobs /\ \A p \in Requests : HasJob(p) => req[p].job # req[q].job
      BY <2>1 DEF RowsInv, JobsKnown, Knows, HasJob
    <2>3. CASE Updatable(req[q].job)
      <3>1. status' = [status EXCEPT ![req[q].job] = "failed"] /\ Goto(q, "noteFailure")
        BY <1>3, <2>3 DEF Refuse
      <3>2. /\ \A p \in Requests \ {q} : req'[p] = req[p]
            /\ req'[q].at = "noteFailure" /\ req'[q].item = req[q].item
        BY <3>1, GotoMeans
      <3>3. PICK j \in Jobs : j = req[q].job
        BY <2>2
      <3>4. "failed" \in {"processing"} \cup Terminal
        BY DEF Terminal
      <3>6. Unlocked(j) /\ status[j] \in Live /\ \A p \in Requests : HasJob(p) => req[p].job # j
        BY <2>1, <2>2, <2>3, <3>3 DEF Updatable
      <3>7. \A p \in Requests :
              \/ req'[p] = req[p]
              \/ req'[p].at = "noteFailure" /\ req[p].at # "idle" /\ req'[p].item = req[p].item
        BY <2>1, <3>2
      <3>8. status'[j] \in {"processing"} \cup Terminal /\ \A k \in Jobs : k # j => status'[k] = status[k]
        BY <3>1, <3>3, <3>4 DEF TypeOK
      <3> QED
        BY <2>1, <3>6, <3>7, <3>8, StatusRows
    <2>4. CASE ~Updatable(req[q].job)
      <3>1. Answer(q) /\ UNCHANGED status
        BY <1>3, <2>4 DEF Refuse
      <3> QED
        BY <2>1, <3>1, AnswerMeans, RequestRows
    <2> QED
      BY <2>3, <2>4
  <1>4. CASE RemoveFiles(q)
    <2>1. /\ UNCHANGED <<itemOf, status, ready, disp, sends>>
          /\ Removing(q) /\ req[q].at # "idle"
          /\ item' = [item EXCEPT ![req[q].item] = "gone"]
          /\ Goto(q, "removeSection")
      BY <1>4 DEF RemoveFiles, Removing
    <2>2. /\ \A p \in Requests \ {q} : req'[p] = req[p]
          /\ req'[q].at = "removeSection" /\ req'[q].item = req[q].item
      BY <2>1, GotoMeans
    <2> DEFINE i == req[q].item
    <2>3. i \in Items /\ item[i] \in {"rowless", "gone"}
      BY <2>1 DEF RowsInv, RequestItems, RemovedRowless
    <2>4. \A k \in Items : item'[k] = IF k = i THEN "gone" ELSE item[k]
      BY <2>1 DEF TypeOK
    <2> HIDE DEF i
    <2>5. RequestItems' /\ JobsKnown' /\ JobsHeld'
      BY <2>1, <2>2 DEF RowsInv, RequestItems, JobsKnown, JobsHeld, Knows, HasJob
    <2>6. RowsBelong'
      BY <2>1, <2>3, <2>4 DEF RowsInv, RowsBelong, Row
    <2>7. RemovedRowless'
      <3>1. \A p \in Requests : Removing(p)' => Removing(p) /\ req'[p].item = req[p].item
                                                /\ req[p].item \in Items
        BY <2>1, <2>2 DEF Removing, RowsInv, RequestItems
      <3> QED
        BY <2>4, <3>1 DEF RowsInv, RemovedRowless
    <2>8. ReadyRows' /\ UnreadyUnsent' /\ PlannedWaits'
      BY <2>1 DEF RowsInv, ReadyRows, UnreadyUnsent, PlannedWaits, Row
    <2> QED
      BY <2>5, <2>6, <2>7, <2>8 DEF RowsInv
  <1> QED
    BY <1>1, <1>2, <1>3, <1>4, InsertRows, SubmitRows DEF RequestStep, RequestFails

\* An upload's row comes before its jobs', and goes with them.
LEMMA AskRows ==
  ASSUME TypeOK, DeliveryInv, RowsInv, NEW q \in Requests, NEW i \in Items,
         Upload(q, i) \/ RetryCheck(q, i) \/ Delete(q, i)
  PROVE  RowsInv'
  <1> USE DEF database, history
  <1>1. /\ req[q].at = "idle"
        /\ \A p \in Requests \ {q} : req'[p] = req[p]
        /\ req'[q].item = i
        /\ req'[q].at \in {"insertUpload", "insertRetry", "removeFiles"}
        /\ UNCHANGED <<itemOf, disp, sends>>
    BY SMTT(60) DEF Upload, RetryCheck, Delete, TypeOK
  <1>2. RequestItems'
    BY <1>1 DEF RowsInv, RequestItems
  <1>3. \A p \in Requests : /\ Knows(p)' => Knows(p) /\ req'[p] = req[p]
                            /\ HasJob(p)' => HasJob(p) /\ req'[p] = req[p]
    BY <1>1 DEF Knows, HasJob
  <1>4. CASE RetryCheck(q, i)
    <2>1. UNCHANGED <<item, status, ready>> /\ req'[q].at = "insertRetry"
      BY <1>4 DEF RetryCheck, TypeOK
    <2>2. JobsKnown' /\ JobsHeld' /\ RemovedRowless'
      BY <1>1, <1>3, <2>1 DEF RowsInv, JobsKnown, JobsHeld, RemovedRowless, Removing
    <2>3. RowsBelong' /\ ReadyRows' /\ UnreadyUnsent' /\ PlannedWaits'
      BY <1>1, <2>1 DEF RowsInv, RowsBelong, ReadyRows, UnreadyUnsent, PlannedWaits, Row
    <2> QED
      BY <1>2, <2>2, <2>3 DEF RowsInv
  <1>5. CASE Upload(q, i)
    <2>1. /\ UNCHANGED <<status, ready>> /\ item[i] = "none" /\ req'[q].at = "insertUpload"
          /\ \A k \in Items : item'[k] = IF k = i THEN "stored" ELSE item[k]
      BY <1>5 DEF Upload, TypeOK
    <2>2. JobsKnown' /\ JobsHeld'
      BY <1>1, <1>3, <2>1 DEF RowsInv, JobsKnown, JobsHeld
    <2>3. RemovedRowless'
      <3>1. \A p \in Requests : Removing(p)' => Removing(p) /\ req'[p] = req[p] /\ req[p].item \in Items
        BY <1>1, <2>1 DEF Removing, RowsInv, RequestItems
      <3> QED
        BY <2>1, <3>1 DEF RowsInv, RemovedRowless
    <2>4. RowsBelong'
      BY <1>1, <2>1 DEF RowsInv, RowsBelong, Row
    <2>5. ReadyRows' /\ UnreadyUnsent' /\ PlannedWaits'
      BY <1>1, <2>1 DEF RowsInv, ReadyRows, UnreadyUnsent, PlannedWaits, Row
    <2> QED
      BY <1>2, <2>2, <2>3, <2>4, <2>5 DEF RowsInv
  <1>6. CASE Delete(q, i)
    <2>1. /\ item[i] = "stored" /\ \A j \in JobsOf(i) : Unlocked(j)
          /\ \A k \in Items : item'[k] = IF k = i THEN "rowless" ELSE item[k]
          /\ \A j \in Jobs : status'[j] = IF j \in JobsOf(i) THEN "gone" ELSE status[j]
          /\ \A j \in Jobs : ready'[j] = (ready[j] /\ j \notin JobsOf(i))
      BY <1>6 DEF Delete, TypeOK
    <2>2. \A j \in Jobs : /\ j \in JobsOf(i) <=> itemOf[j] = i /\ status[j] \notin {"none", "gone"}
                          /\ ready[j] \in BOOLEAN
                          /\ status'[j] = "none" <=> status[j] = "none"
      BY <2>1 DEF JobsOf, Row, TypeOK
    <2>3. JobsKnown'
      BY <1>3, <2>2 DEF RowsInv, JobsKnown
    <2>4. JobsHeld'
      <3>1. \A p \in Requests : HasJob(p)' => req[p].job \in Jobs
        BY <1>3 DEF RowsInv, JobsKnown, Knows
      <3>2. ASSUME NEW p \in Requests, HasJob(p)'
            PROVE  /\ itemOf[req[p].job] = req[p].item
                   /\ ~ready'[req[p].job]
                   /\ status'[req[p].job] \in {"queued", "gone"}
        <4>1. HasJob(p) /\ req[p].job \in Jobs
          BY <1>3, <3>1, <3>2
        <4>2. ~ready[req[p].job] /\ status[req[p].job] \in {"queued", "gone"}
              /\ itemOf[req[p].job] = req[p].item
          BY <4>1 DEF RowsInv, JobsHeld
        <4> QED
          BY <2>1, <4>1, <4>2
      <3>3. \A p \in Requests : HasJob(p)' => req'[p] = req[p]
        BY <1>3
      <3> QED
        BY <1>1, <3>2, <3>3 DEF JobsHeld
    <2>5. RowsBelong'
      <3> SUFFICES ASSUME NEW j \in Jobs, status'[j] # "none"
                   PROVE  /\ itemOf[j] \in Items
                          /\ Row(j)' => item'[itemOf[j]] = "stored"
                          /\ ~Row(j)' => item'[itemOf[j]] \in {"rowless", "gone"}
        BY <1>1 DEF RowsBelong
      <3>1. /\ itemOf[j] \in Items
            /\ Row(j) => item[itemOf[j]] = "stored"
            /\ ~Row(j) => item[itemOf[j]] \in {"rowless", "gone"}
        BY <2>2 DEF RowsInv, RowsBelong
      <3> QED
        BY <2>1, <2>2, <3>1 DEF Row
    <2>6. ReadyRows' /\ UnreadyUnsent'
      BY <1>1, <2>1, <2>2 DEF RowsInv, ReadyRows, UnreadyUnsent, Row, Live
    <2>7. PlannedWaits'
      <3>1. \A r \in Replicas : \A j \in disp[r].plan : j \in Jobs /\ j \notin JobsOf(i)
        BY <2>1 DEF RowsInv, PlannedWaits, Unlocked, TypeOK, DispatchState
      <3>2. \A r \in Replicas : \A j \in disp[r].plan : status'[j] = status[j] /\ ready'[j] = ready[j]
        BY <2>1, <2>2, <3>1
      <3> QED
        BY <1>1, <3>2 DEF RowsInv, PlannedWaits
    <2>8. RemovedRowless'
      <3>1. \A p \in Requests : Removing(p)' => p = q \/ (Removing(p) /\ req'[p] = req[p] /\ req[p].item \in Items)
        BY <1>1 DEF Removing, RowsInv, RequestItems
      <3> QED
        BY <1>1, <2>1, <3>1 DEF RowsInv, RemovedRowless
    <2> QED
      BY <1>2, <2>3, <2>4, <2>5, <2>6, <2>7, <2>8 DEF RowsInv
  <1> QED
    BY <1>4, <1>5, <1>6

\* Steps that touch no row and no request.
LEMMA RowsFrame ==
  ASSUME RowsInv, UNCHANGED <<item, itemOf, status, ready, req, sends>>,
         \A r \in Replicas : disp'[r] \in {disp[r], NoDispatch}
  PROVE  RowsInv'
  <1>1. RequestItems' /\ RowsBelong' /\ ReadyRows' /\ UnreadyUnsent' /\ RemovedRowless'
    BY DEF RowsInv, RequestItems, RowsBelong, ReadyRows, UnreadyUnsent, RemovedRowless, Row, Removing
  <1>2. JobsKnown' /\ JobsHeld'
    BY DEF RowsInv, JobsKnown, JobsHeld, Knows, HasJob
  <1>3. PlannedWaits'
    BY DEF RowsInv, PlannedWaits, NoDispatch
  <1> QED
    BY <1>1, <1>2, <1>3 DEF RowsInv

\* What is planned is waiting and locked, and only that is sent.
LEMMA DispatchRows ==
  ASSUME TypeOK, DeliveryInv, RowsInv, NEW r \in Replicas, DispatchStep(r) \/ Abort(r)
  PROVE  RowsInv'
  <1> USE DEF database, history
  <1>0. ASSUME UNCHANGED <<item, itemOf, status, ready, req>>, UnreadyUnsent', PlannedWaits'
        PROVE  RowsInv'
    <2>1. RequestItems' /\ RowsBelong' /\ ReadyRows' /\ RemovedRowless'
      BY <1>0 DEF RowsInv, RequestItems, RowsBelong, ReadyRows, RemovedRowless, Row, Removing
    <2>2. JobsKnown' /\ JobsHeld'
      BY <1>0 DEF RowsInv, JobsKnown, JobsHeld, Knows, HasJob
    <2> QED
      BY <1>0, <2>1, <2>2 DEF RowsInv
  <1>1. CASE Measure(r)
    <2> DEFINE d == [disp[r] EXCEPT !.at = "measured", !.free = DispatchAhead - Len(broker)]
    <2>1. d.plan = disp[r].plan /\ d.locked = disp[r].locked
      BY DEF TypeOK, DispatchState
    <2>2. disp' = [disp EXCEPT ![r] = d] /\ UNCHANGED <<item, itemOf, status, ready, req, sends>>
      BY <1>1 DEF Measure
    <2> HIDE DEF d
    <2>3. \A s \in Replicas : disp'[s].plan = disp[s].plan /\ disp'[s].locked = disp[s].locked
      BY <2>1, <2>2 DEF TypeOK
    <2>4. UnreadyUnsent' /\ PlannedWaits'
      BY <2>2, <2>3 DEF RowsInv, UnreadyUnsent, PlannedWaits
    <2> QED
      BY <1>0, <2>2, <2>4
  <1>2. CASE Choose(r)
    <2> DEFINE found == {j \in Waiting : Unlocked(j)}
    <2>1. PICK plan \in SUBSET found :
            disp' = [disp EXCEPT ![r].at = "sending", ![r].locked = found, ![r].plan = plan]
      BY <1>2 DEF Choose
    <2> DEFINE d == [disp[r] EXCEPT !.at = "sending", !.locked = found, !.plan = plan]
    <2>2. d.plan = plan /\ d.locked = found
      BY DEF TypeOK, DispatchState
    <2>3. \A j \in plan : j \in found /\ status[j] = "queued" /\ ready[j]
      BY DEF Waiting
    <2>4. disp' = [disp EXCEPT ![r] = d] /\ UNCHANGED <<item, itemOf, status, ready, req, sends>>
      BY <1>2, <2>1 DEF Choose
    <2> HIDE DEF d, found
    <2>5. \A s \in Replicas : disp'[s] = IF s = r THEN d ELSE disp[s]
      BY <2>4 DEF TypeOK
    <2>6. UnreadyUnsent' /\ PlannedWaits'
      BY <2>2, <2>3, <2>4, <2>5 DEF RowsInv, UnreadyUnsent, PlannedWaits
    <2> QED
      BY <1>0, <2>4, <2>6
  <1>3. ASSUME NEW j \in Jobs, Send(r, j) PROVE RowsInv'
    <2> DEFINE d == [disp[r] EXCEPT !.marked = disp[r].marked \cup {j}]
    <2>1. d.plan = disp[r].plan /\ d.locked = disp[r].locked
      BY DEF TypeOK, DispatchState
    <2>2. disp' = [disp EXCEPT ![r] = d] /\ UNCHANGED <<item, itemOf, status, ready, req>>
      BY <1>3 DEF Send
    <2> HIDE DEF d
    <2>3. \A s \in Replicas : disp'[s].plan = disp[s].plan /\ disp'[s].locked = disp[s].locked
      BY <2>1, <2>2 DEF TypeOK
    <2>4. \A k \in Jobs : sends'[k] = IF k = j THEN sends[j] + 1 ELSE sends[k]
      BY <1>3 DEF Send, TypeOK
    <2>5. ready[j]
      BY <1>3 DEF Send, RowsInv, PlannedWaits
    <2>6. UnreadyUnsent' /\ PlannedWaits'
      BY <2>2, <2>3, <2>4, <2>5 DEF RowsInv, UnreadyUnsent, PlannedWaits
    <2> QED
      BY <1>0, <2>2, <2>6
  <1>4. CASE Commit(r) \/ Abort(r)
    <2>1. /\ UNCHANGED <<item, itemOf, status, ready, req, sends>>
          /\ \A s \in Replicas : disp'[s] \in {disp[s], NoDispatch}
      BY <1>4 DEF Commit, Abort, RollBack, TypeOK
    <2> QED
      BY <2>1, RowsFrame
  <1> QED
    BY <1>1, <1>2, <1>3, <1>4 DEF DispatchStep

\* An event is of a job that was sent, so of none a request still holds.
LEMMA ConsumerRows ==
  ASSUME TypeOK, DeliveryInv, RowsInv, NEW r \in Replicas,
         ConsumerStep(r) \/ HandlerFails(r) \/ ReplicaCrash(r)
  PROVE  RowsInv'
  <1> USE DEF database, history
  <1>1. CASE Apply(r) /\ Updatable(Entry(r).job)
    <2>1. /\ Unlocked(Entry(r).job)
          /\ status' = [status EXCEPT ![Entry(r).job] = Entry(r).status]
          /\ UNCHANGED <<item, itemOf, ready, req, disp, sends>>
          /\ cons[r].batch # <<>>
      BY <1>1 DEF Apply, Reading
    <2>2. PICK j \in Jobs : j = Entry(r).job
      BY <2>1, EntryType
    <2>3. Entry(r).status \in {"processing"} \cup Terminal
      BY <2>1, EntryType
    <2>4. sends[j] > 0 /\ status[j] \in Live
      BY <1>1, <2>1, <2>2, BatchEntries DEF DeliveryInv, OnlySentTravel, Updatable
    <2>5. \A p \in Requests : HasJob(p) => req[p].job # j
      BY <2>4 DEF RowsInv, JobsHeld, UnreadyUnsent
    <2>7. /\ Unlocked(j) /\ status'[j] \in {"processing"} \cup Terminal
          /\ \A k \in Jobs : k # j => status'[k] = status[k]
      BY <2>1, <2>2, <2>3 DEF TypeOK
    <2>8. \A p \in Requests : req'[p] = req[p]
      BY <2>1
    <2> QED
      BY <2>1, <2>4, <2>5, <2>7, <2>8, StatusRows
  <1>2. CASE ReplicaCrash(r)
    <2>1. /\ UNCHANGED <<item, itemOf, status, ready, req, sends>>
          /\ \A s \in Replicas : disp'[s] \in {disp[s], NoDispatch}
      BY <1>2 DEF ReplicaCrash, RollBack, TypeOK
    <2> QED
      BY <2>1, RowsFrame
  <1>3. CASE ~(Apply(r) /\ Updatable(Entry(r).job)) /\ ~ReplicaCrash(r)
    <2>1. UNCHANGED <<item, itemOf, status, ready, req, sends, disp>>
      BY <1>3 DEF ConsumerStep, Read, Apply, InsertArtifacts, Reread, Publish, LookUp, GetTexts,
                  Fill, HandlerFails
    <2> QED
      BY <2>1, RowsFrame
  <1> QED
    BY <1>1, <1>2, <1>3

\* Every step keeps RowsInv.
LEMMA NextRows == TypeOK /\ DeliveryInv /\ RowsInv /\ [Next]_vars => RowsInv'
  <1> SUFFICES ASSUME TypeOK, DeliveryInv, RowsInv, [Next]_vars PROVE RowsInv'
    OBVIOUS
  <1>1. CASE UNCHANGED vars
    BY <1>1, RowsFrame DEF vars
  <1>2. ASSUME NEW w \in Workers, WorkerStep(w) \/ Kill(w) \/ HardLimit(w)
        PROVE  RowsInv'
    <2>1. UNCHANGED <<item, itemOf, status, ready, req, sends, disp>>
      BY <1>2 DEF WorkerStep, Take, Start, Finish, Fail, Transient, Ack, Kill, HardLimit,
                  database, history
    <2> QED
      BY <2>1, RowsFrame
  <1>3. CASE Next
    BY <1>2, <1>3, AskRows, HandlerRows, DispatchRows, ConsumerRows DEF Next
  <1> QED
    BY <1>1, <1>3

\* Rows, payloads and uploads fit together in every state, and what a dispatch
\* has planned waits for it, whatever is deleted, retried or fails.
THEOREM RowsCorrect == Spec => []RowsInv
  BY InitRows, NextRows, TypeCorrect, DeliveryCorrect, PTL DEF Spec

-----------------------------------------------------------------------------
(***************************************************************************)
(* Sections, while nothing has failed.                                     *)
(***************************************************************************)
NothingFailed ==
  /\ unsaid = {} /\ unheard = {}
  /\ \A q \in Requests : req[q].at \notin {"refused", "noteFailure"}

\* A job without its payload is in the hands of the request that will store it.
UnreadyHeld ==
  \A j \in Jobs : status[j] \in Live /\ ~ready[j] =>
    \E q \in Requests : HasJob(q) /\ req[q].job = j

\* An upload that is gone has had its section removed, or will have.
RemovalGoesOn ==
  \A i \in Items : item[i] \in {"rowless", "gone"} =>
    section[i] = "removed" \/ \E q \in Requests : Removing(q) /\ req[q].item = i

\* A consumer past the gate with an outcome reads a settled row.
Settling(r) == cons[r].batch # <<>> /\ cons[r].at # "next" /\ Entry(r).status \in Terminal

SettledRead == \A r \in Replicas : Settling(r) /\ cons[r].at = "publish" => cons[r].seen \in Terminal

\* A section that waits has a live job, or an outcome about to be filled in,
\* or is about to be removed.
WaitsForSomething ==
  \A i \in Items : section[i] = "processing" =>
    \/ \E j \in Jobs : itemOf[j] = i /\ status[j] \in Live
    \/ \E r \in Replicas : Settling(r) /\ itemOf[Entry(r).job] = i
    \/ \E q \in Requests : Removing(q) /\ req[q].item = i

NothingWaitsForEver ==
  /\ NothingFailed
  /\ UnreadyHeld
  /\ RemovalGoesOn
  /\ SettledRead
  /\ WaitsForSomething

NotesInv == faults = 0 => NothingWaitsForEver

\* Init satisfies NotesInv.
LEMMA InitNotes == Init => NotesInv
  BY DEF Init, NotesInv, NothingWaitsForEver, NothingFailed, UnreadyHeld, RemovalGoesOn, SettledRead,
         WaitsForSomething, Settling, IdleRequest, Reader, Live

\* A consumer that has an entry has one of an upload; if the upload is gone,
\* its section is no longer waiting, or is about to be removed.
LEMMA GoneEntry ==
  ASSUME TypeOK, DeliveryInv, RowsInv, NothingWaitsForEver, NEW r \in Replicas,
         cons[r].batch # <<>>
  PROVE  LET j == Entry(r).job IN
         /\ j \in Jobs /\ itemOf[j] \in Items /\ status[j] # "none"
         /\ ~Row(j) \/ item[itemOf[j]] # "stored" =>
              \/ section[itemOf[j]] # "processing"
              \/ \E q \in Requests : Removing(q) /\ req[q].item = itemOf[j]
  <1>1. PICK j \in Jobs : j = Entry(r).job
    BY EntryType
  <1>2. status[j] # "none"
    <2>1. sends[j] > 0
      BY <1>1, BatchEntries DEF DeliveryInv, OnlySentTravel
    <2> QED
      BY <2>1 DEF DeliveryInv, NewIsUnsent
  <1>3. itemOf[j] \in Items
    BY <1>2 DEF RowsInv, RowsBelong
  <1>4. ASSUME ~Row(j) \/ item[itemOf[j]] # "stored"
        PROVE  \/ section[itemOf[j]] # "processing"
               \/ \E q \in Requests : Removing(q) /\ req[q].item = itemOf[j]
    <2>1. item[itemOf[j]] \in {"rowless", "gone"}
      BY <1>2, <1>4 DEF RowsInv, RowsBelong
    <2> QED
      BY <1>3, <2>1 DEF NothingWaitsForEver, RemovalGoesOn
  <1> QED
    BY <1>1, <1>2, <1>3, <1>4

\* A consumer goes on with an outcome, or drops it when nothing waits for it.
LEMMA ReaderNotes ==
  ASSUME TypeOK, NothingWaitsForEver, NEW r \in Replicas, NEW c, cons' = [cons EXCEPT ![r] = c],
         Settling(r) =>
           \/ c.batch = cons[r].batch /\ c.at # "next"
           \/ section[itemOf[Entry(r).job]] # "processing"
           \/ \E q \in Requests : Removing(q) /\ req[q].item = itemOf[Entry(r).job],
         c.batch # <<>> /\ c.at = "publish" /\ Head(c.batch).status \in Terminal => c.seen \in Terminal,
         UNCHANGED <<item, itemOf, status, ready, section, req, unsaid, unheard>>
  PROVE  NothingWaitsForEver'
  <1>1. \A s \in Replicas : cons'[s] = IF s = r THEN c ELSE cons[s]
    BY DEF TypeOK
  <1>2. NothingFailed' /\ UnreadyHeld' /\ RemovalGoesOn'
    BY DEF NothingWaitsForEver, NothingFailed, UnreadyHeld, RemovalGoesOn, HasJob, Removing
  <1>3. SettledRead'
    BY <1>1 DEF NothingWaitsForEver, SettledRead, Settling, Entry
  <1>4. WaitsForSomething'
    <2> SUFFICES ASSUME NEW i \in Items, section[i] = "processing"
                 PROVE  \/ \E j \in Jobs : itemOf[j] = i /\ status[j] \in Live
                        \/ \E s \in Replicas : Settling(s)' /\ itemOf[Entry(s)'.job] = i
                        \/ \E q \in Requests : Removing(q) /\ req[q].item = i
      BY DEF WaitsForSomething, Removing
    <2>1. CASE \E s \in Replicas : Settling(s) /\ itemOf[Entry(s).job] = i
      <3>1. PICK s \in Replicas : Settling(s) /\ itemOf[Entry(s).job] = i
        BY <2>1
      <3>2. CASE s # r
        BY <1>1, <3>1, <3>2 DEF Settling, Entry
      <3>3. CASE s = r
        BY <1>1, <3>1, <3>3 DEF Settling, Entry
      <3> QED
        BY <3>2, <3>3
    <2> QED
      BY <2>1 DEF NothingWaitsForEver, WaitsForSomething
  <1> QED
    BY <1>2, <1>3, <1>4 DEF NothingWaitsForEver

\* An outcome that is stored is being settled.
LEMMA ApplyNotes ==
  ASSUME TypeOK, NothingWaitsForEver, NEW r \in Replicas, Apply(r)
  PROVE  NothingWaitsForEver'
  <1> USE DEF database, history
  <1>0. UNCHANGED <<item, itemOf, ready, section, req, unsaid, unheard>>
        /\ cons[r].batch # <<>> /\ cons[r].at = "next"
    BY DEF Apply, Reading
  <1>1. CASE ~Updatable(Entry(r).job)
    <2>1. cons' = [cons EXCEPT ![r] = Reader(Tail(cons[r].batch))] /\ UNCHANGED status
      BY <1>1 DEF Apply, Done
    <2>2. ~Settling(r) /\ Reader(Tail(cons[r].batch)).at # "publish"
      BY <1>0 DEF Settling, Reader
    <2> QED
      BY <1>0, <2>1, <2>2, ReaderNotes
  <1>2. CASE Updatable(Entry(r).job)
    <2> PICK j \in Jobs : j = Entry(r).job
      BY <1>0, EntryType
    <2> PICK at \in {"artifacts", "reread"} : Continue(r, at)
      BY <1>2 DEF Apply
    <2>1. /\ status' = [status EXCEPT ![j] = Entry(r).status]
          /\ status[j] \in Live
          /\ Entry(r).status \in {"processing"} \cup Terminal
      BY <1>0, <1>2, EntryType DEF Apply, Updatable
    <2>2. \A k \in Jobs : status'[k] = IF k = j THEN Entry(r).status ELSE status[k]
      BY <2>1 DEF TypeOK
    <2>3. /\ \A s \in Replicas \ {r} : cons'[s] = cons[s]
          /\ cons'[r].batch = cons[r].batch /\ cons'[r].at = at
      <3>1. cons' = [cons EXCEPT ![r] = [cons[r] EXCEPT !.at = at]]
        BY DEF Continue
      <3>2. cons \in [Replicas -> ReaderState] /\ cons[r] \in ReaderState
        BY DEF TypeOK
      <3>3. [cons[r] EXCEPT !.at = at].batch = cons[r].batch /\ [cons[r] EXCEPT !.at = at].at = at
        BY <3>2 DEF ReaderState
      <3> QED
        BY <3>1, <3>2, <3>3
    <2>4. NothingFailed' /\ RemovalGoesOn'
      BY <1>0 DEF NothingWaitsForEver, NothingFailed, RemovalGoesOn, Removing
    <2>5. UnreadyHeld'
      BY <1>0, <2>1, <2>2 DEF NothingWaitsForEver, UnreadyHeld, HasJob
    <2>6. SettledRead'
      BY <2>3 DEF NothingWaitsForEver, SettledRead, Settling, Entry
    <2>7. WaitsForSomething'
      <3> SUFFICES ASSUME NEW i \in Items, section[i] = "processing"
                   PROVE  \/ \E k \in Jobs : itemOf[k] = i /\ status'[k] \in Live
                          \/ \E s \in Replicas : Settling(s)' /\ itemOf[Entry(s)'.job] = i
                          \/ \E q \in Requests : Removing(q) /\ req[q].item = i
        BY <1>0 DEF WaitsForSomething, Removing
      <3>1. CASE \E k \in Jobs : itemOf[k] = i /\ status[k] \in Live
        <4>1. PICK k \in Jobs : itemOf[k] = i /\ status[k] \in Live
          BY <3>1
        <4>2. CASE k # j \/ Entry(r).status = "processing"
          BY <2>2, <4>1, <4>2 DEF Live
        <4>3. CASE k = j /\ Entry(r).status # "processing"
          <5>1. Settling(r)' /\ Entry(r)' = Entry(r)
            BY <1>0, <2>1, <2>3, <4>3 DEF Settling, Entry
          <5> QED
            BY <4>1, <4>3, <5>1
        <4> QED
          BY <4>2, <4>3
      <3>2. CASE \E s \in Replicas : Settling(s) /\ itemOf[Entry(s).job] = i
        <4>1. PICK s \in Replicas : Settling(s) /\ itemOf[Entry(s).job] = i
          BY <3>2
        <4>2. s # r
          BY <1>0, <4>1 DEF Settling
        <4> QED
          BY <2>3, <4>1, <4>2 DEF Settling, Entry
      <3> QED
        BY <3>1, <3>2 DEF NothingWaitsForEver, WaitsForSomething
    <2> QED
      BY <2>4, <2>5, <2>6, <2>7 DEF NothingWaitsForEver
  <1> QED
    BY <1>1, <1>2

\* An outcome is filled in, or its upload is gone.
LEMMA ConsumerNotes ==
  ASSUME TypeOK, DeliveryInv, RowsInv, NothingWaitsForEver, NEW r \in Replicas, ConsumerStep(r)
  PROVE  NothingWaitsForEver'
  <1> USE DEF database, history
  <1> DEFINE j == Entry(r).job
  <1>0. cons[r] \in ReaderState
    BY DEF TypeOK
  <1>1. ASSUME Done(r),
               Settling(r) =>
                 \/ section[itemOf[j]] # "processing"
                 \/ \E q \in Requests : Removing(q) /\ req[q].item = itemOf[j],
               UNCHANGED <<item, itemOf, status, ready, section, req, unsaid, unheard>>
        PROVE  NothingWaitsForEver'
    <2>1. cons' = [cons EXCEPT ![r] = Reader(Tail(cons[r].batch))]
      BY <1>1 DEF Done
    <2>2. Reader(Tail(cons[r].batch)).at # "publish"
      BY DEF Reader
    <2> QED
      BY <1>1, <2>1, <2>2, ReaderNotes
  <1>2. ASSUME NEW at \in {"reread", "lookup", "texts"}, Continue(r, at),
               UNCHANGED <<item, itemOf, status, ready, section, req, unsaid, unheard>>
        PROVE  NothingWaitsForEver'
    <2> DEFINE c == [cons[r] EXCEPT !.at = at]
    <2>1. cons' = [cons EXCEPT ![r] = c]
      BY <1>2 DEF Continue
    <2>2. c.batch = cons[r].batch /\ c.at \notin {"next", "publish"}
      BY <1>0 DEF ReaderState
    <2> HIDE DEF c
    <2> QED
      BY <1>2, <2>1, <2>2, ReaderNotes
  <1>3. CASE Read(r)
    <2> DEFINE n == IF Len(stream) < ReadBatch THEN Len(stream) ELSE ReadBatch
               c == Reader(SubSeq(stream, 1, n))
    <2>1. cons' = [cons EXCEPT ![r] = c] /\ ~Settling(r)
          /\ UNCHANGED <<item, itemOf, status, ready, section, req, unsaid, unheard>>
      BY <1>3 DEF Read, Settling
    <2>2. c.at # "publish"
      BY DEF Reader
    <2> HIDE DEF c
    <2> QED
      BY <2>1, <2>2, ReaderNotes
  <1>4. CASE InsertArtifacts(r)
    <2>1. UNCHANGED <<item, itemOf, status, ready, section, req, unsaid, unheard>>
          /\ cons[r].batch # <<>>
      BY <1>4 DEF InsertArtifacts, Reading
    <2>2. CASE Row(j)
      BY <1>2, <1>4, <2>1, <2>2 DEF InsertArtifacts
    <2>3. CASE ~Row(j)
      BY <1>1, <1>4, <2>1, <2>3, GoneEntry DEF InsertArtifacts
    <2> QED
      BY <2>2, <2>3
  <1>5. CASE Reread(r)
    <2>1. UNCHANGED <<item, itemOf, status, ready, section, req, unsaid, unheard>>
          /\ cons[r].batch # <<>> /\ cons[r].at = "reread"
      BY <1>5 DEF Reread, Reading
    <2>2. CASE Row(j)
      <3> DEFINE now == status[j]
                 c == [cons[r] EXCEPT !.at = "publish", !.seen = now]
      <3>1. cons' = [cons EXCEPT ![r] = c]
        BY <1>5, <2>2 DEF Reread
      <3>2. Entry(r).status \in Terminal => now \in Terminal
        BY <2>1, <2>2 DEF DeliveryInv, PastGate, Row
      <3> HIDE DEF now
      <3>3. c.batch = cons[r].batch /\ c.at = "publish" /\ c.seen = now
        BY <1>0 DEF ReaderState
      <3> HIDE DEF c
      <3> QED
        BY <2>1, <3>1, <3>2, <3>3, ReaderNotes DEF Entry
    <2>3. CASE ~Row(j)
      BY <1>1, <1>5, <2>1, <2>3, GoneEntry DEF Reread
    <2> QED
      BY <2>2, <2>3
  <1>6. CASE Publish(r)
    <2>1. UNCHANGED <<item, itemOf, status, ready, section, req, unsaid, unheard>>
          /\ cons[r].at = "publish"
      BY <1>6 DEF Publish, Reading
    <2>2. CASE cons[r].seen \in Terminal
      BY <1>2, <1>6, <2>1, <2>2 DEF Publish
    <2>3. CASE cons[r].seen \notin Terminal
      <3>1. ~Settling(r)
        BY <2>1, <2>3 DEF NothingWaitsForEver, SettledRead
      <3> QED
        BY <1>1, <1>6, <2>1, <2>3, <3>1 DEF Publish
    <2> QED
      BY <2>2, <2>3
  <1>7. CASE LookUp(r)
    <2>1. UNCHANGED <<item, itemOf, status, ready, section, req, unsaid, unheard>>
          /\ cons[r].batch # <<>>
      BY <1>7 DEF LookUp, Reading
    <2>2. CASE item[itemOf[j]] = "stored"
      BY <1>2, <1>7, <2>1, <2>2 DEF LookUp
    <2>3. CASE item[itemOf[j]] # "stored"
      BY <1>1, <1>7, <2>1, <2>3, GoneEntry DEF LookUp
    <2> QED
      BY <2>2, <2>3
  <1>8. CASE GetTexts(r)
    <2> DEFINE found == artifacts[j] > 0
               c == [cons[r] EXCEPT !.at = "fill", !.texts = found]
    <2>1. cons' = [cons EXCEPT ![r] = c]
          /\ UNCHANGED <<item, itemOf, status, ready, section, req, unsaid, unheard>>
      BY <1>8 DEF GetTexts
    <2> HIDE DEF found
    <2>2. c.batch = cons[r].batch /\ c.at = "fill"
      BY <1>0 DEF ReaderState
    <2> HIDE DEF c
    <2> QED
      BY <2>1, <2>2, ReaderNotes
  <1>9. CASE Fill(r)
    <2> DEFINE c == Reader(Tail(cons[r].batch))
               i == itemOf[j]
    <2>1. /\ cons' = [cons EXCEPT ![r] = c] /\ c.at = "next"
          /\ Finished(i, cons[r].seen) /\ cons[r].at = "fill" /\ cons[r].batch # <<>>
          /\ UNCHANGED <<item, itemOf, status, ready, req, unsaid, unheard>>
      BY <1>9 DEF Fill, Done, Reading, Reader
    <2>2. cons[r].seen \in Terminal
      BY <1>0, <2>1 DEF ReaderState
    <2>3. i \in Items
      BY <2>1, GoneEntry
    <2>4. \A k \in Items : section'[k] = IF k = i /\ section[i] # "removed"
                                         THEN cons[r].seen ELSE section[k]
      BY <2>1 DEF Finished, TypeOK
    <2>5. \A s \in Replicas : cons'[s] = IF s = r THEN c ELSE cons[s]
      BY <2>1 DEF TypeOK
    <2> HIDE DEF c
    <2>6. NothingFailed' /\ UnreadyHeld'
      BY <2>1 DEF NothingWaitsForEver, NothingFailed, UnreadyHeld, HasJob
    <2>7. RemovalGoesOn'
      BY <2>1, <2>4 DEF NothingWaitsForEver, RemovalGoesOn, Removing
    <2>8. SettledRead'
      BY <2>1, <2>5 DEF NothingWaitsForEver, SettledRead, Settling, Entry
    <2>9. WaitsForSomething'
      <3> SUFFICES ASSUME NEW k \in Items, section'[k] = "processing"
                   PROVE  \/ \E l \in Jobs : itemOf[l] = k /\ status[l] \in Live
                          \/ \E s \in Replicas : Settling(s)' /\ itemOf[Entry(s)'.job] = k
                          \/ \E q \in Requests : Removing(q) /\ req[q].item = k
        BY <2>1 DEF WaitsForSomething, Removing
      <3>1. k # i /\ section[k] = "processing"
        BY <2>2, <2>4 DEF Terminal
      <3>2. \A s \in Replicas : Settling(s) /\ itemOf[Entry(s).job] = k => Settling(s)' /\ Entry(s)' = Entry(s)
        BY <2>5, <3>1 DEF Settling, Entry
      <3> QED
        BY <3>1, <3>2 DEF NothingWaitsForEver, WaitsForSomething
    <2> QED
      BY <2>6, <2>7, <2>8, <2>9 DEF NothingWaitsForEver
  <1> QED
    BY <1>3, <1>4, <1>5, <1>6, <1>7, <1>8, <1>9, ApplyNotes DEF ConsumerStep

\* Steps that leave the rows and the sections alone; a dispatch's and a worker's are.
LEMMA NotesFrame ==
  ASSUME NothingWaitsForEver,
         UNCHANGED <<item, itemOf, status, ready, section, req, cons, unsaid, unheard>>
  PROVE  NothingWaitsForEver'
  <1>1. NothingFailed' /\ UnreadyHeld' /\ RemovalGoesOn' /\ SettledRead'
    BY DEF NothingWaitsForEver, NothingFailed, UnreadyHeld, RemovalGoesOn, SettledRead, HasJob,
           Removing, Settling, Entry
  <1>2. WaitsForSomething'
    BY DEF NothingWaitsForEver, WaitsForSomething, Removing, Settling, Entry
  <1> QED
    BY <1>1, <1>2 DEF NothingWaitsForEver

\* Without faults a handler runs to its end: the job it inserted is live until
\* the payload is stored, and a section it makes wait is that job's upload's.
LEMMA HandlerNotes ==
  ASSUME TypeOK, DeliveryInv, RowsInv, NothingWaitsForEver, NEW q \in Requests, RequestStep(q)
  PROVE  NothingWaitsForEver'
  <1> USE DEF database, history
  <1>0. UNCHANGED <<cons, unsaid, unheard>>
    BY DEF RequestStep, InsertJob, InsertRefused, Placeholder, WaitAgain, Submit, Refuse,
           NoteFailure, RemoveFiles, RemoveSection
  <1>1. CASE InsertJob(q)
    <2> DEFINE i == req[q].item
               at == IF req[q].at = "insertUpload" THEN "placeholder" ELSE "waitAgain"
    <2>1. PICK j \in Unused :
            /\ status' = [status EXCEPT ![j] = "queued"]
            /\ itemOf' = [itemOf EXCEPT ![j] = i]
            /\ req' = [req EXCEPT ![q] = [at |-> at, item |-> i, job |-> j]]
      BY <1>1 DEF InsertJob
    <2>2. /\ j \in Jobs /\ status[j] = "none"
          /\ \A k \in Jobs : status'[k] = IF k = j THEN "queued" ELSE status[k]
          /\ \A k \in Jobs : itemOf'[k] = IF k = j THEN i ELSE itemOf[k]
      BY <2>1 DEF Unused, TypeOK
    <2>3. /\ \A p \in Requests \ {q} : req'[p] = req[p]
          /\ req'[q].at \in {"placeholder", "waitAgain"} /\ req'[q].job = j
          /\ ~HasJob(q) /\ ~Removing(q)
      BY <1>1, <2>1 DEF TypeOK, InsertJob, HasJob, Removing
    <2>4. UNCHANGED <<item, ready, section>>
      BY <1>1 DEF InsertJob
    <2> HIDE DEF i
    <2>5. NothingFailed'
      BY <1>0, <2>3 DEF NothingWaitsForEver, NothingFailed
    <2>6. \A p \in Requests : HasJob(p) => HasJob(p)' /\ req'[p].job = req[p].job
      BY <2>3 DEF HasJob
    <2>7. UnreadyHeld'
      <3> SUFFICES ASSUME NEW k \in Jobs, status'[k] \in Live, ~ready[k]
                   PROVE  \E p \in Requests : HasJob(p)' /\ req'[p].job = k
        BY <2>4 DEF UnreadyHeld
      <3>1. CASE k = j
        BY <2>3, <3>1 DEF HasJob
      <3>2. CASE k # j
        BY <2>2, <2>6, <3>2 DEF NothingWaitsForEver, UnreadyHeld
      <3> QED
        BY <3>1, <3>2
    <2>8. \A p \in Requests : Removing(p) => Removing(p)' /\ req'[p].item = req[p].item
      BY <2>3 DEF Removing
    <2>9. RemovalGoesOn'
      BY <2>4, <2>8 DEF NothingWaitsForEver, RemovalGoesOn
    <2>10. SettledRead'
      BY <1>0 DEF NothingWaitsForEver, SettledRead, Settling, Entry
    <2>11. WaitsForSomething'
      <3> SUFFICES ASSUME NEW k \in Items, section[k] = "processing"
                   PROVE  \/ \E l \in Jobs : itemOf'[l] = k /\ status'[l] \in Live
                          \/ \E s \in Replicas : Settling(s) /\ itemOf'[Entry(s).job] = k
                          \/ \E p \in Requests : Removing(p)' /\ req'[p].item = k
        BY <1>0, <2>4 DEF WaitsForSomething, Settling, Entry
      <3>1. \A l \in Jobs : status[l] \in Live => itemOf'[l] = itemOf[l] /\ status'[l] = status[l]
        BY <2>2 DEF Live
      <3>2. \A s \in Replicas : Settling(s) => itemOf'[Entry(s).job] = itemOf[Entry(s).job]
        <4> SUFFICES ASSUME NEW s \in Replicas, Settling(s)
                     PROVE  itemOf'[Entry(s).job] = itemOf[Entry(s).job]
          OBVIOUS
        <4>1. Entry(s).job \in Jobs /\ status[Entry(s).job] # "none"
          BY GoneEntry DEF Settling
        <4> QED
          BY <2>2, <4>1
      <3> QED
        BY <2>8, <3>1, <3>2 DEF NothingWaitsForEver, WaitsForSomething
    <2> QED
      BY <2>5, <2>7, <2>9, <2>10, <2>11 DEF NothingWaitsForEver
  <1>2. CASE InsertRefused(q)
    <2>1. UNCHANGED <<item, itemOf, status, ready, section>> /\ Answer(q)
          /\ ~HasJob(q) /\ ~Removing(q)
      BY <1>2 DEF InsertRefused, HasJob, Removing
    <2>2. (\A p \in Requests \ {q} : req'[p] = req[p]) /\ req'[q].at = "idle"
      BY <2>1, AnswerMeans
    <2>3. NothingFailed' /\ SettledRead'
      BY <1>0, <2>2 DEF NothingWaitsForEver, NothingFailed, SettledRead, Settling, Entry
    <2>4. /\ \A p \in Requests : HasJob(p) => HasJob(p)' /\ req'[p].job = req[p].job
          /\ \A p \in Requests : Removing(p) => Removing(p)' /\ req'[p].item = req[p].item
      BY <2>1, <2>2 DEF HasJob, Removing
    <2>5. UnreadyHeld' /\ RemovalGoesOn'
      BY <2>1, <2>4 DEF NothingWaitsForEver, UnreadyHeld, RemovalGoesOn
    <2>6. WaitsForSomething'
      BY <1>0, <2>1, <2>4 DEF NothingWaitsForEver, WaitsForSomething, Settling, Entry
    <2> QED
      BY <2>3, <2>5, <2>6 DEF NothingWaitsForEver
  <1>3. CASE Placeholder(q) \/ WaitAgain(q)
    <2> DEFINE i == req[q].item
               j == req[q].job
    <2>1. UNCHANGED <<item, itemOf, status, ready>> /\ Goto(q, "submit")
          /\ HasJob(q) /\ ~Removing(q) /\ req[q].at # "idle"
      BY <1>3 DEF Placeholder, WaitAgain, HasJob, Removing
    <2>2. /\ \A p \in Requests \ {q} : req'[p] = req[p]
          /\ req'[q].at = "submit" /\ req'[q].job = req[q].job
      BY <2>1, GotoMeans
    <2>3. \A k \in Items : \/ section'[k] = section[k]
                           \/ k = i /\ section[k] # "removed" /\ section'[k] # "removed"
      BY <1>3 DEF Placeholder, WaitAgain, TypeOK
    <2>4. /\ \A p \in Requests : HasJob(p) => HasJob(p)' /\ req'[p].job = req[p].job
          /\ \A p \in Requests : Removing(p) => Removing(p)' /\ req'[p].item = req[p].item
      BY <2>1, <2>2 DEF HasJob, Removing
    <2>5. /\ i \in Items /\ j \in Jobs /\ itemOf[j] = i
          /\ status[j] \in Live \/ item[i] \in {"rowless", "gone"}
      <3>1. i \in Items /\ j \in Jobs /\ itemOf[j] = i /\ status[j] \in {"queued", "gone"}
        BY <2>1 DEF RowsInv, RequestItems, JobsKnown, JobsHeld, Knows
      <3> QED
        BY <3>1 DEF RowsInv, RowsBelong, Row, Live
    <2> HIDE DEF i, j
    <2>6. NothingFailed' /\ SettledRead'
      BY <1>0, <2>2 DEF NothingWaitsForEver, NothingFailed, SettledRead, Settling, Entry
    <2>7. UnreadyHeld' /\ RemovalGoesOn'
      BY <2>1, <2>3, <2>4 DEF NothingWaitsForEver, UnreadyHeld, RemovalGoesOn
    <2>8. WaitsForSomething'
      <3> SUFFICES ASSUME NEW k \in Items, section'[k] = "processing"
                   PROVE  \/ \E l \in Jobs : itemOf[l] = k /\ status[l] \in Live
                          \/ \E s \in Replicas : Settling(s) /\ itemOf[Entry(s).job] = k
                          \/ \E p \in Requests : Removing(p) /\ req[p].item = k
        BY <1>0, <2>1, <2>4 DEF WaitsForSomething, Settling, Entry
      <3>1. CASE section[k] = "processing"
        BY <3>1 DEF NothingWaitsForEver, WaitsForSomething
      <3>2. CASE k = i /\ section[k] # "removed"
        <4>1. CASE status[j] \in Live
          BY <2>5, <3>2, <4>1
        <4>2. CASE item[i] \in {"rowless", "gone"}
          BY <2>5, <3>2, <4>2 DEF NothingWaitsForEver, RemovalGoesOn
        <4> QED
          BY <2>5, <4>1, <4>2
      <3> QED
        BY <2>3, <3>1, <3>2
    <2> QED
      BY <2>6, <2>7, <2>8 DEF NothingWaitsForEver
  <1>4. CASE Submit(q)
    <2> DEFINE j == req[q].job
    <2>1. /\ UNCHANGED <<item, itemOf, status, section>> /\ Answer(q) /\ HasJob(q) /\ ~Removing(q)
          /\ ready' = [ready EXCEPT ![j] = Row(j)]
      BY <1>4 DEF Submit, HasJob, Removing
    <2>2. (\A p \in Requests \ {q} : req'[p] = req[p]) /\ req'[q].at = "idle"
      BY <2>1, AnswerMeans
    <2>3. \A k \in Jobs : ready'[k] = IF k = j THEN Row(j) ELSE ready[k]
      BY <2>1 DEF TypeOK
    <2>4. /\ \A p \in Requests : HasJob(p) => p = q \/ (HasJob(p)' /\ req'[p].job = req[p].job)
          /\ \A p \in Requests : Removing(p) => Removing(p)' /\ req'[p].item = req[p].item
      BY <2>1, <2>2 DEF HasJob, Removing
    <2>5. NothingFailed' /\ SettledRead'
      BY <1>0, <2>2 DEF NothingWaitsForEver, NothingFailed, SettledRead, Settling, Entry
    <2>6. UnreadyHeld'
      <3> SUFFICES ASSUME NEW k \in Jobs, status[k] \in Live, ~ready'[k]
                   PROVE  \E p \in Requests : HasJob(p)' /\ req'[p].job = k
        BY <2>1 DEF UnreadyHeld
      <3>1. k # j /\ ~ready[k]
        BY <2>3 DEF Row, Live
      <3>2. PICK p \in Requests : HasJob(p) /\ req[p].job = k
        BY <3>1 DEF NothingWaitsForEver, UnreadyHeld
      <3> QED
        BY <2>4, <3>1, <3>2
    <2> HIDE DEF j
    <2>7. RemovalGoesOn'
      BY <2>1, <2>4 DEF NothingWaitsForEver, RemovalGoesOn
    <2>8. WaitsForSomething'
      BY <1>0, <2>1, <2>4 DEF NothingWaitsForEver, WaitsForSomething, Settling, Entry
    <2> QED
      BY <2>5, <2>6, <2>7, <2>8 DEF NothingWaitsForEver
  <1>5. CASE Refuse(q) \/ NoteFailure(q)
    BY <1>5 DEF Refuse, NoteFailure, NothingWaitsForEver, NothingFailed
  <1>6. CASE RemoveFiles(q)
    <2> DEFINE i == req[q].item
    <2>1. UNCHANGED <<itemOf, status, ready, section>> /\ Goto(q, "removeSection")
          /\ ~HasJob(q) /\ item' = [item EXCEPT ![i] = "gone"]
      BY <1>6 DEF RemoveFiles, HasJob
    <2>2. /\ \A p \in Requests \ {q} : req'[p] = req[p]
          /\ req'[q].at = "removeSection" /\ req'[q].item = req[q].item
      BY <2>1, GotoMeans
    <2>3. \A k \in Items : item'[k] = IF k = i THEN "gone" ELSE item[k]
      BY <2>1 DEF TypeOK
    <2>4. /\ \A p \in Requests : HasJob(p) => HasJob(p)' /\ req'[p].job = req[p].job
          /\ \A p \in Requests : Removing(p) => Removing(p)' /\ req'[p].item = req[p].item
          /\ Removing(q)' /\ req'[q].item = i
      BY <2>1, <2>2 DEF HasJob, Removing
    <2> HIDE DEF i
    <2>5. NothingFailed' /\ SettledRead'
      BY <1>0, <2>2 DEF NothingWaitsForEver, NothingFailed, SettledRead, Settling, Entry
    <2>6. UnreadyHeld' /\ RemovalGoesOn'
      BY <2>1, <2>3, <2>4 DEF NothingWaitsForEver, UnreadyHeld, RemovalGoesOn
    <2>7. WaitsForSomething'
      BY <1>0, <2>1, <2>4 DEF NothingWaitsForEver, WaitsForSomething, Settling, Entry
    <2> QED
      BY <2>5, <2>6, <2>7 DEF NothingWaitsForEver
  <1>7. CASE RemoveSection(q)
    <2> DEFINE i == req[q].item
    <2>1. UNCHANGED <<item, itemOf, status, ready>> /\ Answer(q)
          /\ ~HasJob(q) /\ section' = [section EXCEPT ![i] = "removed"]
      BY <1>7 DEF RemoveSection, HasJob
    <2>2. (\A p \in Requests \ {q} : req'[p] = req[p]) /\ req'[q].at = "idle"
      BY <2>1, AnswerMeans
    <2>3. \A k \in Items : section'[k] = IF k = i THEN "removed" ELSE section[k]
      BY <2>1 DEF TypeOK
    <2>4. /\ \A p \in Requests : HasJob(p) => HasJob(p)' /\ req'[p].job = req[p].job
          /\ \A p \in Requests : Removing(p) =>
               req[p].item = i \/ (Removing(p)' /\ req'[p].item = req[p].item)
      BY <2>1, <2>2 DEF HasJob, Removing
    <2> HIDE DEF i
    <2>5. NothingFailed' /\ SettledRead'
      BY <1>0, <2>2 DEF NothingWaitsForEver, NothingFailed, SettledRead, Settling, Entry
    <2>6. UnreadyHeld' /\ RemovalGoesOn'
      BY <2>1, <2>3, <2>4 DEF NothingWaitsForEver, UnreadyHeld, RemovalGoesOn
    <2>7. WaitsForSomething'
      BY <1>0, <2>1, <2>3, <2>4 DEF NothingWaitsForEver, WaitsForSomething, Settling, Entry
    <2> QED
      BY <2>5, <2>6, <2>7 DEF NothingWaitsForEver
  <1> QED
    BY <1>1, <1>2, <1>3, <1>4, <1>5, <1>6, <1>7 DEF RequestStep

\* An upload that goes is going to be removed from the notes.
LEMMA AskNotes ==
  ASSUME TypeOK, DeliveryInv, RowsInv, NothingWaitsForEver, NEW q \in Requests, NEW i \in Items,
         Upload(q, i) \/ RetryCheck(q, i) \/ Delete(q, i)
  PROVE  NothingWaitsForEver'
  <1> USE DEF database, history
  <1>1. /\ req[q].at = "idle"
        /\ \A p \in Requests \ {q} : req'[p] = req[p]
        /\ req'[q].item = i
        /\ req'[q].at \in {"insertUpload", "insertRetry", "removeFiles"}
        /\ UNCHANGED <<itemOf, section, cons, unsaid, unheard>>
    BY SMTT(60) DEF Upload, RetryCheck, Delete, TypeOK
  <1>2. /\ \A p \in Requests : HasJob(p) => HasJob(p)' /\ req'[p].job = req[p].job
        /\ \A p \in Requests : Removing(p) => Removing(p)' /\ req'[p].item = req[p].item
    BY <1>1 DEF HasJob, Removing
  <1>3. NothingFailed' /\ SettledRead'
    BY <1>1 DEF NothingWaitsForEver, NothingFailed, SettledRead, Settling, Entry
  <1>4. CASE Upload(q, i) \/ RetryCheck(q, i)
    <2>1. UNCHANGED <<status, ready>> /\ \A k \in Items : item'[k] \in {item[k], "stored"}
      BY <1>4 DEF Upload, RetryCheck, TypeOK
    <2>2. UnreadyHeld' /\ RemovalGoesOn'
      BY <1>1, <1>2, <2>1 DEF NothingWaitsForEver, UnreadyHeld, RemovalGoesOn
    <2>3. WaitsForSomething'
      BY <1>1, <1>2, <2>1 DEF NothingWaitsForEver, WaitsForSomething, Settling, Entry
    <2> QED
      BY <1>3, <2>2, <2>3 DEF NothingWaitsForEver
  <1>5. CASE Delete(q, i)
    <2>1. /\ \A k \in Items : item'[k] = IF k = i THEN "rowless" ELSE item[k]
          /\ \A j \in Jobs : status'[j] = IF j \in JobsOf(i) THEN "gone" ELSE status[j]
          /\ \A j \in Jobs : ready'[j] = (ready[j] /\ j \notin JobsOf(i))
          /\ Removing(q)' /\ req'[q].item = i
      BY <1>5 DEF Delete, TypeOK, Removing
    <2>2. \A j \in Jobs : /\ j \in JobsOf(i) => itemOf[j] = i
                          /\ ready[j] \in BOOLEAN
      BY DEF JobsOf, TypeOK
    <2>3. UnreadyHeld'
      <3>1. \A j \in Jobs : status'[j] \in Live /\ ~ready'[j] => status[j] \in Live /\ ~ready[j]
        BY <2>1, <2>2 DEF Live
      <3> QED
        BY <1>2, <3>1 DEF NothingWaitsForEver, UnreadyHeld
    <2>4. RemovalGoesOn'
      BY <1>1, <1>2, <2>1 DEF NothingWaitsForEver, RemovalGoesOn
    <2>5. WaitsForSomething'
      <3> SUFFICES ASSUME NEW k \in Items, section[k] = "processing", k # i
                   PROVE  \/ \E l \in Jobs : itemOf[l] = k /\ status'[l] \in Live
                          \/ \E s \in Replicas : Settling(s) /\ itemOf[Entry(s).job] = k
                          \/ \E p \in Requests : Removing(p) /\ req[p].item = k
        BY <1>1, <1>2, <2>1 DEF WaitsForSomething, Settling, Entry
      <3>1. \A l \in Jobs : itemOf[l] = k => status'[l] = status[l]
        BY <2>1, <2>2
      <3> QED
        BY <3>1 DEF NothingWaitsForEver, WaitsForSomething
    <2> QED
      BY <1>3, <2>3, <2>4, <2>5 DEF NothingWaitsForEver
  <1> QED
    BY <1>4, <1>5

\* Every step keeps NotesInv.
LEMMA NextNotes == TypeOK /\ DeliveryInv /\ RowsInv /\ NotesInv /\ [Next]_vars => NotesInv'
  <1> SUFFICES ASSUME TypeOK, DeliveryInv, RowsInv, NotesInv, [Next]_vars, faults' = 0
               PROVE  NothingWaitsForEver'
    BY DEF NotesInv
  <1> USE DEF database, history
  <1>1. Fault => faults' > 0
    BY DEF Fault, TypeOK
  <1>2. CASE UNCHANGED vars
    BY <1>2, NotesFrame DEF vars, NotesInv
  <1>3. ASSUME NEW w \in Workers, WorkerStep(w) \/ Kill(w) \/ HardLimit(w)
        PROVE  NothingWaitsForEver'
    <2>1. /\ UNCHANGED <<item, itemOf, status, ready, section, req, cons, unheard>>
          /\ unsaid' = unsaid /\ faults' = faults
      BY <1>1, <1>3 DEF WorkerStep, Take, Start, Finish, Fail, Transient, Ack, Kill, HardLimit, Emit
    <2> QED
      BY <2>1, NotesFrame DEF NotesInv
  <1>4. ASSUME NEW r \in Replicas, DispatchStep(r)
        PROVE  NothingWaitsForEver'
    <2>1. UNCHANGED <<item, itemOf, status, ready, section, req, cons, unsaid, unheard, faults>>
      BY <1>4 DEF DispatchStep, Measure, Choose, Send, Commit
    <2> QED
      BY <2>1, NotesFrame DEF NotesInv
  <1>5. ASSUME NEW r \in Replicas, ConsumerStep(r)
        PROVE  NothingWaitsForEver'
    <2>1. faults' = faults
      BY <1>5 DEF ConsumerStep, Read, Apply, InsertArtifacts, Reread, Publish, LookUp, GetTexts, Fill
    <2> QED
      BY <1>5, <2>1, ConsumerNotes DEF NotesInv
  <1>6. ASSUME NEW q \in Requests, RequestStep(q)
        PROVE  NothingWaitsForEver'
    <2>1. faults' = faults
      BY <1>6 DEF RequestStep, InsertJob, InsertRefused, Placeholder, WaitAgain, Submit, Refuse,
                  NoteFailure, RemoveFiles, RemoveSection
    <2> QED
      BY <1>6, <2>1, HandlerNotes DEF NotesInv
  <1>7. ASSUME NEW q \in Requests, NEW i \in Items, Upload(q, i) \/ RetryCheck(q, i) \/ Delete(q, i)
        PROVE  NothingWaitsForEver'
    <2>1. faults' = faults
      BY <1>7 DEF Upload, RetryCheck, Delete
    <2> QED
      BY <1>7, <2>1, AskNotes DEF NotesInv
  <1>8. \A q \in Requests : ~RequestFails(q)
    BY <1>1 DEF RequestFails, EditFails, SubmitFails, RequestDies
  <1>9. \A r \in Replicas : ~Abort(r) /\ ~HandlerFails(r) /\ ~ReplicaCrash(r)
    BY <1>1 DEF Abort, HandlerFails, ReplicaCrash
  <1>10. CASE Next
    BY <1>3, <1>4, <1>5, <1>6, <1>7, <1>8, <1>9, <1>10 DEF Next
  <1> QED
    BY <1>2, <1>10

\* While nothing has failed, a section that waits has something coming for it.
THEOREM NotesCorrect == Spec => []NotesInv
  BY InitNotes, NextNotes, TypeCorrect, DeliveryCorrect, RowsCorrect, PTL DEF Spec

\* If nothing failed, then once everything has come to rest every job is settled
\* and no section still says it is being enhanced, in whatever order retries,
\* deletions and outcomes reached it.
THEOREM NothingLeftWaiting == Spec => []RestsSettled
  <1>1. TypeOK /\ NoJobLost /\ NotesInv => RestsSettled
    <2> SUFFICES ASSUME TypeOK, NoJobLost, NothingWaitsForEver, Quiet
                 PROVE  /\ \A j \in Jobs : status[j] \notin Live
                        /\ \A i \in Items : section[i] # "processing"
      BY DEF RestsSettled, NotesInv
    <2>1. \A q \in Requests : ~HasJob(q) /\ ~Removing(q)
      BY DEF Quiet, HasJob, Removing
    <2>2. \A j \in Jobs : status[j] \notin Live
      <3> SUFFICES ASSUME NEW j \in Jobs, status[j] \in Live PROVE FALSE
        OBVIOUS
      <3>1. ready[j]
        BY <2>1 DEF NothingWaitsForEver, UnreadyHeld
      <3>2. ~(status[j] = "queued" /\ ~dispatched[j])
        BY <3>1 DEF Quiet, Waiting
      <3>3. Messages(j) = {} /\ Reports(j) = {}
        BY DEF Quiet, Messages, Reports
      <3>4. Holders(j) = {}
        BY DEF Quiet, Holders
      <3>5. Delivering(j) = {}
        BY DEF Quiet, Delivering, Dropped
      <3>6. j \notin unsaid \cup unheard
        BY DEF NothingWaitsForEver, NothingFailed
      <3> QED
        BY <3>1, <3>2, <3>3, <3>4, <3>5, <3>6 DEF NoJobLost
    <2>3. \A r \in Replicas : ~Settling(r)
      BY DEF Quiet, Settling
    <2> QED
      BY <2>1, <2>2, <2>3 DEF NothingWaitsForEver, WaitsForSomething
  <1> QED
    BY <1>1, TypeCorrect, NoJobIsLost, NotesCorrect, PTL

-----------------------------------------------------------------------------
\* A section that was removed with its upload never comes back, whatever
\* completions, retries and placeholders are still in flight.
THEOREM RemovedForGood == Spec => RemovedStaysRemoved
  <1> USE DEF database, history
  <1>1. TypeOK /\ [Next]_vars
          => [\A i \in Items : section[i] = "removed" => section'[i] = "removed"]_section
    <2> SUFFICES ASSUME TypeOK, [Next]_vars
                 PROVE  \/ \A i \in Items : section[i] = "removed" => section'[i] = "removed"
                        \/ UNCHANGED section
      OBVIOUS
    <2>1. CASE UNCHANGED vars
      BY <2>1 DEF vars
    <2>2. ASSUME NEW q \in Requests, Placeholder(q) \/ WaitAgain(q) \/ NoteFailure(q) \/ RemoveSection(q)
          PROVE  \A i \in Items : section[i] = "removed" => section'[i] = "removed"
      <3> DEFINE k == req[q].item
      <3>1. PICK new : /\ section' = [section EXCEPT ![k] = new]
                       /\ section[k] = "removed" => new = "removed"
        BY <2>2 DEF Placeholder, WaitAgain, NoteFailure, RemoveSection, Finished
      <3> QED
        BY <3>1 DEF TypeOK
    <2>3. ASSUME NEW r \in Replicas, Fill(r)
          PROVE  \A i \in Items : section[i] = "removed" => section'[i] = "removed"
      BY <2>3 DEF Fill, Finished, TypeOK
    <2>4. ASSUME NEW q \in Requests,
                 \/ InsertJob(q) \/ InsertRefused(q) \/ Submit(q) \/ Refuse(q) \/ RemoveFiles(q)
                 \/ RequestFails(q)
          PROVE  UNCHANGED section
      BY <2>4 DEF InsertJob, InsertRefused, Submit, Refuse, RemoveFiles, RequestFails, EditFails,
                  SubmitFails, RequestDies
    <2>5. ASSUME NEW q \in Requests, NEW i \in Items, Upload(q, i) \/ RetryCheck(q, i) \/ Delete(q, i)
          PROVE  UNCHANGED section
      BY <2>5 DEF Upload, RetryCheck, Delete
    <2>6. ASSUME NEW r \in Replicas, DispatchStep(r) \/ Abort(r)
          PROVE  UNCHANGED section
      BY <2>6 DEF DispatchStep, Measure, Choose, Send, Commit, Abort
    <2>7. ASSUME NEW r \in Replicas, ConsumerStep(r) \/ HandlerFails(r) \/ ReplicaCrash(r), ~Fill(r)
          PROVE  UNCHANGED section
      BY <2>7 DEF ConsumerStep, Read, Apply, InsertArtifacts, Reread, Publish, LookUp, GetTexts,
                  HandlerFails, ReplicaCrash
    <2>8. ASSUME NEW w \in Workers, WorkerStep(w) \/ Kill(w) \/ HardLimit(w)
          PROVE  UNCHANGED section
      BY <2>8 DEF WorkerStep, Take, Start, Finish, Fail, Transient, Ack, Kill, HardLimit
    <2>9. CASE Next
      BY <2>2, <2>3, <2>4, <2>5, <2>6, <2>7, <2>8, <2>9 DEF Next, RequestStep
    <2> QED
      BY <2>1, <2>9
  <1> QED
    BY <1>1, TypeCorrect, PTL DEF Spec, RemovedStaysRemoved
=============================================================================
