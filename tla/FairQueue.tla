----------------------------- MODULE FairQueue -----------------------------
(***************************************************************************)
(* Which waiting job goes to a pool next, and where the people in a room   *)
(* are told their jobs stand:                                              *)
(*                                                                         *)
(*   gateway/src/queue/fair.ts           fairOrder                         *)
(*   gateway/src/queue/dispatcher.ts     its use, in flight, last served   *)
(*   gateway/src/http/routes/queue.ts    positionsIn                       *)
(*                                                                         *)
(* One pool.  A dispatch is one step: JobPipeline has its interleavings.   *)
(* What the pool does with a job reaches the rows late, as events.         *)
(* Jobs are numbered in the order of (created_at, id), so the number       *)
(* stands for both.  Stamps are in the milliseconds of `now', the clock    *)
(* all replicas share; MaxNow bounds it.  MaxJobs bounds the jobs and the  *)
(* roll backs of a behaviour together.                                     *)
(***************************************************************************)
EXTENDS Naturals, Sequences, FiniteSets

CONSTANTS
  Sessions,
  MaxJobs,
  Replicas,
  DispatchAhead,  \* config.dispatchAhead
  MaxNow,
  MaxRollbacks,   \* bound on dispatches that roll back
  NoSession

ASSUME MaxJobsAssumption   == MaxJobs \in Nat
ASSUME DispatchAssumption  == DispatchAhead \in Nat \ {0}
ASSUME ClockAssumption     == MaxNow \in Nat \ {0}
ASSUME RollbacksAssumption == MaxRollbacks \in Nat
ASSUME NoSessionAssumption == NoSession \notin Sessions

Jobs == 1 .. MaxJobs

VARIABLES
  owner,      \* the session of the job's room
  created,    \* created_at
  state,      \* status, "settled" for done and failed
  ready,      \* payload IS NOT NULL
  stamp,      \* dispatched_at, 0 for NULL
  pool,       \* the pool's list, next job first
  taken,      \* jobs a worker took, in that order, and has said nothing of yet
  lastStamp,  \* per replica, the last stamp it gave
  now,
  rollbacks,
  passed      \* history: passed[s][t] jobs of t went while s had one ready and none in flight

vars == <<owner, created, state, ready, stamp, pool, taken, lastStamp, now, rollbacks, passed>>

\* Type invariant; and the list never holds more than DispatchAhead.
TypeOK ==
  /\ owner \in [Jobs -> Sessions \cup {NoSession}]
  /\ created \in [Jobs -> 0 .. MaxNow]
  /\ state \in [Jobs -> {"none", "queued", "processing", "settled"}]
  /\ ready \in [Jobs -> BOOLEAN]
  /\ stamp \in [Jobs -> Nat]
  /\ pool \in Seq(Jobs) /\ Len(pool) <= DispatchAhead
  /\ taken \in Seq(Jobs)
  /\ lastStamp \in [Replicas -> Nat]
  /\ now \in 1 .. MaxNow
  /\ rollbacks \in 0 .. MaxRollbacks
  /\ passed \in [Sessions -> [Sessions -> Nat]]

Init ==
  /\ owner = [j \in Jobs |-> NoSession]
  /\ created = [j \in Jobs |-> 0]
  /\ state = [j \in Jobs |-> "none"]
  /\ ready = [j \in Jobs |-> FALSE]
  /\ stamp = [j \in Jobs |-> 0]
  /\ pool = <<>>
  /\ taken = <<>>
  /\ lastStamp = [r \in Replicas |-> 0]
  /\ now = 1
  /\ rollbacks = 0
  /\ passed = [s \in Sessions |-> [t \in Sessions |-> 0]]

(***************************************************************************)
(* fairOrder, by rank: the place of a job is the number of jobs before it. *)
(* flight and served give, per session, how many of its jobs the pool has  *)
(* and when it was last handed one.                                        *)
(***************************************************************************)

\* Mutant: arrival order.
ArrivalOrder(a, b, waiting, flight, served) == a < b

\* Mutant: ties go to the older job at once.
BeforeByAge(a, b, waiting, flight, served) ==
  LET turn(j) == flight[owner[j]] + Cardinality({k \in waiting : owner[k] = owner[j] /\ k <= j})
  IN turn(a) < turn(b) \/ (turn(a) = turn(b) /\ a < b)

Before(a, b, waiting, flight, served) ==
  LET turn(j) == flight[owner[j]] + Cardinality({k \in waiting : owner[k] = owner[j] /\ k <= j})
      last(j) == served[owner[j]]
  IN \/ turn(a) < turn(b)
     \/ turn(a) = turn(b) /\ last(a) < last(b)
     \/ turn(a) = turn(b) /\ last(a) = last(b) /\ a < b

Rank(j, waiting, flight, served) ==
  Cardinality({k \in waiting : Before(k, j, waiting, flight, served)})

FairOrder(waiting, flight, served) ==
  [n \in 1 .. Cardinality(waiting) |->
     CHOOSE j \in waiting : Rank(j, waiting, flight, served) = n - 1]

(***************************************************************************)
(* What the dispatcher reads.                                              *)
(***************************************************************************)
Active(j) == state[j] \in {"queued", "processing"}

Waiting == {j \in Jobs : state[j] = "queued" /\ ready[j] /\ stamp[j] = 0}

\* inFlightBySession
InFlight == [s \in Sessions |-> Cardinality({j \in Jobs : owner[j] = s /\ stamp[j] # 0 /\ Active(j)})]

\* Mutant: the last time a job of the session still with the pool was handed over.
LastServedOfActive ==
  [s \in Sessions |->
     LET stamps == {0} \cup {stamp[j] : j \in {k \in Jobs : owner[k] = s /\ Active(k)}}
     IN CHOOSE t \in stamps : \A u \in stamps : u <= t]

\* lastServedBySession; the day it looks back is longer than MaxNow.
LastServed ==
  [s \in Sessions |->
     LET stamps == {0} \cup {stamp[j] : j \in {k \in Jobs : owner[k] = s}}
     IN CHOOSE t \in stamps : \A u \in stamps : u <= t]

\* Mutant: everything that waits is sent.
ChosenAll == FairOrder(Waiting, InFlight, LastServed)

\* The next jobs to send: the free places of the list, in fair order.
Chosen ==
  LET order == FairOrder(Waiting, InFlight, LastServed)
      free  == DispatchAhead - Len(pool)
  IN SubSeq(order, 1, IF Len(order) < free THEN Len(order) ELSE free)

(***************************************************************************)
(* Actions.                                                                *)
(***************************************************************************)
Tick ==
  /\ now < MaxNow
  /\ now' = now + 1
  /\ UNCHANGED <<owner, created, state, ready, stamp, pool, taken, lastStamp, rollbacks, passed>>

WithinBounds == Cardinality({j \in Jobs : state[j] # "none"}) + rollbacks < MaxJobs

\* insertJob: the row is there, and says nothing of where to send it.
Insert(s) ==
  /\ WithinBounds
  /\ \E j \in Jobs :
    /\ state[j] = "none" /\ \A k \in Jobs : state[k] = "none" => j <= k
    /\ owner' = [owner EXCEPT ![j] = s]
    /\ created' = [created EXCEPT ![j] = now]
    /\ state' = [state EXCEPT ![j] = "queued"]
    /\ UNCHANGED <<ready, stamp, pool, taken, lastStamp, now, rollbacks, passed>>

\* submitJob, if the request lives to call it.
Submit(j) ==
  /\ state[j] = "queued" /\ ~ready[j]
  /\ ready' = [ready EXCEPT ![j] = TRUE]
  /\ UNCHANGED <<owner, created, state, stamp, pool, taken, lastStamp, now, rollbacks, passed>>

\* dispatchStamp, of the n-th job of a pass of replica r.
DispatchStamp(r, n) == (IF now > lastStamp[r] + 1 THEN now ELSE lastStamp[r] + 1) + n - 1

\* A session that waits with nothing in flight is passed by every session that
\* has a job taken; it starts anew once it is served or has nothing ready.
Overtakes(sent) ==
  passed' = [s \in Sessions |-> [t \in Sessions |->
    IF \/ \E j \in sent : owner[j] = s
       \/ \A j \in Waiting : owner[j] # s
       \/ InFlight[s] > 0
    THEN 0
    ELSE passed[s][t] + Cardinality({j \in sent : owner[j] = t})]]

Dispatch(r) ==
  /\ Len(pool) < DispatchAhead /\ Waiting # {}
  /\ LET chosen == Chosen
         sent   == {chosen[n] : n \in 1 .. Len(chosen)}
         at(j)  == CHOOSE n \in 1 .. Len(chosen) : chosen[n] = j
     IN /\ pool' = pool \o chosen
        /\ stamp' = [j \in Jobs |-> IF j \in sent THEN DispatchStamp(r, at(j)) ELSE stamp[j]]
        /\ lastStamp' = [lastStamp EXCEPT ![r] = DispatchStamp(r, Len(chosen))]
        /\ Overtakes(sent)
  /\ UNCHANGED <<owner, created, state, ready, taken, now, rollbacks>>

\* The first n jobs were pushed, and the transaction rolled back.
DispatchRollsBack(r) ==
  /\ rollbacks < MaxRollbacks /\ WithinBounds
  /\ Len(pool) < DispatchAhead /\ Waiting # {}
  /\ LET chosen == Chosen IN
     \E n \in 1 .. Len(chosen) :
       /\ pool' = pool \o SubSeq(chosen, 1, n)
       /\ lastStamp' = [lastStamp EXCEPT ![r] = DispatchStamp(r, n)]
  /\ rollbacks' = rollbacks + 1
  /\ UNCHANGED <<owner, created, state, ready, stamp, taken, now, passed>>

\* A worker takes the next message.  One that was settled by an earlier run
\* leaves no trace of the second.
Take ==
  /\ pool # <<>>
  /\ pool' = Tail(pool)
  /\ taken' = IF state[Head(pool)] = "queued" /\ \A n \in 1 .. Len(taken) : taken[n] # Head(pool)
              THEN Append(taken, Head(pool)) ELSE taken
  /\ UNCHANGED <<owner, created, state, ready, stamp, lastStamp, now, rollbacks, passed>>

\* It is in the list once, or not any more.
Heard(j) ==
  \/ taken' = taken /\ \A n \in 1 .. Len(taken) : taken[n] # j
  \/ \E n \in 1 .. Len(taken) :
       taken[n] = j /\ taken' = SubSeq(taken, 1, n - 1) \o SubSeq(taken, n + 1, Len(taken))

\* updateJobFromEvent: the worker's first event is applied, or its last.
Begin(j) ==
  /\ \E n \in 1 .. Len(taken) : taken[n] = j
  /\ state' = [state EXCEPT ![j] = "processing"]
  /\ Heard(j)
  /\ UNCHANGED <<owner, created, ready, stamp, pool, lastStamp, now, rollbacks, passed>>

Settle(j) ==
  /\ state[j] = "processing" \/ \E n \in 1 .. Len(taken) : taken[n] = j
  /\ state' = [state EXCEPT ![j] = "settled"]
  /\ Heard(j)
  /\ UNCHANGED <<owner, created, ready, stamp, pool, lastStamp, now, rollbacks, passed>>

Next ==
  \/ Tick \/ Take
  \/ \E s \in Sessions : Insert(s)
  \/ \E j \in Jobs : Submit(j) \/ Begin(j) \/ Settle(j)
  \/ \E r \in Replicas : Dispatch(r) \/ DispatchRollsBack(r)

Spec == Init /\ [][Next]_vars

(***************************************************************************)
(* The queue view, positionsIn: per queued job, how many are ahead of it.  *)
(***************************************************************************)

\* The route's dispatchedAt: a row without a payload was sent straight away,
\* when it was created.
ViewedStamp(j) == IF stamp[j] # 0 THEN stamp[j] ELSE IF ready[j] THEN 0 ELSE created[j]

\* Mutant: only the jobs that run are in flight.
ViewedRunning ==
  [s \in Sessions |-> Cardinality({j \in Jobs : owner[j] = s /\ state[j] = "processing"})]

ViewedInFlight ==
  [s \in Sessions |-> Cardinality({j \in Jobs : owner[j] = s /\
     (state[j] = "processing" \/ (state[j] = "queued" /\ ViewedStamp(j) # 0))})]

ViewedSent    == {j \in Jobs : state[j] = "queued" /\ ViewedStamp(j) # 0}
ViewedWaiting == {j \in Jobs : state[j] = "queued" /\ ViewedStamp(j) = 0}

Position(j) ==
  IF j \in ViewedSent
  THEN Cardinality({k \in ViewedSent :
         \/ ViewedStamp(k) < ViewedStamp(j)
         \/ ViewedStamp(k) = ViewedStamp(j) /\ created[k] < created[j]
         \/ ViewedStamp(k) = ViewedStamp(j) /\ created[k] = created[j] /\ k < j})
  ELSE Cardinality(ViewedSent) + Rank(j, ViewedWaiting, ViewedInFlight, LastServed)

(***************************************************************************)
(* Properties.                                                             *)
(***************************************************************************)

\* fair.ts:10-14: while a session waits with nothing in flight, no other
\* session has two jobs taken, however fast its jobs are done and however many
\* it has; ties on an idle pool go to the session served longest ago.
NobodyPassesTwice == \A s, t \in Sessions : passed[s][t] <= 1

\* fair.ts:8-11: a dispatch that takes a job of session s and leaves one of
\* session t waiting has not given s more than one turn over t.
TakesTurns ==
  [][\A s, t \in Sessions :
       LET served == {j \in Waiting : owner[j] = s /\ stamp'[j] # 0}
           left   == {j \in Waiting : owner[j] = t /\ stamp'[j] = 0}
       IN served # {} /\ left # {} => InFlight[s]' <= InFlight[t]' + 1]_stamp

\* The dispatcher's and the view's figures agree: no row lacks its payload,
\* and nothing runs that is not marked as dispatched.
Regular == \A j \in Jobs : (Active(j) => ready[j]) /\ (stamp[j] = 0 => state[j] # "processing")

\* queue.ts:36-42: the jobs the view counts ahead of a job are those that go
\* before it: those taken and in front of it in the pool's list, or else all of
\* these and the waiting ones a dispatch with room for all would send first.
ViewIsPoolOrder ==
  \A j \in Jobs : state[j] = "queued" /\ ready[j] =>
    LET line == taken \o pool \o FairOrder(Waiting, InFlight, LastServed)
    IN Position(j) < Len(line) /\ line[Position(j) + 1] = j

\* The same, where the rows are regular and each job was sent once.
RegularViewIsPoolOrder == rollbacks = 0 /\ Regular => ViewIsPoolOrder
=============================================================================
