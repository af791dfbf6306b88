------------------------------ MODULE Webhooks ------------------------------
(***************************************************************************)
(* The webhook dispatcher (gateway/src/webhooks) of one session: the       *)
(* replicas share one backlog of due deliveries in Redis, claim from it,   *)
(* POST to the endpoints the owner registered, and put back what is to be  *)
(* retried.  The owner registers, deactivates and replays through          *)
(* http/routes/webhooks.ts.  When a delivery is due is left open: one that *)
(* is in the backlog may be claimed at any later moment.                   *)
(***************************************************************************)
EXTENDS Naturals, FiniteSets, SequencesExt

CONSTANTS Replica, Event, Endpoint, Delivery, None,
          MaxAttempts,  \* config.webhooks.maxAttempts
          Concurrency,  \* config.webhooks.concurrency
          MaxReplays,   \* how often the owner replays a delivery
          MaxFaults     \* crashes of a replica and failed calls of an attempt

VARIABLES endpoints,  \* webhook_endpoints: "none", "active" or "off"; all "gone" with the session
          rows,       \* webhook_deliveries
          backlog,    \* the sorted set of deliveries waiting to be attempted
          unread,     \* entries of the job event stream its group has not been given
          reader,     \* the stream loop of each replica
          attempts,   \* the attempts of each replica that have not ended
          replaying,  \* the row a replay inserted and has not scheduled yet
          posted,     \* history: how often each delivery's endpoint was called
          dropped,    \* history: deliveries whose replica stopped, or whose call failed, under them
          replays, faults
vars == <<endpoints, rows, backlog, unread, reader, attempts, replaying, posted, dropped, replays, faults>>

Idle == [left |-> <<>>, event |-> None, made |-> None]
Rows == [endpoint : Endpoint, event : Event, attempt : 0..MaxAttempts, state : {"pending", "delivered", "failed"}]
Attempts == [step : {"read", "send", "record", "schedule"}, outcome : {"ok", "again", "no", "none"},
             attempt : 0..MaxAttempts]

(* Assumed of an instance: there is an attempt to make, finitely many        *)
(* endpoints and ids, and None is none of what it stands for the absence of. *)
HooksAssumption ==
    /\ MaxAttempts \in Nat \ {0} /\ Concurrency \in Nat /\ MaxReplays \in Nat /\ MaxFaults \in Nat
    /\ IsFiniteSet(Endpoint) /\ IsFiniteSet(Delivery)
    /\ None \notin Event \cup Endpoint \cup Delivery \cup Rows

TypeOK ==
    /\ endpoints \in [Endpoint -> {"none", "active", "off", "gone"}]
    /\ rows \in [Delivery -> Rows \cup {None}]
    /\ backlog \subseteq Delivery
    /\ unread \subseteq Event
    /\ \A r \in Replica : /\ reader[r].event \in Event \cup {None} /\ reader[r].made \in Delivery \cup {None}
                          /\ \A i \in DOMAIN reader[r].left : reader[r].left[i] \in Endpoint
                          /\ DOMAIN attempts[r] \subseteq Delivery
                          /\ \A d \in DOMAIN attempts[r] : attempts[r][d] \in Attempts
                          /\ Cardinality(DOMAIN attempts[r]) <= Concurrency
    /\ replaying \in Delivery \cup {None}
    /\ posted \in [Delivery -> 0..MaxAttempts]
    /\ dropped \subseteq Delivery
    /\ replays \in 0..MaxReplays /\ faults \in 0..MaxFaults

Init ==
    /\ endpoints = [p \in Endpoint |-> "none"]
    /\ rows = [d \in Delivery |-> None]
    /\ backlog = {} /\ unread = Event
    /\ reader = [r \in Replica |-> Idle]
    /\ attempts = [r \in Replica |-> <<>>]
    /\ replaying = None
    /\ posted = [d \in Delivery |-> 0] /\ dropped = {}
    /\ replays = 0 /\ faults = 0

-----------------------------------------------------------------------------
(* The owner's requests.                                                     *)

Register(p) ==
    /\ endpoints[p] = "none"
    /\ endpoints' = [endpoints EXCEPT ![p] = "active"]
    /\ UNCHANGED <<rows, backlog, unread, reader, attempts, replaying, posted, dropped, replays, faults>>

Deactivate(p) ==
    /\ endpoints[p] = "active"
    /\ endpoints' = [endpoints EXCEPT ![p] = "off"]
    /\ UNCHANGED <<rows, backlog, unread, reader, attempts, replaying, posted, dropped, replays, faults>>

(* A row no delivery used yet, for an id of nanoid(16).                      *)
Fresh == {d \in Delivery : rows[d] = None /\ posted[d] = 0 /\ d \notin backlog}
NewRow(p, e) == [endpoint |-> p, event |-> e, attempt |-> 0, state |-> "pending"]

(* Replaying clones the row, whatever its state, and then schedules the      *)
(* clone.                                                                    *)
Replay(d) ==
    /\ replays < MaxReplays /\ replaying = None /\ rows[d] # None /\ Fresh # {}
    /\ LET clone == CHOOSE f \in Fresh : TRUE
       IN  /\ rows' = [rows EXCEPT ![clone] = NewRow(rows[d].endpoint, rows[d].event)]
           /\ replaying' = clone
    /\ replays' = replays + 1
    /\ UNCHANGED <<endpoints, backlog, unread, reader, attempts, posted, dropped, faults>>

ScheduleReplay ==
    /\ replaying # None
    /\ backlog' = backlog \cup {replaying} /\ replaying' = None
    /\ UNCHANGED <<endpoints, rows, unread, reader, attempts, posted, dropped, replays, faults>>

(* The session ends: its endpoints go, and their deliveries with them.       *)
SessionGoes ==
    /\ endpoints # [p \in Endpoint |-> "gone"]
    /\ endpoints' = [p \in Endpoint |-> "gone"]
    /\ rows' = [d \in Delivery |-> None]
    /\ UNCHANGED <<backlog, unread, reader, attempts, replaying, posted, dropped, replays, faults>>

-----------------------------------------------------------------------------
(* The stream loop.  Its group hands an entry to one replica; the active     *)
(* endpoints are read once, and one row each is inserted and scheduled.      *)

Read(r, e) ==
    /\ reader[r] = Idle /\ e \in unread
    /\ unread' = unread \ {e}
    /\ reader' = [reader EXCEPT ![r] =
         [Idle EXCEPT !.event = e, !.left = SetToSeq({p \in Endpoint : endpoints[p] = "active"})]]
    /\ UNCHANGED <<endpoints, rows, backlog, attempts, replaying, posted, dropped, replays, faults>>

(* The insert fails when the endpoint has gone since: the error ends the     *)
(* entry, which is acknowledged all the same.                                *)
Insert(r) ==
    /\ reader[r].event # None /\ reader[r].made = None /\ reader[r].left # <<>>
    /\ \/ /\ endpoints[Head(reader[r].left)] = "gone"
          /\ reader' = [reader EXCEPT ![r] = Idle] /\ UNCHANGED rows
       \/ /\ endpoints[Head(reader[r].left)] # "gone" /\ Fresh # {}
          /\ LET d == CHOOSE f \in Fresh : TRUE
             IN  /\ rows' = [rows EXCEPT ![d] = NewRow(Head(reader[r].left), reader[r].event)]
                 /\ reader' = [reader EXCEPT ![r].made = d]
    /\ UNCHANGED <<endpoints, backlog, unread, attempts, replaying, posted, dropped, replays, faults>>

Schedule(r) ==
    /\ reader[r].made # None
    /\ backlog' = backlog \cup {reader[r].made}
    /\ reader' = [reader EXCEPT ![r].made = None, ![r].left = Tail(@)]
    /\ UNCHANGED <<endpoints, rows, unread, attempts, replaying, posted, dropped, replays, faults>>

Acknowledge(r) ==
    /\ reader[r].event # None /\ reader[r].made = None /\ reader[r].left = <<>>
    /\ reader' = [reader EXCEPT ![r] = Idle]
    /\ UNCHANGED <<endpoints, rows, backlog, unread, attempts, replaying, posted, dropped, replays, faults>>

-----------------------------------------------------------------------------
(* The delivery loop and the attempts it starts, which it does not await.    *)

(* Mutant: the due deliveries are read and left in the sorted set. *)
TakesNone(due) == backlog
Takes(due) == backlog \ due

Claim(r, due) ==
    /\ due # {} /\ Cardinality(due) + Cardinality(DOMAIN attempts[r]) <= Concurrency
    /\ backlog' = Takes(due)
    /\ attempts' = [attempts EXCEPT ![r] =
         [d \in DOMAIN @ \cup due |-> IF d \in due THEN [step |-> "read", outcome |-> "none", attempt |-> 0] ELSE @[d]]]
    /\ UNCHANGED <<endpoints, rows, unread, reader, replaying, posted, dropped, replays, faults>>

Ended(r, d) == attempts' = [attempts EXCEPT ![r] = [x \in DOMAIN @ \ {d} |-> @[x]]]
At(r, d, step) == d \in DOMAIN attempts[r] /\ attempts[r][d].step = step

(* getPendingWebhookDelivery; nothing is left to do for a row that has gone  *)
(* or is settled.  The endpoint being off fails the delivery for good.       *)
Settled(d) == rows[d] = None \/ rows[d].state # "pending"
Look(r, d) ==
    /\ At(r, d, "read")
    /\ IF Settled(d) THEN Ended(r, d)
       ELSE LET off == endpoints[rows[d].endpoint] = "off"
            IN  attempts' = [attempts EXCEPT ![r][d] =
                  [step |-> IF off THEN "record" ELSE "send", outcome |-> IF off THEN "no" ELSE "none",
                   attempt |-> rows[d].attempt + 1]]
    /\ UNCHANGED <<endpoints, rows, backlog, unread, reader, replaying, posted, dropped, replays, faults>>

(* The URL no longer stands up to validateWebhookUrl.                        *)
Reject(r, d) ==
    /\ At(r, d, "send")
    /\ attempts' = [attempts EXCEPT ![r][d].step = "record", ![r][d].outcome = "no"]
    /\ UNCHANGED <<endpoints, rows, backlog, unread, reader, replaying, posted, dropped, replays, faults>>

(* The POST: taken, to be tried again (429, 5xx, no answer in time, no       *)
(* connection), or refused on its merits.                                    *)
Post(r, d, outcome) ==
    /\ At(r, d, "send")
    /\ posted' = [posted EXCEPT ![d] = @ + 1]
    /\ attempts' = [attempts EXCEPT ![r][d].step = "record", ![r][d].outcome = outcome]
    /\ UNCHANGED <<endpoints, rows, backlog, unread, reader, replaying, dropped, replays, faults>>

(* Mutant: the attempt after the last one is made too. *)
WillRetryOnceMore(a) == a.outcome = "again" /\ ~(a.attempt > MaxAttempts)
WillRetry(a) == a.outcome = "again" /\ ~(a.attempt >= MaxAttempts)

(* Mutant: the delivery is put back before its attempt is recorded. *)
RecordAfterwards(r, d) ==
    /\ At(r, d, "record")
    /\ backlog' = IF WillRetry(attempts[r][d]) /\ d \notin backlog THEN backlog \cup {d} ELSE backlog
    /\ IF WillRetry(attempts[r][d]) /\ d \notin backlog THEN UNCHANGED <<attempts, rows>>
       ELSE /\ Ended(r, d)
            /\ rows' = IF rows[d] = None THEN rows
                       ELSE [rows EXCEPT ![d].attempt = attempts[r][d].attempt,
                               ![d].state = CASE attempts[r][d].outcome = "ok" -> "delivered"
                                              [] WillRetry(attempts[r][d]) -> "pending" [] OTHER -> "failed"]
    /\ UNCHANGED <<endpoints, unread, reader, replaying, posted, dropped, replays, faults>>

Record(r, d) ==
    /\ At(r, d, "record")
    /\ rows' = IF rows[d] = None THEN rows
               ELSE [rows EXCEPT ![d].attempt = attempts[r][d].attempt,
                       ![d].state = CASE attempts[r][d].outcome = "ok" -> "delivered"
                                      [] WillRetry(attempts[r][d]) -> "pending" [] OTHER -> "failed"]
    /\ IF WillRetry(attempts[r][d]) THEN attempts' = [attempts EXCEPT ![r][d].step = "schedule"] ELSE Ended(r, d)
    /\ UNCHANGED <<endpoints, backlog, unread, reader, replaying, posted, dropped, replays, faults>>

(* Mutant: a retried delivery waits in the process and not in the backlog. *)
PutBackNowhere(r, d) ==
    /\ At(r, d, "schedule") /\ Ended(r, d)
    /\ UNCHANGED <<endpoints, rows, backlog, unread, reader, replaying, posted, dropped, replays, faults>>
PutBack(r, d) ==
    /\ At(r, d, "schedule") /\ Ended(r, d)
    /\ backlog' = backlog \cup {d}
    /\ UNCHANGED <<endpoints, rows, unread, reader, replaying, posted, dropped, replays, faults>>

-----------------------------------------------------------------------------
(* Faults.  A replica stops and starts again: its group does not give it     *)
(* again what it had read, and what it had claimed is in no backlog.         *)

Crash(r) ==
    /\ faults < MaxFaults /\ faults' = faults + 1
    /\ dropped' = dropped \cup DOMAIN attempts[r] \cup ({reader[r].made} \ {None})
    /\ reader' = [reader EXCEPT ![r] = Idle] /\ attempts' = [attempts EXCEPT ![r] = <<>>]
    /\ UNCHANGED <<endpoints, rows, backlog, unread, replaying, posted, replays>>

(* A query of an attempt fails, or Redis does: the error is logged.          *)
AttemptFails(r, d) ==
    /\ faults < MaxFaults /\ faults' = faults + 1
    /\ d \in DOMAIN attempts[r] /\ Ended(r, d)
    /\ dropped' = dropped \cup {d}
    /\ UNCHANGED <<endpoints, rows, backlog, unread, reader, replaying, posted, replays>>

(* A gateway stops, or Redis fails, between a replay's row and its place in  *)
(* the backlog.                                                              *)
ReplayFails ==
    /\ faults < MaxFaults /\ faults' = faults + 1
    /\ replaying # None /\ replaying' = None
    /\ dropped' = dropped \cup {replaying}
    /\ UNCHANGED <<endpoints, rows, backlog, unread, reader, attempts, posted, replays>>

Progress(r) ==
    \/ \E e \in Event : Read(r, e)
    \/ Insert(r) \/ Schedule(r) \/ Acknowledge(r)
    \/ \E due \in SUBSET backlog : Claim(r, due)
    \/ \E d \in Delivery : \/ Look(r, d) \/ Reject(r, d) \/ Record(r, d) \/ PutBack(r, d)
                           \/ \E outcome \in {"ok", "again", "no"} : Post(r, d, outcome)

Next ==
    \/ \E p \in Endpoint : Register(p) \/ Deactivate(p)
    \/ \E d \in Delivery : Replay(d)
    \/ ScheduleReplay \/ ReplayFails \/ SessionGoes
    \/ \E r \in Replica : Progress(r) \/ Crash(r) \/ \E d \in Delivery : AttemptFails(r, d)

(* The loops go on, a request is answered, and every POST ends within its    *)
(* timeout.                                                                  *)
Fairness == /\ \A r \in Replica : WF_vars(Progress(r))
            /\ WF_vars(ScheduleReplay)
Spec == Init /\ [][Next]_vars /\ Fairness

-----------------------------------------------------------------------------
(* The ZREM is the claim: of the replicas that share the backlog, at most    *)
(* one is attempting a delivery, and what is being attempted is not waiting. *)
OneAttemptAtATime ==
    \A d \in Delivery : LET busy == {r \in Replica : d \in DOMAIN attempts[r]}
                        IN  /\ Cardinality(busy) <= 1
                            /\ busy # {} => d \notin backlog

(* An endpoint is called once per counted attempt, the one being recorded    *)
(* included, and never more than maxAttempts times for a delivery: what was  *)
(* posted is what the row says, or one more while it is not recorded.        *)
PostsAreCounted ==
    \A d \in Delivery :
        /\ posted[d] <= MaxAttempts
        /\ rows[d] # None => \/ posted[d] <= rows[d].attempt
                             \/ /\ posted[d] = rows[d].attempt + 1
                                /\ d \in dropped \/ \E r \in Replica : At(r, d, "record")

(* A restart loses no retry that was waiting for its time: a delivery that   *)
(* is not settled waits in the backlog or is in someone's hands, unless a    *)
(* replica stopped or failed while it held that very delivery.               *)
WaitingIsKept ==
    \A d \in Delivery :
        rows[d] # None /\ rows[d].state = "pending" =>
            \/ d \in backlog \cup dropped \cup {replaying}
            \/ \E r \in Replica : d \in DOMAIN attempts[r] \/ reader[r].made = d

(* A delivery that was settled is never attempted or changed again (only its *)
(* session going removes it): replays are rows of their own.                 *)
SettledStays ==
    \A d \in Delivery : (rows[d] # None /\ Settled(d)) => rows'[d] \in {rows[d], None} /\ posted'[d] = posted[d]

(* In the end every delivery is settled and stays so, or goes with its       *)
(* session, unless a stop or failure dropped it.                             *)
Settles == <>[](\A d \in Delivery : rows[d] = None \/ Settled(d) \/ d \in dropped)
=============================================================================
