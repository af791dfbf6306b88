------------------------------ MODULE Routing ------------------------------
(***************************************************************************)
(* Which pool an upload's job goes to, and which strategy runs it: workers *)
(* advertise what they registered (workers/common/advertise.py and         *)
(* strategies.py), a gateway merges the adverts into a catalogue every 15  *)
(* seconds and sends a job by it (gateway/src/queue/routing.ts, used by    *)
(* http/routes/strategies.ts), and the worker that takes the job resolves  *)
(* the strategy again from its own registry.  A pool drains one queue,     *)
(* named after it here.                                                    *)
(***************************************************************************)
EXTENDS Naturals, FiniteSets, TLC

CONSTANTS Pool, Strategy, Media, Unknown, None,
          Home,        \* [Media -> Pool]: QUEUES
          Of,          \* [Strategy -> Media]
          Owner,       \* [Strategy -> Pool]: the pool whose package defines it
          Registered,  \* [Pool -> SUBSET Strategy]: what a pool has imported
          Explicit,    \* the strategies declared with default=True
          Fallback,    \* those declared with fallback=True
          MaxChanges

VARIABLES up, able,    \* the pools that run; the strategies whose prerequisites are there
          adverts,     \* what each strategy's key in Redis holds, None when it expired
          catalogue,   \* the gateway's
          job,         \* the job being sent, or waiting in its queue
          ran,         \* what the last step ran, if it was a job, and why not what was asked for
          steady,      \* history: nothing changed since the catalogue the job was sent by was read
          changes
vars == <<up, able, adverts, catalogue, job, ran, steady, changes>>
world == <<up, able, changes>>

Auto == "auto"
Adverts == [default : BOOLEAN, able : BOOLEAN, queue : Pool]
TypeOK ==
    /\ up \subseteq Pool /\ able \subseteq Strategy /\ changes \in 0..MaxChanges
    /\ adverts \in [Strategy -> Adverts \cup {None}]
    /\ catalogue.default \in [Media -> Strategy \cup {None}]
    /\ catalogue.queue \in [Strategy -> Pool \cup {None}]
    /\ job = None \/ job.queue \in Pool
    /\ ran = None \/ ran.strategy \in Strategy
    /\ steady \in BOOLEAN

-----------------------------------------------------------------------------
(* _resolve_default_name, of a pool that has something registered for the    *)
(* media type.  Of several explicit defaults or fallbacks registering fails. *)

Choices(p, m) == {s \in Registered[p] : Of[s] = m}
First(S) == CHOOSE s \in S : TRUE
Declared(p, m) == IF Choices(p, m) \cap Explicit # {} THEN First(Choices(p, m) \cap Explicit) ELSE First(Choices(p, m))
DefaultOf(p, m) ==
    LET can == Choices(p, m) \cap able
    IN  CASE Declared(p, m) \in able -> Declared(p, m)
          [] Declared(p, m) \notin able /\ can \cap Fallback # {} -> First(can \cap Fallback)
          [] Declared(p, m) \notin able /\ can \cap Fallback = {} /\ can # {} -> First(can)
          [] OTHER -> Declared(p, m)

(* resolve_strategy.                                                         *)
Resolve(p, m, want) ==
    IF want = Auto THEN [strategy |-> DefaultOf(p, m), reason |-> "none"]
    ELSE IF want \notin Choices(p, m) THEN [strategy |-> DefaultOf(p, m), reason |-> "unregistered"]
    ELSE IF want \notin able THEN [strategy |-> DefaultOf(p, m), reason |-> "unavailable"]
    ELSE [strategy |-> want, reason |-> "none"]

(* buildCatalogue: one default per media type.                               *)
(* Mutant: the declared default wins whether it can run or not. *)
PickDeclared(known, m) ==
    LET group == {s \in Strategy : known[s] # None /\ Of[s] = m}
        best == IF group \cap Explicit # {} THEN group \cap Explicit ELSE group
    IN  IF best = {} THEN None ELSE First(best)
Pick(known, m) ==
    LET group == {s \in Strategy : known[s] # None /\ Of[s] = m}
        can == {s \in group : known[s].able}
        best == CASE can \cap Explicit # {} -> can \cap Explicit
                  [] can \cap Explicit = {} /\ {s \in can : known[s].default} # {} -> {s \in can : known[s].default}
                  [] can \cap Explicit = {} /\ {s \in can : known[s].default} = {} /\ can # {} -> can
                  [] can = {} /\ group \cap Explicit # {} -> group \cap Explicit
                  [] OTHER -> group
    IN  IF best = {} THEN None ELSE First(best)
Merged(known) == [default |-> [m \in Media |-> Pick(known, m)],
                  queue |-> [s \in Strategy |-> IF known[s] = None THEN None ELSE known[s].queue]]

(* queueFor.                                                                 *)
QueueFor(m, want) ==
    LET s == IF want = Auto THEN catalogue.default[m] ELSE want
    IN  IF s \in Strategy /\ catalogue.queue[s] # None THEN catalogue.queue[s] ELSE Home[m]

-----------------------------------------------------------------------------
Init ==
    /\ up = Pool /\ able \in SUBSET Strategy
    /\ adverts = [s \in Strategy |-> None]
    /\ catalogue = Merged(adverts)
    /\ job = None /\ ran = None /\ steady = TRUE /\ changes = 0

(* publish_strategies and serving_queue: a pool advertises what its own      *)
(* package registered, with the queue it drains.                             *)
(* Mutant: what a pool merely imported is advertised too. *)
OwnedOrImported(p) == Registered[p]
Owned(p) == {s \in Registered[p] : Owner[s] = p}
(* Mutant: a strategy is advertised on its media type's own queue. *)
ServingHome(p, s) == Home[Of[s]]
ServingQueue(p, s) == IF Home[Of[s]] = p THEN Home[Of[s]] ELSE p
Heartbeat(p) ==
    /\ p \in up
    /\ adverts' = [s \in Strategy |->
         IF s \in Owned(p) THEN [default |-> DefaultOf(p, Of[s]) = s, able |-> s \in able, queue |-> ServingQueue(p, s)]
         ELSE adverts[s]]
    /\ steady' = (steady /\ adverts' = adverts)
    /\ ran' = None /\ UNCHANGED <<world, catalogue, job>>

(* The key of a pool that is down expires after 90 seconds; a pool that is   *)
(* up renews it every 30.                                                    *)
(* Mutant: the keys are written without a TTL. *)
ExpireNever(s) == FALSE /\ UNCHANGED vars
Expire(s) ==
    /\ adverts[s] # None /\ adverts[s].queue \notin up
    /\ adverts' = [adverts EXCEPT ![s] = None] /\ steady' = FALSE
    /\ ran' = None /\ UNCHANGED <<world, catalogue, job>>

Refresh ==
    /\ catalogue' = Merged(adverts)
    /\ steady' = (steady /\ (job = None \/ catalogue' = catalogue))
    /\ ran' = None /\ UNCHANGED <<world, adverts, job>>

Current ==
    /\ catalogue = Merged(adverts)
    /\ \A p \in up : \A s \in Strategy : Owner[s] = p =>
          adverts[s] = [default |-> DefaultOf(p, Of[s]) = s, able |-> s \in able, queue |-> p]
    /\ \A s \in Strategy : Owner[s] \notin up => adverts[s] = None

(* An upload's job: a name the catalogue does not have is replaced by "auto" *)
(* once there is a catalogue (isKnownStrategy, and the caller's default).    *)
Known(m, want) == \/ want = Auto \/ \A s \in Strategy : catalogue.queue[s] = None
                  \/ want \in Strategy /\ Of[want] = m /\ catalogue.queue[want] # None
Send(m, want) ==
    LET asked == IF Known(m, want) THEN want ELSE Auto IN
    /\ job = None
    /\ want \in Strategy => Of[want] = m
    /\ job' = [media |-> m, want |-> asked, queue |-> QueueFor(m, asked), default |-> catalogue.default[m],
               listed |-> asked \in Strategy /\ catalogue.queue[asked] # None]
    /\ steady' = Current /\ ran' = None
    /\ UNCHANGED <<world, adverts, catalogue>>

Run(p) ==
    /\ job # None /\ job.queue = p /\ p \in up /\ Choices(p, job.media) # {}
    /\ ran' = Resolve(p, job.media, job.want) @@ [by |-> p, job |-> job]
    /\ job' = None
    /\ UNCHANGED <<world, adverts, catalogue, steady>>

(* Pools come and go, prerequisites too: a key is set, a budget is used up.  *)
PoolChanges(p) ==
    /\ changes < MaxChanges /\ changes' = changes + 1
    /\ up' = IF p \in up THEN up \ {p} ELSE up \cup {p}
    /\ steady' = FALSE
    /\ ran' = None /\ UNCHANGED <<able, adverts, catalogue, job>>
StrategyChanges(s) ==
    /\ changes < MaxChanges /\ changes' = changes + 1
    /\ able' = IF s \in able THEN able \ {s} ELSE able \cup {s}
    /\ steady' = FALSE
    /\ ran' = None /\ UNCHANGED <<up, adverts, catalogue, job>>

Next == \/ \E p \in Pool : Heartbeat(p) \/ Run(p) \/ PoolChanges(p)
        \/ \E s \in Strategy : Expire(s) \/ StrategyChanges(s)
        \/ Refresh
        \/ \E m \in Media : \E want \in Strategy \cup {Auto, Unknown} : Send(m, want)

Fairness == /\ \A p \in Pool : WF_vars(Heartbeat(p))
            /\ WF_vars(Refresh) /\ \A s \in Strategy : WF_vars(Expire(s))
Spec == Init /\ [][Next]_vars /\ Fairness

-----------------------------------------------------------------------------
(* A strategy only ever runs in the pool it lives in, whatever the other     *)
(* pools have imported along the way.                                        *)
RunsWhereItLives == ran # None => Owner[ran.strategy] = ran.by

(* A strategy the catalogue lists is known to the pool its job is sent to:   *)
(* it is replaced only when it cannot run at that moment.                    *)
ListedIsReached == ran # None /\ ran.job.listed => ran.reason # "unregistered"

(* While nothing changes, what an upload without a strategy runs is what the *)
(* picker shows as the default, and one that can run if any can.             *)
AutoIsWhatIsShown ==
    ran # None /\ steady /\ ran.job.want = Auto =>
        /\ ran.job.default # None => ran.strategy = ran.job.default
        /\ ran.strategy \in able \/ \A s \in able : Of[s] = ran.job.media => Owner[s] \notin up

(* When pools and prerequisites stop changing, the catalogue comes to show   *)
(* what can run.                                                             *)
CatalogueSettles == <>[]Current
=============================================================================
