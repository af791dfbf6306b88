------------------------------ MODULE AskIndex ------------------------------
(***************************************************************************)
(* The index "Ask the room" searches: documents that finished jobs leave   *)
(* (job_artifacts) are split into passages, and the passages embedded by a *)
(* worker (gateway/src/ask/indexer.ts and store.ts, embed_passages in      *)
(* ask_tasks.py).  A document has one passage here.  Splitting may happen  *)
(* on every replica at once, and a replica's boot re-queues what was       *)
(* left without a vector.                                                  *)
(***************************************************************************)
EXTENDS Naturals, FiniteSets

CONSTANTS Replica, Document, None, MaxFaults, MaxBoots,
          Earlier    \* documents from before passages existed

VARIABLES unsplit,    \* documents whose passages_at is null
          passages,   \* rows of artifact_passages: "none", "bare" or "embedded"
          old,        \* passages inserted more than a minute ago
          told,       \* documents whose finished job a replica has been told of
          indexers,   \* what each replica is doing
          lock,       \* rmcollab:ask:backfill-lock
          queue,      \* passages in tasks waiting for a worker, and how often
          results,    \* vectors in the embeddings stream, and how often
          split,      \* history: how often splitting put each passage in the queue
          lost,       \* history: passages a fault took out of someone's hands
          faults, boots
vars == <<unsplit, passages, old, told, indexers, lock, queue, results, split, lost, faults, boots>>

(* What splitPending has read and not gone through, what it inserted, which  *)
(* of its rows is inserted and not marked, and what to do with the result.   *)
Resting == [doing |-> "rest", left |-> {}, made |-> {}, mark |-> None]
Working(doing, documents) == [doing |-> doing, left |-> documents, made |-> {}, mark |-> None]

TypeOK ==
    /\ unsplit \subseteq Document /\ old \subseteq Document /\ told \subseteq Document
    /\ passages \in [Document -> {"none", "bare", "embedded"}]
    /\ \A r \in Replica : /\ indexers[r].doing \in {"rest", "index", "backfill", "stale", "down"}
                          /\ indexers[r].left \subseteq Document /\ indexers[r].made \subseteq Document
                          /\ indexers[r].mark \in Document \cup {None}
    /\ lock \in BOOLEAN
    /\ queue \in [Document -> 0..(1 + MaxBoots)] /\ results \in [Document -> 0..(1 + MaxBoots)]
    /\ faults \in 0..MaxFaults /\ boots \in 0..MaxBoots

(* The earlier documents are there when the replicas start; their jobs       *)
(* finished long ago.                                                        *)
Init ==
    /\ unsplit = Earlier /\ passages = [d \in Document |-> "none"]
    /\ old = {} /\ told = Earlier
    /\ indexers = [r \in Replica |-> [Resting EXCEPT !.doing = "down"]] /\ lock = FALSE
    /\ queue = [d \in Document |-> 0] /\ results = [d \in Document |-> 0]
    /\ split = [d \in Document |-> 0] /\ lost = {}
    /\ faults = 0 /\ boots = 0

-----------------------------------------------------------------------------
(* A document is stored, and one replica's event consumer indexes its job.   *)
Store(d) ==
    /\ d \notin unsplit /\ passages[d] = "none" /\ d \notin told
    /\ unsplit' = unsplit \cup {d}
    /\ UNCHANGED <<passages, old, told, indexers, lock, queue, results, split, lost, faults, boots>>

IndexJob(r, d) ==
    /\ indexers[r].doing = "rest" /\ d \notin told
    /\ d \in unsplit \/ passages[d] # "none"
    /\ told' = told \cup {d}
    /\ indexers' = [indexers EXCEPT ![r] = Working("index", {d} \cap unsplit)]
    /\ UNCHANGED <<unsplit, passages, old, lock, queue, results, split, lost, faults, boots>>

(* Mutant: a passage another replica inserted is returned too. *)
InsertedOrNot(d) == TRUE
Inserted(d) == passages[d] = "none"
Insert(r, d) ==
    /\ indexers[r].mark = None /\ d \in indexers[r].left
    /\ passages' = IF passages[d] = "none" THEN [passages EXCEPT ![d] = "bare"] ELSE passages
    /\ indexers' = [indexers EXCEPT ![r].left = @ \ {d}, ![r].mark = d,
                      ![r].made = IF Inserted(d) THEN @ \cup {d} ELSE @]
    /\ UNCHANGED <<unsplit, old, told, lock, queue, results, split, lost, faults, boots>>

Mark(r) ==
    /\ indexers[r].mark # None
    /\ unsplit' = unsplit \ {indexers[r].mark}
    /\ indexers' = [indexers EXCEPT ![r].mark = None]
    /\ UNCHANGED <<passages, old, told, lock, queue, results, split, lost, faults, boots>>

(* Mutant: only the first batch of what was split is queued. *)
QueuedFirst(ds) == queue' = IF ds = {} THEN queue ELSE [queue EXCEPT ![CHOOSE d \in ds : TRUE] = @ + 1]
Queued(ds) == queue' = [d \in Document |-> IF d \in ds THEN queue[d] + 1 ELSE queue[d]]
AllSplit(r) == indexers[r].left = {} /\ indexers[r].mark = None

(* What indexing a job inserted is queued.                                   *)
Enqueue(r) ==
    /\ indexers[r].doing = "index" /\ AllSplit(r)
    /\ Queued(indexers[r].made)
    /\ split' = [d \in Document |-> IF d \in indexers[r].made THEN split[d] + 1 ELSE split[d]]
    /\ indexers' = [indexers EXCEPT ![r] = Resting]
    /\ UNCHANGED <<unsplit, passages, old, told, lock, results, lost, faults, boots>>

-----------------------------------------------------------------------------
(* A replica boots, and backfills when no other has within the lock's time:  *)
(* batch after batch until a batch is empty and nothing is left, and then    *)
(* the passages without a vector that are old enough.                        *)

Boot(r) ==
    /\ indexers[r].doing = "down" /\ boots < MaxBoots /\ boots' = boots + 1
    /\ lock' = TRUE
    /\ indexers' = [indexers EXCEPT ![r] = IF lock THEN Resting ELSE Working("backfill", unsplit)]
    /\ UNCHANGED <<unsplit, passages, old, told, queue, results, split, lost, faults>>

LockExpires ==
    /\ lock /\ lock' = FALSE
    /\ UNCHANGED <<unsplit, passages, old, told, indexers, queue, results, split, lost, faults, boots>>

NextBatch(r) ==
    /\ indexers[r].doing = "backfill" /\ AllSplit(r)
    /\ indexers[r].made # {} \/ unsplit # {}
    /\ Queued(indexers[r].made)
    /\ split' = [d \in Document |-> IF d \in indexers[r].made THEN split[d] + 1 ELSE split[d]]
    /\ indexers' = [indexers EXCEPT ![r] = Working("backfill", unsplit)]
    /\ UNCHANGED <<unsplit, passages, old, told, lock, results, lost, faults, boots>>

NothingUnsplit(r) ==
    /\ indexers[r].doing = "backfill" /\ AllSplit(r) /\ indexers[r].made = {} /\ unsplit = {}
    /\ indexers' = [indexers EXCEPT ![r].doing = "stale"]
    /\ UNCHANGED <<unsplit, passages, old, told, lock, queue, results, split, lost, faults, boots>>

(* Mutant: the age is compared the wrong way round. *)
StaleIfNew(d) == passages[d] = "bare" /\ d \notin old
Stale(d) == passages[d] = "bare" /\ d \in old
BackfillEnds(r) ==
    /\ indexers[r].doing = "stale"
    /\ Queued({d \in Document : Stale(d)})
    /\ indexers' = [indexers EXCEPT ![r] = Resting]
    /\ UNCHANGED <<unsplit, passages, old, told, lock, results, split, lost, faults, boots>>

MinutePasses(d) ==
    /\ passages[d] # "none" /\ d \notin old /\ old' = old \cup {d}
    /\ UNCHANGED <<unsplit, passages, told, indexers, lock, queue, results, split, lost, faults, boots>>

-----------------------------------------------------------------------------
(* The worker embeds, and any replica's consumer stores the vector; writing  *)
(* it twice is the same.                                                     *)

Embed(d) ==
    /\ queue[d] > 0 /\ queue' = [queue EXCEPT ![d] = @ - 1]
    /\ results' = [results EXCEPT ![d] = @ + 1]
    /\ UNCHANGED <<unsplit, passages, old, told, indexers, lock, split, lost, faults, boots>>

StoreVector(d) ==
    /\ results[d] > 0 /\ results' = [results EXCEPT ![d] = @ - 1]
    /\ passages' = [passages EXCEPT ![d] = "embedded"]
    /\ UNCHANGED <<unsplit, old, told, indexers, lock, queue, split, lost, faults, boots>>

(* Faults: a task that raises, a batch whose consumer fails or stops (read   *)
(* once and not again), a replica that stops.                                *)
EmbedFails(d) ==
    /\ faults < MaxFaults /\ faults' = faults + 1
    /\ queue[d] > 0 /\ queue' = [queue EXCEPT ![d] = @ - 1] /\ lost' = lost \cup {d}
    /\ UNCHANGED <<unsplit, passages, old, told, indexers, lock, results, split, boots>>
VectorDropped(d) ==
    /\ faults < MaxFaults /\ faults' = faults + 1
    /\ results[d] > 0 /\ results' = [results EXCEPT ![d] = @ - 1] /\ lost' = lost \cup {d}
    /\ UNCHANGED <<unsplit, passages, old, told, indexers, lock, queue, split, boots>>
Stop(r) ==
    /\ indexers[r].doing # "down" /\ faults < MaxFaults /\ faults' = faults + 1
    /\ lost' = lost \cup indexers[r].left \cup indexers[r].made \cup ({indexers[r].mark} \ {None})
    /\ indexers' = [indexers EXCEPT ![r] = [Resting EXCEPT !.doing = "down"]]
    /\ UNCHANGED <<unsplit, passages, old, told, lock, queue, results, split, boots>>

Splitting(r) == (\E d \in Document : Insert(r, d)) \/ Mark(r) \/ Enqueue(r)
                \/ NextBatch(r) \/ NothingUnsplit(r) \/ BackfillEnds(r)
Embedding == \E d \in Document : Embed(d) \/ StoreVector(d)

Next ==
    \/ \E d \in Document : \/ Store(d) \/ MinutePasses(d) \/ EmbedFails(d) \/ VectorDropped(d)
                           \/ \E r \in Replica : IndexJob(r, d)
    \/ \E r \in Replica : Splitting(r) \/ Boot(r) \/ Stop(r)
    \/ LockExpires \/ Embedding

Fairness == WF_vars(Embedding) /\ \A r \in Replica : WF_vars(Splitting(r))
Spec == Init /\ [][Next]_vars /\ Fairness

-----------------------------------------------------------------------------
(* However many replicas race to split a document, each passage is put in    *)
(* the queue once by splitting it.                                           *)
SplitOnce == \A d \in Document : split[d] <= 1

(* A passage without a vector is on its way to one - in a replica's hands,   *)
(* in the queue, in the stream - unless a fault took it; and a document is   *)
(* marked as split only when its passages are there.                         *)
OnItsWay ==
    \A d \in Document :
        /\ passages[d] = "bare" => \/ queue[d] + results[d] > 0 \/ d \in lost
                                   \/ \E r \in Replica : d \in indexers[r].made
        /\ passages[d] = "none" => \A r \in Replica : indexers[r].mark # d

(* What a replica took up to split is split, and can be searched by meaning  *)
(* in the end, unless a fault took its passage.                              *)
Searchable ==
    <>[](\A d \in Document : /\ \A r \in Replica : d \notin indexers[r].left
                             /\ passages[d] = "bare" => d \in lost)

(* A passage a fault left without its vector for more than a minute gets it  *)
(* from the next backfill.                                                   *)
Recovered ==
    \A d \in Document :
        (/\ faults = MaxFaults /\ passages[d] = "bare" /\ d \in old
         /\ \E r \in Replica : indexers[r].doing = "backfill") ~> passages[d] = "embedded"
=============================================================================
