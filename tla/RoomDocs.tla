------------------------------ MODULE RoomDocs ------------------------------
(***************************************************************************)
(* One shared document of a room: the copies that gateway replicas keep of *)
(* it (docs/roomDocs.ts), the rows it is stored in (db/roomDocs.ts), the   *)
(* browsers that edit it (client features/notes/provider.ts) and the notes *)
(* writer, which edits it from the gateway (notes/writer.ts).              *)
(*                                                                         *)
(* A Yjs document is the set of edits it holds: merging is union, so it is *)
(* commutative and idempotent.  Frames reach a browser in the step that    *)
(* sends them; frames from a browser (up) and between replicas (wire) are  *)
(* on their way for a while and may be lost.  A copy that is dropped while *)
(* it loads leaves the map when it has loaded.                             *)
(***************************************************************************)
EXTENDS Integers, FiniteSets, FiniteSetsExt

CONSTANTS
    Replica,         \* gateway replicas
    Editor,          \* browsers with the room open, or about to
    Typing,          \* edits that people make
    Upload,          \* uploads that get a section, by two edits of the writer
    Nowhere,         \* where an editor that is not connected is
    CompactAfter,    \* options.compactAfter
    Budgets          \* bounds on what a behaviour does, one chosen in Init

ASSUME DocAssumption == /\ Nowhere \notin Replica
                        /\ CompactAfter \in Nat \ {0}
                        /\ \A b \in Budgets :
                               b \in [typing : Nat, uploads : Nat, joins : Nat,
                                      deletes : Nat, faults : Nat]

\* documents.ts:91: the document the writer edits, the main one, is not deleted.
ASSUME MainAssumption == \A b \in Budgets : b.uploads = 0 \/ b.deletes = 0

\* An edit of the writer: the upload's placeholder, or the section of a
\* finished upload that has none.  The second call follows the first's return.
Call == Upload \X {"uploaded", "finished"}
Edits == Typing \cup Call

\* What a person types is not the writer's, and nobody's place or name.
ASSUME EditAssumption == Typing \cap Call = {} /\ Nowhere \notin Call \cup Editor

VARIABLES
    rows, snapshot, nextSeq,  \* room_doc_updates, room_docs.snapshot, its sequence
    listed,                   \* the document's row in room_documents
    compacting,               \* what an open compaction has read, by whom
    due,                      \* replicas about to compact
    copy,                     \* RoomDocHub.rooms, per replica
    flights,                  \* appends on their way to Postgres
    loose,                    \* batches of released copies, waiting for a retry
    wire,                     \* updates published and not relayed yet, per replica
    leaving,                  \* replicas between their last socket's leave and dropAll
    deleting,                 \* a DELETE request, and the replicas that heard of it
    at, phase, mine, up,      \* per editor: its replica, handshake, document, frames
    call,                     \* per call of the writer: where it is
    made,                     \* history: the edits made so far
    lost,                     \* history: edits a crash or a given-up save took
    overtaken, failed,        \* history: a call ran on a copy behind storage; a fault
    budget

store == <<rows, snapshot, nextSeq, compacting, due>>
hub == <<copy, flights, loose, wire, leaving>>
browsers == <<at, phase, mine, up>>
vars == <<store, listed, hub, deleting, browsers, call, made, lost, overtaken, failed, budget>>

NoCopy == [st |-> "none", doc |-> {}, peers |-> {}, pending |-> {}, catchUp |-> FALSE, behind |-> {}]
Idle == [at |-> Nowhere, st |-> "idle", opened |-> FALSE]

Stored == snapshot \cup UNION {row.data : row \in rows}
Unsaved == UNION ({copy[r].pending : r \in Replica} \cup {f.batch : f \in flights \cup loose})

\* roomRegistry has sockets of this replica, so it is subscribed to the room.
Subscribed(r) == \E c \in Editor : at[c] = r

Spend(what) == /\ budget[what] > 0
               /\ budget' = [budget EXCEPT ![what] = @ - 1]
Fault == Spend("faults") /\ failed' = TRUE

Init ==
    /\ rows = {} /\ snapshot = {} /\ nextSeq = 1 /\ listed = TRUE
    /\ compacting = [by |-> Nowhere, rows |-> {}] /\ due = {}
    /\ copy = [r \in Replica |-> NoCopy] /\ flights = {} /\ loose = {}
    /\ wire = [r \in Replica |-> {}] /\ leaving = {}
    /\ deleting = [st |-> "no", at |-> Nowhere, told |-> {}]
    /\ at = [c \in Editor |-> Nowhere] /\ phase = [c \in Editor |-> "off"]
    /\ mine = [c \in Editor |-> {}] /\ up = [c \in Editor |-> {}]
    /\ call = [k \in Call |-> Idle]
    /\ made = {} /\ lost = {} /\ overtaken = FALSE /\ failed = FALSE
    /\ budget \in Budgets

-----------------------------------------------------------------------------
(* Browsers: entering and leaving the room, typing.                        *)

\* enterRoom: on the registry and subscribed.  The first socket waits for the
\* subscription, which follows an unsubscription still on its way.  A copy that
\* was opened for an edit of the writer misses what is not saved by then.
Join(c, r) ==
    /\ at[c] = Nowhere /\ listed
    /\ Subscribed(r) \/ r \notin leaving
    /\ Spend("joins")
    /\ at' = [at EXCEPT ![c] = r]
    /\ phase' = [phase EXCEPT ![c] = "in"]
    /\ copy' = IF copy[r].catchUp /\ ~Subscribed(r) THEN [copy EXCEPT ![r].behind = Unsaved] ELSE copy
    /\ UNCHANGED <<store, listed, flights, loose, wire, leaving, deleting, mine, up, call,
                   made, lost, overtaken, failed>>

Type(c, e) ==
    /\ e \notin made /\ phase[c] # "over"
    /\ Spend("typing")
    /\ made' = made \cup {e}
    /\ mine' = [mine EXCEPT ![c] = @ \cup {e}]
    /\ up' = IF at[c] # Nowhere THEN [up EXCEPT ![c] = @ \cup {e}] ELSE up
    /\ UNCHANGED <<store, listed, hub, deleting, at, phase, call, lost, overtaken, failed>>

\* leaveRoom: out of the documents; the last socket's leave unsubscribes, and
\* what was published and not relayed is not heard any more.
Leave(c) ==
    LET r == at[c]
        last == \A d \in Editor \ {c} : at[d] # r
    IN  /\ r # Nowhere
        /\ at' = [at EXCEPT ![c] = Nowhere]
        /\ phase' = [phase EXCEPT ![c] = "off"]
        /\ up' = [up EXCEPT ![c] = {}]
        /\ copy' = [copy EXCEPT ![r].peers = @ \ {c}]
        /\ leaving' = IF last THEN leaving \cup {r} ELSE leaving
        /\ wire' = IF last THEN [wire EXCEPT ![r] = {}] ELSE wire
        /\ UNCHANGED <<store, listed, flights, loose, deleting, mine, call, made, lost,
                       overtaken, failed, budget>>

-----------------------------------------------------------------------------
(* Copies: loading, the handshake, frames, relays, the catch-up reload.    *)

\* open() starts a load when a frame or a call needs the copy.
Opened(r) == IF copy[r].st = "none" THEN [NoCopy EXCEPT !.st = "loading"] ELSE copy[r]

Open(r) ==
    /\ copy[r].st = "none"
    /\ \E c \in Editor : at[c] = r /\ (phase[c] = "in" \/ up[c] # {})
    /\ copy' = [copy EXCEPT ![r] = Opened(r)]
    /\ UNCHANGED <<store, listed, flights, loose, wire, leaving, deleting, browsers, call,
                   made, lost, overtaken, failed, budget>>

\* The load ends.  behind: edits that others have not saved yet, which the
\* catch-up reload is there for.
Load(r) ==
    /\ copy[r].st = "loading"
    /\ copy' = [copy EXCEPT ![r].st = "open", ![r].doc = @ \cup Stored,
                            ![r].catchUp = TRUE, ![r].behind = Unsaved]
    /\ UNCHANGED <<store, listed, flights, loose, wire, leaving, deleting, browsers, call,
                   made, lost, overtaken, failed, budget>>

\* Whoever waited for it gets an error: a call ends, a handshake is not answered.
LoadFails(r) ==
    /\ copy[r].st = "loading" /\ Fault
    /\ copy' = [copy EXCEPT ![r] = NoCopy]
    /\ call' = [k \in Call |-> IF call[k].at = r /\ call[k].st = "opening"
                               THEN [call[k] EXCEPT !.st = "failed"] ELSE call[k]]
    /\ phase' = [c \in Editor |-> IF at[c] = r /\ phase[c] = "in" THEN "unanswered" ELSE phase[c]]
    /\ up' = [c \in Editor |-> IF at[c] = r THEN {} ELSE up[c]]
    /\ UNCHANGED <<store, listed, flights, loose, wire, leaving, deleting, at, mine, made, lost, overtaken>>

\* Published updates reach the replicas subscribed by then, the publisher too.
Published(es, from) ==
    [r \in Replica |-> IF Subscribed(r) THEN wire[r] \cup {[edit |-> e, from |-> from] : e \in es}
                                        ELSE wire[r]]

\* Step 1 and its answers: the browser gets what it lacks, becomes a peer, and
\* sends what the copy lacks.
\* Mutant: step 1 is not sent back.
LackedUnasked(c, r) == {}
Lacked(c, r) == mine[c] \ copy[r].doc

Hello(c) ==
    LET r == at[c]
    IN  /\ phase[c] = "in" /\ copy[r].st = "open"
        /\ phase' = [phase EXCEPT ![c] = "synced"]
        /\ mine' = [mine EXCEPT ![c] = @ \cup copy[r].doc]
        /\ up' = [up EXCEPT ![c] = @ \cup Lacked(c, r)]
        /\ copy' = [copy EXCEPT ![r].peers = @ \cup {c}]
        /\ UNCHANGED <<store, listed, flights, loose, wire, leaving, deleting, at, call, made, lost,
                       overtaken, failed, budget>>

\* An update frame: applied, kept for the next save, and published.
Receive(c, e) ==
    LET r == at[c]
        new == {e} \ copy[r].doc
    IN  /\ e \in up[c] /\ copy[r].st = "open"
        /\ up' = [up EXCEPT ![c] = @ \ {e}]
        /\ copy' = [copy EXCEPT ![r].doc = @ \cup {e}, ![r].pending = @ \cup new]
        /\ \/ wire' = Published(new, c) /\ UNCHANGED <<failed, budget>>
           \/ new # {} /\ Fault /\ UNCHANGED wire    \* the publish fails and is logged
        /\ UNCHANGED <<store, listed, flights, loose, leaving, deleting, at, phase, mine, call,
                       made, lost, overtaken>>

\* relay: applied without saving or publishing, and forwarded to the others.
Relay(r, u) ==
    /\ u \in wire[r]
    /\ wire' = [wire EXCEPT ![r] = @ \ {u}]
    /\ copy' = IF copy[r].st = "none" THEN copy ELSE [copy EXCEPT ![r].doc = @ \cup {u.edit}]
    /\ mine' = [c \in Editor |-> IF c \in copy[r].peers \ {u.from} THEN mine[c] \cup {u.edit} ELSE mine[c]]
    /\ UNCHANGED <<store, listed, flights, loose, leaving, deleting, at, phase, up, call,
                   made, lost, overtaken, failed, budget>>

\* Three flush windows after the load: a batch waiting then is saved by now,
\* and so is the edit the copy was opened for, unless something failed.
CatchUp(r) ==
    /\ copy[r].catchUp
    /\ \/ failed
       \/ /\ copy[r].behind \cap Unsaved = {}
          /\ \A k \in Call : call[k].at = r /\ call[k].st \in {"opening", "saving"} => call[k].opened
    /\ copy' = [copy EXCEPT ![r].doc = @ \cup Stored, ![r].catchUp = FALSE, ![r].behind = {}]
    /\ mine' = [c \in Editor |-> IF c \in copy[r].peers THEN mine[c] \cup (Stored \ copy[r].doc) ELSE mine[c]]
    /\ UNCHANGED <<store, listed, flights, loose, wire, leaving, deleting, at, phase, up, call,
                   made, lost, overtaken, failed, budget>>

-----------------------------------------------------------------------------
(* Saving.  An append takes its sequence number when it starts and is seen *)
(* when it commits.  of: what the batch goes back to if it fails.          *)

Flight(r, batch, of, by, tries) ==
    [at |-> r, batch |-> batch, of |-> of, by |-> by, tries |-> tries, seq |-> nextSeq]

\* Saves of the copy under way when it is released go back to nobody's pending.
Orphaned(r) == {IF f.at = r /\ f.of = "copy" THEN [f EXCEPT !.of = "released"] ELSE f : f \in flights}

Flush(r) ==
    /\ copy[r].st = "open" /\ copy[r].pending # {}
    /\ flights' = flights \cup {Flight(r, copy[r].pending, "copy", Nowhere, 0)}
    /\ nextSeq' = nextSeq + 1
    /\ copy' = [copy EXCEPT ![r].pending = {}]
    /\ UNCHANGED <<rows, snapshot, compacting, due, listed, loose, wire, leaving, deleting,
                   browsers, call, made, lost, overtaken, failed, budget>>

\* The next attempt of drop, or the timer of a released copy.
Retry(l) ==
    /\ l \in loose
    /\ loose' = loose \ {l}
    /\ flights' = flights \cup {Flight(l.at, l.batch, l.of, Nowhere, l.tries)}
    /\ nextSeq' = nextSeq + 1
    /\ UNCHANGED <<rows, snapshot, compacting, due, listed, copy, wire, leaving, deleting,
                   browsers, call, made, lost, overtaken, failed, budget>>

\* edit() after its save: the copy made for it goes, if nobody needs it.
\* Mutant: the copy made for an edit stays.
KeptAlways(r, k, pending) == TRUE
\* Mutant: a batch waiting for its next save is not looked at.
KeptForPeers(r, k, pending) == call[k].opened \/ copy[r].peers # {}
Kept(r, k, pending) == call[k].opened \/ copy[r].peers # {} \/ pending # {}
Returned(k) == [call EXCEPT ![k].st = "returned"]

\* Calls that waited for a load run before anything that was asked of Postgres.
NoneWaits(r) == \A k \in Call : ~(call[k].at = r /\ call[k].st = "opening" /\ copy[r].st = "open")

Append(f) ==
    /\ f \in flights /\ NoneWaits(f.at)
    /\ rows' = rows \cup {[seq |-> f.seq, data |-> f.batch]}
    /\ due' = IF Cardinality(rows) + 1 >= CompactAfter THEN due \cup {f.at} ELSE due
    /\ IF f.by = Nowhere
       THEN flights' = flights \ {f} /\ UNCHANGED <<copy, call>>
       ELSE LET drops == f.of = "copy" /\ ~Kept(f.at, f.by, copy[f.at].pending)
            IN  /\ call' = Returned(f.by)
                /\ copy' = IF drops THEN [copy EXCEPT ![f.at] = NoCopy] ELSE copy
                /\ flights' = (IF drops THEN Orphaned(f.at) ELSE flights) \ {f, [f EXCEPT !.of = "released"]}
    /\ UNCHANGED <<snapshot, nextSeq, compacting, listed, loose, wire, leaving, deleting,
                   browsers, made, lost, overtaken, failed, budget>>

\* The batch goes back to the copy; drop tries three times; the timer of a
\* released copy tries for ever.  The row may be there all the same.
AppendFails(f) ==
    LET drops == f.by # Nowhere /\ f.of = "copy" /\ ~Kept(f.at, f.by, copy[f.at].pending \cup f.batch)
        again == [at |-> f.at, batch |-> f.batch, of |-> f.of, tries |-> f.tries + 1]
    IN  /\ f \in flights /\ NoneWaits(f.at) /\ Fault
        /\ flights' = (IF drops THEN Orphaned(f.at) ELSE flights) \ {f, [f EXCEPT !.of = "released"]}
        /\ rows' \in {rows, rows \cup {[seq |-> f.seq, data |-> f.batch]}}
        /\ copy' = CASE drops -> [copy EXCEPT ![f.at] = NoCopy]
                     [] ~drops /\ f.of = "copy" -> [copy EXCEPT ![f.at].pending = @ \cup f.batch]
                     [] OTHER -> copy
        /\ loose' = CASE f.of = "copy" -> loose
                      [] f.of = "dropped" -> IF f.tries < 2 THEN loose \cup {again} ELSE loose
                      [] OTHER -> loose \cup {[again EXCEPT !.tries = 0]}
        /\ lost' = IF f.of = "dropped" /\ f.tries >= 2 THEN lost \cup f.batch ELSE lost
        /\ call' = IF f.by = Nowhere THEN call ELSE Returned(f.by)
        /\ UNCHANGED <<snapshot, nextSeq, compacting, due, listed, wire, leaving, deleting,
                       browsers, made, overtaken>>

\* compactRoomDoc: the lock and the read, then the merge and the deletion of
\* exactly the rows read.  A second compaction finds the lock taken and skips.
Compact(r) ==
    /\ r \in due
    /\ due' = due \ {r}
    /\ compacting' = IF compacting.by = Nowhere /\ rows # {} THEN [by |-> r, rows |-> rows] ELSE compacting
    /\ UNCHANGED <<rows, snapshot, nextSeq, listed, hub, deleting, browsers, call, made, lost,
                   overtaken, failed, budget>>

\* Mutant: every row up to the last one merged.
MergedByRange(row) == \E m \in compacting.rows : row.seq <= m.seq
Merged(row) == row \in compacting.rows

CompactCommits ==
    /\ compacting.by # Nowhere
    /\ snapshot' = snapshot \cup UNION {row.data : row \in compacting.rows}
    /\ rows' = {row \in rows : ~Merged(row)}
    /\ compacting' = [by |-> Nowhere, rows |-> {}]
    /\ UNCHANGED <<nextSeq, due, listed, hub, deleting, browsers, call, made, lost, overtaken,
                   failed, budget>>

CompactFails ==
    /\ compacting.by # Nowhere /\ Fault
    /\ compacting' = [by |-> Nowhere, rows |-> {}]
    /\ UNCHANGED <<rows, snapshot, nextSeq, due, listed, hub, deleting, browsers, call, made, lost, overtaken>>

-----------------------------------------------------------------------------
(* Releasing copies: dropAll, deletion of the document, a crash.           *)

\* drop: out of the map, and its pending edits saved by up to three attempts.
\* Mutant: drop saves without looking whether there is anything to save.
ReleasedUnchecked(r) == {Flight(r, copy[r].pending, "dropped", Nowhere, 0)}
Released(r) == IF copy[r].pending = {} THEN {} ELSE {Flight(r, copy[r].pending, "dropped", Nowhere, 0)}

DropAll(r) ==
    /\ r \in leaving /\ copy[r].st # "loading" /\ NoneWaits(r)
    /\ leaving' = leaving \ {r}
    /\ flights' = Orphaned(r) \cup Released(r)
    /\ nextSeq' = nextSeq + Cardinality(Released(r))
    /\ copy' = [copy EXCEPT ![r] = NoCopy]
    /\ UNCHANGED <<rows, snapshot, compacting, due, listed, loose, wire, deleting, browsers, call, made, lost, overtaken, failed, budget>>

\* DELETE: the serving replica saves and drops its copy first.
DeleteDrops(r) ==
    /\ deleting.st = "no" /\ listed /\ copy[r].st # "loading" /\ NoneWaits(r)
    /\ Spend("deletes")
    /\ deleting' = [st |-> "dropping", at |-> r, told |-> {}]
    /\ flights' = Orphaned(r) \cup Released(r)
    /\ nextSeq' = nextSeq + Cardinality(Released(r))
    /\ copy' = [copy EXCEPT ![r] = NoCopy]
    /\ UNCHANGED <<rows, snapshot, compacting, due, listed, loose, wire, leaving, browsers, call, made, lost, overtaken, failed>>

\* deleteDocument, once the drop's save has ended: the document's row...
DeleteRow ==
    /\ deleting.st = "dropping"
    /\ \A l \in loose \cup flights : l.at = deleting.at => l.of # "dropped"
    /\ listed' = FALSE
    /\ deleting' = [deleting EXCEPT !.st = "unlisted"]
    /\ UNCHANGED <<store, hub, browsers, call, made, lost, overtaken, failed, budget>>

\* ...then its content, which waits for a compaction that holds the rows.
DeleteContent ==
    /\ deleting.st = "unlisted" /\ compacting.by = Nowhere
    /\ rows' = {} /\ snapshot' = {}
    /\ deleting' = [deleting EXCEPT !.st = "announced"]
    /\ UNCHANGED <<nextSeq, compacting, due, listed, hub, browsers, call, made, lost, overtaken,
                   failed, budget>>

\* forgetDeleted, on each replica that hears of it: the copy is discarded
\* unsaved, and the sockets' frames are for a document that does not exist.
\* Mutant: a deleted document's copy is dropped like any other.
Saved(r) == Released(r)
Discarded(r) == {}

Forget(r) ==
    /\ deleting.st = "announced" /\ r \notin deleting.told /\ Subscribed(r)
    /\ deleting' = [deleting EXCEPT !.told = @ \cup {r}]
    /\ flights' = Orphaned(r) \cup Discarded(r)
    /\ copy' = [copy EXCEPT ![r] = NoCopy]
    /\ phase' = [c \in Editor |-> IF at[c] = r THEN "over" ELSE phase[c]]
    /\ up' = [c \in Editor |-> IF at[c] = r THEN {} ELSE up[c]]
    /\ wire' = [wire EXCEPT ![r] = {}]
    /\ UNCHANGED <<store, listed, loose, leaving, at, mine, call, made, lost, overtaken, failed, budget>>

\* A replica stops: its copies, its appends (committed or not) and its sockets.
Crash(r) ==
    /\ Fault
    /\ \E done \in SUBSET {f \in flights : f.at = r} :
           rows' = rows \cup {[seq |-> f.seq, data |-> f.batch] : f \in done}
    /\ flights' = {f \in flights : f.at # r}
    /\ loose' = {l \in loose : l.at # r}
    /\ copy' = [copy EXCEPT ![r] = NoCopy]
    /\ wire' = [wire EXCEPT ![r] = {}]
    /\ leaving' = leaving \ {r} /\ due' = due \ {r}
    /\ compacting' = IF compacting.by = r THEN [by |-> Nowhere, rows |-> {}] ELSE compacting
    /\ call' = [k \in Call |-> IF call[k].at = r /\ call[k].st \in {"opening", "saving"}
                               THEN [call[k] EXCEPT !.st = "failed"] ELSE call[k]]
    /\ deleting' = IF deleting.at = r /\ deleting.st \in {"dropping", "unlisted"}
                   THEN [deleting EXCEPT !.st = "stopped"] ELSE deleting
    /\ at' = [c \in Editor |-> IF at[c] = r THEN Nowhere ELSE at[c]]
    /\ phase' = [c \in Editor |-> IF at[c] = r THEN "off" ELSE phase[c]]
    /\ up' = [c \in Editor |-> IF at[c] = r THEN {} ELSE up[c]]
    /\ lost' = lost \cup copy[r].pending \cup UNION {f.batch : f \in {g \in flights \cup loose : g.at = r}}
    /\ UNCHANGED <<snapshot, nextSeq, listed, mine, made, overtaken>>

-----------------------------------------------------------------------------
(* The notes writer: edit() of an upload's placeholder, then of its result.*)

\* The job is queued when the first call is over, and its outcome may be
\* handled by any replica.
Begin(u, what, r) ==
    LET k == <<u, what>>
        before == call[<<u, "uploaded">>].st
    IN  /\ call[k].st = "idle"
        /\ IF what = "uploaded" THEN Spend("uploads")
                                ELSE before \in {"returned", "failed"} /\ UNCHANGED budget
        /\ call' = [call EXCEPT ![k] = [at |-> r, st |-> "opening", opened |-> copy[r].st # "none"]]
        /\ copy' = [copy EXCEPT ![r] = Opened(r)]
        /\ UNCHANGED <<store, listed, flights, loose, wire, leaving, deleting, browsers, made, lost,
                       overtaken, failed>>

\* The change, published, and a save of all that is pending; edit() waits for
\* it.  A section, or the mark that there was one, is not written again.
Sections(u) == {k \in Call : k[1] = u}
\* Mutant: the edit is left to the batch.
SavedLater(r, k, pending) == {}
SaveNow(r, k, pending) == IF pending = {} THEN {} ELSE {Flight(r, pending, "copy", k, 0)}

Write(k) ==
    LET r == call[k].at
        new == IF copy[r].doc \cap Sections(k[1]) = {} THEN {k} ELSE {}
        pending == copy[r].pending \cup new
        saves == SaveNow(r, k, pending)
        drops == pending = {} /\ ~Kept(r, k, {})
    IN  /\ call[k].st = "opening" /\ copy[r].st = "open"
        /\ copy' = IF drops THEN [copy EXCEPT ![r] = NoCopy]
                   ELSE [copy EXCEPT ![r].doc = @ \cup new, ![r].pending = IF saves = {} THEN pending ELSE {}]
        /\ flights' = (IF drops THEN Orphaned(r) ELSE flights) \cup saves
        /\ nextSeq' = nextSeq + Cardinality(saves)
        /\ call' = IF saves = {} THEN Returned(k) ELSE [call EXCEPT ![k].st = "saving"]
        /\ made' = made \cup new
        /\ overtaken' = (overtaken \/ ~(Stored \subseteq copy[r].doc))
        /\ \/ wire' = Published(new, Nowhere) /\ UNCHANGED <<failed, budget>>
           \/ new # {} /\ Fault /\ UNCHANGED wire
        /\ UNCHANGED <<rows, snapshot, compacting, due, listed, loose, leaving, deleting, browsers, lost>>

-----------------------------------------------------------------------------
EditorStep(c) == \/ \E r \in Replica : Join(c, r)
                 \/ \E e \in Typing : Type(c, e)
                 \/ Leave(c)
                 \/ Hello(c)
                 \/ \E e \in Edits : Receive(c, e)

ReplicaStep(r) == \/ Open(r) \/ Load(r) \/ LoadFails(r)
                  \/ \E u \in wire[r] : Relay(r, u)
                  \/ CatchUp(r) \/ Flush(r) \/ Compact(r) \/ DropAll(r) \/ Crash(r)
                  \/ DeleteDrops(r) \/ Forget(r)
                  \/ \E u \in Upload, what \in {"uploaded", "finished"} : Begin(u, what, r)

StoreStep == \/ \E f \in flights : Append(f) \/ AppendFails(f)
             \/ \E l \in loose : Retry(l)
             \/ CompactCommits \/ CompactFails
             \/ DeleteRow \/ DeleteContent

Next == \/ \E c \in Editor : EditorStep(c)
        \/ \E r \in Replica : ReplicaStep(r)
        \/ StoreStep
        \/ \E k \in Call : Write(k)

Spec == Init /\ [][Next]_vars

-----------------------------------------------------------------------------
(* Properties.                                                             *)

Batch == [at : Replica, batch : SUBSET Edits, of : {"copy", "dropped", "released"}, tries : 0..3]

\* Every variable has its type; a save on its way holds something, and no two
\* of them, nor two rows, have one sequence number.
TypeOK ==
    /\ \A row \in rows : row.seq \in 1..(nextSeq - 1) /\ row.data \in SUBSET Edits /\ row.data # {}
    /\ snapshot \subseteq Edits /\ listed \in BOOLEAN /\ due \subseteq Replica
    /\ compacting.by \in Replica \cup {Nowhere}
    /\ copy \in [Replica -> [st : {"none", "loading", "open"}, doc : SUBSET Edits,
                             peers : SUBSET Editor, pending : SUBSET Edits,
                             catchUp : BOOLEAN, behind : SUBSET Edits]]
    /\ \A r \in Replica : copy[r].pending \subseteq copy[r].doc
    /\ loose \subseteq Batch /\ leaving \subseteq Replica
    /\ \A f \in flights : f.batch # {} /\ f.seq \in 1..(nextSeq - 1)
    /\ \A f, g \in flights : f.seq = g.seq => f = g
    /\ at \in [Editor -> Replica \cup {Nowhere}]
    /\ phase \in [Editor -> {"off", "in", "unanswered", "synced", "over"}]
    /\ mine \in [Editor -> SUBSET Edits] /\ up \in [Editor -> SUBSET Edits]
    /\ \A k \in Call : call[k].st \in {"idle", "opening", "saving", "returned", "failed"}
    /\ made \subseteq Edits

\* What is stored stays stored until the document is deleted: compaction
\* beside appends of other replicas loses no edit (compactRoomDoc's
\* "exactly the rows merged").
StoredStays == [][listed /\ listed' => Stored \subseteq Stored']_vars

\* No edit is forgotten unless a replica stops with it or three saves of a
\* released copy fail: it is stored, waiting to be saved, or in the document
\* of a browser, which sends it again when it reconnects.  A copy is never let
\* go with unsaved edits in it (drop, edit).
EditsHeld ==
    listed => made \ lost \subseteq Stored \cup Unsaved \cup UNION {mine[c] : c \in Editor}

\* An upload gets one section: its outcome is handled on any replica after
\* the placeholder's edit() returned, and finds it.  Not so if something
\* failed, or the outcome came to a copy that lagged behind storage.
OneSection ==
    \A u \in Upload : Cardinality(Sections(u) \cap made) <= 1 \/ overtaken \/ failed

\* A replica keeps no copy while it is not subscribed to the room's updates:
\* it would hand the next joiner a document that misses other replicas' edits.
NoStaleCopy ==
    \A r \in Replica :
        copy[r].st = "open" /\ ~Subscribed(r) =>
            \/ r \in leaving \/ failed \/ ~listed
            \/ \E k \in Call : call[k].at = r /\ call[k].st \in {"opening", "saving"}

\* Nothing is on its way.
Quiet ==
    /\ flights = {} /\ loose = {} /\ Unsaved = {} /\ leaving = {}
    /\ \A r \in Replica : wire[r] = {} /\ copy[r].st # "loading" /\ ~copy[r].catchUp
    /\ \A c \in Editor : up[c] = {} /\ phase[c] # "in"

\* When nothing is on its way, everyone who is connected has the document that
\* is stored, whichever replica they are on and whatever they did offline.
ConvergedAtRest ==
    Quiet /\ ~failed /\ deleting.st = "no" =>
        \A c \in Editor : at[c] # Nowhere => mine[c] = Stored

\* A replica that heard that the document is deleted does not save it again:
\* what its copy held unsaved goes with it (discard).
DeletedNotSaved ==
    [][\A f \in flights' : f.seq = nextSeq => failed \/ f.at \notin deleting.told]_vars

\* Every copy is, or comes to be, what is stored.
CopiesCurrent == NoStaleCopy /\ ConvergedAtRest

\* What is stored stays, and goes for good when its document is deleted.
StorageKept == []TypeOK /\ StoredStays /\ DeletedNotSaved
=============================================================================
