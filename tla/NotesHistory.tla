---------------------------- MODULE NotesHistory ----------------------------
(***************************************************************************)
(* The restore points of one document: taken by the replicas that save its *)
(* edits (keepHistory in docs/roomDocs.ts), kept in room_doc_versions      *)
(* (db/roomDocs.ts) and restored on request (routes/versions.ts).  How     *)
(* edits travel between replicas is RoomDocs' subject: here every open     *)
(* copy hears an edit at once.  A state of the document is an edit's       *)
(* number and the size it left.                                            *)
(***************************************************************************)
EXTENDS Integers, FiniteSets, FiniteSetsExt

CONSTANTS Replica, Request, None,
          Sizes,          \* notesSize
          LargeChars,     \* LARGE_DELETION_CHARS; the share is 40 %
          BaselineAge,    \* BASELINE_MS
          VersionEvery, MaxVersions,
          MaxTime, MaxEdits, MaxFaults

VARIABLES now, text,
          copies,     \* the document as open on each replica
          versions,   \* the rows of room_doc_versions
          saving,     \* the saves going on: a version and the statement next
          requests,   \* the restores
          replaced,   \* history: what each restore replaced, and when
          seen,       \* history: the text at each copy's load or last save
          attempted,  \* history: when a version was last given to be saved
          spoilt,     \* history: a trim failed
          faults
rows == <<versions, saving, spoilt>>
history == <<replaced, seen, attempted>>
vars == <<now, text, copies, rows, requests, history, faults>>

State == [n : 0..MaxEdits, size : Sizes]
Version == [of : State, at : 0..MaxTime, why : {"hourly", "deletion", "restore"}, by : Replica \cup Request]
NoCopy == [open |-> FALSE, dirty |-> FALSE, last |-> 0, base |-> [of |-> [n |-> 0, size |-> 0], at |-> 0]]
Idle == [step |-> "idle", pick |-> None]

TypeOK ==
    /\ now \in 1..MaxTime /\ text \in State
    /\ copies \in [Replica -> [open : BOOLEAN, dirty : BOOLEAN, last : 0..MaxTime,
                               base : [of : State, at : 0..MaxTime]]]
    /\ versions \subseteq Version /\ Cardinality(versions) <= MaxVersions + Cardinality(saving) + MaxFaults
    /\ \A s \in saving : s.version \in Version /\ s.step \in {"insert", "trim"}
    /\ \A p \in Request : /\ requests[p].step \in {"idle", "look", "found", "edited", "saving",
                                                   "restored", "failed", "gone"}
                          /\ requests[p].pick \in Version \cup {None}
    /\ faults \in 0..MaxFaults

Init ==
    /\ now = 1 /\ text = [n |-> 0, size |-> 0]
    /\ copies = [r \in Replica |-> NoCopy]
    /\ versions = {} /\ saving = {} /\ spoilt = FALSE
    /\ requests = [p \in Request |-> Idle]
    /\ replaced = [p \in Request |-> None]
    /\ seen = [r \in Replica |-> text] /\ attempted = 0
    /\ faults = 0

Fault == faults < MaxFaults /\ faults' = faults + 1

-----------------------------------------------------------------------------
\* A copy is opened and loaded, edited, and released once it is saved.

LatestAt == Max({v.at : v \in versions} \cup {0})

(* Mutant: the last version of a copy just loaded counts as taken now. *)
LoadedAsSaved == now
LastVersionAt == LatestAt

Loaded(r, last) ==
    /\ ~copies[r].open
    /\ copies' = [copies EXCEPT ![r] = [open |-> TRUE, dirty |-> FALSE, last |-> last,
                                        base |-> [of |-> text, at |-> now]]]
    /\ seen' = [seen EXCEPT ![r] = text]
    /\ UNCHANGED <<now, text, rows, requests, replaced>>
Open(r) == Loaded(r, LastVersionAt) /\ UNCHANGED <<attempted, faults>>
(* When the last version was taken cannot be read: it then counts as now.    *)
OpenUntold(r) == Loaded(r, now) /\ Fault /\ attempted' = now

Close(r) ==
    /\ copies[r].open /\ ~copies[r].dirty
    /\ copies' = [copies EXCEPT ![r] = NoCopy]
    /\ UNCHANGED <<now, text, rows, requests, history, faults>>

Changed(size) == text.n < MaxEdits /\ text' = [n |-> text.n + 1, size |-> size]
Edit(r, size) ==
    /\ copies[r].open /\ Changed(size)
    /\ copies' = [copies EXCEPT ![r].dirty = TRUE]
    /\ UNCHANGED <<now, rows, requests, history, faults>>

-----------------------------------------------------------------------------
\* keepHistory, once for each batch that is saved: of the text t as saved.

IsLarge(from, to) == from - to >= LargeChars /\ 5 * to <= 3 * from
LargeDeletion(c, t) == IsLarge(c.base.of.size, t.size)
Hourly(c, t) == ~LargeDeletion(c, t) /\ now - c.last >= VersionEvery

(* Mutant: the copy kept is refreshed only when it has grown old. *)
RefreshedByAge(c, t) == LargeDeletion(c, t) \/ now - c.base.at >= BaselineAge
Refreshed(c, t) == LargeDeletion(c, t) \/ now - c.base.at >= BaselineAge \/ t.size >= c.base.of.size

Taken(of, why, by) == [of |-> of, at |-> now, why |-> why, by |-> by]
NewVersions(r, t) ==
    {v \in {Taken(copies[r].base.of, "deletion", r)} : LargeDeletion(copies[r], t)} \cup
    {v \in {Taken(t, "hourly", r)} : Hourly(copies[r], t)}

KeepHistory(r, t) ==
    LET new == NewVersions(r, t) IN
    /\ copies' = [copies EXCEPT ![r].dirty = FALSE,
                                ![r].last = IF new = {} THEN @ ELSE now,
                                ![r].base = IF Refreshed(copies[r], t) THEN [of |-> t, at |-> now] ELSE @]
    /\ saving' = saving \cup {[version |-> v, step |-> "insert"] : v \in new}
    /\ attempted' = IF new = {} THEN attempted ELSE now
    /\ seen' = [seen EXCEPT ![r] = t]

Flush(r) ==
    /\ copies[r].open /\ copies[r].dirty
    /\ KeepHistory(r, text)
    /\ UNCHANGED <<now, text, versions, spoilt, requests, replaced, faults>>

-----------------------------------------------------------------------------
\* saveRoomDocVersion: the row goes in, then all but the newest go.

(* Mutant: one more is kept. *)
KeptAndOne == MaxVersions + 1
KeptRows == MaxVersions

FirstOf(vs, before(_, _)) ==
    {keep \in SUBSET vs : /\ Cardinality(keep) = Min({KeptRows, Cardinality(vs)})
                          /\ \A v \in keep, w \in vs \ keep : before(v, w)}
(* Mutant: the versions are ordered by when they were taken, ascending. *)
Oldest(vs) == FirstOf(vs, LAMBDA v, w : v.at <= w.at)
Newest(vs) == FirstOf(vs, LAMBDA v, w : v.at >= w.at)

Ended(s, how) ==
    requests' = [p \in Request |-> IF p = s.version.by THEN [requests[p] EXCEPT !.step = how, !.pick = None] ELSE requests[p]]
Insert(s) ==
    /\ s.step = "insert"
    /\ versions' = versions \cup {s.version}
    /\ saving' = (saving \ {s}) \cup {[s EXCEPT !.step = "trim"]}
    /\ UNCHANGED <<now, text, copies, requests, history, spoilt, faults>>
Trim(s) ==
    /\ s.step = "trim"
    /\ versions' \in Newest(versions)
    /\ saving' = saving \ {s} /\ Ended(s, "restored")
    /\ UNCHANGED <<now, text, copies, history, spoilt, faults>>
(* Either statement fails: for a restore that is an error, otherwise logged. *)
SaveFails(s) ==
    /\ Fault
    /\ saving' = saving \ {s} /\ Ended(s, "failed")
    /\ spoilt' = (spoilt \/ s.step = "trim")
    /\ UNCHANGED <<now, text, copies, versions, history>>

-----------------------------------------------------------------------------
\* A restore: the list is shown, a version picked, its content put in place of
\* the text within one edit, and what was there saved.

Goto(p, step) == requests' = [requests EXCEPT ![p].step = step]

List(p, v) ==
    /\ requests[p].step = "idle" /\ v \in versions
    /\ requests' = [requests EXCEPT ![p] = [step |-> "look", pick |-> v]]
    /\ UNCHANGED <<now, text, copies, rows, history, faults>>
Fetch(p) ==
    /\ requests[p].step = "look"
    /\ Goto(p, IF requests[p].pick \in versions THEN "found" ELSE "gone")
    /\ UNCHANGED <<now, text, copies, rows, history, faults>>

(* Mutant: what is there is captured after it was replaced. *)
BeforeAfterwards(p) == text'
Before(p) == text
Replace(p, r) ==
    /\ requests[p].step = "found" /\ copies[r].open
    /\ Changed(requests[p].pick.of.size)
    /\ KeepHistory(r, text')
    /\ requests' = [requests EXCEPT ![p].step = "edited", ![p].pick = Taken(Before(p), "restore", p)]
    /\ replaced' = [replaced EXCEPT ![p] = Taken(text, "restore", p)]
    /\ UNCHANGED <<now, versions, spoilt, faults>>
SaveBefore(p) ==
    /\ requests[p].step = "edited"
    /\ saving' = saving \cup {[version |-> [requests[p].pick EXCEPT !.at = now], step |-> "insert"]}
    /\ Goto(p, "saving")
    /\ UNCHANGED <<now, text, copies, versions, spoilt, history, faults>>
RequestDies(p) ==
    /\ requests[p].step \in {"found", "edited"} /\ Fault /\ Goto(p, "failed")
    /\ UNCHANGED <<now, text, copies, rows, history>>

Tick ==
    /\ now < MaxTime /\ now' = now + 1
    /\ UNCHANGED <<text, copies, rows, requests, history, faults>>

CopyStep(r) == Open(r) \/ OpenUntold(r) \/ Close(r) \/ (\E size \in Sizes : Edit(r, size)) \/ Flush(r)
SaveStep(s) == Insert(s) \/ Trim(s) \/ SaveFails(s)
RestoreStep(p) ==
    \/ (\E v \in versions : List(p, v)) \/ Fetch(p) \/ (\E r \in Replica : Replace(p, r))
    \/ SaveBefore(p) \/ RequestDies(p)
Next ==
    \/ \E r \in Replica : CopyStep(r)
    \/ \E s \in saving : SaveStep(s)
    \/ \E p \in Request : RestoreStep(p)
    \/ Tick
Spec == Init /\ [][Next]_vars

-----------------------------------------------------------------------------
(* A batch that took away a large part of what the replica last saved or     *)
(* loaded comes with a version that holds at least as much: the comparison   *)
(* is with a kept copy, whose refreshing must never lose sight of it.        *)
DeletionKept ==
    \A r \in Replica :
       copies[r].open /\ seen'[r] # seen[r] /\ IsLarge(seen[r].size, text'.size) =>
          \E s \in saving' : s.version.by = r /\ s.version.at = now /\ s.version.of.size >= seen[r].size

(* While a document is edited no batch is saved without a version, taken or  *)
(* tried, within the last hour, whichever replica took it and however often  *)
(* copies are dropped and loaded.                                            *)
HourlyPoint ==
    \A r \in Replica :
       copies[r].open /\ seen'[r] # seen[r] => now - attempted' < VersionEvery

(* A restore that was answered can be undone: what it replaced, edits made   *)
(* since the version was picked included, is kept, or enough newer versions  *)
(* are.                                                                      *)
RestoreCanBeUndone ==
    \A p \in Request : requests[p].step = "restored" =>
       \/ \E v \in versions : v.by = p /\ v.of = replaced[p].of
       \/ Cardinality({v \in versions : v.by # p /\ v.at >= replaced[p].at}) >= MaxVersions

(* Once nothing is being saved a document holds no more versions than it     *)
(* may, though saves overlap: unless a trim failed.                          *)
AtMostKept == saving = {} /\ ~spoilt => Cardinality(versions) <= MaxVersions

(* A trim takes away nothing that is newer than what it keeps.               *)
TrimsTheOldest == \A v \in versions \ versions', w \in versions' : v.at <= w.at

(* What README.md:376-378 says: before a large deletion the notes as they    *)
(* were are kept.  All edits were saved and heard by every open copy when a  *)
(* replica's editor deletes a large part: the replica's next save must find  *)
(* the deletion large too.                                                   *)
LargeDeletionKept ==
    \A r \in Replica :
       /\ \A q \in Replica : ~copies[q].dirty
       /\ copies'[r].dirty /\ IsLarge(text.size, text'.size)
       => LargeDeletion(copies'[r], text')
=============================================================================
