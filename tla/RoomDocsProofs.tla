---------------------------- MODULE RoomDocsProofs ----------------------------
(***************************************************************************)
(* Proofs about RoomDocs, for any replicas, browsers, edits and uploads:   *)
(* what is stored stays, no edit is forgotten, an upload gets one section, *)
(* and copies come to agree.                                               *)
(***************************************************************************)
EXTENDS RoomDocs, FiniteSetTheorems, TLAPS

-----------------------------------------------------------------------------
(* Types.                                                                  *)

Copies == [st : {"none", "loading", "open"}, doc : SUBSET Edits, peers : SUBSET Editor,
           pending : SUBSET Edits, catchUp : BOOLEAN, behind : SUBSET Edits]
Flights == [at : Replica, batch : SUBSET Edits, of : {"copy", "dropped", "released"},
            by : Call \cup {Nowhere}, tries : 0..2, seq : Nat]
Batches == [at : Replica, batch : SUBSET Edits, of : {"dropped", "released"}, tries : 0..2]
Calls == [at : Replica \cup {Nowhere}, st : {"idle", "opening", "saving", "returned", "failed"},
          opened : BOOLEAN]
RowSet == [seq : Nat, data : SUBSET Edits]
Bounds == [typing : Nat, uploads : Nat, joins : Nat, deletes : Nat, faults : Nat]

\* What every variable is; the last part says where editors are.
Shaped ==
  /\ rows \subseteq RowSet /\ snapshot \subseteq Edits /\ nextSeq \in Nat \ {0}
  /\ listed \in BOOLEAN /\ due \subseteq Replica
  /\ compacting \in [by : Replica \cup {Nowhere}, rows : SUBSET RowSet]
  /\ copy \in [Replica -> Copies] /\ flights \subseteq Flights /\ loose \subseteq Batches
  /\ wire \in [Replica -> SUBSET [edit : Edits, from : Editor \cup {Nowhere}]]
  /\ leaving \subseteq Replica
  /\ deleting \in [st : {"no", "dropping", "unlisted", "announced", "stopped"},
                   at : Replica \cup {Nowhere}, told : SUBSET Replica]
  /\ at \in [Editor -> Replica \cup {Nowhere}]
  /\ phase \in [Editor -> {"off", "in", "unanswered", "synced", "over"}]
  /\ mine \in [Editor -> SUBSET Edits] /\ up \in [Editor -> SUBSET Edits]
  /\ call \in [Call -> Calls]
  /\ made \subseteq Edits /\ overtaken \in BOOLEAN /\ failed \in BOOLEAN
  /\ budget \in Bounds

\* An editor that is nowhere has no handshake and sends nothing.
Away == \A c \in Editor : at[c] = Nowhere => phase[c] = "off" /\ up[c] = {}

\* What is stored and what is unsaved are edits.
LEMMA StoredAreEdits == Shaped => Stored \subseteq Edits /\ Unsaved \subseteq Edits
  <1> SUFFICES ASSUME Shaped PROVE Stored \subseteq Edits /\ Unsaved \subseteq Edits
    OBVIOUS
  <1>1. Stored \subseteq Edits
    BY DEF Stored, Shaped, RowSet
  <1>2. \A f \in flights \cup loose : f.batch \subseteq Edits
    BY DEF Shaped, Flights, Batches
  <1>3. \A r \in Replica : copy[r].pending \subseteq Edits
    BY DEF Shaped, Copies
  <1>4. Unsaved \subseteq Edits
    BY <1>2, <1>3 DEF Unsaved
  <1> QED
    BY <1>1, <1>4

\* A copy that is none is typed.
LEMMA NoCopyShaped == NoCopy \in Copies /\ [NoCopy EXCEPT !.st = "loading"] \in Copies
  BY DEF NoCopy, Copies

\* A fault, or another step that a bound counts, leaves counted bounds.
LEMMA Spent ==
  ASSUME budget \in Bounds, NEW what \in {"typing", "uploads", "joins", "deletes", "faults"}, Spend(what)
  PROVE  /\ budget' \in Bounds
         /\ budget[what] # 0
         /\ \A w \in {"typing", "uploads", "joins", "deletes", "faults"} : w # what => budget'[w] = budget[w]
  BY DEF Bounds, Spend

\* A flight of a copy that is released, and one that stays as it is.
Freed(f) == [f EXCEPT !.of = "released"]
Afterwards(f, r) == IF f.at = r /\ f.of = "copy" THEN Freed(f) ELSE f
SameSave(g, f) == g.at = f.at /\ g.batch = f.batch /\ g.by = f.by /\ g.seq = f.seq /\ g.tries = f.tries

\* A save of a released copy is the same save.
LEMMA FreedMeans ==
  ASSUME NEW f \in Flights
  PROVE  Freed(f) \in Flights /\ Freed(f).of = "released" /\ SameSave(Freed(f), f)
  BY DEF Flights, Freed, SameSave

\* So it is after the release, and of no copy there.
LEMMA AfterwardsMeans ==
  ASSUME NEW f \in Flights, NEW r
  PROVE  /\ Afterwards(f, r) \in Flights /\ SameSave(Afterwards(f, r), f)
         /\ Afterwards(f, r).of \in {f.of, "released"}
         /\ ~(Afterwards(f, r).of = "copy" /\ Afterwards(f, r).at = r)
  <1>1. CASE f.at = r /\ f.of = "copy"
    BY <1>1, FreedMeans DEF Afterwards
  <1>2. CASE ~(f.at = r /\ f.of = "copy")
    BY <1>2 DEF Afterwards, SameSave
  <1> QED
    BY <1>1, <1>2

\* Saves under way of a released copy are still under way.
LEMMA OrphanedMeans ==
  ASSUME flights \subseteq Flights, NEW r
  PROVE  /\ Orphaned(r) = {Afterwards(f, r) : f \in flights}
         /\ Orphaned(r) \subseteq Flights
  <1>1. Orphaned(r) = {Afterwards(f, r) : f \in flights}
    BY DEF Orphaned, Afterwards, Freed
  <1>2. \A f \in flights : Afterwards(f, r) \in Flights
    BY AfterwardsMeans
  <1> QED
    BY <1>1, <1>2

\* What drop saves.
LEMMA ReleasedMeans ==
  ASSUME Shaped, NEW r \in Replica
  PROVE  /\ Released(r) \subseteq Flights
         /\ copy[r].pending = {} => Released(r) = {} /\ Cardinality(Released(r)) = 0
         /\ copy[r].pending # {} => /\ Released(r) = {Flight(r, copy[r].pending, "dropped", Nowhere, 0)}
                                    /\ Cardinality(Released(r)) = 1
         /\ \A g \in Released(r) : /\ g.batch = copy[r].pending /\ g.batch # {} /\ g.at = r
                                   /\ g.of = "dropped" /\ g.by = Nowhere /\ g.seq = nextSeq
  <1>1. copy[r].pending \subseteq Edits /\ nextSeq \in Nat
    BY DEF Shaped, Copies
  <1>2. Flight(r, copy[r].pending, "dropped", Nowhere, 0) \in Flights
    BY <1>1 DEF Flight, Flights
  <1>3. CASE copy[r].pending = {}
    BY <1>3, FS_EmptySet DEF Released
  <1>4. CASE copy[r].pending # {}
    <2>1. PICK f : f = Flight(r, copy[r].pending, "dropped", Nowhere, 0)
      OBVIOUS
    <2>2. Released(r) = {f}
      BY <1>4, <2>1 DEF Released
    <2>3. Cardinality({f}) = 1
      BY FS_Singleton
    <2>4. f.batch = copy[r].pending /\ f.at = r /\ f.of = "dropped" /\ f.by = Nowhere /\ f.seq = nextSeq
      BY <2>1 DEF Flight
    <2> QED
      BY <1>2, <1>4, <2>1, <2>2, <2>3, <2>4
  <1> QED
    BY <1>3, <1>4

\* A step changes the copy of one replica, and into what.
CopyMoves(r, st, doc, peers, pending) ==
  /\ copy' \in [Replica -> Copies]
  /\ \A q \in Replica : q # r => copy'[q] = copy[q]
  /\ copy'[r].st = st /\ copy'[r].doc = doc /\ copy'[r].peers = peers /\ copy'[r].pending = pending

\* What is left for its reload.
Reload(r, catchUp, behind) == copy'[r].catchUp = catchUp /\ copy'[r].behind = behind

\* A step that puts a typed copy in place.
LEMMA CopyBecomes ==
  ASSUME copy \in [Replica -> Copies], NEW r \in Replica, NEW y \in Copies, copy' = [copy EXCEPT ![r] = y]
  PROVE  CopyMoves(r, y.st, y.doc, y.peers, y.pending) /\ Reload(r, y.catchUp, y.behind)
  BY DEF CopyMoves, Reload

\* What setting some of a replica's copy does.
LEMMA SetBehind ==
  ASSUME copy \in [Replica -> Copies], NEW r \in Replica,
         NEW nbehind \in SUBSET Edits,
         copy' = [copy EXCEPT ![r].behind = nbehind]
  PROVE  /\ CopyMoves(r, copy[r].st, copy[r].doc, copy[r].peers, copy[r].pending)
         /\ Reload(r, copy[r].catchUp, nbehind)
  <1>1. PICK x \in Copies : x = copy[r]
    OBVIOUS
  <1>2. PICK y : y = [x EXCEPT !.behind = nbehind]
    OBVIOUS
  <1>3. /\ y \in Copies
        /\ y.st = x.st
        /\ y.doc = x.doc
        /\ y.peers = x.peers
        /\ y.pending = x.pending
        /\ y.catchUp = x.catchUp
        /\ y.behind = nbehind
    BY <1>2 DEF Copies
  <1>4. copy' = [copy EXCEPT ![r] = y]
    BY <1>1, <1>2
  <1>5. CopyMoves(r, y.st, y.doc, y.peers, y.pending) /\ Reload(r, y.catchUp, y.behind)
    BY <1>3, <1>4, CopyBecomes, Zenon
  <1> QED
    BY <1>1, <1>3, <1>5

\* What setting peers of a copy does.
LEMMA SetPeers ==
  ASSUME copy \in [Replica -> Copies], NEW r \in Replica,
         NEW npeers \in SUBSET Editor,
         copy' = [copy EXCEPT ![r].peers = npeers]
  PROVE  /\ CopyMoves(r, copy[r].st, copy[r].doc, npeers, copy[r].pending)
         /\ Reload(r, copy[r].catchUp, copy[r].behind)
  <1>1. PICK x \in Copies : x = copy[r]
    OBVIOUS
  <1>2. PICK y : y = [x EXCEPT !.peers = npeers]
    OBVIOUS
  <1>3. /\ y \in Copies
        /\ y.st = x.st
        /\ y.doc = x.doc
        /\ y.peers = npeers
        /\ y.pending = x.pending
        /\ y.catchUp = x.catchUp
        /\ y.behind = x.behind
    BY <1>2 DEF Copies
  <1>4. copy' = [copy EXCEPT ![r] = y]
    BY <1>1, <1>2
  <1>5. CopyMoves(r, y.st, y.doc, y.peers, y.pending) /\ Reload(r, y.catchUp, y.behind)
    BY <1>3, <1>4, CopyBecomes, Zenon
  <1> QED
    BY <1>1, <1>3, <1>5

\* What setting doc of a copy does.
LEMMA SetDoc ==
  ASSUME copy \in [Replica -> Copies], NEW r \in Replica,
         NEW ndoc \in SUBSET Edits,
         copy' = [copy EXCEPT ![r].doc = ndoc]
  PROVE  /\ CopyMoves(r, copy[r].st, ndoc, copy[r].peers, copy[r].pending)
         /\ Reload(r, copy[r].catchUp, copy[r].behind)
  <1>1. PICK x \in Copies : x = copy[r]
    OBVIOUS
  <1>2. PICK y : y = [x EXCEPT !.doc = ndoc]
    OBVIOUS
  <1>3. /\ y \in Copies
        /\ y.st = x.st
        /\ y.doc = ndoc
        /\ y.peers = x.peers
        /\ y.pending = x.pending
        /\ y.catchUp = x.catchUp
        /\ y.behind = x.behind
    BY <1>2 DEF Copies
  <1>4. copy' = [copy EXCEPT ![r] = y]
    BY <1>1, <1>2
  <1>5. CopyMoves(r, y.st, y.doc, y.peers, y.pending) /\ Reload(r, y.catchUp, y.behind)
    BY <1>3, <1>4, CopyBecomes, Zenon
  <1> QED
    BY <1>1, <1>3, <1>5

\* What setting pending of a copy does.
LEMMA SetPending ==
  ASSUME copy \in [Replica -> Copies], NEW r \in Replica,
         NEW npending \in SUBSET Edits,
         copy' = [copy EXCEPT ![r].pending = npending]
  PROVE  /\ CopyMoves(r, copy[r].st, copy[r].doc, copy[r].peers, npending)
         /\ Reload(r, copy[r].catchUp, copy[r].behind)
  <1>1. PICK x \in Copies : x = copy[r]
    OBVIOUS
  <1>2. PICK y : y = [x EXCEPT !.pending = npending]
    OBVIOUS
  <1>3. /\ y \in Copies
        /\ y.st = x.st
        /\ y.doc = x.doc
        /\ y.peers = x.peers
        /\ y.pending = npending
        /\ y.catchUp = x.catchUp
        /\ y.behind = x.behind
    BY <1>2 DEF Copies
  <1>4. copy' = [copy EXCEPT ![r] = y]
    BY <1>1, <1>2
  <1>5. CopyMoves(r, y.st, y.doc, y.peers, y.pending) /\ Reload(r, y.catchUp, y.behind)
    BY <1>3, <1>4, CopyBecomes, Zenon
  <1> QED
    BY <1>1, <1>3, <1>5

\* What setting doc, pending of a copy does.
LEMMA SetDocPending ==
  ASSUME copy \in [Replica -> Copies], NEW r \in Replica,
         NEW ndoc \in SUBSET Edits,
         NEW npending \in SUBSET Edits,
         copy' = [copy EXCEPT ![r].doc = ndoc, ![r].pending = npending]
  PROVE  /\ CopyMoves(r, copy[r].st, ndoc, copy[r].peers, npending)
         /\ Reload(r, copy[r].catchUp, copy[r].behind)
  <1>1. PICK x \in Copies : x = copy[r]
    OBVIOUS
  <1>2. PICK y : y = [x EXCEPT !.doc = ndoc, !.pending = npending]
    OBVIOUS
  <1>3. /\ y \in Copies
        /\ y.st = x.st
        /\ y.doc = ndoc
        /\ y.peers = x.peers
        /\ y.pending = npending
        /\ y.catchUp = x.catchUp
        /\ y.behind = x.behind
    BY <1>2 DEF Copies
  <1>4. copy' = [copy EXCEPT ![r] = y]
    BY <1>1, <1>2
  <1>5. CopyMoves(r, y.st, y.doc, y.peers, y.pending) /\ Reload(r, y.catchUp, y.behind)
    BY <1>3, <1>4, CopyBecomes, Zenon
  <1> QED
    BY <1>1, <1>3, <1>5

\* What setting doc, catchUp, behind of a copy does.
LEMMA SetDocCatchUpBehind ==
  ASSUME copy \in [Replica -> Copies], NEW r \in Replica,
         NEW ndoc \in SUBSET Edits,
         NEW ncatchUp \in BOOLEAN,
         NEW nbehind \in SUBSET Edits,
         copy' = [copy EXCEPT ![r].doc = ndoc, ![r].catchUp = ncatchUp, ![r].behind = nbehind]
  PROVE  /\ CopyMoves(r, copy[r].st, ndoc, copy[r].peers, copy[r].pending)
         /\ Reload(r, ncatchUp, nbehind)
  <1>1. PICK x \in Copies : x = copy[r]
    OBVIOUS
  <1>2. PICK y : y = [x EXCEPT !.doc = ndoc, !.catchUp = ncatchUp, !.behind = nbehind]
    OBVIOUS
  <1>3. /\ y \in Copies
        /\ y.st = x.st
        /\ y.doc = ndoc
        /\ y.peers = x.peers
        /\ y.pending = x.pending
        /\ y.catchUp = ncatchUp
        /\ y.behind = nbehind
    BY <1>2 DEF Copies
  <1>4. copy' = [copy EXCEPT ![r] = y]
    BY <1>1, <1>2
  <1>5. CopyMoves(r, y.st, y.doc, y.peers, y.pending) /\ Reload(r, y.catchUp, y.behind)
    BY <1>3, <1>4, CopyBecomes, Zenon
  <1> QED
    BY <1>1, <1>3, <1>5

\* What setting st, doc, catchUp, behind of a copy does.
LEMMA SetStDocCatchUpBehind ==
  ASSUME copy \in [Replica -> Copies], NEW r \in Replica,
         NEW nst \in {"none", "loading", "open"},
         NEW ndoc \in SUBSET Edits,
         NEW ncatchUp \in BOOLEAN,
         NEW nbehind \in SUBSET Edits,
         copy' = [copy EXCEPT ![r].st = nst, ![r].doc = ndoc, ![r].catchUp = ncatchUp, ![r].behind = nbehind]
  PROVE  /\ CopyMoves(r, nst, ndoc, copy[r].peers, copy[r].pending)
         /\ Reload(r, ncatchUp, nbehind)
  <1>1. PICK x \in Copies : x = copy[r]
    OBVIOUS
  <1>2. PICK y : y = [x EXCEPT !.st = nst, !.doc = ndoc, !.catchUp = ncatchUp, !.behind = nbehind]
    OBVIOUS
  <1>3. /\ y \in Copies
        /\ y.st = nst
        /\ y.doc = ndoc
        /\ y.peers = x.peers
        /\ y.pending = x.pending
        /\ y.catchUp = ncatchUp
        /\ y.behind = nbehind
    BY <1>2 DEF Copies
  <1>4. copy' = [copy EXCEPT ![r] = y]
    BY <1>1, <1>2
  <1>5. CopyMoves(r, y.st, y.doc, y.peers, y.pending) /\ Reload(r, y.catchUp, y.behind)
    BY <1>3, <1>4, CopyBecomes, Zenon
  <1> QED
    BY <1>1, <1>3, <1>5

\* A step that leaves the copies as they are.
LEMMA SameCopy ==
  ASSUME copy \in [Replica -> Copies], NEW r \in Replica, copy' = copy
  PROVE  CopyMoves(r, copy[r].st, copy[r].doc, copy[r].peers, copy[r].pending)
  BY DEF CopyMoves

\* A step that takes a copy away.
LEMMA CopyGoes ==
  ASSUME copy \in [Replica -> Copies], NEW r \in Replica, copy' = [copy EXCEPT ![r] = NoCopy]
  PROVE  CopyMoves(r, "none", {}, {}, {})
  BY NoCopyShaped DEF CopyMoves, NoCopy

\* Join changes only what a copy misses.
LEMMA JoinCopy ==
  ASSUME Shaped, NEW c \in Editor, NEW r \in Replica, Join(c, r)
  PROVE  /\ CopyMoves(r, copy[r].st, copy[r].doc, copy[r].peers, copy[r].pending)
         /\ Reload(r, copy[r].catchUp, IF copy[r].catchUp /\ ~Subscribed(r) THEN Unsaved ELSE copy[r].behind)
  <1>1. copy \in [Replica -> Copies] /\ Unsaved \in SUBSET Edits
    BY StoredAreEdits DEF Shaped
  <1>2. CASE ~(copy[r].catchUp /\ ~Subscribed(r))
    <2>1. copy' = copy
      BY <1>2 DEF Join
    <2> QED
      BY <1>1, <1>2, <2>1, SameCopy DEF Reload
  <1>3. CASE copy[r].catchUp /\ ~Subscribed(r)
    <2>1. copy' = [copy EXCEPT ![r].behind = Unsaved]
      BY <1>3 DEF Join
    <2> QED
      BY <1>1, <1>3, <2>1, SetBehind
  <1> QED
    BY <1>2, <1>3

\* Leave takes a peer.
LEMMA LeaveCopy ==
  ASSUME Shaped, NEW c \in Editor, Leave(c)
  PROVE  /\ at[c] \in Replica
         /\ CopyMoves(at[c], copy[at[c]].st, copy[at[c]].doc, copy[at[c]].peers \ {c}, copy[at[c]].pending)
         /\ Reload(at[c], copy[at[c]].catchUp, copy[at[c]].behind)
  <1>1. copy \in [Replica -> Copies] /\ at[c] \in Replica
    BY DEF Leave, Shaped
  <1>2. PICK r \in Replica : r = at[c]
    BY <1>1
  <1>5. PICK n : n = copy[r].peers \ {c}
    OBVIOUS
  <1>3. copy' = [copy EXCEPT ![r].peers = n]
    BY <1>2, <1>5 DEF Leave
  <1>4. n \in SUBSET Editor
    BY <1>1, <1>5 DEF Copies
  <1> QED
    <2>1. CopyMoves(r, copy[r].st, copy[r].doc, n, copy[r].pending) /\ Reload(r, copy[r].catchUp, copy[r].behind)
      BY <1>1, <1>3, <1>4, SetPeers
    <2> QED
      BY <1>1, <1>2, <1>5, <2>1

\* Opening starts a load where there is no copy.
LEMMA OpenedCopy ==
  ASSUME copy \in [Replica -> Copies], NEW r \in Replica, copy' = [copy EXCEPT ![r] = Opened(r)]
  PROVE  CopyMoves(r, IF copy[r].st = "none" THEN "loading" ELSE copy[r].st,
                   IF copy[r].st = "none" THEN {} ELSE copy[r].doc,
                   IF copy[r].st = "none" THEN {} ELSE copy[r].peers,
                   IF copy[r].st = "none" THEN {} ELSE copy[r].pending)
  <1>1. CASE copy[r].st = "none"
    <2>1. PICK x : x = [NoCopy EXCEPT !.st = "loading"]
      OBVIOUS
    <2>2. x \in Copies /\ x.st = "loading" /\ x.doc = {} /\ x.peers = {} /\ x.pending = {}
      BY <2>1, NoCopyShaped DEF NoCopy
    <2>3. copy' = [copy EXCEPT ![r] = x]
      BY <1>1, <2>1 DEF Opened
    <2> QED
      BY <1>1, <2>2, <2>3 DEF CopyMoves
  <1>2. CASE copy[r].st # "none"
    BY <1>2 DEF Opened, CopyMoves
  <1> QED
    BY <1>1, <1>2

\* Load fills the copy from storage.
LEMMA LoadCopy ==
  ASSUME Shaped, NEW r \in Replica, Load(r)
  PROVE  CopyMoves(r, "open", copy[r].doc \cup Stored, copy[r].peers, copy[r].pending) /\ Reload(r, TRUE, Unsaved)
  <1>1. copy \in [Replica -> Copies]
    BY DEF Shaped
  <1>2. copy[r].doc \cup Stored \in SUBSET Edits /\ Unsaved \in SUBSET Edits
    BY StoredAreEdits DEF Shaped, Copies
  <1>4. PICK n : n = copy[r].doc \cup Stored
    OBVIOUS
  <1>5. PICK m : m = Unsaved
    OBVIOUS
  <1>3. copy' = [copy EXCEPT ![r].st = "open", ![r].doc = n, ![r].catchUp = TRUE, ![r].behind = m]
    BY <1>4, <1>5 DEF Load
  <1> QED
    <2>1. n \in SUBSET Edits /\ m \in SUBSET Edits
      BY <1>2, <1>4, <1>5
    <2>2. CopyMoves(r, "open", n, copy[r].peers, copy[r].pending) /\ Reload(r, TRUE, m)
      BY <1>1, <1>3, <2>1, SetStDocCatchUpBehind
    <2> QED
      BY <1>4, <1>5, <2>2

\* Hello adds a peer.
LEMMA HelloCopy ==
  ASSUME Shaped, Away, NEW c \in Editor, Hello(c)
  PROVE  /\ at[c] \in Replica
         /\ CopyMoves(at[c], "open", copy[at[c]].doc, copy[at[c]].peers \cup {c}, copy[at[c]].pending)
         /\ Reload(at[c], copy[at[c]].catchUp, copy[at[c]].behind)
  <1>1. copy \in [Replica -> Copies] /\ at[c] \in Replica /\ copy[at[c]].st = "open"
    BY DEF Hello, Shaped, Away
  <1>2. PICK r \in Replica : r = at[c]
    BY <1>1
  <1>5. PICK n : n = copy[r].peers \cup {c}
    OBVIOUS
  <1>3. copy' = [copy EXCEPT ![r].peers = n]
    BY <1>2, <1>5 DEF Hello
  <1>4. n \in SUBSET Editor
    BY <1>1, <1>5 DEF Copies
  <1> QED
    <2>1. CopyMoves(r, copy[r].st, copy[r].doc, n, copy[r].pending) /\ Reload(r, copy[r].catchUp, copy[r].behind)
      BY <1>1, <1>3, <1>4, SetPeers
    <2> QED
      BY <1>1, <1>2, <1>5, <2>1

\* An edit received is in the copy, and unsaved if new.
LEMMA ReceiveCopy ==
  ASSUME Shaped, Away, NEW c \in Editor, NEW e \in Edits, Receive(c, e)
  PROVE  /\ at[c] \in Replica
         /\ CopyMoves(at[c], "open", copy[at[c]].doc \cup {e}, copy[at[c]].peers,
                      copy[at[c]].pending \cup ({e} \ copy[at[c]].doc))
         /\ Reload(at[c], copy[at[c]].catchUp, copy[at[c]].behind)
  <1>1. copy \in [Replica -> Copies] /\ at[c] \in Replica /\ copy[at[c]].st = "open"
    BY DEF Receive, Shaped, Away
  <1>2. PICK r \in Replica : r = at[c]
    BY <1>1
  <1>5. PICK n : n = copy[r].doc \cup {e}
    OBVIOUS
  <1>6. PICK m : m = copy[r].pending \cup ({e} \ copy[r].doc)
    OBVIOUS
  <1>3. copy' = [copy EXCEPT ![r].doc = n, ![r].pending = m]
    BY <1>1, <1>2, <1>5, <1>6 DEF Receive, Copies
  <1>4. copy[r].doc \cup {e} \in SUBSET Edits /\ copy[r].pending \cup ({e} \ copy[r].doc) \in SUBSET Edits
    BY <1>1 DEF Copies
  <1> QED
    <2>1. n \in SUBSET Edits /\ m \in SUBSET Edits
      BY <1>4, <1>5, <1>6
    <2>2. CopyMoves(r, copy[r].st, n, copy[r].peers, m) /\ Reload(r, copy[r].catchUp, copy[r].behind)
      BY <1>1, <1>3, <2>1, SetDocPending
    <2> QED
      BY <1>1, <1>2, <1>5, <1>6, <2>2

\* An edit relayed is in the copy.
LEMMA RelayCopy ==
  ASSUME Shaped, NEW r \in Replica, NEW u \in wire[r], Relay(r, u)
  PROVE  /\ u.edit \in Edits
         /\ CopyMoves(r, copy[r].st, IF copy[r].st = "none" THEN copy[r].doc ELSE copy[r].doc \cup {u.edit},
                      copy[r].peers, copy[r].pending)
         /\ Reload(r, copy[r].catchUp, copy[r].behind)
  <1>1. copy \in [Replica -> Copies] /\ u.edit \in Edits
    BY DEF Shaped
  <1>2. CASE copy[r].st = "none"
    BY <1>1, <1>2, SameCopy DEF Relay, Reload
  <1>3. CASE copy[r].st # "none"
    <2>1. copy' = [copy EXCEPT ![r].doc = copy[r].doc \cup {u.edit}]
      BY <1>3 DEF Relay
    <2>2. copy[r].doc \cup {u.edit} \in SUBSET Edits
      BY <1>1 DEF Copies
    <2> QED
      BY <1>1, <1>3, <2>1, <2>2, SetDoc
  <1> QED
    BY <1>2, <1>3

\* The reload adds what is stored.
LEMMA CatchUpCopy ==
  ASSUME Shaped, NEW r \in Replica, CatchUp(r)
  PROVE  CopyMoves(r, copy[r].st, copy[r].doc \cup Stored, copy[r].peers, copy[r].pending) /\ Reload(r, FALSE, {})
  <1>1. copy \in [Replica -> Copies] /\ copy[r].doc \cup Stored \in SUBSET Edits
    BY StoredAreEdits DEF Shaped, Copies
  <1>4. PICK n : n = copy[r].doc \cup Stored
    OBVIOUS
  <1>2. copy' = [copy EXCEPT ![r].doc = n, ![r].catchUp = FALSE, ![r].behind = {}]
    BY <1>4 DEF CatchUp
  <1> QED
    <2>1. n \in SUBSET Edits /\ {} \in SUBSET Edits
      BY <1>1, <1>4
    <2>2. CopyMoves(r, copy[r].st, n, copy[r].peers, copy[r].pending) /\ Reload(r, FALSE, {})
      BY <1>1, <1>2, <2>1, SetDocCatchUpBehind
    <2> QED
      BY <1>4, <2>2

\* Flush leaves nothing pending.
LEMMA FlushCopy ==
  ASSUME Shaped, NEW r \in Replica, Flush(r)
  PROVE  CopyMoves(r, "open", copy[r].doc, copy[r].peers, {}) /\ Reload(r, copy[r].catchUp, copy[r].behind)
  <1>1. copy \in [Replica -> Copies] /\ {} \in SUBSET Edits /\ copy[r].st = "open"
    BY DEF Shaped, Flush
  <1>2. copy' = [copy EXCEPT ![r].pending = {}]
    BY DEF Flush
  <1> QED
    BY <1>1, <1>2, SetPending

\* Each step keeps the types.
LEMMA JoinShaped == ASSUME Shaped, NEW c \in Editor, NEW r \in Replica, Join(c, r) PROVE Shaped'
  <1>1. budget' \in Bounds
    BY Spent DEF Join, Shaped
  <1>2. copy' \in [Replica -> Copies]
    BY JoinCopy DEF CopyMoves
  <1> QED
    BY <1>1, <1>2 DEF Join, Shaped, store, hub

\* Type keeps the types.
LEMMA TypeShaped == ASSUME Shaped, NEW c \in Editor, NEW e \in Typing, Type(c, e) PROVE Shaped'
  <1>1. budget' \in Bounds
    BY Spent DEF Type, Shaped
  <1> QED
    BY <1>1 DEF Type, Shaped, store, hub, Edits

\* Leave keeps the types.
LEMMA LeaveShaped == ASSUME Shaped, NEW c \in Editor, Leave(c) PROVE Shaped'
  <1>1. at[c] \in Replica
    BY DEF Leave, Shaped
  <1>2. copy' \in [Replica -> Copies]
    BY LeaveCopy DEF CopyMoves
  <1>3. wire' \in [Replica -> SUBSET [edit : Edits, from : Editor \cup {Nowhere}]] /\ leaving' \subseteq Replica
    BY <1>1 DEF Leave, Shaped
  <1> QED
    BY <1>1, <1>2, <1>3 DEF Leave, Shaped, store

\* Open keeps the types.
LEMMA OpenShaped == ASSUME Shaped, NEW r \in Replica, Open(r) PROVE Shaped'
  <1>1. copy' \in [Replica -> Copies]
    BY OpenedCopy DEF Open, Shaped, CopyMoves
  <1> QED
    BY <1>1 DEF Open, Shaped, store, browsers

\* Load keeps the types.
LEMMA LoadShaped == ASSUME Shaped, NEW r \in Replica, Load(r) PROVE Shaped'
  <1>1. copy' \in [Replica -> Copies]
    BY LoadCopy DEF CopyMoves
  <1> QED
    BY <1>1 DEF Load, Shaped, store, browsers

\* LoadFails keeps the types.
LEMMA LoadFailsShaped == ASSUME Shaped, NEW r \in Replica, LoadFails(r) PROVE Shaped'
  <1>1. budget' \in Bounds /\ failed' = TRUE
    BY Spent DEF LoadFails, Fault, Shaped
  <1>2. copy' \in [Replica -> Copies]
    BY NoCopyShaped DEF LoadFails, Shaped
  <1>3. call' \in [Call -> Calls]
    BY DEF LoadFails, Shaped, Calls
  <1>4. /\ phase' \in [Editor -> {"off", "in", "unanswered", "synced", "over"}]
        /\ up' \in [Editor -> SUBSET Edits]
    BY DEF LoadFails, Shaped
  <1> QED
    BY <1>1, <1>2, <1>3, <1>4 DEF LoadFails, Shaped, store

\* What is published is typed.
LEMMA PublishedShaped ==
  ASSUME Shaped, NEW es \in SUBSET Edits, NEW from \in Editor \cup {Nowhere}
  PROVE  Published(es, from) \in [Replica -> SUBSET [edit : Edits, from : Editor \cup {Nowhere}]]
  BY DEF Published, Shaped

\* Hello keeps the types.
LEMMA HelloShaped == ASSUME Shaped, Away, NEW c \in Editor, Hello(c) PROVE Shaped'
  <1>1. at[c] \in Replica
    BY DEF Hello, Shaped, Away
  <1>2. copy[at[c]].doc \subseteq Edits
    BY <1>1 DEF Shaped, Copies
  <1>3. copy' \in [Replica -> Copies]
    BY HelloCopy DEF CopyMoves
  <1>4. mine' \in [Editor -> SUBSET Edits] /\ up' \in [Editor -> SUBSET Edits]
    BY <1>2 DEF Hello, Shaped, Lacked
  <1> QED
    BY <1>3, <1>4 DEF Hello, Shaped, store

\* Receive keeps the types.
LEMMA ReceiveShaped == ASSUME Shaped, Away, NEW c \in Editor, NEW e \in Edits, Receive(c, e) PROVE Shaped'
  <1>1. at[c] \in Replica
    BY DEF Receive, Shaped, Away
  <1>2. PICK new \in SUBSET Edits :
          /\ new = {e} \ copy[at[c]].doc
          /\ copy' = [copy EXCEPT ![at[c]].doc = @ \cup {e}, ![at[c]].pending = @ \cup new]
          /\ \/ wire' = Published(new, c) /\ UNCHANGED <<failed, budget>>
             \/ Fault /\ UNCHANGED wire
    BY DEF Receive
  <1>3. copy' \in [Replica -> Copies]
    BY ReceiveCopy DEF CopyMoves
  <1>4. wire' \in [Replica -> SUBSET [edit : Edits, from : Editor \cup {Nowhere}]]
    <2>1. wire \in [Replica -> SUBSET [edit : Edits, from : Editor \cup {Nowhere}]]
      BY DEF Shaped
    <2>2. Published(new, c) \in [Replica -> SUBSET [edit : Edits, from : Editor \cup {Nowhere}]]
      BY PublishedShaped
    <2> QED
      BY <1>2, <2>1, <2>2
  <1>5. budget' \in Bounds /\ failed' \in BOOLEAN
    BY <1>2, Spent DEF Fault, Shaped
  <1>6. up' \in [Editor -> SUBSET Edits]
    BY DEF Receive, Shaped
  <1> QED
    BY <1>3, <1>4, <1>5, <1>6 DEF Receive, Shaped, store

\* Relay keeps the types.
LEMMA RelayShaped == ASSUME Shaped, NEW r \in Replica, NEW u \in wire[r], Relay(r, u) PROVE Shaped'
  <1>1. u.edit \in Edits
    BY DEF Shaped
  <1>2. copy' \in [Replica -> Copies]
    BY RelayCopy DEF CopyMoves
  <1>3. mine' \in [Editor -> SUBSET Edits]
    BY <1>1 DEF Relay, Shaped
  <1>4. wire' \in [Replica -> SUBSET [edit : Edits, from : Editor \cup {Nowhere}]]
    BY DEF Relay, Shaped
  <1> QED
    BY <1>2, <1>3, <1>4 DEF Relay, Shaped, store

\* CatchUp keeps the types.
LEMMA CatchUpShaped == ASSUME Shaped, NEW r \in Replica, CatchUp(r) PROVE Shaped'
  <1>1. copy' \in [Replica -> Copies]
    BY CatchUpCopy DEF CopyMoves
  <1>2. mine' \in [Editor -> SUBSET Edits]
    BY StoredAreEdits DEF CatchUp, Shaped
  <1> QED
    BY <1>1, <1>2 DEF CatchUp, Shaped, store

\* Flush keeps the types.
LEMMA FlushShaped == ASSUME Shaped, NEW r \in Replica, Flush(r) PROVE Shaped'
  <1>1. copy[r].pending \subseteq Edits /\ nextSeq \in Nat
    BY DEF Shaped, Copies
  <1>2. Flight(r, copy[r].pending, "copy", Nowhere, 0) \in Flights
    BY <1>1 DEF Flight, Flights
  <1>3. copy' \in [Replica -> Copies]
    BY FlushCopy DEF CopyMoves
  <1> QED
    BY <1>1, <1>2, <1>3 DEF Flush, Shaped, browsers

\* Retry keeps the types.
LEMMA RetryShaped == ASSUME Shaped, NEW l \in loose, Retry(l) PROVE Shaped'
  <1>1. Flight(l.at, l.batch, l.of, Nowhere, l.tries) \in Flights /\ nextSeq' \in Nat \ {0}
    BY DEF Flight, Flights, Batches, Shaped, Retry
  <1> QED
    BY <1>1 DEF Retry, Shaped, browsers

\* The saves.  What an append leaves of the copy it was made for.
AppendDrops(f) == f.by # Nowhere /\ f.of = "copy" /\ ~Kept(f.at, f.by, copy[f.at].pending)
FailDrops(f) == f.by # Nowhere /\ f.of = "copy" /\ ~Kept(f.at, f.by, copy[f.at].pending \cup f.batch)

\* What a save that commits does.
LEMMA AppendMeans ==
  ASSUME Shaped, NEW f \in flights, Append(f)
  PROVE  /\ f.at \in Replica /\ f.batch \in SUBSET Edits /\ f \in Flights
         /\ rows' = rows \cup {[seq |-> f.seq, data |-> f.batch]}
         /\ due' \subseteq Replica
         /\ \/ /\ AppendDrops(f) /\ copy[f.at].pending = {} /\ copy[f.at].peers = {}
               /\ flights' = Orphaned(f.at) \ {f, Freed(f)}
               /\ CopyMoves(f.at, "none", {}, {}, {})
            \/ /\ ~AppendDrops(f) /\ flights' = flights \ {f, Freed(f)}
               /\ CopyMoves(f.at, copy[f.at].st, copy[f.at].doc, copy[f.at].peers, copy[f.at].pending)
            \/ /\ f.by = Nowhere /\ flights' = flights \ {f}
               /\ CopyMoves(f.at, copy[f.at].st, copy[f.at].doc, copy[f.at].peers, copy[f.at].pending)
         /\ call' = IF f.by = Nowhere THEN call ELSE Returned(f.by)
         /\ UNCHANGED <<snapshot, nextSeq, compacting, listed, loose, wire, leaving, deleting,
                        browsers, made, lost, overtaken, failed, budget>>
  <1>1. f.at \in Replica /\ f.batch \in SUBSET Edits /\ f \in Flights /\ copy \in [Replica -> Copies]
    BY DEF Shaped, Flights
  <1>2. rows' = rows \cup {[seq |-> f.seq, data |-> f.batch]}
    BY DEF Append
  <1>3. due' \subseteq Replica
    BY <1>1 DEF Append, Shaped
  <1>4. UNCHANGED <<snapshot, nextSeq, compacting, listed, loose, wire, leaving, deleting,
                    browsers, made, lost, overtaken, failed, budget>>
    BY DEF Append
  <1>5. CASE f.by = Nowhere
    <2>1. flights' = flights \ {f} /\ copy' = copy /\ call' = call
      BY <1>5 DEF Append
    <2>2. CopyMoves(f.at, copy[f.at].st, copy[f.at].doc, copy[f.at].peers, copy[f.at].pending)
      BY <1>1, <2>1, SameCopy
    <2> QED
      BY <1>1, <1>2, <1>3, <1>4, <1>5, <2>1, <2>2
  <1>6. CASE f.by # Nowhere
    <2>1. /\ call' = Returned(f.by)
          /\ copy' = IF f.of = "copy" /\ ~Kept(f.at, f.by, copy[f.at].pending)
                     THEN [copy EXCEPT ![f.at] = NoCopy] ELSE copy
          /\ flights' = (IF f.of = "copy" /\ ~Kept(f.at, f.by, copy[f.at].pending)
                         THEN Orphaned(f.at) ELSE flights) \ {f, Freed(f)}
      BY <1>6 DEF Append, Freed
    <2>2. CASE AppendDrops(f)
      <3>1. copy' = [copy EXCEPT ![f.at] = NoCopy] /\ flights' = Orphaned(f.at) \ {f, Freed(f)}
        BY <2>1, <2>2 DEF AppendDrops
      <3>2. CopyMoves(f.at, "none", {}, {}, {})
        BY <1>1, <3>1, CopyGoes
      <3>3. copy[f.at].pending = {} /\ copy[f.at].peers = {}
        BY <2>2 DEF AppendDrops, Kept
      <3> QED
        BY <1>1, <1>2, <1>3, <1>4, <1>6, <2>1, <2>2, <3>1, <3>2, <3>3
    <2>3. CASE ~AppendDrops(f)
      <3>1. copy' = copy /\ flights' = flights \ {f, Freed(f)}
        BY <1>6, <2>1, <2>3 DEF AppendDrops
      <3>2. CopyMoves(f.at, copy[f.at].st, copy[f.at].doc, copy[f.at].peers, copy[f.at].pending)
        BY <1>1, <3>1, SameCopy
      <3> QED
        BY <1>1, <1>2, <1>3, <1>4, <1>6, <2>1, <2>3, <3>1, <3>2
    <2> QED
      BY <2>2, <2>3
  <1> QED
    BY <1>5, <1>6

\* What a save that fails leaves: its batch is pending again, waits for a retry,
\* or is lost after three attempts.
LEMMA AppendFailsMeans ==
  ASSUME Shaped, NEW f \in flights, AppendFails(f)
  PROVE  /\ f.at \in Replica /\ f.batch \in SUBSET Edits /\ f \in Flights
         /\ failed' = TRUE /\ budget' \in Bounds /\ budget'.uploads = budget.uploads /\ budget'.deletes = budget.deletes
         /\ rows' \in {rows, rows \cup {[seq |-> f.seq, data |-> f.batch]}}
         /\ \/ /\ FailDrops(f) /\ f.batch = {} /\ copy[f.at].pending = {}
               /\ flights' = Orphaned(f.at) \ {f, Freed(f)}
               /\ CopyMoves(f.at, "none", {}, {}, {})
            \/ /\ ~FailDrops(f) /\ flights' = flights \ {f, Freed(f)} /\ f.of = "copy"
               /\ CopyMoves(f.at, copy[f.at].st, copy[f.at].doc, copy[f.at].peers, copy[f.at].pending \cup f.batch)
            \/ /\ ~FailDrops(f) /\ flights' = flights \ {f, Freed(f)} /\ f.of # "copy"
               /\ CopyMoves(f.at, copy[f.at].st, copy[f.at].doc, copy[f.at].peers, copy[f.at].pending)
         /\ loose' \subseteq Batches /\ loose \subseteq loose'
         /\ \A l \in loose' : l \in loose \/ l.batch = f.batch
         /\ f.of # "copy" => f.batch \subseteq lost' \/ \E l \in loose' : l.batch = f.batch
         /\ lost \subseteq lost'
         /\ call' = IF f.by = Nowhere THEN call ELSE Returned(f.by)
         /\ UNCHANGED <<snapshot, nextSeq, compacting, due, listed, wire, leaving, deleting,
                        browsers, made, overtaken>>
  <1>1. /\ f.at \in Replica /\ f.batch \in SUBSET Edits /\ f \in Flights /\ copy \in [Replica -> Copies]
        /\ f.of \in {"copy", "dropped", "released"} /\ f.tries \in 0..2 /\ loose \subseteq Batches
    BY DEF Shaped, Flights
  <1>2. /\ failed' = TRUE /\ budget' \in Bounds /\ budget'.uploads = budget.uploads /\ budget'.deletes = budget.deletes
    <2>1. Spend("faults") /\ failed' = TRUE /\ budget \in Bounds
      BY DEF AppendFails, Fault, Shaped
    <2> QED
      BY <2>1, Spent
  <1>3. /\ rows' \in {rows, rows \cup {[seq |-> f.seq, data |-> f.batch]}}
        /\ call' = IF f.by = Nowhere THEN call ELSE Returned(f.by)
        /\ UNCHANGED <<snapshot, nextSeq, compacting, due, listed, wire, leaving, deleting,
                       browsers, made, overtaken>>
        /\ flights' = (IF FailDrops(f) THEN Orphaned(f.at) ELSE flights) \ {f, Freed(f)}
        /\ copy' = CASE FailDrops(f) -> [copy EXCEPT ![f.at] = NoCopy]
                     [] ~FailDrops(f) /\ f.of = "copy" -> [copy EXCEPT ![f.at].pending = @ \cup f.batch]
                     [] OTHER -> copy
    BY DEF AppendFails, FailDrops, Freed
  <1>4. PICK again : again = [at |-> f.at, batch |-> f.batch, of |-> f.of, tries |-> f.tries + 1]
    OBVIOUS
  <1>5. /\ loose' = CASE f.of = "copy" -> loose
                      [] f.of = "dropped" -> IF f.tries < 2 THEN loose \cup {again} ELSE loose
                      [] OTHER -> loose \cup {[again EXCEPT !.tries = 0]}
        /\ lost' = IF f.of = "dropped" /\ f.tries >= 2 THEN lost \cup f.batch ELSE lost
    BY <1>4 DEF AppendFails
  <1>6. \/ /\ FailDrops(f) /\ f.batch = {} /\ copy[f.at].pending = {}
           /\ flights' = Orphaned(f.at) \ {f, Freed(f)}
           /\ CopyMoves(f.at, "none", {}, {}, {})
        \/ /\ ~FailDrops(f) /\ flights' = flights \ {f, Freed(f)} /\ f.of = "copy"
           /\ CopyMoves(f.at, copy[f.at].st, copy[f.at].doc, copy[f.at].peers, copy[f.at].pending \cup f.batch)
        \/ /\ ~FailDrops(f) /\ flights' = flights \ {f, Freed(f)} /\ f.of # "copy"
           /\ CopyMoves(f.at, copy[f.at].st, copy[f.at].doc, copy[f.at].peers, copy[f.at].pending)
    <2>1. CASE FailDrops(f)
      <3>1. copy' = [copy EXCEPT ![f.at] = NoCopy] /\ flights' = Orphaned(f.at) \ {f, Freed(f)}
        BY <1>3, <2>1
      <3>2. CopyMoves(f.at, "none", {}, {}, {})
        BY <1>1, <3>1, CopyGoes
      <3>3. copy[f.at].pending \cup f.batch = {}
        BY <2>1 DEF FailDrops, Kept
      <3> QED
        BY <2>1, <3>1, <3>2, <3>3
    <2>2. CASE ~FailDrops(f) /\ f.of = "copy"
      <3>1. PICK n : n = copy[f.at].pending \cup f.batch
        OBVIOUS
      <3>2. n \in SUBSET Edits
        BY <1>1, <3>1 DEF Copies
      <3>3. PICK r \in Replica : r = f.at
        BY <1>1
      <3>4. copy' = [copy EXCEPT ![r].pending = n] /\ flights' = flights \ {f, Freed(f)}
        BY <1>3, <2>2, <3>1, <3>3
      <3>5. CopyMoves(r, copy[r].st, copy[r].doc, copy[r].peers, n)
        BY <1>1, <3>2, <3>4, SetPending
      <3> QED
        BY <2>2, <3>1, <3>3, <3>4, <3>5
    <2>3. CASE ~FailDrops(f) /\ f.of # "copy"
      <3>1. copy' = copy /\ flights' = flights \ {f, Freed(f)}
        BY <1>3, <2>3
      <3>2. CopyMoves(f.at, copy[f.at].st, copy[f.at].doc, copy[f.at].peers, copy[f.at].pending)
        BY <1>1, <3>1, SameCopy
      <3> QED
        BY <2>3, <3>1, <3>2
    <2> QED
      BY <2>1, <2>2, <2>3
  <1>7. /\ loose' \subseteq Batches /\ loose \subseteq loose'
        /\ \A l \in loose' : l \in loose \/ l.batch = f.batch
        /\ f.of # "copy" => f.batch \subseteq lost' \/ \E l \in loose' : l.batch = f.batch
        /\ lost \subseteq lost'
    <2>1. CASE f.of = "copy"
      BY <1>1, <1>5, <2>1
    <2>2. CASE f.of = "dropped" /\ f.tries < 2
      <3>1. again \in Batches /\ again.batch = f.batch
        BY <1>1, <1>4, <2>2 DEF Batches
      <3>2. loose' = loose \cup {again} /\ lost' = lost
        BY <1>1, <1>5, <2>2
      <3> QED
        BY <1>1, <3>1, <3>2
    <2>3. CASE f.of = "dropped" /\ ~(f.tries < 2)
      <3>1. loose' = loose /\ lost' = lost \cup f.batch
        BY <1>1, <1>5, <2>3
      <3> QED
        BY <1>1, <3>1
    <2>4. CASE f.of = "released"
      <3>1. PICK l : l = [again EXCEPT !.tries = 0]
        OBVIOUS
      <3>2. l \in Batches /\ l.batch = f.batch
        BY <1>1, <1>4, <2>4, <3>1 DEF Batches
      <3>3. loose' = loose \cup {l} /\ lost' = lost
        BY <1>1, <1>5, <2>4, <3>1
      <3> QED
        BY <1>1, <3>2, <3>3
    <2> QED
      BY <1>1, <2>1, <2>2, <2>3, <2>4
  <1> QED
    BY <1>1, <1>2, <1>3, <1>6, <1>7

\* A call that returned is typed.
LEMMA ReturnedShaped ==
  ASSUME Shaped, NEW k \in Call \cup {Nowhere}
  PROVE  (IF k = Nowhere THEN call ELSE Returned(k)) \in [Call -> Calls]
  BY DEF Shaped, Returned, Calls

\* Append keeps the types.
LEMMA AppendShaped == ASSUME Shaped, NEW f \in flights, Append(f) PROVE Shaped'
  <1>1. /\ f \in Flights /\ f.batch \in SUBSET Edits /\ f.at \in Replica
        /\ rows' = rows \cup {[seq |-> f.seq, data |-> f.batch]} /\ due' \subseteq Replica
        /\ call' = IF f.by = Nowhere THEN call ELSE Returned(f.by)
        /\ UNCHANGED <<snapshot, nextSeq, compacting, listed, loose, wire, leaving, deleting,
                       browsers, made, lost, overtaken, failed, budget>>
    BY AppendMeans
  <1>2. rows' \subseteq RowSet
    BY <1>1 DEF RowSet, Flights, Shaped
  <1>3. copy' \in [Replica -> Copies]
    BY AppendMeans DEF CopyMoves
  <1>4. flights' \subseteq Flights
    <2>1. Orphaned(f.at) \subseteq Flights /\ flights \subseteq Flights
      BY OrphanedMeans DEF Shaped
    <2>2. flights' \subseteq Orphaned(f.at) \cup flights
      BY AppendMeans
    <2> QED
      BY <2>1, <2>2
  <1>5. call' \in [Call -> Calls]
    BY <1>1, ReturnedShaped DEF Flights
  <1> QED
    BY <1>1, <1>2, <1>3, <1>4, <1>5 DEF Shaped, browsers

\* A save that fails keeps the types.
LEMMA AppendFailsShaped == ASSUME Shaped, NEW f \in flights, AppendFails(f) PROVE Shaped'
  <1>1. /\ f \in Flights /\ f.batch \in SUBSET Edits /\ f.at \in Replica
        /\ failed' = TRUE /\ budget' \in Bounds /\ loose' \subseteq Batches
        /\ rows' \in {rows, rows \cup {[seq |-> f.seq, data |-> f.batch]}}
        /\ call' = IF f.by = Nowhere THEN call ELSE Returned(f.by)
        /\ UNCHANGED <<snapshot, nextSeq, compacting, due, listed, wire, leaving, deleting,
                       browsers, made, overtaken>>
    BY AppendFailsMeans
  <1>2. rows' \subseteq RowSet
    BY <1>1 DEF RowSet, Flights, Shaped
  <1>3. copy' \in [Replica -> Copies]
    BY AppendFailsMeans DEF CopyMoves
  <1>4. flights' \subseteq Flights
    <2>1. Orphaned(f.at) \subseteq Flights /\ flights \subseteq Flights
      BY OrphanedMeans DEF Shaped
    <2>2. flights' \subseteq Orphaned(f.at) \cup flights
      BY AppendFailsMeans
    <2> QED
      BY <2>1, <2>2
  <1>5. call' \in [Call -> Calls]
    BY <1>1, ReturnedShaped DEF Flights
  <1> QED
    BY <1>1, <1>2, <1>3, <1>4, <1>5 DEF Shaped, browsers

\* Compact keeps the types.
LEMMA CompactShaped == ASSUME Shaped, NEW r \in Replica, Compact(r) PROVE Shaped'
  <1>1. compacting' \in [by : Replica \cup {Nowhere}, rows : SUBSET RowSet]
    BY DEF Compact, Shaped
  <1> QED
    BY <1>1 DEF Compact, Shaped, hub, browsers

\* CompactCommits keeps the types.
LEMMA CompactCommitsShaped == ASSUME Shaped, CompactCommits PROVE Shaped'
  <1>1. compacting' \in [by : Replica \cup {Nowhere}, rows : SUBSET RowSet]
    BY DEF CompactCommits, Shaped
  <1>2. UNION {row.data : row \in compacting.rows} \subseteq Edits
    BY DEF Shaped, RowSet
  <1>3. snapshot' \subseteq Edits /\ rows' \subseteq RowSet
    BY <1>2 DEF CompactCommits, Shaped
  <1> QED
    BY <1>1, <1>3 DEF CompactCommits, Shaped, hub, browsers

\* CompactFails keeps the types.
LEMMA CompactFailsShaped == ASSUME Shaped, CompactFails PROVE Shaped'
  <1>1. compacting' \in [by : Replica \cup {Nowhere}, rows : SUBSET RowSet]
    BY DEF CompactFails, Shaped
  <1>2. budget' \in Bounds /\ failed' = TRUE
    BY Spent DEF CompactFails, Fault, Shaped
  <1> QED
    BY <1>1, <1>2 DEF CompactFails, Shaped, hub, browsers

\* A copy is dropped: the saves that go on and the one that drop starts.
LEMMA DroppedShaped ==
  ASSUME Shaped, NEW r \in Replica, copy' = [copy EXCEPT ![r] = NoCopy],
         flights' = Orphaned(r) \cup Released(r), nextSeq' = nextSeq + Cardinality(Released(r))
  PROVE  /\ copy' \in [Replica -> Copies] /\ flights' \subseteq Flights
         /\ nextSeq' \in {nextSeq, nextSeq + 1} /\ nextSeq' \in Nat \ {0}
         /\ Released(r) # {} => nextSeq' = nextSeq + 1
  <1>1. Orphaned(r) \subseteq Flights /\ Released(r) \subseteq Flights /\ nextSeq \in Nat \ {0}
    BY OrphanedMeans, ReleasedMeans DEF Shaped
  <1>2. Cardinality(Released(r)) \in {0, 1} /\ (Released(r) # {} => Cardinality(Released(r)) = 1)
    BY ReleasedMeans
  <1>3. copy' \in [Replica -> Copies]
    BY CopyGoes DEF CopyMoves, Shaped
  <1> QED
    BY <1>1, <1>2, <1>3

\* DropAll keeps the types.
LEMMA DropAllShaped == ASSUME Shaped, NEW r \in Replica, DropAll(r) PROVE Shaped'
  <1>1. copy' \in [Replica -> Copies] /\ flights' \subseteq Flights /\ nextSeq' \in Nat \ {0}
    BY DroppedShaped DEF DropAll
  <1> QED
    BY <1>1 DEF DropAll, Shaped, browsers

\* DeleteDrops keeps the types.
LEMMA DeleteDropsShaped == ASSUME Shaped, NEW r \in Replica, DeleteDrops(r) PROVE Shaped'
  <1>1. copy' \in [Replica -> Copies] /\ flights' \subseteq Flights /\ nextSeq' \in Nat \ {0}
    BY DroppedShaped DEF DeleteDrops
  <1>2. budget' \in Bounds
    BY Spent DEF DeleteDrops, Shaped
  <1> QED
    BY <1>1, <1>2 DEF DeleteDrops, Shaped, browsers

\* DeleteRow keeps the types.
LEMMA DeleteRowShaped == ASSUME Shaped, DeleteRow PROVE Shaped'
  BY DEF DeleteRow, Shaped, store, hub, browsers

\* DeleteContent keeps the types.
LEMMA DeleteContentShaped == ASSUME Shaped, DeleteContent PROVE Shaped'
  BY DEF DeleteContent, Shaped, hub, browsers

\* Forget keeps the types.
LEMMA ForgetShaped == ASSUME Shaped, NEW r \in Replica, Forget(r) PROVE Shaped'
  <1>1. copy' \in [Replica -> Copies]
    BY CopyGoes DEF Forget, CopyMoves, Shaped
  <1>2. flights' \subseteq Flights
    BY OrphanedMeans DEF Forget, Discarded, Shaped
  <1>3. /\ phase' \in [Editor -> {"off", "in", "unanswered", "synced", "over"}]
        /\ up' \in [Editor -> SUBSET Edits]
    BY DEF Forget, Shaped
  <1>4. wire' \in [Replica -> SUBSET [edit : Edits, from : Editor \cup {Nowhere}]]
    BY DEF Forget, Shaped
  <1>5. deleting' \in [st : {"no", "dropping", "unlisted", "announced", "stopped"},
                       at : Replica \cup {Nowhere}, told : SUBSET Replica]
    BY DEF Forget, Shaped
  <1> QED
    BY <1>1, <1>2, <1>3, <1>4, <1>5 DEF Forget, Shaped, store

\* Crash keeps the types.
LEMMA CrashShaped == ASSUME Shaped, NEW r \in Replica, Crash(r) PROVE Shaped'
  <1>1. copy' \in [Replica -> Copies]
    BY CopyGoes DEF Crash, CopyMoves, Shaped
  <1>2. flights' \subseteq Flights /\ loose' \subseteq Batches /\ leaving' \subseteq Replica /\ due' \subseteq Replica
    BY DEF Crash, Shaped
  <1>3. /\ phase' \in [Editor -> {"off", "in", "unanswered", "synced", "over"}]
        /\ up' \in [Editor -> SUBSET Edits] /\ at' \in [Editor -> Replica \cup {Nowhere}]
    BY DEF Crash, Shaped
  <1>4. wire' \in [Replica -> SUBSET [edit : Edits, from : Editor \cup {Nowhere}]]
    BY DEF Crash, Shaped
  <1>5. deleting' \in [st : {"no", "dropping", "unlisted", "announced", "stopped"},
                       at : Replica \cup {Nowhere}, told : SUBSET Replica]
    BY DEF Crash, Shaped
  <1>6. call' \in [Call -> Calls]
    <2> SUFFICES ASSUME NEW k \in Call PROVE call'[k] \in Calls
      BY DEF Crash
    <2>1. call[k] \in Calls
      BY DEF Shaped
    <2>2. [call[k] EXCEPT !.st = "failed"] \in Calls
      BY <2>1 DEF Calls
    <2>3. call'[k] \in {call[k], [call[k] EXCEPT !.st = "failed"]}
      BY DEF Crash
    <2> QED
      BY <2>1, <2>2, <2>3
  <1>7. budget' \in Bounds /\ failed' = TRUE
    BY Spent DEF Crash, Fault, Shaped
  <1>8. rows' \subseteq RowSet
    BY DEF Crash, Shaped, RowSet, Flights
  <1>9. compacting' \in [by : Replica \cup {Nowhere}, rows : SUBSET RowSet]
    BY DEF Crash, Shaped
  <1> QED
    BY <1>1, <1>2, <1>3, <1>4, <1>5, <1>6, <1>7, <1>8, <1>9 DEF Crash, Shaped

\* A call that waits for a copy waits at a replica.
Begun == \A k \in Call : call[k].st = "opening" => call[k].at \in Replica

\* Begin keeps the types.
LEMMA BeginShaped ==
  ASSUME Shaped, NEW u \in Upload, NEW what \in {"uploaded", "finished"}, NEW r \in Replica, Begin(u, what, r)
  PROVE  Shaped'
  <1>1. <<u, what>> \in Call /\ (copy[r].st # "none") \in BOOLEAN
    BY DEF Call
  <1>2. budget' \in Bounds
    BY Spent DEF Begin, Shaped
  <1>3. copy' \in [Replica -> Copies]
    BY OpenedCopy DEF Begin, CopyMoves, Shaped
  <1>4. [at |-> r, st |-> "opening", opened |-> copy[r].st # "none"] \in Calls
    BY <1>1 DEF Calls
  <1>5. call' \in [Call -> Calls]
    BY <1>1, <1>4 DEF Begin, Shaped
  <1> QED
    BY <1>2, <1>3, <1>5 DEF Begin, Shaped, store, browsers

\* The writer's edit, if the copy has none of the upload's, and what it saves.
NewIn(k) == IF copy[call[k].at].doc \cap Sections(k[1]) = {} THEN {k} ELSE {}
PendingIn(k) == copy[call[k].at].pending \cup NewIn(k)

\* What a call of the writer does: nothing to save, and the copy made for it
\* goes or stays; or a save of all that is pending.
LEMMA WriteMeans ==
  ASSUME Shaped, Begun, NEW k \in Call, Write(k)
  PROVE  /\ call[k].at \in Replica /\ call[k].st = "opening" /\ copy[call[k].at].st = "open"
         /\ NewIn(k) \subseteq {k} /\ NewIn(k) \in SUBSET Edits /\ PendingIn(k) \in SUBSET Edits
         /\ \/ /\ PendingIn(k) = {} /\ copy[call[k].at].peers = {}
               /\ CopyMoves(call[k].at, "none", {}, {}, {})
               /\ flights' = Orphaned(call[k].at) /\ nextSeq' = nextSeq /\ call' = Returned(k)
            \/ /\ PendingIn(k) = {}
               /\ call[k].opened \/ copy[call[k].at].peers # {}
               /\ CopyMoves(call[k].at, "open", copy[call[k].at].doc, copy[call[k].at].peers, {})
               /\ Reload(call[k].at, copy[call[k].at].catchUp, copy[call[k].at].behind)
               /\ flights' = flights /\ nextSeq' = nextSeq /\ call' = Returned(k)
            \/ /\ PendingIn(k) # {}
               /\ CopyMoves(call[k].at, "open", copy[call[k].at].doc \cup NewIn(k), copy[call[k].at].peers, {})
               /\ Reload(call[k].at, copy[call[k].at].catchUp, copy[call[k].at].behind)
               /\ flights' = flights \cup {Flight(call[k].at, PendingIn(k), "copy", k, 0)}
               /\ nextSeq' = nextSeq + 1 /\ call' = [call EXCEPT ![k].st = "saving"]
         /\ made' = made \cup NewIn(k)
         /\ overtaken' = (overtaken \/ ~(Stored \subseteq copy[call[k].at].doc))
         /\ wire' \in [Replica -> SUBSET [edit : Edits, from : Editor \cup {Nowhere}]]
         /\ failed' \/ wire' = Published(NewIn(k), Nowhere)
         /\ budget' \in Bounds /\ budget'.uploads = budget.uploads /\ budget'.deletes = budget.deletes
         /\ failed' \in {failed, TRUE}
         /\ UNCHANGED <<rows, snapshot, compacting, due, listed, loose, leaving, deleting, browsers, lost>>
  <1>1. PICK r \in Replica : r = call[k].at
    BY DEF Write, Begun
  <1>2. PICK new : new = NewIn(k)
    OBVIOUS
  <1>3. PICK pending : pending = PendingIn(k)
    OBVIOUS
  <1>4. PICK saves : saves = SaveNow(r, k, pending)
    OBVIOUS
  <1>5. PICK drops \in BOOLEAN : drops <=> (pending = {} /\ ~Kept(r, k, {}))
    OBVIOUS
  <1>6. /\ call[k].st = "opening" /\ copy[r].st = "open"
        /\ copy' = IF drops THEN [copy EXCEPT ![r] = NoCopy]
                   ELSE [copy EXCEPT ![r].doc = @ \cup new, ![r].pending = IF saves = {} THEN pending ELSE {}]
        /\ flights' = (IF drops THEN Orphaned(r) ELSE flights) \cup saves
        /\ nextSeq' = nextSeq + Cardinality(saves)
        /\ call' = IF saves = {} THEN Returned(k) ELSE [call EXCEPT ![k].st = "saving"]
        /\ made' = made \cup new
        /\ overtaken' = (overtaken \/ ~(Stored \subseteq copy[r].doc))
        /\ \/ wire' = Published(new, Nowhere) /\ UNCHANGED <<failed, budget>>
           \/ new # {} /\ Fault /\ UNCHANGED wire
        /\ UNCHANGED <<rows, snapshot, compacting, due, listed, loose, leaving, deleting, browsers, lost>>
    BY <1>1, <1>2, <1>3, <1>4, <1>5 DEF Write, NewIn, PendingIn
  <1>7. copy \in [Replica -> Copies] /\ copy[r] \in Copies /\ nextSeq \in Nat
    BY DEF Shaped
  <1>8. /\ new \subseteq {k} /\ new \in SUBSET Edits /\ pending \in SUBSET Edits
        /\ pending = copy[r].pending \cup new /\ copy[r].doc \cup new \in SUBSET Edits
    BY <1>1, <1>2, <1>3, <1>7 DEF NewIn, PendingIn, Edits, Copies
  <1>9. wire' \in [Replica -> SUBSET [edit : Edits, from : Editor \cup {Nowhere}]]
    <2>1. Published(new, Nowhere) \in [Replica -> SUBSET [edit : Edits, from : Editor \cup {Nowhere}]]
      BY <1>8, PublishedShaped
    <2>2. wire \in [Replica -> SUBSET [edit : Edits, from : Editor \cup {Nowhere}]]
      BY DEF Shaped
    <2> QED
      BY <1>6, <2>1, <2>2
  <1>10. /\ budget' \in Bounds /\ budget'.uploads = budget.uploads /\ budget'.deletes = budget.deletes
         /\ failed' \in {failed, TRUE}
    <2>1. budget \in Bounds
      BY DEF Shaped
    <2>2. CASE UNCHANGED <<failed, budget>>
      BY <2>1, <2>2
    <2>3. CASE Fault
      BY <2>1, <2>3, Spent DEF Fault
    <2> QED
      BY <1>6, <2>2, <2>3
  <1>11. PICK doc : doc = copy[r].doc \cup new
    OBVIOUS
  <1>12. \/ /\ pending = {} /\ copy[r].peers = {} /\ CopyMoves(r, "none", {}, {}, {})
            /\ flights' = Orphaned(r) /\ nextSeq' = nextSeq /\ call' = Returned(k)
         \/ /\ pending = {} /\ (call[k].opened \/ copy[r].peers # {})
            /\ CopyMoves(r, "open", copy[r].doc, copy[r].peers, {})
            /\ Reload(r, copy[r].catchUp, copy[r].behind)
            /\ flights' = flights /\ nextSeq' = nextSeq /\ call' = Returned(k)
         \/ /\ pending # {} /\ CopyMoves(r, "open", doc, copy[r].peers, {})
            /\ Reload(r, copy[r].catchUp, copy[r].behind)
            /\ flights' = flights \cup {Flight(r, pending, "copy", k, 0)}
            /\ nextSeq' = nextSeq + 1 /\ call' = [call EXCEPT ![k].st = "saving"]
    <2>1. CASE pending = {}
      <3>1. saves = {} /\ Cardinality(saves) = 0 /\ new = {} /\ copy[r].pending = {}
        BY <1>4, <1>8, <2>1, FS_EmptySet DEF SaveNow
      <3>2. nextSeq' = nextSeq /\ call' = Returned(k)
        BY <1>6, <1>7, <3>1
      <3>3. CASE drops
        <4>1. copy' = [copy EXCEPT ![r] = NoCopy] /\ flights' = Orphaned(r)
          BY <1>6, <3>1, <3>3
        <4>2. copy[r].peers = {}
          BY <1>5, <3>3 DEF Kept
        <4>3. CopyMoves(r, "none", {}, {}, {})
          BY <1>7, <4>1, CopyGoes
        <4> QED
          BY <2>1, <3>2, <4>1, <4>2, <4>3
      <3>4. CASE ~drops
        <4>1. copy' = [copy EXCEPT ![r].doc = doc, ![r].pending = {}] /\ flights' = flights
          BY <1>6, <1>11, <2>1, <3>1, <3>4
        <4>2. CopyMoves(r, copy[r].st, doc, copy[r].peers, {}) /\ Reload(r, copy[r].catchUp, copy[r].behind)
          BY ZenonT(60), <1>7, <1>8, <1>11, <4>1, SetDocPending
        <4>3. doc = copy[r].doc
          BY <1>11, <3>1
        <4>4. call[k].opened \/ copy[r].peers # {}
          BY <1>5, <2>1, <3>4 DEF Kept
        <4> QED
          BY <1>6, <2>1, <3>2, <4>1, <4>2, <4>3, <4>4
      <3> QED
        BY <3>3, <3>4
    <2>2. CASE pending # {}
      <3>1. saves = {Flight(r, pending, "copy", k, 0)}
        BY <1>4, <2>2 DEF SaveNow
      <3>2. saves # {} /\ Cardinality(saves) = 1
        BY <3>1, FS_Singleton
      <3>3. ~drops
        BY <1>5, <2>2
      <3>4. /\ copy' = [copy EXCEPT ![r].doc = doc, ![r].pending = {}]
            /\ flights' = flights \cup {Flight(r, pending, "copy", k, 0)}
            /\ nextSeq' = nextSeq + 1 /\ call' = [call EXCEPT ![k].st = "saving"]
        BY <1>6, <1>11, <3>1, <3>2, <3>3
      <3>5. CopyMoves(r, copy[r].st, doc, copy[r].peers, {}) /\ Reload(r, copy[r].catchUp, copy[r].behind)
        BY ZenonT(60), <1>7, <1>8, <1>11, <3>4, SetDocPending
      <3> QED
        BY <1>6, <2>2, <3>4, <3>5
    <2> QED
      BY <2>1, <2>2
  <1>13. failed' \/ wire' = Published(new, Nowhere)
    BY <1>6 DEF Fault
  <1>14. /\ made' = made \cup new
         /\ overtaken' = (overtaken \/ ~(Stored \subseteq copy[r].doc))
         /\ UNCHANGED <<rows, snapshot, compacting, due, listed, loose, leaving, deleting, browsers, lost>>
    BY <1>6
  <1> QED
    BY <1>1, <1>2, <1>3, <1>6, <1>8, <1>9, <1>10, <1>11, <1>12, <1>13, <1>14

\* Write keeps the types.
LEMMA WriteShaped == ASSUME Shaped, Begun, NEW k \in Call, Write(k) PROVE Shaped'
  <1>1. PICK r \in Replica : r = call[k].at
    BY DEF Write, Begun
  <1>2. /\ NewIn(k) \in SUBSET Edits /\ PendingIn(k) \in SUBSET Edits
        /\ made' = made \cup NewIn(k) /\ overtaken' = (overtaken \/ ~(Stored \subseteq copy[r].doc))
        /\ wire' \in [Replica -> SUBSET [edit : Edits, from : Editor \cup {Nowhere}]]
        /\ budget' \in Bounds /\ failed' \in {failed, TRUE}
        /\ UNCHANGED <<rows, snapshot, compacting, due, listed, loose, leaving, deleting, browsers, lost>>
    BY <1>1, WriteMeans
  <1>3. /\ flights' \in {Orphaned(r), flights, flights \cup {Flight(r, PendingIn(k), "copy", k, 0)}}
        /\ nextSeq' \in {nextSeq, nextSeq + 1}
        /\ call' \in {Returned(k), [call EXCEPT ![k].st = "saving"]}
    BY <1>1, WriteMeans
  <1>4. copy' \in [Replica -> Copies]
    BY WriteMeans DEF CopyMoves
  <1>5. nextSeq \in Nat \ {0}
    BY DEF Shaped
  <1>6. Flight(r, PendingIn(k), "copy", k, 0) \in Flights
    BY <1>2, <1>5 DEF Flight, Flights
  <1>7. flights' \subseteq Flights
    BY <1>3, <1>6, OrphanedMeans DEF Shaped
  <1>8. Returned(k) \in [Call -> Calls] /\ [call EXCEPT ![k].st = "saving"] \in [Call -> Calls]
    BY DEF Returned, Shaped, Calls
  <1>9. nextSeq' \in Nat \ {0} /\ call' \in [Call -> Calls]
    BY <1>3, <1>5, <1>8
  <1> QED
    BY <1>2, <1>4, <1>7, <1>9 DEF Shaped, browsers

\* What each step keeps of where editors and calls are.
Placed == Away /\ Begun

\* Every step keeps where editors and calls are.
LEMMA StepPlaced == ASSUME Shaped, Placed, Next PROVE Placed'
  <1> USE DEF Placed
  <1>1. ASSUME NEW c \in Editor, EditorStep(c) PROVE Placed'
    <2>1. ASSUME NEW r \in Replica, Join(c, r) PROVE Placed'
      BY <2>1, DocAssumption DEF Join, Away, Begun, Shaped
    <2>2. ASSUME NEW e \in Typing, Type(c, e) PROVE Placed'
      BY <2>2 DEF Type, Away, Begun, Shaped
    <2>3. CASE Leave(c)
      BY <2>3 DEF Leave, Away, Begun, Shaped
    <2>4. CASE Hello(c)
      BY <2>4 DEF Hello, Away, Begun, Shaped
    <2>5. ASSUME NEW e \in Edits, Receive(c, e) PROVE Placed'
      BY <2>5 DEF Receive, Away, Begun, Shaped
    <2> QED
      BY <1>1, <2>1, <2>2, <2>3, <2>4, <2>5 DEF EditorStep
  <1>2. ASSUME NEW r \in Replica, ReplicaStep(r) PROVE Placed'
    <2>1. CASE LoadFails(r)
      <3>1. \A c \in Editor : phase'[c] = IF at[c] = r /\ phase[c] = "in" THEN "unanswered" ELSE phase[c]
        BY <2>1 DEF LoadFails
      <3>2. \A c \in Editor : up'[c] = IF at[c] = r THEN {} ELSE up[c]
        BY <2>1 DEF LoadFails
      <3>3. \A k \in Call : call'[k] = IF call[k].at = r /\ call[k].st = "opening"
                                       THEN [call[k] EXCEPT !.st = "failed"] ELSE call[k]
        BY <2>1 DEF LoadFails
      <3>4. at' = at
        BY <2>1 DEF LoadFails
      <3>5. Away'
        BY <3>1, <3>2, <3>4 DEF Away
      <3>6. Begun'
        BY <3>3 DEF Begun, Shaped, Calls
      <3> QED
        BY <3>5, <3>6
    <2>2. CASE Forget(r)
      <3>1. \A c \in Editor : phase'[c] = IF at[c] = r THEN "over" ELSE phase[c]
        BY <2>2 DEF Forget
      <3>2. \A c \in Editor : up'[c] = IF at[c] = r THEN {} ELSE up[c]
        BY <2>2 DEF Forget
      <3>3. at' = at /\ call' = call
        BY <2>2 DEF Forget
      <3> QED
        BY <3>1, <3>2, <3>3, DocAssumption DEF Away, Begun
    <2>3. CASE Crash(r)
      <3>1. \A c \in Editor : at'[c] = IF at[c] = r THEN Nowhere ELSE at[c]
        BY <2>3 DEF Crash
      <3>2. \A c \in Editor : phase'[c] = IF at[c] = r THEN "off" ELSE phase[c]
        BY <2>3 DEF Crash
      <3>3. \A c \in Editor : up'[c] = IF at[c] = r THEN {} ELSE up[c]
        BY <2>3 DEF Crash
      <3>4. \A k \in Call : call'[k] = IF call[k].at = r /\ call[k].st \in {"opening", "saving"}
                                       THEN [call[k] EXCEPT !.st = "failed"] ELSE call[k]
        BY <2>3 DEF Crash
      <3>5. Away'
        BY <3>1, <3>2, <3>3 DEF Away
      <3>6. Begun'
        BY <3>4 DEF Begun, Shaped, Calls
      <3> QED
        BY <3>5, <3>6
    <2>4. ASSUME NEW u \in Upload, NEW what \in {"uploaded", "finished"}, Begin(u, what, r) PROVE Placed'
      BY <2>4 DEF Begin, Away, Begun, Shaped, Calls, browsers
    <2>5. CASE \/ Open(r) \/ Load(r) \/ (\E u \in wire[r] : Relay(r, u)) \/ CatchUp(r) \/ Flush(r) \/ Compact(r)
               \/ DropAll(r) \/ DeleteDrops(r)
      <3>1. UNCHANGED <<at, phase, up, call>>
        BY <2>5 DEF Open, Load, Relay, CatchUp, Flush, Compact, DropAll, DeleteDrops, browsers
      <3> QED
        BY <3>1 DEF Away, Begun
    <2> QED
      BY <1>2, <2>1, <2>2, <2>3, <2>4, <2>5 DEF ReplicaStep
  <1>3. CASE StoreStep
    <2>1. ASSUME NEW f \in flights, Append(f) \/ AppendFails(f) PROVE Placed'
      <3>1. UNCHANGED browsers /\ f \in Flights /\ call' = IF f.by = Nowhere THEN call ELSE Returned(f.by)
        BY <2>1, AppendMeans, AppendFailsMeans
      <3>2. CASE f.by = Nowhere
        BY <3>1, <3>2 DEF Away, Begun, browsers
      <3>3. CASE f.by # Nowhere
        <4>1. \A k \in Call : call'[k].at = call[k].at /\ call'[k].st \in {call[k].st, "returned"}
          BY <3>1, <3>3 DEF Returned, Shaped, Calls
        <4> QED
          BY <3>1, <4>1 DEF Away, Begun, browsers
      <3> QED
        BY <3>2, <3>3
    <2>2. CASE (\E l \in loose : Retry(l)) \/ CompactCommits \/ CompactFails \/ DeleteRow \/ DeleteContent
      <3>1. UNCHANGED <<at, phase, up, call>>
        BY <2>2 DEF Retry, CompactCommits, CompactFails, DeleteRow, DeleteContent, browsers
      <3> QED
        BY <3>1 DEF Away, Begun
    <2> QED
      BY <1>3, <2>1, <2>2 DEF StoreStep
  <1>4. ASSUME NEW k \in Call, Write(k) PROVE Placed'
    <2>1. UNCHANGED browsers /\ call' \in {Returned(k), [call EXCEPT ![k].st = "saving"]}
      BY <1>4, WriteMeans
    <2>2. \A j \in Call : call'[j].at = call[j].at /\ call'[j].st \in {call[j].st, "returned", "saving"}
      BY <2>1 DEF Returned, Shaped, Calls
    <2> QED
      BY <2>1, <2>2 DEF Away, Begun, browsers
  <1> QED
    BY <1>1, <1>2, <1>3, <1>4 DEF Next

\* Init is typed, and every step keeps the types.
LEMMA InitShaped == Init => Shaped /\ Placed
  <1> SUFFICES ASSUME Init PROVE Shaped /\ Placed
    OBVIOUS
  <1>1. copy \in [Replica -> Copies]
    BY NoCopyShaped DEF Init
  <1>2. call \in [Call -> Calls] /\ \A k \in Call : call[k].st = "idle"
    BY DEF Init, Idle, Calls
  <1>3. budget \in Bounds
    BY DocAssumption DEF Init, Bounds
  <1> QED
    <2>1. /\ compacting \in [by : Replica \cup {Nowhere}, rows : SUBSET RowSet]
          /\ deleting \in [st : {"no", "dropping", "unlisted", "announced", "stopped"},
                           at : Replica \cup {Nowhere}, told : SUBSET Replica]
      BY DEF Init
    <2>2. /\ wire \in [Replica -> SUBSET [edit : Edits, from : Editor \cup {Nowhere}]]
          /\ at \in [Editor -> Replica \cup {Nowhere}]
          /\ phase \in [Editor -> {"off", "in", "unanswered", "synced", "over"}]
          /\ mine \in [Editor -> SUBSET Edits] /\ up \in [Editor -> SUBSET Edits]
      BY DEF Init
    <2>3. Placed
      BY <1>2 DEF Init, Placed, Away, Begun
    <2>4. /\ rows = {} /\ snapshot = {} /\ nextSeq = 1 /\ listed = TRUE /\ due = {} /\ flights = {} /\ loose = {}
          /\ leaving = {} /\ made = {} /\ overtaken = FALSE /\ failed = FALSE
      BY DEF Init
    <2>5. /\ rows \subseteq RowSet /\ snapshot \subseteq Edits /\ nextSeq \in Nat \ {0}
          /\ due \subseteq Replica /\ flights \subseteq Flights /\ loose \subseteq Batches
          /\ leaving \subseteq Replica /\ made \subseteq Edits
      BY <2>4
    <2>6. listed \in BOOLEAN /\ overtaken \in BOOLEAN /\ failed \in BOOLEAN
      BY <2>4
    <2>7. Shaped
      BY <1>1, <1>2, <1>3, <2>1, <2>2, <2>5, <2>6 DEF Shaped
    <2> QED
      BY <2>3, <2>7

\* Every step keeps the types.
LEMMA StepShaped == ASSUME Shaped, Placed, Next PROVE Shaped'
  <1>0. Away /\ Begun
    BY DEF Placed
  <1>1. ASSUME NEW c \in Editor, EditorStep(c) PROVE Shaped'
    BY <1>0, <1>1, JoinShaped, TypeShaped, LeaveShaped, HelloShaped, ReceiveShaped DEF EditorStep
  <1>2. ASSUME NEW r \in Replica, ReplicaStep(r) PROVE Shaped'
    <2>1. CASE Open(r) \/ Load(r) \/ LoadFails(r) \/ (\E u \in wire[r] : Relay(r, u)) \/ CatchUp(r) \/ Flush(r)
      BY <2>1, OpenShaped, LoadShaped, LoadFailsShaped, RelayShaped, CatchUpShaped, FlushShaped
    <2>2. CASE Compact(r) \/ DropAll(r) \/ Crash(r) \/ DeleteDrops(r) \/ Forget(r)
      BY <2>2, CompactShaped, DropAllShaped, CrashShaped, DeleteDropsShaped, ForgetShaped
    <2>3. CASE \E u \in Upload, what \in {"uploaded", "finished"} : Begin(u, what, r)
      BY <2>3, BeginShaped
    <2> QED
      BY <1>2, <2>1, <2>2, <2>3 DEF ReplicaStep
  <1>3. CASE StoreStep
    <2>1. CASE (\E f \in flights : Append(f) \/ AppendFails(f)) \/ (\E l \in loose : Retry(l))
      BY <2>1, AppendShaped, AppendFailsShaped, RetryShaped
    <2>2. CASE CompactCommits \/ CompactFails \/ DeleteRow \/ DeleteContent
      BY <2>2, CompactCommitsShaped, CompactFailsShaped, DeleteRowShaped, DeleteContentShaped
    <2> QED
      BY <1>3, <2>1, <2>2 DEF StoreStep
  <1>4. ASSUME NEW k \in Call, Write(k) PROVE Shaped'
    BY <1>0, <1>4, WriteShaped
  <1> QED
    BY <1>1, <1>2, <1>3, <1>4 DEF Next

-----------------------------------------------------------------------------
(* Copies and saves.                                                       *)

\* What a copy has to save, now or if a save of it fails, is in its document.
CopiesHold ==
  /\ \A r \in Replica : copy[r].pending \subseteq copy[r].doc /\ (copy[r].st # "open" => copy[r].pending = {})
  /\ \A f \in flights : f.of = "copy" => copy[f.at].st = "open" /\ f.batch \subseteq copy[f.at].doc

\* Saves hold something, and no two of them have one sequence number.
SeqsApart ==
  /\ \A row \in rows : row.seq < nextSeq /\ row.data # {} /\ row.seq # 0
  /\ \A f \in flights : f.seq < nextSeq /\ f.batch # {} /\ f.seq # 0
  /\ \A f, g \in flights : f.seq = g.seq => f = g
  /\ \A l \in loose : l.batch # {}

\* A step of the copy of r keeps CopiesHold if a save goes on for a copy of
\* another replica, for one that grew, or is of what the copy has now.
LEMMA CopiesStayHeld ==
  ASSUME Shaped, CopiesHold, NEW r \in Replica, NEW st, NEW doc, NEW peers, NEW pending,
         CopyMoves(r, st, doc, peers, pending), pending \subseteq doc, st = "open" \/ pending = {},
         \A g \in flights' : g.of = "copy" =>
             \/ g \in flights /\ g.at # r
             \/ g \in flights /\ g.at = r /\ (copy[r].st = "open" => st = "open") /\ copy[r].doc \subseteq doc
             \/ g.at = r /\ st = "open" /\ g.batch \subseteq doc
  PROVE  CopiesHold'
  <1>1. \A q \in Replica : copy'[q].pending \subseteq copy'[q].doc /\ (copy'[q].st # "open" => copy'[q].pending = {})
    <2>1. copy'[r].pending \subseteq copy'[r].doc /\ (copy'[r].st # "open" => copy'[r].pending = {})
      BY DEF CopyMoves
    <2>2. \A q \in Replica : q # r => copy'[q] = copy[q]
      BY DEF CopyMoves
    <2> QED
      BY <2>1, <2>2 DEF CopiesHold
  <1>2. ASSUME NEW g \in flights', g.of = "copy" PROVE copy'[g.at].st = "open" /\ g.batch \subseteq copy'[g.at].doc
    <2>1. CASE g \in flights /\ g.at # r
      <3>1. g.at \in Replica /\ copy[g.at].st = "open" /\ g.batch \subseteq copy[g.at].doc
        BY <1>2, <2>1 DEF CopiesHold, Shaped, Flights
      <3>2. copy'[g.at] = copy[g.at]
        BY <2>1, <3>1 DEF CopyMoves
      <3> QED
        BY <3>1, <3>2
    <2>2. CASE g \in flights /\ g.at = r /\ (copy[r].st = "open" => st = "open") /\ copy[r].doc \subseteq doc
      <3>1. copy[r].st = "open" /\ g.batch \subseteq copy[r].doc
        BY <1>2, <2>2 DEF CopiesHold
      <3>2. copy'[r].st = st /\ copy'[r].doc = doc
        BY DEF CopyMoves
      <3> QED
        BY <2>2, <3>1, <3>2
    <2>3. CASE g.at = r /\ st = "open" /\ g.batch \subseteq doc
      <3>1. copy'[r].st = st /\ copy'[r].doc = doc
        BY DEF CopyMoves
      <3> QED
        BY <2>3, <3>1
    <2> QED
      BY <1>2, <2>1, <2>2, <2>3
  <1> QED
    BY <1>1, <1>2 DEF CopiesHold

\* A step keeps SeqsApart if its rows and batches come from saves, and its new
\* saves take new numbers.
LEMMA SeqsStayApart ==
  ASSUME Shaped, SeqsApart, nextSeq' \in {nextSeq, nextSeq + 1},
         \A row \in rows' : row \in rows \/ \E f \in flights : row.seq = f.seq /\ row.data = f.batch,
         \A g \in flights' : \/ \E f \in flights : g.seq = f.seq /\ g.batch = f.batch
                             \/ g.seq = nextSeq /\ g.batch # {} /\ nextSeq' = nextSeq + 1,
         \A g, h \in flights' : g.seq = h.seq => g = h,
         \A l \in loose' : l \in loose \/ \E f \in flights : l.batch = f.batch
  PROVE  SeqsApart'
  <1>1. nextSeq \in Nat \ {0} /\ \A f \in flights : f.seq \in Nat
    BY DEF Shaped, Flights
  <1>2. \A row \in rows : row.seq \in Nat
    BY DEF Shaped, RowSet
  <1>3. ASSUME NEW row \in rows' PROVE row.seq < nextSeq' /\ row.data # {} /\ row.seq # 0
    BY <1>1, <1>2, <1>3 DEF SeqsApart
  <1>4. ASSUME NEW g \in flights' PROVE g.seq < nextSeq' /\ g.batch # {} /\ g.seq # 0
    BY <1>1, <1>4 DEF SeqsApart
  <1>5. \A l \in loose' : l.batch # {}
    BY DEF SeqsApart
  <1> QED
    BY <1>3, <1>4, <1>5 DEF SeqsApart

\* Saves that go on as a copy is released keep their numbers.
LEMMA OrphanedApart ==
  ASSUME Shaped, SeqsApart, NEW r
  PROVE  /\ \A g \in Orphaned(r) : \E f \in flights : SameSave(g, f)
         /\ \A g \in Orphaned(r) : g.of = "copy" => g \in flights /\ g.at # r
         /\ \A g, h \in Orphaned(r) : g.seq = h.seq => g = h
         /\ \A g \in Orphaned(r) : g.seq < nextSeq
         /\ \A f \in flights : \E g \in Orphaned(r) : SameSave(g, f)
  <1>1. Orphaned(r) = {Afterwards(f, r) : f \in flights} /\ flights \subseteq Flights
    BY OrphanedMeans DEF Shaped
  <1>2. \A f \in flights : /\ SameSave(Afterwards(f, r), f)
                           /\ ~(Afterwards(f, r).of = "copy" /\ Afterwards(f, r).at = r)
    BY <1>1, AfterwardsMeans
  <1>3. \A g \in Orphaned(r) : \E f \in flights : SameSave(g, f)
    BY <1>1, <1>2
  <1>4. ASSUME NEW g \in Orphaned(r), g.of = "copy" PROVE g \in flights /\ g.at # r
    <2>1. PICK f \in flights : g = Afterwards(f, r)
      BY <1>1
    <2>2. g.at # r /\ Afterwards(f, r).at = f.at
      BY <1>2, <1>4, <2>1 DEF SameSave
    <2>3. g = f
      BY <2>1, <2>2 DEF Afterwards
    <2> QED
      BY <2>2, <2>3
  <1>5. ASSUME NEW g \in Orphaned(r), NEW h \in Orphaned(r), g.seq = h.seq PROVE g = h
    <2>1. PICK f \in flights : g = Afterwards(f, r)
      BY <1>1
    <2>2. PICK k \in flights : h = Afterwards(k, r)
      BY <1>1
    <2>3. f.seq = k.seq
      BY <1>2, <1>5, <2>1, <2>2 DEF SameSave
    <2>4. f = k
      BY <2>3 DEF SeqsApart
    <2> QED
      BY <2>1, <2>2, <2>4
  <1>6. \A g \in Orphaned(r) : g.seq < nextSeq
    BY <1>3 DEF SeqsApart, SameSave
  <1>7. \A f \in flights : \E g \in Orphaned(r) : SameSave(g, f)
    BY <1>1, <1>2
  <1> QED
    BY <1>3, <1>4, <1>5, <1>6, <1>7

\* A new save has a number of its own.
LEMMA NewApart ==
  ASSUME NEW S, NEW g, NEW n \in Nat, \A f \in S : f.seq \in Nat /\ f.seq < n,
         \A f, h \in S : f.seq = h.seq => f = h, g.seq = n
  PROVE  \A f, h \in S \cup {g} : f.seq = h.seq => f = h
  <1>1. \A f \in S : f.seq # g.seq
    OBVIOUS
  <1> QED
    BY <1>1

\* A copy that is dropped: its saves go on, and what it had unsaved is saved.
LEMMA DroppedHolds ==
  ASSUME Shaped, CopiesHold, SeqsApart, NEW r \in Replica, copy' = [copy EXCEPT ![r] = NoCopy],
         flights' = Orphaned(r) \cup Released(r), nextSeq' = nextSeq + Cardinality(Released(r)),
         UNCHANGED <<rows, loose>>
  PROVE  CopiesHold' /\ SeqsApart'
  <1>1. /\ nextSeq' \in {nextSeq, nextSeq + 1} /\ (Released(r) # {} => nextSeq' = nextSeq + 1)
        /\ nextSeq \in Nat /\ copy \in [Replica -> Copies]
    BY DroppedShaped DEF Shaped
  <1>2. CopyMoves(r, "none", {}, {}, {})
    BY <1>1, CopyGoes
  <1>3. \A g \in Released(r) : g.of = "dropped" /\ g.seq = nextSeq /\ g.batch # {}
    BY ReleasedMeans
  <1>4. \A g \in flights' : g.of = "copy" => g \in flights /\ g.at # r
    BY <1>3, OrphanedApart
  <1>5. CopiesHold'
    BY <1>2, <1>4, CopiesStayHeld
  <1>6. \A g \in flights' : \/ \E f \in flights : g.seq = f.seq /\ g.batch = f.batch
                            \/ g.seq = nextSeq /\ g.batch # {} /\ nextSeq' = nextSeq + 1
    BY <1>1, <1>3, OrphanedApart DEF SameSave
  <1>7. \A g, h \in flights' : g.seq = h.seq => g = h
    <2>1. /\ \A f \in Orphaned(r) : f.seq \in Nat /\ f.seq < nextSeq
          /\ \A f, h \in Orphaned(r) : f.seq = h.seq => f = h
      BY OrphanedApart, OrphanedMeans DEF Shaped, Flights
    <2>2. CASE Released(r) = {}
      BY <2>1, <2>2
    <2>3. CASE Released(r) # {}
      <3>1. PICK g : Released(r) = {g}
        BY <2>3, ReleasedMeans
      <3>2. g.seq = nextSeq
        BY <1>3, <3>1
      <3>3. \A f, h \in Orphaned(r) \cup {g} : f.seq = h.seq => f = h
        BY <1>1, <2>1, <3>2, NewApart
      <3> QED
        BY <3>1, <3>3
    <2> QED
      BY <2>2, <2>3
  <1>8. SeqsApart'
    BY <1>1, <1>6, <1>7, SeqsStayApart
  <1> QED
    BY <1>5, <1>8

Saving == CopiesHold /\ SeqsApart

\* A step that starts no save and lets no edit go to storage.
LEMMA NoSaveHolds ==
  ASSUME Shaped, Saving, UNCHANGED <<rows, flights, nextSeq, loose>>, NEW r \in Replica, NEW st, NEW doc,
         NEW peers, NEW pending, CopyMoves(r, st, doc, peers, pending), pending \subseteq doc,
         st = "open" \/ pending = {}, copy[r].st = "open" => st = "open" /\ copy[r].doc \subseteq doc
  PROVE  Saving'
  <1> USE DEF Saving
  <1>1. \A g \in flights' : g.of = "copy" =>
             \/ g \in flights /\ g.at # r
             \/ g \in flights /\ g.at = r /\ (copy[r].st = "open" => st = "open") /\ copy[r].doc \subseteq doc
    BY DEF CopiesHold
  <1>2. CopiesHold'
    BY <1>1, CopiesStayHeld
  <1>3. SeqsApart'
    BY DEF SeqsApart
  <1> QED
    BY <1>2, <1>3

\* Steps of an editor start no save.
LEMMA EditorSaving == ASSUME Shaped, Placed, Saving, NEW c \in Editor, EditorStep(c) PROVE Saving'
  <1>0. Away /\ CopiesHold /\ SeqsApart /\ copy \in [Replica -> Copies]
    BY DEF Placed, Saving, Shaped
  <1>1. ASSUME NEW r \in Replica, Join(c, r) PROVE Saving'
    <2>1. CopyMoves(r, copy[r].st, copy[r].doc, copy[r].peers, copy[r].pending)
      BY <1>1, JoinCopy
    <2>2. UNCHANGED <<rows, flights, nextSeq, loose>>
      BY <1>1 DEF Join, store
    <2>3. copy[r].pending \subseteq copy[r].doc /\ (copy[r].st = "open" \/ copy[r].pending = {})
      BY <1>0 DEF CopiesHold
    <2> QED
      BY <2>1, <2>2, <2>3, NoSaveHolds
  <1>2. ASSUME NEW e \in Typing, Type(c, e) PROVE Saving'
    <2>1. UNCHANGED <<rows, flights, nextSeq, loose, copy>>
      BY <1>2 DEF Type, store, hub
    <2> QED
      BY <2>1 DEF Saving, CopiesHold, SeqsApart
  <1>3. CASE Leave(c)
    <2>1. PICK r \in Replica : r = at[c]
      BY <1>3, LeaveCopy
    <2>2. CopyMoves(r, copy[r].st, copy[r].doc, copy[r].peers \ {c}, copy[r].pending)
      BY <1>3, <2>1, LeaveCopy
    <2>3. UNCHANGED <<rows, flights, nextSeq, loose>>
      BY <1>3 DEF Leave, store
    <2>4. copy[r].pending \subseteq copy[r].doc /\ (copy[r].st = "open" \/ copy[r].pending = {})
      BY <1>0 DEF CopiesHold
    <2> QED
      BY <2>2, <2>3, <2>4, NoSaveHolds
  <1>4. CASE Hello(c)
    <2>1. PICK r \in Replica : r = at[c]
      BY <1>0, <1>4, HelloCopy
    <2>2. CopyMoves(r, "open", copy[r].doc, copy[r].peers \cup {c}, copy[r].pending)
      BY <1>0, <1>4, <2>1, HelloCopy
    <2>3. UNCHANGED <<rows, flights, nextSeq, loose>>
      BY <1>4 DEF Hello, store
    <2>4. copy[r].pending \subseteq copy[r].doc
      BY <1>0 DEF CopiesHold
    <2> QED
      BY <2>2, <2>3, <2>4, NoSaveHolds
  <1>5. ASSUME NEW e \in Edits, Receive(c, e) PROVE Saving'
    <2>1. PICK r \in Replica : r = at[c]
      BY <1>0, <1>5, ReceiveCopy
    <2>2. PICK doc : doc = copy[r].doc \cup {e}
      OBVIOUS
    <2>3. PICK pending : pending = copy[r].pending \cup ({e} \ copy[r].doc)
      OBVIOUS
    <2>4. CopyMoves(r, "open", doc, copy[r].peers, pending)
      BY <1>0, <1>5, <2>1, <2>2, <2>3, ReceiveCopy
    <2>5. UNCHANGED <<rows, flights, nextSeq, loose>>
      BY <1>5 DEF Receive, store
    <2>6. pending \subseteq doc /\ copy[r].doc \subseteq doc
      BY <1>0, <2>2, <2>3 DEF CopiesHold
    <2> QED
      BY <2>4, <2>5, <2>6, NoSaveHolds
  <1> QED
    BY <1>1, <1>2, <1>3, <1>4, <1>5 DEF EditorStep

\* Steps of a copy start no save.
LEMMA CopySaving ==
  ASSUME Shaped, Saving, NEW r \in Replica,
         \/ Open(r) \/ Load(r) \/ LoadFails(r) \/ (\E u \in wire[r] : Relay(r, u)) \/ CatchUp(r)
         \/ \E u \in Upload, what \in {"uploaded", "finished"} : Begin(u, what, r)
  PROVE  Saving'
  <1>0. CopiesHold /\ SeqsApart /\ copy \in [Replica -> Copies]
    BY DEF Saving, Shaped
  <1>1. copy[r].pending \subseteq copy[r].doc /\ (copy[r].st = "open" \/ copy[r].pending = {})
    BY <1>0 DEF CopiesHold
  <1>2. CASE Open(r) \/ \E u \in Upload, what \in {"uploaded", "finished"} : Begin(u, what, r)
    <2>1. copy' = [copy EXCEPT ![r] = Opened(r)] /\ UNCHANGED <<rows, flights, nextSeq, loose>>
      BY <1>2 DEF Open, Begin, store
    <2>2. CASE copy[r].st = "none"
      <3>1. CopyMoves(r, "loading", {}, {}, {})
        BY <1>0, <2>1, <2>2, OpenedCopy
      <3> QED
        BY <2>1, <2>2, <3>1, NoSaveHolds
    <2>3. CASE copy[r].st # "none"
      <3>1. CopyMoves(r, copy[r].st, copy[r].doc, copy[r].peers, copy[r].pending)
        BY <1>0, <2>1, <2>3, OpenedCopy
      <3> QED
        BY <1>1, <2>1, <3>1, NoSaveHolds
    <2> QED
      BY <2>2, <2>3
  <1>3. CASE Load(r)
    <2>1. PICK doc : doc = copy[r].doc \cup Stored
      OBVIOUS
    <2>2. CopyMoves(r, "open", doc, copy[r].peers, copy[r].pending)
      BY <1>3, <2>1, LoadCopy
    <2>3. UNCHANGED <<rows, flights, nextSeq, loose>> /\ copy[r].pending \subseteq doc /\ copy[r].doc \subseteq doc
      BY <1>1, <1>3, <2>1 DEF Load, store
    <2> QED
      BY <2>2, <2>3, NoSaveHolds
  <1>4. CASE LoadFails(r)
    <2>1. /\ UNCHANGED <<rows, flights, nextSeq, loose>> /\ copy' = [copy EXCEPT ![r] = NoCopy]
          /\ copy[r].st = "loading"
      BY <1>4 DEF LoadFails, store
    <2>2. CopyMoves(r, "none", {}, {}, {})
      BY <1>0, <2>1, CopyGoes
    <2> QED
      BY <2>1, <2>2, NoSaveHolds
  <1>5. ASSUME NEW u \in wire[r], Relay(r, u) PROVE Saving'
    <2>1. PICK doc : doc = IF copy[r].st = "none" THEN copy[r].doc ELSE copy[r].doc \cup {u.edit}
      OBVIOUS
    <2>2. CopyMoves(r, copy[r].st, doc, copy[r].peers, copy[r].pending)
      BY <1>5, <2>1, RelayCopy
    <2>3. UNCHANGED <<rows, flights, nextSeq, loose>> /\ copy[r].pending \subseteq doc /\ copy[r].doc \subseteq doc
      BY <1>1, <1>5, <2>1 DEF Relay, store
    <2> QED
      BY <1>1, <2>2, <2>3, NoSaveHolds
  <1>6. CASE CatchUp(r)
    <2>1. PICK doc : doc = copy[r].doc \cup Stored
      OBVIOUS
    <2>2. CopyMoves(r, copy[r].st, doc, copy[r].peers, copy[r].pending)
      BY <1>6, <2>1, CatchUpCopy
    <2>3. UNCHANGED <<rows, flights, nextSeq, loose>> /\ copy[r].pending \subseteq doc /\ copy[r].doc \subseteq doc
      BY <1>1, <1>6, <2>1 DEF CatchUp, store
    <2> QED
      BY <1>1, <2>2, <2>3, NoSaveHolds
  <1> QED
    BY <1>2, <1>3, <1>4, <1>5, <1>6

\* A save of what a copy has unsaved, with the edits just made, starts.
LEMMA NewSaveHolds ==
  ASSUME Shaped, Saving, NEW r \in Replica, NEW doc, NEW peers, NEW g, CopyMoves(r, "open", doc, peers, {}),
         flights' = flights \cup {g}, nextSeq' = nextSeq + 1, UNCHANGED <<rows, loose>>,
         g.at = r, g.seq = nextSeq, g.batch # {}, g.batch \subseteq doc, copy[r].doc \subseteq doc
  PROVE  Saving'
  <1>0. CopiesHold /\ SeqsApart /\ nextSeq \in Nat
    BY DEF Saving, Shaped
  <1>1. \A h \in flights' : h.of = "copy" =>
             \/ h \in flights /\ h.at # r
             \/ h \in flights /\ h.at = r /\ copy[r].doc \subseteq doc
             \/ h.at = r /\ h.batch \subseteq doc
    OBVIOUS
  <1>2. CopiesHold'
    BY <1>0, <1>1, CopiesStayHeld
  <1>3. \A h, k \in flights' : h.seq = k.seq => h = k
    <2>1. /\ \A f \in flights : f.seq \in Nat /\ f.seq < nextSeq
          /\ \A f, h \in flights : f.seq = h.seq => f = h
      BY <1>0 DEF SeqsApart, Shaped, Flights
    <2> QED
      BY <1>0, <2>1, NewApart
  <1>4. SeqsApart'
    BY <1>0, <1>3, SeqsStayApart
  <1> QED
    BY <1>2, <1>4 DEF Saving

\* Steps of a replica keep Saving.
LEMMA ReplicaSaving == ASSUME Shaped, Saving, NEW r \in Replica, ReplicaStep(r) PROVE Saving'
  <1>0. CopiesHold /\ SeqsApart /\ copy \in [Replica -> Copies] /\ nextSeq \in Nat
    BY DEF Saving, Shaped
  <1>1. CASE Flush(r)
    <2>1. PICK g : g = Flight(r, copy[r].pending, "copy", Nowhere, 0)
      OBVIOUS
    <2>2. /\ flights' = flights \cup {g} /\ nextSeq' = nextSeq + 1 /\ UNCHANGED <<rows, loose>>
          /\ g.at = r /\ g.seq = nextSeq /\ g.batch = copy[r].pending /\ copy[r].pending # {}
      BY <1>1, <2>1 DEF Flush, Flight
    <2>3. CopyMoves(r, "open", copy[r].doc, copy[r].peers, {})
      BY <1>1, FlushCopy
    <2>4. g.batch \subseteq copy[r].doc /\ g.batch # {}
      BY <1>0, <2>2 DEF CopiesHold
    <2> QED
      BY <2>2, <2>3, <2>4, NewSaveHolds
  <1>2. CASE Compact(r)
    <2>1. UNCHANGED <<rows, flights, nextSeq, loose, copy>>
      BY <1>2 DEF Compact, hub
    <2> QED
      BY <2>1 DEF Saving, CopiesHold, SeqsApart
  <1>3. CASE DropAll(r) \/ DeleteDrops(r)
    <2>1. /\ copy' = [copy EXCEPT ![r] = NoCopy] /\ flights' = Orphaned(r) \cup Released(r)
          /\ nextSeq' = nextSeq + Cardinality(Released(r)) /\ UNCHANGED <<rows, loose>>
      BY <1>3 DEF DropAll, DeleteDrops
    <2> QED
      BY <1>0, <2>1, DroppedHolds DEF Saving
  <1>4. CASE Forget(r)
    <2>1. copy' = [copy EXCEPT ![r] = NoCopy] /\ flights' = Orphaned(r) /\ UNCHANGED <<rows, loose, nextSeq>>
      BY <1>4 DEF Forget, Discarded, store
    <2>2. CopyMoves(r, "none", {}, {}, {})
      BY <1>0, <2>1, CopyGoes
    <2>3. \A g \in flights' : g.of = "copy" => g \in flights /\ g.at # r
      BY <1>0, <2>1, OrphanedApart
    <2>4. CopiesHold'
      BY <1>0, <2>2, <2>3, CopiesStayHeld
    <2>5. /\ \A g \in flights' : \E f \in flights : g.seq = f.seq /\ g.batch = f.batch
          /\ \A g, h \in flights' : g.seq = h.seq => g = h
      BY <1>0, <2>1, OrphanedApart DEF SameSave
    <2>6. SeqsApart'
      BY <1>0, <2>1, <2>5, SeqsStayApart
    <2> QED
      BY <2>4, <2>6 DEF Saving
  <1>5. CASE Crash(r)
    <2>1. /\ copy' = [copy EXCEPT ![r] = NoCopy] /\ flights' = {f \in flights : f.at # r}
          /\ loose' \subseteq loose /\ UNCHANGED nextSeq
          /\ \A row \in rows' : row \in rows \/ \E f \in flights : row.seq = f.seq /\ row.data = f.batch
      BY <1>5 DEF Crash
    <2>2. CopyMoves(r, "none", {}, {}, {})
      BY <1>0, <2>1, CopyGoes
    <2>3. \A g \in flights' : g.of = "copy" => g \in flights /\ g.at # r
      BY <2>1
    <2>4. CopiesHold'
      BY <1>0, <2>2, <2>3, CopiesStayHeld
    <2>5. /\ \A g \in flights' : \E f \in flights : g.seq = f.seq /\ g.batch = f.batch
          /\ \A g, h \in flights' : g.seq = h.seq => g = h
      BY <1>0, <2>1 DEF SeqsApart
    <2>6. SeqsApart'
      BY <1>0, <2>1, <2>5, SeqsStayApart
    <2> QED
      BY <2>4, <2>6 DEF Saving
  <1>6. CASE \/ Open(r) \/ Load(r) \/ LoadFails(r) \/ (\E u \in wire[r] : Relay(r, u)) \/ CatchUp(r)
             \/ \E u \in Upload, what \in {"uploaded", "finished"} : Begin(u, what, r)
    BY <1>6, CopySaving
  <1> QED
    BY <1>1, <1>2, <1>3, <1>4, <1>5, <1>6 DEF ReplicaStep

\* Steps of the store keep it.
LEMMA StoreSaving == ASSUME Shaped, Saving, StoreStep PROVE Saving'
  <1>0. CopiesHold /\ SeqsApart /\ copy \in [Replica -> Copies] /\ nextSeq \in Nat /\ flights \subseteq Flights
    BY DEF Saving, Shaped
  <1>1. ASSUME NEW f \in flights, Append(f) PROVE Saving'
    <2>1. PICK r \in Replica : r = f.at
      BY <1>1, AppendMeans
    <2>2. /\ rows' = rows \cup {[seq |-> f.seq, data |-> f.batch]} /\ UNCHANGED <<nextSeq, loose>>
          /\ flights' \subseteq Orphaned(r) \/ flights' \subseteq flights
      BY <1>1, <2>1, AppendMeans
    <2>3. \A row \in rows' : row \in rows \/ (row.seq = f.seq /\ row.data = f.batch)
      BY <2>2
    <2>4. /\ \A g \in flights' : \E h \in flights : g.seq = h.seq /\ g.batch = h.batch
          /\ \A g, h \in flights' : g.seq = h.seq => g = h
      <3>1. CASE flights' \subseteq Orphaned(r)
        BY <1>0, <3>1, OrphanedApart DEF SameSave
      <3>2. CASE flights' \subseteq flights
        BY <1>0, <3>2 DEF SeqsApart
      <3> QED
        BY <2>2, <3>1, <3>2
    <2>5. SeqsApart'
      BY <1>0, <2>2, <2>3, <2>4, SeqsStayApart
    <2>6. CASE CopyMoves(r, "none", {}, {}, {}) /\ flights' \subseteq Orphaned(r)
      <3>1. \A g \in flights' : g.of = "copy" => g \in flights /\ g.at # r
        BY <1>0, <2>6, OrphanedApart
      <3>2. CopiesHold'
        BY <1>0, <2>6, <3>1, CopiesStayHeld
      <3> QED
        BY <2>5, <3>2 DEF Saving
    <2>7. CASE /\ CopyMoves(r, copy[r].st, copy[r].doc, copy[r].peers, copy[r].pending)
               /\ flights' \subseteq flights
      <3>1. copy[r].pending \subseteq copy[r].doc /\ (copy[r].st = "open" \/ copy[r].pending = {})
        BY <1>0 DEF CopiesHold
      <3>2. CopiesHold'
        BY <1>0, <2>7, <3>1, CopiesStayHeld
      <3> QED
        BY <2>5, <3>2 DEF Saving
    <2> QED
      BY <1>1, <2>1, <2>6, <2>7, AppendMeans
  <1>2. ASSUME NEW f \in flights, AppendFails(f) PROVE Saving'
    <2>1. PICK r \in Replica : r = f.at
      BY <1>2, AppendFailsMeans
    <2>2. /\ rows' \in {rows, rows \cup {[seq |-> f.seq, data |-> f.batch]}} /\ UNCHANGED nextSeq
          /\ flights' \subseteq Orphaned(r) \/ flights' \subseteq flights
          /\ \A l \in loose' : l \in loose \/ l.batch = f.batch
      BY <1>2, <2>1, AppendFailsMeans
    <2>3. \A row \in rows' : row \in rows \/ (row.seq = f.seq /\ row.data = f.batch)
      BY <2>2
    <2>4. /\ \A g \in flights' : \E h \in flights : g.seq = h.seq /\ g.batch = h.batch
          /\ \A g, h \in flights' : g.seq = h.seq => g = h
      <3>1. CASE flights' \subseteq Orphaned(r)
        BY <1>0, <3>1, OrphanedApart DEF SameSave
      <3>2. CASE flights' \subseteq flights
        BY <1>0, <3>2 DEF SeqsApart
      <3> QED
        BY <2>2, <3>1, <3>2
    <2>5. SeqsApart'
      BY <1>0, <2>2, <2>3, <2>4, SeqsStayApart
    <2>6. CASE CopyMoves(r, "none", {}, {}, {}) /\ flights' \subseteq Orphaned(r)
      <3>1. \A g \in flights' : g.of = "copy" => g \in flights /\ g.at # r
        BY <1>0, <2>6, OrphanedApart
      <3>2. CopiesHold'
        BY <1>0, <2>6, <3>1, CopiesStayHeld
      <3> QED
        BY <2>5, <3>2 DEF Saving
    <2>7. CASE /\ CopyMoves(r, copy[r].st, copy[r].doc, copy[r].peers, copy[r].pending \cup f.batch)
               /\ flights' \subseteq flights /\ f.of = "copy"
      <3>1. copy[r].pending \cup f.batch \subseteq copy[r].doc /\ copy[r].st = "open"
        BY <1>0, <2>1, <2>7 DEF CopiesHold
      <3>2. PICK n : n = copy[r].pending \cup f.batch
        OBVIOUS
      <3>3. CopyMoves(r, copy[r].st, copy[r].doc, copy[r].peers, n) /\ n \subseteq copy[r].doc
        BY <2>7, <3>1, <3>2
      <3>4. CopiesHold'
        BY <1>0, <2>7, <3>1, <3>3, CopiesStayHeld
      <3> QED
        BY <2>5, <3>4 DEF Saving
    <2>8. CASE /\ CopyMoves(r, copy[r].st, copy[r].doc, copy[r].peers, copy[r].pending)
               /\ flights' \subseteq flights
      <3>1. copy[r].pending \subseteq copy[r].doc /\ (copy[r].st = "open" \/ copy[r].pending = {})
        BY <1>0 DEF CopiesHold
      <3>2. CopiesHold'
        BY <1>0, <2>8, <3>1, CopiesStayHeld
      <3> QED
        BY <2>5, <3>2 DEF Saving
    <2> QED
      BY <1>2, <2>1, <2>6, <2>7, <2>8, AppendFailsMeans
  <1>3. ASSUME NEW l \in loose, Retry(l) PROVE Saving'
    <2>1. PICK g : g = Flight(l.at, l.batch, l.of, Nowhere, l.tries)
      OBVIOUS
    <2>2. /\ flights' = flights \cup {g} /\ nextSeq' = nextSeq + 1 /\ loose' \subseteq loose /\ UNCHANGED <<rows, copy>>
          /\ g.of = l.of /\ g.batch = l.batch /\ g.seq = nextSeq
      BY <1>3, <2>1 DEF Retry, Flight
    <2>3. l.of # "copy" /\ l.batch # {}
      BY <1>0 DEF SeqsApart, Shaped, Batches
    <2>4. CopiesHold'
      BY <1>0, <2>2, <2>3 DEF CopiesHold
    <2>5. \A h, k \in flights' : h.seq = k.seq => h = k
      <3>1. /\ \A f \in flights : f.seq \in Nat /\ f.seq < nextSeq
            /\ \A f, h \in flights : f.seq = h.seq => f = h
        BY <1>0 DEF SeqsApart, Flights
      <3> QED
        BY <1>0, <2>2, <3>1, NewApart
    <2>6. SeqsApart'
      BY <1>0, <2>2, <2>3, <2>5, SeqsStayApart
    <2> QED
      BY <2>4, <2>6 DEF Saving
  <1>4. CASE CompactCommits \/ CompactFails \/ DeleteRow \/ DeleteContent
    <2>1. rows' \subseteq rows /\ UNCHANGED <<flights, nextSeq, loose, copy>>
      BY <1>4 DEF CompactCommits, CompactFails, DeleteRow, DeleteContent, store, hub
    <2> QED
      BY <1>0, <2>1 DEF Saving, CopiesHold, SeqsApart
  <1> QED
    BY <1>1, <1>2, <1>3, <1>4 DEF StoreStep

\* The writer's calls keep it.
LEMMA WriteSaving == ASSUME Shaped, Placed, Saving, NEW k \in Call, Write(k) PROVE Saving'
  <1>0. /\ CopiesHold /\ SeqsApart /\ copy \in [Replica -> Copies] /\ nextSeq \in Nat /\ flights \subseteq Flights
        /\ Begun
    BY DEF Saving, Shaped, Placed
  <1>1. PICK r \in Replica : r = call[k].at
    BY <1>0, WriteMeans
  <1>2. UNCHANGED <<rows, loose>> /\ copy[r].st = "open"
    BY <1>0, <1>1, WriteMeans
  <1>3. CASE CopyMoves(r, "none", {}, {}, {}) /\ flights' = Orphaned(r) /\ nextSeq' = nextSeq
    <2>1. \A g \in flights' : g.of = "copy" => g \in flights /\ g.at # r
      BY <1>0, <1>3, OrphanedApart
    <2>2. CopiesHold'
      BY <1>0, <1>3, <2>1, CopiesStayHeld
    <2>3. /\ \A g \in flights' : \E f \in flights : g.seq = f.seq /\ g.batch = f.batch
          /\ \A g, h \in flights' : g.seq = h.seq => g = h
      BY <1>0, <1>3, OrphanedApart DEF SameSave
    <2>4. SeqsApart'
      BY <1>0, <1>2, <1>3, <2>3, SeqsStayApart
    <2> QED
      BY <2>2, <2>4 DEF Saving
  <1>4. CASE CopyMoves(r, "open", copy[r].doc, copy[r].peers, {}) /\ flights' = flights /\ nextSeq' = nextSeq
    BY <1>0, <1>2, <1>4, NoSaveHolds
  <1>5. CASE /\ PendingIn(k) # {} /\ CopyMoves(r, "open", copy[r].doc \cup NewIn(k), copy[r].peers, {})
             /\ flights' = flights \cup {Flight(r, PendingIn(k), "copy", k, 0)} /\ nextSeq' = nextSeq + 1
    <2>1. PICK g : g = Flight(r, PendingIn(k), "copy", k, 0)
      OBVIOUS
    <2>2. PICK doc : doc = copy[r].doc \cup NewIn(k)
      OBVIOUS
    <2>3. g.at = r /\ g.seq = nextSeq /\ g.batch = PendingIn(k)
      BY <2>1 DEF Flight
    <2>4. PendingIn(k) \subseteq doc /\ copy[r].doc \subseteq doc
      BY <1>0, <1>1, <2>2 DEF PendingIn, CopiesHold
    <2>5. CopyMoves(r, "open", doc, copy[r].peers, {}) /\ flights' = flights \cup {g}
      BY <1>5, <2>1, <2>2
    <2> QED
      BY <1>2, <1>5, <2>3, <2>4, <2>5, NewSaveHolds
  <1> QED
    BY <1>0, <1>1, <1>3, <1>4, <1>5, WriteMeans

\* So does every step.
LEMMA StepSaving == ASSUME Shaped, Placed, Saving, Next PROVE Saving'
  BY EditorSaving, ReplicaSaving, StoreSaving, WriteSaving DEF Next

-----------------------------------------------------------------------------
(* Deletion.                                                               *)

\* A replica hears of a deletion when the document is off the list, and then
\* none of its browsers sends edits; uploads and deletions are of other
\* documents; without a fault, no batch waits for another attempt.
Unlisted ==
  /\ deleting.st \in {"unlisted", "announced"} => ~listed
  /\ deleting.told # {} => deleting.st = "announced"
  /\ deleting.st = "no" => listed

Apart == \/ budget.uploads = 0 /\ \A k \in Call : call[k].st = "idle"
         \/ budget.deletes = 0 /\ deleting.st = "no"

Told == failed \/ /\ loose = {}
                  /\ \A r \in deleting.told : copy[r].pending = {}
                  /\ \A r \in deleting.told : \A c \in Editor : at[c] = r => phase[c] = "over" /\ up[c] = {}

Deleting == Unlisted /\ Apart /\ Told

\* Init satisfies them.
LEMMA InitDeleting == Init => Saving /\ Deleting
  <1> SUFFICES ASSUME Init PROVE Saving /\ Deleting
    OBVIOUS
  <1>1. CopiesHold
    BY DEF Init, CopiesHold, NoCopy
  <1>2. SeqsApart
    BY DEF Init, SeqsApart
  <1>3. deleting.st = "no" /\ deleting.told = {} /\ \A k \in Call : call[k].st = "idle"
    BY DEF Init, Idle
  <1>4. Unlisted
    BY <1>3 DEF Unlisted, Init
  <1>5. Apart
    BY <1>3, MainAssumption DEF Init, Apart
  <1>6. Told
    BY <1>3 DEF Init, Told
  <1> QED
    BY <1>1, <1>2, <1>4, <1>5, <1>6 DEF Saving, Deleting

\* Every step keeps Unlisted.
LEMMA StepUnlisted == ASSUME Shaped, Unlisted, Next PROVE Unlisted'
  <1> USE DEF Unlisted
  <1>1. ASSUME NEW c \in Editor, EditorStep(c) PROVE Unlisted'
    <2>1. UNCHANGED <<listed, deleting>>
      BY <1>1 DEF EditorStep, Join, Type, Leave, Hello, Receive
    <2> QED
      BY <2>1
  <1>2. ASSUME NEW r \in Replica, ReplicaStep(r) PROVE Unlisted'
    <2>1. CASE DeleteDrops(r)
      BY <2>1 DEF DeleteDrops
    <2>2. CASE Forget(r)
      BY <2>2 DEF Forget, Shaped
    <2>3. CASE Crash(r)
      <3>1. listed' = listed
        BY <2>3 DEF Crash
      <3>2. deleting' = IF deleting.at = r /\ deleting.st \in {"dropping", "unlisted"}
                        THEN [deleting EXCEPT !.st = "stopped"] ELSE deleting
        BY <2>3 DEF Crash
      <3>3. CASE deleting' = deleting
        BY <3>1, <3>3
      <3>4. CASE deleting' # deleting
        <4>1. deleting.st \in {"dropping", "unlisted"} /\ deleting' = [deleting EXCEPT !.st = "stopped"]
          BY <3>2, <3>4
        <4>2. deleting'.st = "stopped" /\ deleting'.told = deleting.told
          BY <4>1 DEF Shaped
        <4> QED
          BY <3>1, <4>1, <4>2
      <3> QED
        BY <3>3, <3>4
    <2>4. CASE ~DeleteDrops(r) /\ ~Forget(r) /\ ~Crash(r)
      <3>1. UNCHANGED <<listed, deleting>>
        BY <1>2, <2>4 DEF ReplicaStep, Open, Load, LoadFails, Relay, CatchUp, Flush, Compact, DropAll, Begin
      <3> QED
        BY <3>1
    <2> QED
      BY <2>1, <2>2, <2>3, <2>4
  <1>3. CASE StoreStep
    <2>1. CASE DeleteRow
      BY <2>1 DEF DeleteRow, Shaped
    <2>2. CASE DeleteContent
      BY <2>2 DEF DeleteContent, Shaped
    <2>3. CASE ~DeleteRow /\ ~DeleteContent
      <3>1. UNCHANGED <<listed, deleting>>
        BY <1>3, <2>3 DEF StoreStep, Append, AppendFails, Retry, CompactCommits, CompactFails, hub
      <3> QED
        BY <3>1
    <2> QED
      BY <2>1, <2>2, <2>3
  <1>4. ASSUME NEW k \in Call, Write(k) PROVE Unlisted'
    <2>1. UNCHANGED <<listed, deleting>>
      BY <1>4 DEF Write
    <2> QED
      BY <2>1
  <1> QED
    BY <1>1, <1>2, <1>3, <1>4 DEF Next

\* A save for a call of the writer is of a call that began.
Authored == \A f \in flights : f.by # Nowhere => f.by \in Call /\ call[f.by].st # "idle"

\* Who a save is for does not change; only Write starts one for a call.
LEMMA StepBy ==
  ASSUME Shaped, Placed, Next, NEW g \in flights'
  PROVE  \/ g.by = Nowhere
         \/ \E f \in flights : SameSave(g, f)
         \/ g.by \in Call /\ call[g.by].st = "opening" /\ call' = [call EXCEPT ![g.by].st = "saving"]
  <1>0. flights \subseteq Flights /\ Begun
    BY DEF Shaped, Placed
  <1>a. \A f \in flights : SameSave(f, f)
    BY DEF SameSave
  <1>1. \A r : \A h \in Orphaned(r) : \E f \in flights : SameSave(h, f)
    <2> SUFFICES ASSUME NEW r, NEW h \in Orphaned(r) PROVE \E f \in flights : SameSave(h, f)
      OBVIOUS
    <2>1. PICK f \in flights : h = Afterwards(f, r)
      BY <1>0, OrphanedMeans
    <2>2. SameSave(h, f)
      BY <1>0, <2>1, AfterwardsMeans
    <2> QED
      BY <2>2
  <1>2. ASSUME NEW c \in Editor, EditorStep(c) PROVE flights' = flights
    BY <1>2 DEF EditorStep, Join, Type, Leave, Hello, Receive, hub
  <1>3. ASSUME NEW r \in Replica, ReplicaStep(r) PROVE g.by = Nowhere \/ \E f \in flights : SameSave(g, f)
    <2>1. CASE Flush(r)
      <3>1. PICK h : h = Flight(r, copy[r].pending, "copy", Nowhere, 0)
        OBVIOUS
      <3>2. h.by = Nowhere /\ flights' = flights \cup {h}
        BY <2>1, <3>1 DEF Flush, Flight
      <3> QED
        BY <1>a, <3>2
    <2>2. CASE DropAll(r) \/ DeleteDrops(r)
      <3>1. flights' = Orphaned(r) \cup Released(r)
        BY <2>2 DEF DropAll, DeleteDrops
      <3>2. \A h \in Released(r) : h.by = Nowhere
        BY ReleasedMeans
      <3> QED
        BY <1>1, <3>1, <3>2
    <2>3. CASE Forget(r)
      BY <1>1, <2>3 DEF Forget, Discarded
    <2>4. CASE ~Flush(r) /\ ~DropAll(r) /\ ~DeleteDrops(r) /\ ~Forget(r)
      <3>1. flights' \subseteq flights
        BY <1>3, <2>4 DEF ReplicaStep, Open, Load, LoadFails, Relay, CatchUp, Compact, Crash, Begin, hub
      <3> QED
        BY <1>a, <3>1
    <2> QED
      BY <2>1, <2>2, <2>3, <2>4
  <1>4. ASSUME StoreStep PROVE g.by = Nowhere \/ \E f \in flights : SameSave(g, f)
    <2>1. ASSUME NEW f \in flights, Append(f) \/ AppendFails(f) PROVE \E h \in flights : SameSave(g, h)
      <3>1. CASE Append(f)
        <4>1. flights' \subseteq flights \/ flights' \subseteq Orphaned(f.at)
          BY <3>1, AppendMeans
        <4> QED
          BY <1>a, <1>1, <4>1
      <3>2. CASE AppendFails(f)
        <4>1. flights' \subseteq flights \/ flights' \subseteq Orphaned(f.at)
          BY <3>2, AppendFailsMeans
        <4> QED
          BY <1>a, <1>1, <4>1
      <3> QED
        BY <2>1, <3>1, <3>2
    <2>2. ASSUME NEW l \in loose, Retry(l) PROVE g.by = Nowhere \/ \E f \in flights : SameSave(g, f)
      <3>1. PICK h : h = Flight(l.at, l.batch, l.of, Nowhere, l.tries)
        OBVIOUS
      <3>2. h.by = Nowhere /\ flights' = flights \cup {h}
        BY <2>2, <3>1 DEF Retry, Flight
      <3> QED
        BY <1>a, <3>2
    <2>3. CASE CompactCommits \/ CompactFails \/ DeleteRow \/ DeleteContent
      <3>1. flights' = flights
        BY <2>3 DEF CompactCommits, CompactFails, DeleteRow, DeleteContent, hub
      <3> QED
        BY <1>a, <3>1
    <2> QED
      BY <1>4, <2>1, <2>2, <2>3 DEF StoreStep
  <1>5. ASSUME NEW k \in Call, Write(k)
        PROVE  \/ \E f \in flights : SameSave(g, f)
               \/ g.by \in Call /\ call[g.by].st = "opening" /\ call' = [call EXCEPT ![g.by].st = "saving"]
    <2>1. PICK h : h = Flight(call[k].at, PendingIn(k), "copy", k, 0)
      OBVIOUS
    <2>2. h.by = k
      BY <2>1 DEF Flight
    <2>3. /\ call[k].st = "opening"
          /\ \/ flights' = flights \/ flights' = Orphaned(call[k].at)
             \/ flights' = flights \cup {h} /\ call' = [call EXCEPT ![k].st = "saving"]
      BY <1>0, <1>5, <2>1, WriteMeans
    <2> QED
      BY <1>a, <1>1, <2>2, <2>3
  <1> QED
    BY <1>a, <1>2, <1>3, <1>4, <1>5 DEF Next

\* A call that began does not become idle; what one step does to it.
LEMMA StepBusy ==
  ASSUME Shaped, Placed, Next, NEW k \in Call, call[k].st # "idle"
  PROVE  call'[k].st # "idle"
  <1>0. call \in [Call -> Calls] /\ Begun
    BY DEF Shaped, Placed
  <1>1. ASSUME NEW c \in Editor, EditorStep(c) PROVE call' = call
    BY <1>1 DEF EditorStep, Join, Type, Leave, Hello, Receive
  <1>2. ASSUME NEW r \in Replica, ReplicaStep(r) PROVE call'[k].st # "idle"
    <2>1. CASE LoadFails(r) \/ Crash(r)
      <3>1. call'[k] = call[k] \/ call'[k] = [call[k] EXCEPT !.st = "failed"]
        BY <2>1 DEF LoadFails, Crash
      <3> QED
        BY <1>0, <3>1 DEF Calls
    <2>2. ASSUME NEW u \in Upload, NEW what \in {"uploaded", "finished"}, Begin(u, what, r)
          PROVE  call'[k] = call[k]
      BY <1>0, <2>2 DEF Begin
    <2>3. CASE \/ Open(r) \/ Load(r) \/ (\E u \in wire[r] : Relay(r, u)) \/ CatchUp(r) \/ Flush(r) \/ Compact(r)
               \/ DropAll(r) \/ DeleteDrops(r) \/ Forget(r)
      <3>1. call' = call
        BY <2>3 DEF Open, Load, Relay, CatchUp, Flush, Compact, DropAll, DeleteDrops, Forget
      <3> QED
        BY <3>1
    <2> QED
      BY <1>2, <2>1, <2>2, <2>3 DEF ReplicaStep
  <1>3. ASSUME StoreStep PROVE call'[k].st # "idle"
    <2>1. ASSUME NEW f \in flights, Append(f) \/ AppendFails(f) PROVE call'[k].st # "idle"
      <3>1. call' = call \/ call' = Returned(f.by)
        BY <2>1, AppendMeans, AppendFailsMeans
      <3> QED
        BY <1>0, <3>1 DEF Returned, Calls
    <2>2. CASE (\E l \in loose : Retry(l)) \/ CompactCommits \/ CompactFails \/ DeleteRow \/ DeleteContent
      <3>1. call' = call
        BY <2>2 DEF Retry, CompactCommits, CompactFails, DeleteRow, DeleteContent
      <3> QED
        BY <3>1
    <2> QED
      BY <1>3, <2>1, <2>2 DEF StoreStep
  <1>4. ASSUME NEW j \in Call, Write(j) PROVE call'[k].st # "idle"
    <2>1. call' \in {Returned(j), [call EXCEPT ![j].st = "saving"]}
      BY <1>0, <1>4, WriteMeans
    <2> QED
      BY <1>0, <2>1 DEF Returned, Calls
  <1> QED
    BY <1>1, <1>2, <1>3, <1>4 DEF Next

\* Every step keeps Authored.
LEMMA StepAuthored == ASSUME Shaped, Placed, Authored, Next PROVE Authored'
  <1> SUFFICES ASSUME NEW g \in flights', g.by # Nowhere PROVE g.by \in Call /\ call'[g.by].st # "idle"
    BY DEF Authored
  <1>1. CASE \E f \in flights : SameSave(g, f)
    BY <1>1, StepBusy DEF Authored, SameSave
  <1>2. CASE g.by \in Call /\ call[g.by].st = "opening"
    BY <1>2, StepBusy
  <1> QED
    BY <1>1, <1>2, StepBy

\* No more uploads, or no deletion of this document.
LEMMA StepApart == ASSUME Shaped, Placed, Authored, Apart, Next PROVE Apart'
  <1>0. budget \in Bounds /\ Begun
    BY DEF Shaped, Placed
  <1>1. ASSUME budget'.uploads = budget.uploads, budget'.deletes = budget.deletes, UNCHANGED <<call, deleting>>
        PROVE  Apart'
    BY <1>1 DEF Apart
  <1>2. ASSUME NEW c \in Editor, EditorStep(c) PROVE Apart'
    <2>1. ASSUME NEW r \in Replica, Join(c, r) PROVE Apart'
      <3>1. budget'.uploads = budget.uploads /\ budget'.deletes = budget.deletes
        BY <1>0, <2>1, Spent DEF Join
      <3> QED
        BY <1>1, <2>1, <3>1 DEF Join
    <2>2. ASSUME NEW e \in Typing, Type(c, e) PROVE Apart'
      <3>1. budget'.uploads = budget.uploads /\ budget'.deletes = budget.deletes
        BY <1>0, <2>2, Spent DEF Type
      <3> QED
        BY <1>1, <2>2, <3>1 DEF Type
    <2>3. ASSUME NEW e \in Edits, Receive(c, e) PROVE Apart'
      <3>1. UNCHANGED budget \/ Fault
        BY <2>3 DEF Receive
      <3>2. budget'.uploads = budget.uploads /\ budget'.deletes = budget.deletes
        BY <1>0, <3>1, Spent DEF Fault
      <3> QED
        BY <1>1, <2>3, <3>2 DEF Receive
    <2>4. CASE Leave(c) \/ Hello(c)
      BY <1>1, <2>4 DEF Leave, Hello
    <2> QED
      BY <1>2, <2>1, <2>2, <2>3, <2>4 DEF EditorStep
  <1>3. ASSUME NEW r \in Replica, ReplicaStep(r) PROVE Apart'
    <2>1. CASE DeleteDrops(r)
      <3>1. budget.deletes # 0 /\ budget'.uploads = budget.uploads /\ call' = call
        BY <1>0, <2>1, Spent DEF DeleteDrops
      <3> QED
        BY <3>1 DEF Apart
    <2>2. CASE LoadFails(r)
      <3>1. budget'.uploads = budget.uploads /\ budget'.deletes = budget.deletes
        BY <1>0, <2>2, Spent DEF LoadFails, Fault
      <3>2. deleting' = deleting /\ \A k \in Call : call[k].st = "idle" => call'[k].st = "idle"
        BY <2>2 DEF LoadFails
      <3> QED
        BY <3>1, <3>2 DEF Apart
    <2>3. CASE Crash(r)
      <3>1. budget'.uploads = budget.uploads /\ budget'.deletes = budget.deletes
        BY <1>0, <2>3, Spent DEF Crash, Fault
      <3>2. \A k \in Call : call[k].st = "idle" => call'[k].st = "idle"
        BY <2>3 DEF Crash
      <3>3. deleting.st = "no" => deleting'.st = "no"
        BY <2>3 DEF Crash
      <3> QED
        BY <3>1, <3>2, <3>3 DEF Apart
    <2>4. ASSUME NEW u \in Upload, NEW what \in {"uploaded", "finished"}, Begin(u, what, r) PROVE Apart'
      <3>1. deleting' = deleting /\ <<u, "uploaded">> \in Call
        BY <2>4 DEF Begin, Call
      <3>2. CASE what = "uploaded"
        <4>1. budget.uploads # 0 /\ budget'.deletes = budget.deletes
          BY <1>0, <2>4, <3>2, Spent DEF Begin
        <4> QED
          BY <3>1, <4>1 DEF Apart
      <3>3. CASE what # "uploaded"
        <4>1. call[<<u, "uploaded">>].st \in {"returned", "failed"} /\ budget' = budget
          BY <2>4, <3>3 DEF Begin
        <4> QED
          BY <3>1, <4>1 DEF Apart
      <3> QED
        BY <3>2, <3>3
    <2>5. CASE Forget(r)
      <3>1. UNCHANGED <<budget, call>> /\ deleting.st = "announced"
        BY <2>5 DEF Forget
      <3> QED
        BY <3>1 DEF Apart
    <2>6. CASE \/ Open(r) \/ Load(r) \/ (\E u \in wire[r] : Relay(r, u)) \/ CatchUp(r) \/ Flush(r) \/ Compact(r)
               \/ DropAll(r)
      <3>1. UNCHANGED <<budget, call, deleting>>
        BY <2>6 DEF Open, Load, Relay, CatchUp, Flush, Compact, DropAll
      <3> QED
        BY <1>1, <3>1
    <2> QED
      BY <1>3, <2>1, <2>2, <2>3, <2>4, <2>5, <2>6 DEF ReplicaStep
  <1>4. CASE StoreStep
    <2>1. ASSUME NEW f \in flights, Append(f) \/ AppendFails(f) PROVE Apart'
      <3>1. /\ f \in Flights /\ call' = (IF f.by = Nowhere THEN call ELSE Returned(f.by)) /\ deleting' = deleting
            /\ budget'.uploads = budget.uploads /\ budget'.deletes = budget.deletes
        BY <2>1, AppendMeans, AppendFailsMeans
      <3>2. CASE budget.deletes = 0 /\ deleting.st = "no"
        BY <3>1, <3>2 DEF Apart
      <3>3. CASE budget.uploads = 0 /\ \A k \in Call : call[k].st = "idle"
        <4>1. f.by = Nowhere
          BY <3>3 DEF Authored
        <4> QED
          BY <3>1, <3>3, <4>1 DEF Apart
      <3> QED
        BY <3>2, <3>3 DEF Apart
    <2>2. CASE CompactFails
      <3>1. budget'.uploads = budget.uploads /\ budget'.deletes = budget.deletes
        BY <1>0, <2>2, Spent DEF CompactFails, Fault
      <3> QED
        BY <1>1, <2>2, <3>1 DEF CompactFails
    <2>3. CASE (\E l \in loose : Retry(l)) \/ CompactCommits
      BY <1>1, <2>3 DEF Retry, CompactCommits
    <2>4. CASE DeleteRow \/ DeleteContent
      <3>1. UNCHANGED <<budget, call>> /\ deleting.st # "no"
        BY <2>4 DEF DeleteRow, DeleteContent
      <3> QED
        BY <3>1 DEF Apart
    <2> QED
      BY <1>4, <2>1, <2>2, <2>3, <2>4 DEF StoreStep
  <1>5. ASSUME NEW k \in Call, Write(k) PROVE Apart'
    <2>1. /\ call[k].st = "opening" /\ deleting' = deleting
          /\ budget'.uploads = budget.uploads /\ budget'.deletes = budget.deletes
      BY <1>0, <1>5, WriteMeans
    <2> QED
      BY <2>1 DEF Apart
  <1> QED
    BY <1>2, <1>3, <1>4, <1>5 DEF Next

\* A fault stays one.
LEMMA StepFailed == ASSUME Next, failed PROVE failed'
  <1>1. ASSUME NEW c \in Editor, EditorStep(c) PROVE failed'
    BY <1>1 DEF EditorStep, Join, Type, Leave, Hello, Receive, Fault
  <1>2. ASSUME NEW r \in Replica, ReplicaStep(r) PROVE failed'
    BY <1>2 DEF ReplicaStep, Open, Load, LoadFails, Relay, CatchUp, Flush, Compact, DropAll, Crash, DeleteDrops,
                Forget, Begin, Fault
  <1>3. ASSUME StoreStep PROVE failed'
    BY <1>3 DEF StoreStep, Append, AppendFails, Retry, CompactCommits, CompactFails, DeleteRow, DeleteContent, Fault
  <1>4. ASSUME NEW k \in Call, Write(k) PROVE failed'
    BY <1>4 DEF Write, Fault
  <1> QED
    BY <1>1, <1>2, <1>3, <1>4 DEF Next

\* What was deleted stays without unsaved edits and without browsers that edit.
LEMMA StepTold == ASSUME Shaped, Placed, Unlisted, Apart, Told, Next PROVE Told'
  <1> SUFFICES ASSUME ~failed' PROVE /\ loose' = {}
                                     /\ \A r \in deleting'.told : copy'[r].pending = {}
                                     /\ \A r \in deleting'.told : \A c \in Editor :
                                            at'[c] = r => phase'[c] = "over" /\ up'[c] = {}
    BY DEF Told
  <1>0. /\ loose = {} /\ deleting.told \subseteq Replica
        /\ \A r \in deleting.told : copy[r].pending = {}
        /\ \A r \in deleting.told : \A c \in Editor : at[c] = r => phase[c] = "over" /\ up[c] = {}
        /\ listed => deleting.told = {}
        /\ Away /\ Begun /\ copy \in [Replica -> Copies] /\ Nowhere \notin Replica
    BY StepFailed, DocAssumption DEF Told, Shaped, Unlisted, Placed
  <1>a. ASSUME NEW r \in Replica, NEW st, NEW doc, NEW peers, NEW pending, CopyMoves(r, st, doc, peers, pending),
               r \in deleting.told => pending = {}, deleting' = deleting
        PROVE  \A q \in deleting'.told : copy'[q].pending = {}
    BY <1>0, <1>a DEF CopyMoves
  <1>1. ASSUME NEW c \in Editor, EditorStep(c)
        PROVE  /\ loose' = {} /\ \A r \in deleting'.told : copy'[r].pending = {}
               /\ \A r \in deleting'.told : \A d \in Editor : at'[d] = r => phase'[d] = "over" /\ up'[d] = {}
    <2>1. ASSUME NEW r \in Replica, Join(c, r) PROVE loose' = {} /\ deleting'.told = {}
      BY <1>0, <2>1 DEF Join
    <2>2. ASSUME NEW e \in Typing, Type(c, e)
          PROVE  /\ loose' = {} /\ \A r \in deleting'.told : copy'[r].pending = {}
                 /\ \A r \in deleting'.told : \A d \in Editor : at'[d] = r => phase'[d] = "over" /\ up'[d] = {}
      <3>1. UNCHANGED <<loose, deleting, copy, at, phase>>
        BY <2>2 DEF Type, hub
      <3>2. phase[c] # "over" /\ \A d \in Editor : d # c => up'[d] = up[d]
        BY <2>2 DEF Type, Shaped
      <3> QED
        BY <1>0, <3>1, <3>2
    <2>3. CASE Leave(c)
      <3>1. PICK r \in Replica : r = at[c]
        BY <2>3, LeaveCopy
      <3>2. CopyMoves(r, copy[r].st, copy[r].doc, copy[r].peers \ {c}, copy[r].pending)
        BY <2>3, <3>1, LeaveCopy
      <3>3. UNCHANGED <<loose, deleting>> /\ at'[c] = Nowhere
        BY <2>3 DEF Leave, Shaped
      <3>4. \A d \in Editor : d # c => at'[d] = at[d] /\ phase'[d] = phase[d] /\ up'[d] = up[d]
        BY <2>3 DEF Leave, Shaped
      <3>5. \A q \in deleting'.told : copy'[q].pending = {}
        BY <1>0, <1>a, <3>2, <3>3
      <3> QED
        BY <1>0, <3>3, <3>4, <3>5
    <2>4. CASE Hello(c)
      <3>1. PICK r \in Replica : r = at[c]
        BY <1>0, <2>4, HelloCopy
      <3>2. CopyMoves(r, "open", copy[r].doc, copy[r].peers \cup {c}, copy[r].pending)
        BY <1>0, <2>4, <3>1, HelloCopy
      <3>3. UNCHANGED <<loose, deleting, at>> /\ phase[c] = "in"
        BY <2>4 DEF Hello
      <3>4. \A d \in Editor : d # c => phase'[d] = phase[d] /\ up'[d] = up[d]
        BY <2>4 DEF Hello, Shaped
      <3>5. \A q \in deleting'.told : copy'[q].pending = {}
        BY <1>0, <1>a, <3>2, <3>3
      <3>6. at[c] \notin deleting.told
        BY <1>0, <3>3
      <3> QED
        BY <1>0, <3>3, <3>4, <3>5, <3>6
    <2>5. ASSUME NEW e \in Edits, Receive(c, e)
          PROVE  /\ loose' = {} /\ \A r \in deleting'.told : copy'[r].pending = {}
                 /\ \A r \in deleting'.told : \A d \in Editor : at'[d] = r => phase'[d] = "over" /\ up'[d] = {}
      <3>1. PICK r \in Replica : r = at[c]
        BY <1>0, <2>5, ReceiveCopy
      <3>2. PICK doc : doc = copy[r].doc \cup {e}
        OBVIOUS
      <3>3. PICK pending : pending = copy[r].pending \cup ({e} \ copy[r].doc)
        OBVIOUS
      <3>4. CopyMoves(r, "open", doc, copy[r].peers, pending)
        BY <1>0, <2>5, <3>1, <3>2, <3>3, ReceiveCopy
      <3>5. UNCHANGED <<loose, deleting, at, phase>> /\ up[c] # {}
        BY <2>5 DEF Receive
      <3>6. \A d \in Editor : d # c => up'[d] = up[d]
        BY <2>5 DEF Receive, Shaped
      <3>7. r \notin deleting.told
        BY <1>0, <3>1, <3>5
      <3>8. \A q \in deleting'.told : copy'[q].pending = {}
        BY <1>a, <3>4, <3>5, <3>7
      <3> QED
        BY <1>0, <3>1, <3>5, <3>6, <3>7, <3>8
    <2> QED
      BY <1>1, <2>1, <2>2, <2>3, <2>4, <2>5 DEF EditorStep
  <1>2. ASSUME NEW r \in Replica, ReplicaStep(r)
        PROVE  /\ loose' = {} /\ \A q \in deleting'.told : copy'[q].pending = {}
               /\ \A q \in deleting'.told : \A d \in Editor : at'[d] = q => phase'[d] = "over" /\ up'[d] = {}
    <2>1. CASE Open(r) \/ \E u \in Upload, what \in {"uploaded", "finished"} : Begin(u, what, r)
      <3>1. copy' = [copy EXCEPT ![r] = Opened(r)] /\ UNCHANGED <<loose, deleting, at, phase, up>>
        BY <2>1 DEF Open, Begin, browsers
      <3>2. PICK pending : pending = IF copy[r].st = "none" THEN {} ELSE copy[r].pending
        OBVIOUS
      <3>3. CopyMoves(r, IF copy[r].st = "none" THEN "loading" ELSE copy[r].st,
                      IF copy[r].st = "none" THEN {} ELSE copy[r].doc,
                      IF copy[r].st = "none" THEN {} ELSE copy[r].peers, pending)
        BY <1>0, <3>1, <3>2, OpenedCopy
      <3>4. r \in deleting.told => pending = {}
        BY <1>0, <3>2
      <3>5. \A q \in deleting'.told : copy'[q].pending = {}
        BY <1>a, <3>1, <3>3, <3>4
      <3> QED
        BY <1>0, <3>1, <3>5
    <2>2. CASE Load(r) \/ (\E u \in wire[r] : Relay(r, u)) \/ CatchUp(r) \/ Flush(r)
      <3>1. UNCHANGED <<loose, deleting, at, phase, up>>
        BY <2>2 DEF Load, Relay, CatchUp, Flush, browsers
      <3>2. \E st, doc, peers, pending : /\ CopyMoves(r, st, doc, peers, pending)
                                         /\ pending \subseteq copy[r].pending
        <4>1. CASE Load(r)
          BY <4>1, LoadCopy
        <4>2. CASE \E u \in wire[r] : Relay(r, u)
          BY <4>2, RelayCopy
        <4>3. CASE CatchUp(r)
          BY <4>3, CatchUpCopy
        <4>4. CASE Flush(r)
          BY <4>4, FlushCopy
        <4> QED
          BY <2>2, <4>1, <4>2, <4>3, <4>4
      <3>3. \A q \in deleting'.told : copy'[q].pending = {}
        BY <1>0, <1>a, <3>1, <3>2
      <3> QED
        BY <1>0, <3>1, <3>3
    <2>3. CASE Compact(r)
      <3>1. UNCHANGED <<loose, deleting, at, phase, up, copy>>
        BY <2>3 DEF Compact, hub, browsers
      <3> QED
        BY <1>0, <3>1
    <2>4. CASE DropAll(r)
      <3>1. UNCHANGED <<loose, deleting, at, phase, up>> /\ copy' = [copy EXCEPT ![r] = NoCopy]
        BY <2>4 DEF DropAll, browsers
      <3>2. CopyMoves(r, "none", {}, {}, {})
        BY <1>0, <3>1, CopyGoes
      <3>3. \A q \in deleting'.told : copy'[q].pending = {}
        BY <1>a, <3>1, <3>2
      <3> QED
        BY <1>0, <3>1, <3>3
    <2>5. CASE DeleteDrops(r)
      <3>1. deleting'.told = {} /\ loose' = loose
        BY <2>5 DEF DeleteDrops
      <3> QED
        BY <1>0, <3>1
    <2>6. CASE Forget(r)
      <3>1. /\ copy' = [copy EXCEPT ![r] = NoCopy] /\ UNCHANGED <<loose, at>>
            /\ deleting'.told = deleting.told \cup {r}
            /\ \A d \in Editor : phase'[d] = (IF at[d] = r THEN "over" ELSE phase[d])
            /\ \A d \in Editor : up'[d] = (IF at[d] = r THEN {} ELSE up[d])
        BY <2>6 DEF Forget, Shaped
      <3>2. CopyMoves(r, "none", {}, {}, {})
        BY <1>0, <3>1, CopyGoes
      <3>3. \A q \in deleting'.told : copy'[q].pending = {}
        BY <1>0, <3>1, <3>2 DEF CopyMoves
      <3> QED
        BY <1>0, <3>1, <3>3
    <2>7. CASE LoadFails(r) \/ Crash(r)
      BY <2>7 DEF LoadFails, Crash, Fault
    <2> QED
      BY <1>2, <2>1, <2>2, <2>3, <2>4, <2>5, <2>6, <2>7 DEF ReplicaStep
  <1>3. ASSUME StoreStep
        PROVE  /\ loose' = {} /\ \A q \in deleting'.told : copy'[q].pending = {}
               /\ \A q \in deleting'.told : \A d \in Editor : at'[d] = q => phase'[d] = "over" /\ up'[d] = {}
    <2>1. ASSUME NEW f \in flights, Append(f)
          PROVE  /\ loose' = {} /\ \A q \in deleting'.told : copy'[q].pending = {}
                 /\ \A q \in deleting'.told : \A d \in Editor : at'[d] = q => phase'[d] = "over" /\ up'[d] = {}
      <3>1. PICK r \in Replica : r = f.at
        BY <2>1, AppendMeans
      <3>2. UNCHANGED <<loose, deleting, at, phase, up>>
        BY <2>1, AppendMeans DEF browsers
      <3>3. \/ CopyMoves(r, "none", {}, {}, {})
            \/ CopyMoves(r, copy[r].st, copy[r].doc, copy[r].peers, copy[r].pending)
        BY <2>1, <3>1, AppendMeans
      <3>4. \A q \in deleting'.told : copy'[q].pending = {}
        BY <1>0, <1>a, <3>2, <3>3
      <3> QED
        BY <1>0, <3>2, <3>4
    <2>2. CASE CompactCommits \/ DeleteRow \/ DeleteContent
      <3>1. UNCHANGED <<loose, copy, at, phase, up>> /\ deleting'.told = deleting.told
        BY <2>2 DEF CompactCommits, DeleteRow, DeleteContent, hub, browsers, Shaped
      <3> QED
        BY <1>0, <3>1
    <2>3. CASE (\E f \in flights : AppendFails(f)) \/ CompactFails
      BY <2>3 DEF AppendFails, CompactFails, Fault
    <2>4. CASE \E l \in loose : Retry(l)
      BY <1>0, <2>4
    <2> QED
      BY <1>3, <2>1, <2>2, <2>3, <2>4 DEF StoreStep
  <1>4. ASSUME NEW k \in Call, Write(k) PROVE loose' = {} /\ deleting'.told = {}
    <2>1. UNCHANGED <<loose, deleting>> /\ call[k].st = "opening"
      BY <1>4 DEF Write
    <2>2. deleting.st = "no"
      BY <2>1 DEF Apart
    <2> QED
      BY <1>0, <2>1, <2>2 DEF Unlisted
  <1> QED
    BY <1>1, <1>2, <1>3, <1>4 DEF Next

-----------------------------------------------------------------------------
(* Storage.                                                                *)

\* The types, the saves and the deletion together: what Next keeps.
StorageInv == Shaped /\ Placed /\ Saving /\ Authored /\ Deleting

\* Init satisfies StorageInv.
LEMMA InitStorage == Init => StorageInv
  <1>1. Init => Authored
    BY DEF Init, Authored
  <1> QED
    BY <1>1, InitShaped, InitDeleting DEF StorageInv

\* Every step keeps it.
LEMMA StepStorage == StorageInv /\ [Next]_vars => StorageInv'
  <1>1. ASSUME StorageInv, Next PROVE StorageInv'
    BY <1>1, StepShaped, StepPlaced, StepSaving, StepAuthored, StepUnlisted, StepApart, StepTold
    DEF StorageInv, Deleting
  <1>2. ASSUME StorageInv, UNCHANGED vars PROVE StorageInv'
    <2>1. Shaped' /\ Placed'
      BY <1>2 DEF StorageInv, Shaped, Placed, Away, Begun, vars, store, hub, browsers
    <2>2. Saving' /\ Authored'
      BY <1>2 DEF StorageInv, Saving, CopiesHold, SeqsApart, Authored, vars, store, hub
    <2>3. Deleting'
      BY <1>2 DEF StorageInv, Deleting, Unlisted, Apart, Told, vars, store, hub, browsers
    <2> QED
      BY <2>1, <2>2, <2>3 DEF StorageInv
  <1> QED
    BY <1>1, <1>2

\* It says more than the type invariant does.
LEMMA StorageTyped == StorageInv => TypeOK
  <1> SUFFICES ASSUME StorageInv PROVE TypeOK
    OBVIOUS
  <1>1. Shaped /\ CopiesHold /\ SeqsApart /\ nextSeq \in Nat
    BY DEF StorageInv, Saving, Shaped
  <1>2. \A row \in rows : row.seq \in 1..(nextSeq - 1) /\ row.data \in SUBSET Edits /\ row.data # {}
    <2> SUFFICES ASSUME NEW row \in rows
                 PROVE  row.seq \in 1..(nextSeq - 1) /\ row.data \in SUBSET Edits /\ row.data # {}
      OBVIOUS
    <2>1. row.seq \in Nat /\ row.data \in SUBSET Edits
      BY <1>1 DEF Shaped, RowSet
    <2>2. row.seq < nextSeq /\ row.data # {} /\ row.seq # 0
      BY <1>1 DEF SeqsApart
    <2> QED
      BY <1>1, <2>1, <2>2
  <1>3. \A f \in flights : f.batch # {} /\ f.seq \in 1..(nextSeq - 1)
    <2> SUFFICES ASSUME NEW f \in flights PROVE f.batch # {} /\ f.seq \in 1..(nextSeq - 1)
      OBVIOUS
    <2>1. f.seq \in Nat
      BY <1>1 DEF Shaped, Flights
    <2>2. f.seq < nextSeq /\ f.batch # {} /\ f.seq # 0
      BY <1>1 DEF SeqsApart
    <2> QED
      BY <1>1, <2>1, <2>2
  <1>4. \A f, g \in flights : f.seq = g.seq => f = g
    BY <1>1 DEF SeqsApart
  <1>5. /\ compacting.by \in Replica \cup {Nowhere} /\ loose \subseteq Batch
        /\ \A k \in Call : call[k].st \in {"idle", "opening", "saving", "returned", "failed"}
    BY <1>1 DEF Shaped, Batch, Batches, Calls
  <1>6. copy \in [Replica -> [st : {"none", "loading", "open"}, doc : SUBSET Edits,
                              peers : SUBSET Editor, pending : SUBSET Edits,
                              catchUp : BOOLEAN, behind : SUBSET Edits]]
    BY <1>1 DEF Shaped, Copies
  <1>7. \A r \in Replica : copy[r].pending \subseteq copy[r].doc
    BY <1>1 DEF CopiesHold
  <1>8. /\ snapshot \subseteq Edits /\ listed \in BOOLEAN /\ due \subseteq Replica /\ leaving \subseteq Replica
        /\ at \in [Editor -> Replica \cup {Nowhere}]
        /\ phase \in [Editor -> {"off", "in", "unanswered", "synced", "over"}]
        /\ mine \in [Editor -> SUBSET Edits] /\ up \in [Editor -> SUBSET Edits] /\ made \subseteq Edits
    BY <1>1 DEF Shaped
  <1> QED
    BY <1>2, <1>3, <1>4, <1>5, <1>6, <1>7, <1>8 DEF TypeOK

\* More rows and the same snapshot store more.
LEMMA StoredGrows ==
  ASSUME rows \subseteq rows', snapshot' = snapshot
  PROVE  Stored \subseteq Stored'
  BY DEF Stored

\* Only the deletion takes from what is stored: a compaction keeps, in the
\* snapshot, the rows that it takes.
LEMMA StepStored == ASSUME StorageInv, Next, listed, listed' PROVE Stored \subseteq Stored'
  <1>1. ASSUME NEW c \in Editor, EditorStep(c) PROVE Stored \subseteq Stored'
    <2>1. UNCHANGED <<rows, snapshot>>
      BY <1>1 DEF EditorStep, Join, Type, Leave, Hello, Receive, store
    <2> QED
      BY <2>1, StoredGrows
  <1>2. ASSUME NEW r \in Replica, ReplicaStep(r) PROVE Stored \subseteq Stored'
    <2>1. rows \subseteq rows' /\ snapshot' = snapshot
      <3>1. CASE Crash(r)
        BY <3>1 DEF Crash
      <3>2. CASE ~Crash(r)
        BY <1>2, <3>2 DEF ReplicaStep, Open, Load, LoadFails, Relay, CatchUp, Flush, Compact, DropAll,
                          DeleteDrops, Forget, Begin, store
      <3> QED
        BY <3>1, <3>2
    <2> QED
      BY <2>1, StoredGrows
  <1>3. ASSUME StoreStep PROVE Stored \subseteq Stored'
    <2>1. CASE CompactCommits
      <3>1. /\ snapshot' = snapshot \cup UNION {row.data : row \in compacting.rows}
            /\ rows' = {row \in rows : row \notin compacting.rows}
        BY <2>1 DEF CompactCommits, Merged
      <3>2. ASSUME NEW row \in rows PROVE row.data \subseteq Stored'
        <4>1. CASE row \in compacting.rows
          BY <3>1, <4>1 DEF Stored
        <4>2. CASE row \notin compacting.rows
          <5>1. row \in rows'
            BY <3>1, <4>2
          <5> QED
            BY <5>1 DEF Stored
        <4> QED
          BY <4>1, <4>2
      <3>3. snapshot \subseteq Stored'
        BY <3>1 DEF Stored
      <3> QED
        BY <3>2, <3>3 DEF Stored
    <2>2. CASE DeleteContent
      BY <2>2 DEF DeleteContent, StorageInv, Deleting, Unlisted
    <2>3. CASE ~CompactCommits /\ ~DeleteContent
      <3>1. rows \subseteq rows' /\ snapshot' = snapshot
        BY <1>3, <2>3 DEF StoreStep, Append, AppendFails, Retry, CompactFails, DeleteRow, store
      <3> QED
        BY <3>1, StoredGrows
    <2> QED
      BY <2>1, <2>2, <2>3
  <1>4. ASSUME NEW k \in Call, Write(k) PROVE Stored \subseteq Stored'
    BY <1>4, StoredGrows DEF Write
  <1> QED
    BY <1>1, <1>2, <1>3, <1>4 DEF Next

\* A save that starts is of a replica that did not hear of a deletion.
LEMMA StepNotSaved ==
  ASSUME StorageInv, Next, NEW g \in flights', g.seq = nextSeq
  PROVE  failed \/ g.at \notin deleting.told
  <1> SUFFICES ASSUME ~failed PROVE g.at \notin deleting.told
    OBVIOUS
  <1>0. /\ Shaped /\ Placed /\ SeqsApart /\ Apart /\ Unlisted /\ nextSeq \in Nat /\ flights \subseteq Flights
        /\ loose = {} /\ \A r \in deleting.told : copy[r].pending = {}
    BY DEF StorageInv, Saving, Deleting, Told, Shaped
  <1>1. g \notin flights /\ \A r : g \notin Orphaned(r)
    <2>1. \A f \in flights : f.seq \in Nat /\ f.seq < nextSeq
      BY <1>0 DEF SeqsApart, Flights
    <2>2. \A r : \A f \in Orphaned(r) : f.seq \in Nat /\ f.seq < nextSeq
      BY <1>0, OrphanedApart, OrphanedMeans DEF Flights
    <2> QED
      BY <1>0, <2>1, <2>2
  <1>2. ASSUME NEW c \in Editor, EditorStep(c) PROVE FALSE
    BY <1>1, <1>2 DEF EditorStep, Join, Type, Leave, Hello, Receive, hub
  <1>3. ASSUME NEW r \in Replica, ReplicaStep(r) PROVE g.at \notin deleting.told
    <2>1. CASE Flush(r)
      <3>1. PICK h : h = Flight(r, copy[r].pending, "copy", Nowhere, 0)
        OBVIOUS
      <3>2. h.at = r /\ flights' = flights \cup {h} /\ copy[r].pending # {}
        BY <2>1, <3>1 DEF Flush, Flight
      <3> QED
        BY <1>0, <1>1, <3>2
    <2>2. CASE DropAll(r) \/ DeleteDrops(r)
      <3>1. flights' = Orphaned(r) \cup Released(r)
        BY <2>2 DEF DropAll, DeleteDrops
      <3>2. g \in Released(r)
        BY <1>1, <3>1
      <3>3. g.at = r /\ copy[r].pending # {}
        BY <1>0, <3>2, ReleasedMeans
      <3> QED
        BY <1>0, <3>3
    <2>3. CASE Forget(r)
      BY <1>1, <2>3 DEF Forget, Discarded
    <2>4. CASE ~Flush(r) /\ ~DropAll(r) /\ ~DeleteDrops(r) /\ ~Forget(r)
      <3>1. flights' \subseteq flights
        BY <1>3, <2>4 DEF ReplicaStep, Open, Load, LoadFails, Relay, CatchUp, Compact, Crash, Begin, hub
      <3> QED
        BY <1>1, <3>1
    <2> QED
      BY <2>1, <2>2, <2>3, <2>4
  <1>4. ASSUME StoreStep PROVE FALSE
    <2>1. ASSUME NEW f \in flights, Append(f) PROVE FALSE
      <3>1. flights' \subseteq flights \/ flights' \subseteq Orphaned(f.at)
        BY <1>0, <2>1, AppendMeans
      <3> QED
        BY <1>1, <3>1
    <2>2. ASSUME NEW f \in flights, AppendFails(f) PROVE FALSE
      <3>1. flights' \subseteq flights \/ flights' \subseteq Orphaned(f.at)
        BY <1>0, <2>2, AppendFailsMeans
      <3> QED
        BY <1>1, <3>1
    <2>3. CASE CompactCommits \/ CompactFails \/ DeleteRow \/ DeleteContent
      BY <1>1, <2>3 DEF CompactCommits, CompactFails, DeleteRow, DeleteContent, hub
    <2>4. CASE \E l \in loose : Retry(l)
      BY <1>0, <2>4
    <2> QED
      BY <1>4, <2>1, <2>2, <2>3, <2>4 DEF StoreStep
  <1>5. ASSUME NEW k \in Call, Write(k) PROVE deleting.told = {}
    <2>1. deleting.st = "no"
      BY <1>0, <1>5 DEF Write, Apart
    <2> QED
      BY <1>0, <2>1 DEF Unlisted
  <1> QED
    BY <1>2, <1>3, <1>4, <1>5 DEF Next

\* What every state reached satisfies about copies, saves and the deletion.
THEOREM StorageCorrect == Spec => []StorageInv
  BY InitStorage, StepStorage, PTL DEF Spec

\* Every variable has its type; what is stored stays stored until the document
\* is deleted, however compactions, appends and crashes interleave; and a
\* replica that heard of the deletion saves nothing of it again.
THEOREM StorageIsKept == Spec => StorageKept
  <1>1. StorageInv /\ [Next]_vars => [listed /\ listed' => Stored \subseteq Stored']_vars
    BY StepStored
  <1>2. StorageInv /\ [Next]_vars =>
            [\A f \in flights' : f.seq = nextSeq => failed \/ f.at \notin deleting.told]_vars
    BY StepNotSaved
  <1>3. Spec => []TypeOK
    BY StorageCorrect, StorageTyped, PTL
  <1>4. Spec => StoredStays
    BY <1>1, StorageCorrect, PTL DEF Spec, StoredStays
  <1>5. Spec => DeletedNotSaved
    BY <1>2, StorageCorrect, PTL DEF Spec, DeletedNotSaved
  <1> QED
    BY <1>3, <1>4, <1>5 DEF StorageKept

-----------------------------------------------------------------------------
(* Where an edit is.                                                       *)

Pending(e) == \E r \in Replica : e \in copy[r].pending
Flying(e) == \E f \in flights : e \in f.batch
Loose(e) == \E l \in loose : e \in l.batch
Seen(e) == \E c \in Editor : e \in mine[c]

\* It is stored or on its way to storage; or a browser has it.
Safe(e) == e \in Stored \/ Pending(e) \/ Flying(e) \/ Loose(e)
Held(e) == Safe(e) \/ Seen(e)

\* What no crash and no given-up save took is held.
Holding == listed => \A e \in made : e \in lost \/ Held(e)

\* What is held is where EditsHeld says.
LEMMA HoldingMeans == Holding => EditsHeld
  <1> SUFFICES ASSUME Holding, listed, NEW e \in made, e \notin lost
               PROVE  e \in Stored \cup Unsaved \cup UNION {mine[c] : c \in Editor}
    BY DEF EditsHeld
  <1>1. Held(e)
    BY DEF Holding
  <1>2. Pending(e) \/ Flying(e) \/ Loose(e) => e \in Unsaved
    BY DEF Unsaved, Pending, Flying, Loose
  <1>3. Seen(e) => e \in UNION {mine[c] : c \in Editor}
    BY DEF Seen
  <1> QED
    BY <1>1, <1>2, <1>3 DEF Held, Safe

\* A browser forgets no edit.
LEMMA StepSeen == ASSUME Shaped, Next, NEW e, Seen(e) PROVE Seen(e)'
  <1> SUFFICES ASSUME NEW d \in Editor, e \in mine[d] PROVE e \in mine'[d]
    BY DEF Seen
  <1>0. mine \in [Editor -> SUBSET Edits]
    BY DEF Shaped
  <1>1. ASSUME NEW c \in Editor, EditorStep(c) PROVE e \in mine'[d]
    <2>1. ASSUME NEW f \in Typing, Type(c, f) PROVE e \in mine'[d]
      BY <1>0, <2>1 DEF Type
    <2>2. CASE Hello(c)
      BY <1>0, <2>2 DEF Hello
    <2>3. CASE (\E r \in Replica : Join(c, r)) \/ Leave(c) \/ \E f \in Edits : Receive(c, f)
      BY <2>3 DEF Join, Leave, Receive
    <2> QED
      BY <1>1, <2>1, <2>2, <2>3 DEF EditorStep
  <1>2. ASSUME NEW r \in Replica, ReplicaStep(r) PROVE e \in mine'[d]
    <2>1. ASSUME NEW u \in wire[r], Relay(r, u) PROVE e \in mine'[d]
      BY <1>0, <2>1 DEF Relay
    <2>2. CASE CatchUp(r)
      BY <1>0, <2>2 DEF CatchUp
    <2>3. CASE \/ Open(r) \/ Load(r) \/ LoadFails(r) \/ Flush(r) \/ Compact(r) \/ DropAll(r) \/ Crash(r)
               \/ DeleteDrops(r) \/ Forget(r)
               \/ \E u \in Upload, what \in {"uploaded", "finished"} : Begin(u, what, r)
      BY <2>3 DEF Open, Load, LoadFails, Flush, Compact, DropAll, Crash, DeleteDrops, Forget, Begin, browsers
    <2> QED
      BY <1>2, <2>1, <2>2, <2>3 DEF ReplicaStep
  <1>3. ASSUME StoreStep PROVE e \in mine'[d]
    BY <1>3 DEF StoreStep, Append, AppendFails, Retry, CompactCommits, CompactFails, DeleteRow, DeleteContent,
                browsers
  <1>4. ASSUME NEW k \in Call, Write(k) PROVE e \in mine'[d]
    BY <1>4 DEF Write, browsers
  <1> QED
    BY <1>1, <1>2, <1>3, <1>4 DEF Next

\* What a copy has unsaved, whose pending edits only grow, stays pending.
LEMMA PendingGrows ==
  ASSUME NEW e, NEW r \in Replica, NEW st, NEW doc, NEW peers, NEW pending, CopyMoves(r, st, doc, peers, pending),
         copy[r].pending \subseteq pending, Pending(e)
  PROVE  Pending(e)'
  <1>1. PICK q \in Replica : e \in copy[q].pending
    BY DEF Pending
  <1>2. e \in copy'[q].pending
    BY <1>1 DEF CopyMoves
  <1> QED
    BY <1>2 DEF Pending

\* Saves that go on as a copy is released carry what they carried.
LEMMA OrphanedCarry ==
  ASSUME Shaped, NEW r, NEW e, Flying(e)
  PROVE  \E g \in Orphaned(r) : e \in g.batch
  <1>1. PICK f \in flights : e \in f.batch
    BY DEF Flying
  <1>2. Afterwards(f, r) \in Orphaned(r) /\ SameSave(Afterwards(f, r), f)
    BY <1>1, OrphanedMeans, AfterwardsMeans DEF Shaped
  <1>3. e \in Afterwards(f, r).batch
    BY <1>1, <1>2 DEF SameSave
  <1> QED
    BY <1>2, <1>3

\* A step of one copy: pending edits elsewhere stay, and those of the copy
\* stay or are in a save that starts.
LEMMA PendingMoves ==
  ASSUME NEW e, NEW r \in Replica, NEW st, NEW doc, NEW peers, NEW pending, CopyMoves(r, st, doc, peers, pending),
         e \in copy[r].pending => e \in pending \/ Flying(e)', Pending(e)
  PROVE  Pending(e)' \/ Flying(e)'
  <1>1. PICK q \in Replica : e \in copy[q].pending
    BY DEF Pending
  <1>2. CASE q = r
    <2>1. e \in pending => e \in copy'[r].pending
      BY DEF CopyMoves
    <2> QED
      BY <1>1, <1>2, <2>1 DEF Pending
  <1>3. CASE q # r
    <2>1. e \in copy'[q].pending
      BY <1>1, <1>3 DEF CopyMoves
    <2> QED
      BY <2>1 DEF Pending
  <1> QED
    BY <1>2, <1>3

\* Editors and copies: what is on its way to storage stays on its way.
LEMMA EditorSafe ==
  ASSUME StorageInv, NEW c \in Editor, EditorStep(c), NEW e, Pending(e) \/ Flying(e) \/ Loose(e)
  PROVE  Safe(e)'
  <1>0. Shaped /\ Away /\ copy \in [Replica -> Copies]
    BY DEF StorageInv, Placed, Shaped
  <1>1. UNCHANGED <<flights, loose>>
    BY DEF EditorStep, Join, Type, Leave, Hello, Receive, hub
  <1>2. Flying(e) \/ Loose(e) => Safe(e)'
    BY <1>1 DEF Flying, Loose, Safe
  <1>3. ASSUME Pending(e) PROVE Pending(e)'
    <2>1. ASSUME NEW r \in Replica, Join(c, r) PROVE Pending(e)'
      BY <1>0, <1>3, <2>1, JoinCopy, PendingGrows
    <2>2. ASSUME NEW f \in Typing, Type(c, f) PROVE Pending(e)'
      BY <1>3, <2>2 DEF Type, hub, Pending
    <2>3. CASE Leave(c)
      BY <1>0, <1>3, <2>3, LeaveCopy, PendingGrows
    <2>4. CASE Hello(c)
      BY <1>0, <1>3, <2>4, HelloCopy, PendingGrows
    <2>5. ASSUME NEW f \in Edits, Receive(c, f) PROVE Pending(e)'
      BY <1>0, <1>3, <2>5, ReceiveCopy, PendingGrows
    <2> QED
      BY <2>1, <2>2, <2>3, <2>4, <2>5 DEF EditorStep
  <1> QED
    BY <1>2, <1>3 DEF Safe

\* So do the steps of a replica, but for a crash.
LEMMA ReplicaSafe ==
  ASSUME StorageInv, listed, NEW r \in Replica, ReplicaStep(r), NEW e, Pending(e) \/ Flying(e) \/ Loose(e),
         e \notin lost'
  PROVE  Safe(e)'
  <1>0. Shaped /\ CopiesHold /\ copy \in [Replica -> Copies] /\ Unlisted
    BY DEF StorageInv, Saving, Deleting, Shaped
  <1>1. CASE Crash(r)
    <2>1. /\ flights' = {f \in flights : f.at # r} /\ loose' = {l \in loose : l.at # r}
          /\ copy' = [copy EXCEPT ![r] = NoCopy]
          /\ lost' = lost \cup copy[r].pending \cup UNION {f.batch : f \in {g \in flights \cup loose : g.at = r}}
      BY <1>1 DEF Crash
    <2>2. ASSUME NEW f \in flights, e \in f.batch PROVE Safe(e)'
      BY <2>1, <2>2 DEF Flying, Safe
    <2>3. ASSUME NEW l \in loose, e \in l.batch PROVE Safe(e)'
      BY <2>1, <2>3 DEF Loose, Safe
    <2>4. ASSUME NEW q \in Replica, e \in copy[q].pending PROVE Safe(e)'
      <3>1. q # r
        BY <2>1, <2>4
      <3>2. copy'[q] = copy[q]
        BY <1>0, <2>1, <3>1
      <3> QED
        BY <2>4, <3>2 DEF Pending, Safe
    <2> QED
      BY <2>2, <2>3, <2>4 DEF Pending, Flying, Loose
  <1>2. CASE Flush(r)
    <2>1. PICK g : g = Flight(r, copy[r].pending, "copy", Nowhere, 0)
      OBVIOUS
    <2>2. flights' = flights \cup {g} /\ g.batch = copy[r].pending /\ loose' = loose
      BY <1>2, <2>1 DEF Flush, Flight
    <2>3. CopyMoves(r, "open", copy[r].doc, copy[r].peers, {})
      BY <1>0, <1>2, FlushCopy
    <2>4. (Flying(e) => Flying(e)') /\ (Loose(e) => Loose(e)')
      BY <2>2 DEF Flying, Loose
    <2>5. e \in copy[r].pending => Flying(e)'
      BY <2>2 DEF Flying
    <2>6. Pending(e) => Pending(e)' \/ Flying(e)'
      BY <2>3, <2>5, PendingMoves
    <2> QED
      BY <2>4, <2>6 DEF Safe
  <1>3. CASE DropAll(r) \/ DeleteDrops(r)
    <2>1. /\ flights' = Orphaned(r) \cup Released(r) /\ loose' = loose
          /\ copy' = [copy EXCEPT ![r] = NoCopy]
      BY <1>3 DEF DropAll, DeleteDrops
    <2>2. CopyMoves(r, "none", {}, {}, {})
      BY <1>0, <2>1, CopyGoes
    <2>3. Flying(e) => Flying(e)'
      BY <1>0, <2>1, OrphanedCarry DEF Flying
    <2>4. e \in copy[r].pending => Flying(e)'
      <3>1. SUFFICES ASSUME e \in copy[r].pending PROVE Flying(e)'
        OBVIOUS
      <3>2. PICK g : Released(r) = {g}
        BY <1>0, <3>1, ReleasedMeans
      <3>3. g.batch = copy[r].pending
        BY <1>0, <3>2, ReleasedMeans
      <3> QED
        BY <2>1, <3>1, <3>2, <3>3 DEF Flying
    <2>5. Pending(e) => Pending(e)' \/ Flying(e)'
      BY <2>2, <2>4, PendingMoves
    <2>6. Loose(e) => Loose(e)'
      BY <2>1 DEF Loose
    <2> QED
      BY <2>3, <2>5, <2>6 DEF Safe
  <1>4. CASE Forget(r)
    BY <1>0, <1>4 DEF Forget, Unlisted
  <1>5. CASE Compact(r)
    <2>1. UNCHANGED <<copy, flights, loose>>
      BY <1>5 DEF Compact, hub
    <2> QED
      BY <2>1 DEF Safe, Pending, Flying, Loose
  <1>6. CASE \/ Open(r) \/ Load(r) \/ LoadFails(r) \/ (\E u \in wire[r] : Relay(r, u)) \/ CatchUp(r)
             \/ \E u \in Upload, what \in {"uploaded", "finished"} : Begin(u, what, r)
    <2>1. UNCHANGED <<flights, loose>>
      BY <1>6 DEF Open, Load, LoadFails, Relay, CatchUp, Begin
    <2>2. Flying(e) \/ Loose(e) => Safe(e)'
      BY <2>1 DEF Flying, Loose, Safe
    <2>3. ASSUME Pending(e) PROVE Pending(e)'
      <3>1. CASE Open(r) \/ \E u \in Upload, what \in {"uploaded", "finished"} : Begin(u, what, r)
        <4>1. copy' = [copy EXCEPT ![r] = Opened(r)]
          BY <3>1 DEF Open, Begin
        <4>2. CASE copy[r].st = "none"
          <5>1. CopyMoves(r, "loading", {}, {}, {}) /\ copy[r].pending = {}
            BY <1>0, <4>1, <4>2, OpenedCopy DEF CopiesHold
          <5> QED
            BY <2>3, <5>1, PendingGrows
        <4>3. CASE copy[r].st # "none"
          <5>1. CopyMoves(r, copy[r].st, copy[r].doc, copy[r].peers, copy[r].pending)
            BY <1>0, <4>1, <4>3, OpenedCopy
          <5> QED
            BY <2>3, <5>1, PendingGrows
        <4> QED
          BY <4>2, <4>3
      <3>2. CASE Load(r)
        BY <1>0, <2>3, <3>2, LoadCopy, PendingGrows
      <3>3. CASE LoadFails(r)
        <4>1. copy' = [copy EXCEPT ![r] = NoCopy] /\ copy[r].pending = {}
          BY <1>0, <3>3 DEF LoadFails, CopiesHold
        <4>2. CopyMoves(r, "none", {}, {}, {})
          BY <1>0, <4>1, CopyGoes
        <4> QED
          BY <2>3, <4>1, <4>2, PendingGrows
      <3>4. CASE \E u \in wire[r] : Relay(r, u)
        BY <1>0, <2>3, <3>4, RelayCopy, PendingGrows
      <3>5. CASE CatchUp(r)
        BY <1>0, <2>3, <3>5, CatchUpCopy, PendingGrows
      <3> QED
        BY <1>6, <3>1, <3>2, <3>3, <3>4, <3>5
    <2> QED
      BY <2>2, <2>3 DEF Safe
  <1> QED
    BY <1>1, <1>2, <1>3, <1>4, <1>5, <1>6 DEF ReplicaStep

\* A save that ends: its batch is stored; the other saves go on.
LEMMA SaveEnds ==
  ASSUME Shaped, SeqsApart, NEW f \in flights, NEW S, S = flights \/ S = Orphaned(f.at),
         flights' = S \ {f, Freed(f)} \/ flights' = S \ {f}, NEW e, Flying(e), e \notin f.batch
  PROVE  Flying(e)'
  <1>1. PICK g \in S : e \in g.batch
    BY OrphanedCarry DEF Flying
  <1>2. f \in Flights /\ Freed(f).batch = f.batch
    BY FreedMeans DEF Shaped, SameSave
  <1>3. g \in flights'
    BY <1>1, <1>2
  <1> QED
    BY <1>1, <1>3 DEF Flying

\* So do the saves.
LEMMA StoreSafe ==
  ASSUME StorageInv, listed, StoreStep, NEW e, Pending(e) \/ Flying(e) \/ Loose(e), e \notin lost'
  PROVE  Safe(e)'
  <1>0. Shaped /\ SeqsApart /\ copy \in [Replica -> Copies]
    BY DEF StorageInv, Saving, Shaped
  <1>1. ASSUME NEW f \in flights, Append(f) PROVE Safe(e)'
    <2>1. e \in f.batch => e \in Stored'
      <3>1. PICK row : row = [seq |-> f.seq, data |-> f.batch]
        OBVIOUS
      <3>2. row \in rows' /\ row.data = f.batch
        BY <1>1, <3>1 DEF Append
      <3> QED
        BY <3>2 DEF Stored
    <2>2. Flying(e) => Safe(e)'
      <3>1. SUFFICES ASSUME Flying(e), e \notin f.batch PROVE Flying(e)'
        BY <2>1 DEF Safe
      <3>2. \/ flights' = Orphaned(f.at) \ {f, Freed(f)} \/ flights' = flights \ {f, Freed(f)}
            \/ flights' = flights \ {f}
        BY <1>0, <1>1, AppendMeans
      <3> QED
        BY <1>0, <3>1, <3>2, SaveEnds
    <2>3. Pending(e) => Pending(e)'
      <3>1. f.at \in Replica
        BY <1>0, <1>1, AppendMeans
      <3>2. \/ CopyMoves(f.at, "none", {}, {}, {}) /\ copy[f.at].pending = {}
            \/ CopyMoves(f.at, copy[f.at].st, copy[f.at].doc, copy[f.at].peers, copy[f.at].pending)
        BY <1>0, <1>1, AppendMeans
      <3> QED
        BY <3>1, <3>2, PendingGrows
    <2>4. Loose(e) => Loose(e)'
      BY <1>1 DEF Append, Loose
    <2> QED
      BY <2>2, <2>3, <2>4 DEF Safe
  <1>2. ASSUME NEW f \in flights, AppendFails(f) PROVE Safe(e)'
    <2>0. f.at \in Replica
      BY <1>0, <1>2, AppendFailsMeans
    <2>1. ASSUME e \in f.batch PROVE Safe(e)'
      <3>1. CASE f.of # "copy"
        <4>1. f.batch \subseteq lost' \/ \E l \in loose' : l.batch = f.batch
          BY <1>0, <1>2, <3>1, AppendFailsMeans
        <4> QED
          BY <2>1, <4>1 DEF Safe, Loose
      <3>2. CASE f.of = "copy"
        <4>1. CopyMoves(f.at, copy[f.at].st, copy[f.at].doc, copy[f.at].peers, copy[f.at].pending \cup f.batch)
          BY <1>0, <1>2, <2>1, <3>2, AppendFailsMeans
        <4>2. e \in copy'[f.at].pending
          BY <2>1, <4>1 DEF CopyMoves
        <4> QED
          BY <2>0, <4>2 DEF Safe, Pending
      <3> QED
        BY <3>1, <3>2
    <2>2. Flying(e) => Safe(e)'
      <3>1. SUFFICES ASSUME Flying(e), e \notin f.batch PROVE Flying(e)'
        BY <2>1 DEF Safe
      <3>2. flights' = Orphaned(f.at) \ {f, Freed(f)} \/ flights' = flights \ {f, Freed(f)}
        BY <1>0, <1>2, AppendFailsMeans
      <3> QED
        BY <1>0, <3>1, <3>2, SaveEnds
    <2>3. Pending(e) => Pending(e)'
      <3>1. \/ CopyMoves(f.at, "none", {}, {}, {}) /\ copy[f.at].pending = {}
            \/ CopyMoves(f.at, copy[f.at].st, copy[f.at].doc, copy[f.at].peers, copy[f.at].pending)
            \/ CopyMoves(f.at, copy[f.at].st, copy[f.at].doc, copy[f.at].peers, copy[f.at].pending \cup f.batch)
        BY <1>0, <1>2, AppendFailsMeans
      <3>2. copy[f.at].pending \subseteq copy[f.at].pending \cup f.batch
        OBVIOUS
      <3> QED
        BY <2>0, <3>1, <3>2, PendingGrows
    <2>4. Loose(e) => Loose(e)'
      <3>1. loose \subseteq loose'
        BY <1>0, <1>2, AppendFailsMeans
      <3> QED
        BY <3>1 DEF Loose
    <2> QED
      BY <2>2, <2>3, <2>4 DEF Safe
  <1>3. ASSUME NEW l \in loose, Retry(l) PROVE Safe(e)'
    <2>1. PICK g : g = Flight(l.at, l.batch, l.of, Nowhere, l.tries)
      OBVIOUS
    <2>2. flights' = flights \cup {g} /\ g.batch = l.batch /\ loose' = loose \ {l} /\ copy' = copy
      BY <1>3, <2>1 DEF Retry, Flight
    <2>3. (Flying(e) => Flying(e)') /\ (Loose(e) => Loose(e)' \/ Flying(e)') /\ (Pending(e) => Pending(e)')
      BY <2>2 DEF Flying, Loose, Pending
    <2> QED
      BY <2>3 DEF Safe
  <1>4. CASE CompactCommits \/ CompactFails \/ DeleteRow \/ DeleteContent
    <2>1. UNCHANGED <<copy, flights, loose>>
      BY <1>4 DEF CompactCommits, CompactFails, DeleteRow, DeleteContent, hub
    <2> QED
      BY <2>1 DEF Safe, Pending, Flying, Loose
  <1> QED
    BY <1>1, <1>2, <1>3, <1>4 DEF StoreStep

\* The writer saves what the copy has unsaved, its new edit too.
LEMMA WriteSafe ==
  ASSUME StorageInv, NEW k \in Call, Write(k), NEW e, Pending(e) \/ Flying(e) \/ Loose(e) \/ e \in NewIn(k)
  PROVE  Safe(e)'
  <1>0. Shaped /\ Begun /\ copy \in [Replica -> Copies] /\ call[k].at \in Replica
    BY WriteMeans DEF StorageInv, Placed, Shaped
  <1>1. PICK r \in Replica : r = call[k].at
    BY <1>0
  <1>2. Loose(e) => Loose(e)'
    BY <1>0, WriteMeans DEF Loose
  <1>3. PendingIn(k) = copy[r].pending \cup NewIn(k)
    BY <1>1 DEF PendingIn
  <1>4. ASSUME PendingIn(k) = {},
               \/ CopyMoves(r, "none", {}, {}, {}) /\ flights' = Orphaned(r)
               \/ CopyMoves(r, "open", copy[r].doc, copy[r].peers, {}) /\ flights' = flights
        PROVE  Safe(e)'
    <2>1. copy[r].pending = {} /\ e \notin NewIn(k)
      BY <1>3, <1>4
    <2>2. Pending(e) => Pending(e)'
      BY <1>4, <2>1, PendingGrows
    <2>3. Flying(e) => Flying(e)'
      BY <1>0, <1>4, OrphanedCarry DEF Flying
    <2> QED
      BY <1>2, <2>1, <2>2, <2>3 DEF Safe
  <1>5. ASSUME CopyMoves(r, "open", copy[r].doc \cup NewIn(k), copy[r].peers, {}),
               flights' = flights \cup {Flight(r, PendingIn(k), "copy", k, 0)}
        PROVE  Safe(e)'
    <2>1. PICK g : g = Flight(r, PendingIn(k), "copy", k, 0)
      OBVIOUS
    <2>2. g.batch = PendingIn(k) /\ flights' = flights \cup {g}
      BY <1>5, <2>1 DEF Flight
    <2>3. e \in copy[r].pending \cup NewIn(k) => Flying(e)'
      BY <1>3, <2>2 DEF Flying
    <2>4. Flying(e) => Flying(e)'
      BY <2>2 DEF Flying
    <2>5. Pending(e) => Pending(e)' \/ Flying(e)'
      BY <1>5, <2>3, PendingMoves
    <2> QED
      BY <1>2, <2>3, <2>4, <2>5 DEF Safe
  <1> QED
    BY <1>0, <1>1, <1>4, <1>5, WriteMeans

\* Edits are made by typing and by the writer.
LEMMA StepMade ==
  ASSUME Shaped, Placed, Next, NEW e \in made', e \notin made
  PROVE  \/ Seen(e)'
         \/ \E k \in Call : Write(k) /\ e \in NewIn(k)
  <1>1. ASSUME NEW c \in Editor, EditorStep(c) PROVE Seen(e)'
    <2>1. ASSUME NEW f \in Typing, Type(c, f) PROVE Seen(e)'
      <3>1. e = f /\ e \in mine'[c]
        BY <2>1 DEF Type, Shaped
      <3> QED
        BY <3>1 DEF Seen
    <2>2. CASE (\E r \in Replica : Join(c, r)) \/ Leave(c) \/ Hello(c) \/ \E f \in Edits : Receive(c, f)
      BY <2>2 DEF Join, Leave, Hello, Receive
    <2> QED
      BY <1>1, <2>1, <2>2 DEF EditorStep
  <1>2. ASSUME NEW r \in Replica, ReplicaStep(r) PROVE FALSE
    BY <1>2 DEF ReplicaStep, Open, Load, LoadFails, Relay, CatchUp, Flush, Compact, DropAll, Crash, DeleteDrops,
                Forget, Begin
  <1>3. ASSUME StoreStep PROVE FALSE
    BY <1>3 DEF StoreStep, Append, AppendFails, Retry, CompactCommits, CompactFails, DeleteRow, DeleteContent
  <1>4. ASSUME NEW k \in Call, Write(k) PROVE e \in NewIn(k)
    <2>1. Begun
      BY DEF Placed
    <2>2. made' = made \cup NewIn(k)
      BY <1>4, <2>1, WriteMeans
    <2> QED
      BY <2>2
  <1> QED
    BY <1>1, <1>2, <1>3, <1>4 DEF Next

\* What is lost stays lost, and a document that is deleted stays deleted.
LEMMA StepLost == ASSUME Shaped, Next PROVE lost \subseteq lost' /\ (listed' => listed)
  <1>1. ASSUME NEW c \in Editor, EditorStep(c) PROVE UNCHANGED <<lost, listed>>
    BY <1>1 DEF EditorStep, Join, Type, Leave, Hello, Receive
  <1>2. ASSUME NEW r \in Replica, ReplicaStep(r) PROVE lost \subseteq lost' /\ listed' = listed
    BY <1>2 DEF ReplicaStep, Open, Load, LoadFails, Relay, CatchUp, Flush, Compact, DropAll, Crash, DeleteDrops,
                Forget, Begin
  <1>3. ASSUME StoreStep PROVE lost \subseteq lost' /\ (listed' => listed)
    <2>1. ASSUME NEW f \in flights, Append(f) \/ AppendFails(f) PROVE lost \subseteq lost' /\ listed' = listed
      BY <2>1, AppendMeans, AppendFailsMeans
    <2>2. CASE DeleteRow
      BY <2>2 DEF DeleteRow
    <2>3. CASE CompactCommits \/ CompactFails \/ DeleteContent
      BY <2>3 DEF CompactCommits, CompactFails, DeleteContent
    <2>4. ASSUME NEW l \in loose, Retry(l) PROVE lost \subseteq lost' /\ listed' = listed
      BY ZenonT(60), <2>4 DEF Retry
    <2> QED
      BY <1>3, <2>1, <2>2, <2>3, <2>4 DEF StoreStep
  <1>4. ASSUME NEW k \in Call, Write(k) PROVE UNCHANGED <<lost, listed>>
    BY <1>4 DEF Write
  <1> QED
    BY <1>1, <1>2, <1>3, <1>4 DEF Next

\* Every step keeps Holding.
LEMMA StepHolding == StorageInv /\ Holding /\ [Next]_vars => Holding'
  <1>1. ASSUME StorageInv, Holding, Next PROVE Holding'
    <2> SUFFICES ASSUME listed', NEW e \in made', e \notin lost' PROVE Held(e)'
      BY DEF Holding
    <2>0. Shaped /\ Placed
      BY <1>1 DEF StorageInv
    <2>1. listed /\ e \notin lost
      BY <1>1, <2>0, StepLost
    <2>2. CASE e \in made
      <3>1. Held(e)
        BY <1>1, <2>1, <2>2 DEF Holding
      <3>2. CASE e \in Stored
        <4>1. e \in Stored'
          BY <1>1, <2>1, <3>2, StepStored
        <4> QED
          BY <4>1 DEF Held, Safe
      <3>3. CASE Seen(e)
        <4>1. Seen(e)'
          BY <1>1, <2>0, <3>3, StepSeen
        <4> QED
          BY <4>1 DEF Held
      <3>4. CASE Pending(e) \/ Flying(e) \/ Loose(e)
        BY <1>1, <2>1, <3>4, EditorSafe, ReplicaSafe, StoreSafe, WriteSafe DEF Next, Held
      <3> QED
        BY <3>1, <3>2, <3>3, <3>4 DEF Held, Safe
    <2>3. CASE e \notin made
      <3>1. CASE Seen(e)'
        BY <3>1 DEF Held
      <3>2. CASE \E k \in Call : Write(k) /\ e \in NewIn(k)
        BY <1>1, <3>2, WriteSafe DEF Held
      <3> QED
        BY <1>1, <2>0, <2>3, <3>1, <3>2, StepMade
    <2> QED
      BY <2>2, <2>3
  <1>2. ASSUME Holding, UNCHANGED vars PROVE Holding'
    BY <1>2 DEF Holding, Held, Safe, Pending, Flying, Loose, Seen, Stored, vars, store, hub, browsers
  <1> QED
    BY <1>1, <1>2

\* No edit is forgotten unless a replica stops with it or three saves of a
\* released copy fail: it is stored, on its way to storage, or in a browser.
THEOREM NoEditForgotten == Spec => []EditsHeld
  <1>1. Init => Holding
    BY DEF Init, Holding
  <1> QED
    BY <1>1, StepHolding, StorageCorrect, HoldingMeans, PTL DEF Spec

-----------------------------------------------------------------------------
(* The writer's sections.                                                  *)

First(u) == <<u, "uploaded">>
Second(u) == <<u, "finished">>

\* Without a fault, a call that returned has its edit stored, and a call whose
\* edit is on its way has it in one save; the second call of an upload follows
\* the first's return.
Writing ==
  /\ \A u \in Upload : call[Second(u)].st # "idle" => call[First(u)].st = "returned"
  /\ \A k \in Call : call[k].st # "failed"
  /\ \A k \in Call : k \in made => /\ call[k].st \in {"saving", "returned"}
                                   /\ call[k].st = "returned" => k \in Stored
  /\ \A f \in flights : f.by # Nowhere => call[f.by].st = "saving" /\ (f.by \in made => f.by \in f.batch)
  /\ \A f, g \in flights : f.by = g.by /\ f.by # Nowhere => f = g
  /\ overtaken \/ \A u \in Upload : ~(First(u) \in made /\ Second(u) \in made)

Writer == failed \/ Writing

\* The sections of an upload are of its two calls.
LEMMA SectionsMean ==
  ASSUME NEW u \in Upload
  PROVE  Sections(u) = {First(u), Second(u)} /\ First(u) \in Call /\ Second(u) \in Call /\ First(u) # Second(u)
  BY DEF Sections, Call, First, Second

\* A call is one of its upload's two.
LEMMA CallsMean ==
  ASSUME NEW k \in Call
  PROVE  k[1] \in Upload /\ (k = First(k[1]) \/ k = Second(k[1])) /\ k \in Sections(k[1]) /\ k # Nowhere
  BY EditAssumption DEF Sections, Call, First, Second

\* Writer says what OneSection does.
LEMMA WriterMeans == Writer => OneSection
  <1> SUFFICES ASSUME Writing, ~overtaken, NEW u \in Upload PROVE Cardinality(Sections(u) \cap made) <= 1
    BY DEF Writer, OneSection
  <1>1. Sections(u) = {First(u), Second(u)} /\ ~(First(u) \in made /\ Second(u) \in made)
    BY SectionsMean DEF Writing
  <1>2. \/ Sections(u) \cap made = {} \/ Sections(u) \cap made = {First(u)} \/ Sections(u) \cap made = {Second(u)}
    BY <1>1
  <1> QED
    BY <1>2, FS_EmptySet, FS_Singleton

\* What is stored stays while calls of the writer are under way or over.
LEMMA StoredForCalls ==
  ASSUME StorageInv, Next, StorageInv', NEW k \in Call, call[k].st # "idle"
  PROVE  Stored \subseteq Stored'
  <1>1. call'[k].st # "idle"
    BY StepBusy DEF StorageInv
  <1>2. deleting.st = "no" /\ deleting'.st = "no"
    BY <1>1 DEF StorageInv, Deleting, Apart
  <1>3. listed /\ listed'
    BY <1>2 DEF StorageInv, Deleting, Unlisted
  <1> QED
    BY <1>3, StepStored

\* A step that ends and starts no call, and makes no edit of the writer.
LEMMA WritingStays ==
  ASSUME StorageInv, StorageInv', Next, Writing, call' = call, overtaken' = overtaken,
         \A k \in Call : k \in made' => k \in made
  PROVE  Writing'
  <1>0. Shaped /\ Placed /\ SeqsApart' /\ flights' \subseteq Flights
    BY DEF StorageInv, Saving, Shaped
  <1>1. \A u \in Upload : call'[Second(u)].st # "idle" => call'[First(u)].st = "returned"
    BY DEF Writing
  <1>2. \A k \in Call : call'[k].st # "failed"
    BY DEF Writing
  <1>3. ASSUME NEW k \in Call, k \in made'
        PROVE  call'[k].st \in {"saving", "returned"} /\ (call'[k].st = "returned" => k \in Stored')
    <2>1. call[k].st \in {"saving", "returned"} /\ (call[k].st = "returned" => k \in Stored)
      BY <1>3 DEF Writing
    <2>2. Stored \subseteq Stored'
      BY <2>1, StoredForCalls
    <2> QED
      BY <2>1, <2>2
  <1>4. ASSUME NEW g \in flights', g.by # Nowhere PROVE \E f \in flights : SameSave(g, f)
    <2>1. CASE g.by \in Call /\ call[g.by].st = "opening" /\ call' = [call EXCEPT ![g.by].st = "saving"]
      <3>1. call'[g.by].st = "saving"
        BY <1>0, <2>1 DEF Shaped, Calls
      <3> QED
        BY <2>1, <3>1
    <2> QED
      BY <1>0, <1>4, <2>1, StepBy
  <1>5. ASSUME NEW g \in flights', g.by # Nowhere
        PROVE  call'[g.by].st = "saving" /\ (g.by \in made' => g.by \in g.batch)
    <2>1. PICK f \in flights : SameSave(g, f)
      BY <1>4, <1>5
    <2>2. g.by \in Call
      BY <1>0, <1>5 DEF Flights
    <2> QED
      BY <1>5, <2>1, <2>2 DEF SameSave, Writing
  <1>6. ASSUME NEW g \in flights', NEW h \in flights', g.by = h.by, g.by # Nowhere PROVE g = h
    <2>1. PICK f \in flights : SameSave(g, f)
      BY <1>4, <1>6
    <2>2. PICK k \in flights : SameSave(h, k)
      BY <1>4, <1>6
    <2>a. f.by = k.by /\ f.by # Nowhere
      BY <1>6, <2>1, <2>2 DEF SameSave
    <2>b. \A x, y \in flights : x.by = y.by /\ x.by # Nowhere => x = y
      BY DEF Writing
    <2>3. f = k
      BY <2>a, <2>b
    <2>4. g.seq = h.seq
      BY <2>1, <2>2, <2>3 DEF SameSave
    <2> QED
      BY <1>0, <2>4 DEF SeqsApart
  <1>7. overtaken' \/ \A u \in Upload : ~(First(u) \in made' /\ Second(u) \in made')
    BY SectionsMean DEF Writing
  <1> QED
    BY <1>1, <1>2, <1>3, <1>5, <1>6, <1>7 DEF Writing

\* A call begins: it has made nothing yet.
LEMMA BeginWriting ==
  ASSUME StorageInv, StorageInv', Next, Writing, NEW u \in Upload, NEW what \in {"uploaded", "finished"},
         NEW r \in Replica, Begin(u, what, r)
  PROVE  Writing'
  <1>0. call \in [Call -> Calls] /\ flights \subseteq Flights
    BY DEF StorageInv, Shaped
  <1>1. PICK k \in Call : k = <<u, what>>
    BY DEF Call
  <1>2. /\ call[k].st = "idle" /\ UNCHANGED <<rows, snapshot, flights, made, overtaken>>
        /\ what = "finished" => call[First(u)].st \in {"returned", "failed"}
        /\ call' = [call EXCEPT ![k] = [at |-> r, st |-> "opening", opened |-> copy[r].st # "none"]]
    BY <1>1 DEF Begin, First, store
  <1>3. call'[k].st = "opening" /\ \A j \in Call : j # k => call'[j] = call[j]
    BY <1>0, <1>2
  <1>4. k \notin made
    BY <1>2 DEF Writing
  <1>5. ASSUME NEW v \in Upload, call'[Second(v)].st # "idle" PROVE call'[First(v)].st = "returned"
    <2>1. First(v) \in Call /\ Second(v) \in Call /\ First(v) # Second(v)
      BY SectionsMean
    <2>2. CASE k = Second(v)
      <3>1. v = u /\ what = "finished"
        BY <1>1, <2>2 DEF Second
      <3>2. call[First(v)].st = "returned"
        BY <1>2, <2>1, <3>1 DEF Writing
      <3> QED
        BY <1>3, <2>1, <2>2, <3>2
    <2>3. CASE k # Second(v)
      <3>1. call[First(v)].st = "returned"
        BY <1>3, <1>5, <2>1, <2>3 DEF Writing
      <3> QED
        BY <1>2, <1>3, <2>1, <3>1
    <2> QED
      BY <2>2, <2>3
  <1>6. \A j \in Call : call'[j].st # "failed"
    BY <1>3 DEF Writing
  <1>7. ASSUME NEW j \in Call, j \in made'
        PROVE  call'[j].st \in {"saving", "returned"} /\ (call'[j].st = "returned" => j \in Stored')
    <2>1. j \in made /\ j # k /\ Stored' = Stored
      BY <1>2, <1>4, <1>7 DEF Stored
    <2> QED
      BY <1>3, <2>1 DEF Writing
  <1>8. ASSUME NEW f \in flights', f.by # Nowhere
        PROVE  call'[f.by].st = "saving" /\ (f.by \in made' => f.by \in f.batch)
    <2>1. f \in flights /\ f.by \in Call
      BY <1>0, <1>2, <1>8 DEF Flights
    <2>2. call[f.by].st = "saving" /\ (f.by \in made => f.by \in f.batch)
      BY <1>8, <2>1 DEF Writing
    <2> QED
      BY <1>2, <1>3, <2>1, <2>2
  <1>9. /\ \A f, g \in flights' : f.by = g.by /\ f.by # Nowhere => f = g
        /\ overtaken' \/ \A v \in Upload : ~(First(v) \in made' /\ Second(v) \in made')
    BY <1>2 DEF Writing
  <1> QED
    BY <1>5, <1>6, <1>7, <1>8, <1>9 DEF Writing

\* A call returns when its save commits, and its edit is stored then.
LEMMA AppendWriting ==
  ASSUME StorageInv, StorageInv', Next, Writing, NEW f \in flights, Append(f), f.by # Nowhere
  PROVE  Writing'
  <1>0. /\ Shaped /\ Placed /\ SeqsApart /\ SeqsApart' /\ call \in [Call -> Calls] /\ flights \subseteq Flights
        /\ flights' \subseteq Flights /\ f.by \in Call
    BY DEF StorageInv, Saving, Shaped, Flights
  <1>1. PICK k \in Call : k = f.by
    BY <1>0
  <1>2. /\ call' = Returned(k) /\ UNCHANGED <<made, overtaken>>
        /\ flights' = Orphaned(f.at) \ {f, Freed(f)} \/ flights' = flights \ {f, Freed(f)} \/ flights' = flights \ {f}
    BY <1>0, <1>1, AppendMeans
  <1>3. call'[k].st = "returned" /\ \A j \in Call : j # k => call'[j] = call[j]
    BY <1>0, <1>2 DEF Returned, Calls
  <1>4. call[k].st = "saving" /\ (k \in made => k \in f.batch)
    BY <1>1 DEF Writing
  <1>5. Stored \subseteq Stored'
    BY <1>4, StoredForCalls
  <1>6. f.batch \subseteq Stored'
    <2>1. PICK row : row = [seq |-> f.seq, data |-> f.batch]
      OBVIOUS
    <2>2. row \in rows' /\ row.data = f.batch
      BY <2>1 DEF Append
    <2> QED
      BY <2>2 DEF Stored
  <1>7. \A u \in Upload : call'[Second(u)].st # "idle" => call'[First(u)].st = "returned"
    <2> SUFFICES ASSUME NEW u \in Upload, call'[Second(u)].st # "idle" PROVE call'[First(u)].st = "returned"
      OBVIOUS
    <2>1. First(u) \in Call /\ Second(u) \in Call
      BY SectionsMean
    <2>2. call[Second(u)].st # "idle"
      BY <1>3, <1>4, <2>1
    <2>3. call[First(u)].st = "returned"
      BY <2>2 DEF Writing
    <2> QED
      BY <1>3, <2>1, <2>3
  <1>8. \A j \in Call : call'[j].st # "failed"
    BY <1>3 DEF Writing
  <1>9. ASSUME NEW j \in Call, j \in made'
        PROVE  call'[j].st \in {"saving", "returned"} /\ (call'[j].st = "returned" => j \in Stored')
    <2>1. CASE j = k
      BY <1>2, <1>3, <1>4, <1>6, <1>9, <2>1
    <2>2. CASE j # k
      BY <1>2, <1>3, <1>5, <1>9, <2>2 DEF Writing
    <2> QED
      BY <2>1, <2>2
  <1>10. ASSUME NEW g \in flights', g.by # Nowhere PROVE \E h \in flights : SameSave(g, h) /\ h # f
    <2>1. CASE g \in flights
      <3>1. g # f /\ SameSave(g, g)
        BY <1>2 DEF SameSave
      <3> QED
        BY <2>1, <3>1
    <2>2. CASE g \in Orphaned(f.at) /\ g \notin {f, Freed(f)}
      <3>1. PICK h \in flights : g = Afterwards(h, f.at)
        BY <1>0, <2>2, OrphanedMeans
      <3>2. h # f
        BY <2>2, <3>1 DEF Afterwards
      <3>3. SameSave(g, h)
        BY <1>0, <3>1, AfterwardsMeans
      <3> QED
        BY <3>2, <3>3
    <2> QED
      BY <1>2, <2>1, <2>2
  <1>11. ASSUME NEW g \in flights', g.by # Nowhere
         PROVE  call'[g.by].st = "saving" /\ (g.by \in made' => g.by \in g.batch)
    <2>1. PICK h \in flights : SameSave(g, h) /\ h # f
      BY <1>10, <1>11
    <2>2. h.by # k
      BY <1>1, <1>11, <2>1 DEF SameSave, Writing
    <2>3. g.by \in Call /\ g.by = h.by /\ g.batch = h.batch
      BY <1>0, <1>11, <2>1 DEF SameSave, Flights
    <2>4. call[h.by].st = "saving" /\ (h.by \in made => h.by \in h.batch)
      BY <1>11, <2>3 DEF Writing
    <2> QED
      BY <1>2, <1>3, <2>2, <2>3, <2>4
  <1>12. ASSUME NEW g \in flights', NEW h \in flights', g.by = h.by, g.by # Nowhere PROVE g = h
    <2>1. PICK a \in flights : SameSave(g, a)
      BY <1>10, <1>12
    <2>2. PICK b \in flights : SameSave(h, b)
      BY <1>10, <1>12
    <2>3. a = b
      BY ZenonT(60), <1>12, <2>1, <2>2 DEF SameSave, Writing
    <2>4. g.seq = h.seq
      BY <2>1, <2>2, <2>3 DEF SameSave
    <2> QED
      BY <1>0, <2>4 DEF SeqsApart
  <1>13. overtaken' \/ \A u \in Upload : ~(First(u) \in made' /\ Second(u) \in made')
    BY <1>2 DEF Writing
  <1> QED
    BY <1>7, <1>8, <1>9, <1>11, <1>12, <1>13 DEF Writing

\* A call runs: its edit goes into the save it starts, or was there before.
LEMMA WriteWriting ==
  ASSUME StorageInv, StorageInv', Next, Writing, NEW k \in Call, Write(k)
  PROVE  Writing'
  <1>0. /\ Shaped /\ Begun /\ SeqsApart /\ SeqsApart' /\ call \in [Call -> Calls] /\ flights \subseteq Flights
        /\ flights' \subseteq Flights /\ nextSeq \in Nat
    BY DEF StorageInv, Saving, Shaped, Placed
  <1>1. PICK r \in Replica : r = call[k].at
    BY <1>0, WriteMeans
  <1>2. PICK new : new = NewIn(k)
    OBVIOUS
  <1>3. PICK h : h = Flight(r, PendingIn(k), "copy", k, 0)
    OBVIOUS
  <1>4. /\ call[k].st = "opening" /\ new \subseteq {k} /\ made' = made \cup new /\ UNCHANGED <<rows, snapshot>>
        /\ overtaken' = (overtaken \/ ~(Stored \subseteq copy[r].doc))
    BY <1>0, <1>1, <1>2, WriteMeans
  <1>5. h.by = k /\ h.batch = PendingIn(k) /\ new \subseteq h.batch /\ (PendingIn(k) = {} => new = {})
    BY <1>2, <1>3 DEF Flight, PendingIn
  <1>6. \/ new = {} /\ call' = Returned(k) /\ (flights' = Orphaned(r) \/ flights' = flights)
        \/ flights' = flights \cup {h} /\ call' = [call EXCEPT ![k].st = "saving"]
    BY <1>0, <1>1, <1>3, <1>5, WriteMeans
  <1>7. /\ call'[k].st \in {"returned", "saving"} /\ (call'[k].st = "returned" => new = {})
        /\ \A j \in Call : j # k => call'[j] = call[j]
    BY <1>0, <1>6 DEF Returned, Calls
  <1>8. k \notin made /\ \A f \in flights : f.by # k
    BY <1>4, CallsMean DEF Writing
  <1>9. Stored' = Stored
    BY <1>4 DEF Stored
  <1>10. \A u \in Upload : call'[Second(u)].st # "idle" => call'[First(u)].st = "returned"
    <2> SUFFICES ASSUME NEW u \in Upload, call'[Second(u)].st # "idle" PROVE call'[First(u)].st = "returned"
      OBVIOUS
    <2>1. First(u) \in Call /\ Second(u) \in Call
      BY SectionsMean
    <2>2. call[Second(u)].st # "idle"
      BY <1>4, <1>7, <2>1
    <2>3. call[First(u)].st = "returned"
      BY <2>2 DEF Writing
    <2> QED
      BY <1>4, <1>7, <2>1, <2>3
  <1>11. \A j \in Call : call'[j].st # "failed"
    BY <1>7 DEF Writing
  <1>12. ASSUME NEW j \in Call, j \in made'
         PROVE  call'[j].st \in {"saving", "returned"} /\ (call'[j].st = "returned" => j \in Stored')
    <2>1. CASE j = k
      BY <1>4, <1>7, <1>8, <1>12, <2>1
    <2>2. CASE j # k
      <3>1. j \in made
        BY <1>4, <1>12, <2>2
      <3> QED
        BY <1>7, <1>9, <2>2, <3>1 DEF Writing
    <2> QED
      BY <2>1, <2>2
  <1>13. ASSUME NEW g \in flights' PROVE g = h \/ \E f \in flights : SameSave(g, f)
    <2>1. CASE g \in flights
      BY <2>1 DEF SameSave
    <2>2. CASE g \in Orphaned(r)
      BY <1>0, <2>2, OrphanedApart
    <2> QED
      BY <1>6, <2>1, <2>2
  <1>14. ASSUME NEW g \in flights', g.by # Nowhere
         PROVE  call'[g.by].st = "saving" /\ (g.by \in made' => g.by \in g.batch)
    <2>1. CASE \E f \in flights : SameSave(g, f)
      <3>1. PICK f \in flights : g.by = f.by /\ g.batch = f.batch
        BY <2>1 DEF SameSave
      <3>2. f.by # k /\ f.by \in Call
        BY <1>0, <1>8, <1>14, <3>1 DEF Flights
      <3>3. call[f.by].st = "saving" /\ (f.by \in made => f.by \in f.batch)
        BY <1>14, <3>1 DEF Writing
      <3> QED
        BY <1>4, <1>7, <3>1, <3>2, <3>3
    <2>2. CASE g = h /\ ~\E f \in flights : SameSave(g, f)
      <3>1. g \notin flights
        BY <2>2 DEF SameSave
      <3>2. g \notin Orphaned(r)
        BY <1>0, <2>2, OrphanedApart
      <3>3. call' = [call EXCEPT ![k].st = "saving"]
        BY <1>6, <3>1, <3>2
      <3>4. call'[k].st = "saving"
        BY <1>0, <3>3 DEF Calls
      <3> QED
        BY <1>4, <1>5, <1>8, <2>2, <3>4
    <2> QED
      BY <1>13, <2>1, <2>2
  <1>15. ASSUME NEW g \in flights', NEW i \in flights', g.by = i.by, g.by # Nowhere PROVE g = i
    <2>1. CASE g.by = k
      <3>1. ASSUME NEW f \in flights PROVE f.by # k
        BY <1>8
      <3>2. g = h /\ i = h
        BY <1>13, <1>15, <2>1, <3>1 DEF SameSave
      <3> QED
        BY <3>2
    <2>2. CASE g.by # k
      <3>1. PICK a \in flights : SameSave(g, a)
        BY <1>5, <1>13, <2>2
      <3>2. PICK b \in flights : SameSave(i, b)
        BY <1>5, <1>13, <1>15, <2>2
      <3>3. a = b
        BY <1>15, <3>1, <3>2 DEF SameSave, Writing
      <3>4. g.seq = i.seq
        BY <3>1, <3>2, <3>3 DEF SameSave
      <3> QED
        BY <1>0, <3>4 DEF SeqsApart
    <2> QED
      BY <2>1, <2>2
  <1>16. overtaken' \/ \A u \in Upload : ~(First(u) \in made' /\ Second(u) \in made')
    <2> SUFFICES ASSUME ~overtaken', NEW u \in Upload, First(u) \in made', Second(u) \in made' PROVE FALSE
      OBVIOUS
    <2>1. ~overtaken /\ Stored \subseteq copy[r].doc
      BY <1>4
    <2>2. /\ First(u) \in Call /\ Second(u) \in Call /\ First(u) # Second(u)
          /\ Sections(u) = {First(u), Second(u)}
      BY SectionsMean
    <2>3. ~(First(u) \in made /\ Second(u) \in made)
      BY <2>1 DEF Writing
    <2>4. new = {k} /\ (k = First(u) \/ k = Second(u))
      BY <1>4, <2>3
    <2>5. k[1] = u
      BY <2>4 DEF First, Second
    <2>6. copy[r].doc \cap Sections(u) = {}
      BY <1>1, <1>2, <2>4, <2>5 DEF NewIn
    <2>7. CASE k = Second(u)
      <3>1. First(u) \in made /\ call[First(u)].st = "returned"
        BY <1>4, <2>2, <2>4, <2>7 DEF Writing
      <3>2. First(u) \in Stored
        BY <2>2, <3>1 DEF Writing
      <3> QED
        BY <2>1, <2>2, <2>6, <3>2
    <2>8. CASE k = First(u)
      <3>1. Second(u) \in made
        BY <1>4, <2>2, <2>4, <2>8
      <3>2. call[Second(u)].st # "idle"
        BY <2>2, <3>1 DEF Writing
      <3>3. call[First(u)].st = "returned"
        BY <3>2 DEF Writing
      <3> QED
        BY <1>4, <2>8, <3>3
    <2> QED
      BY <2>4, <2>7, <2>8
  <1> QED
    BY <1>10, <1>11, <1>12, <1>14, <1>15, <1>16 DEF Writing

\* Init satisfies Writer.
LEMMA InitWriter == Init => Writer
  <1> SUFFICES ASSUME Init PROVE Writing
    BY DEF Writer
  <1>1. flights = {} /\ made = {} /\ \A k \in Call : call[k].st = "idle"
    BY DEF Init, Idle
  <1> QED
    BY <1>1, SectionsMean DEF Writing

\* Every step keeps Writer.
LEMMA StepWriter == StorageInv /\ StorageInv' /\ Writer /\ [Next]_vars => Writer'
  <1>1. ASSUME StorageInv, StorageInv', Writer, Next PROVE Writer'
    <2> SUFFICES ASSUME ~failed' PROVE Writing'
      BY DEF Writer
    <2>0. Writing /\ Shaped /\ Placed
      BY <1>1, StepFailed DEF Writer, StorageInv
    <2>1. ASSUME NEW c \in Editor, EditorStep(c) PROVE Writing'
      <3>1. call' = call /\ overtaken' = overtaken
        BY <2>1 DEF EditorStep, Join, Type, Leave, Hello, Receive
      <3>2. made' = made \/ \E e \in Typing : made' = made \cup {e}
        BY <2>1 DEF EditorStep, Join, Type, Leave, Hello, Receive
      <3>3. \A k \in Call : k \in made' => k \in made
        BY <3>2, EditAssumption
      <3> QED
        BY <1>1, <2>0, <3>1, <3>3, WritingStays
    <2>2. ASSUME NEW r \in Replica, ReplicaStep(r) PROVE Writing'
      <3>1. ASSUME NEW u \in Upload, NEW what \in {"uploaded", "finished"}, Begin(u, what, r) PROVE Writing'
        BY <1>1, <2>0, <3>1, BeginWriting
      <3>2. CASE LoadFails(r) \/ Crash(r)
        BY <3>2 DEF LoadFails, Crash, Fault
      <3>3. CASE \/ Open(r) \/ Load(r) \/ (\E u \in wire[r] : Relay(r, u)) \/ CatchUp(r) \/ Flush(r) \/ Compact(r)
                 \/ DropAll(r) \/ DeleteDrops(r) \/ Forget(r)
        <4>1. UNCHANGED <<call, made, overtaken>>
          BY <3>3 DEF Open, Load, Relay, CatchUp, Flush, Compact, DropAll, DeleteDrops, Forget
        <4> QED
          BY <1>1, <2>0, <4>1, WritingStays
      <3> QED
        BY <2>2, <3>1, <3>2, <3>3 DEF ReplicaStep
    <2>3. ASSUME StoreStep PROVE Writing'
      <3>1. ASSUME NEW f \in flights, Append(f) PROVE Writing'
        <4>1. CASE f.by # Nowhere
          BY <1>1, <2>0, <3>1, <4>1, AppendWriting
        <4>2. CASE f.by = Nowhere
          <5>1. UNCHANGED <<call, made, overtaken>>
            BY <3>1, <4>2 DEF Append
          <5> QED
            BY <1>1, <2>0, <5>1, WritingStays
        <4> QED
          BY <4>1, <4>2
      <3>2. CASE (\E f \in flights : AppendFails(f)) \/ CompactFails
        BY <3>2 DEF AppendFails, CompactFails, Fault
      <3>3. CASE (\E l \in loose : Retry(l)) \/ CompactCommits \/ DeleteRow \/ DeleteContent
        <4>1. UNCHANGED <<call, made, overtaken>>
          BY <3>3 DEF Retry, CompactCommits, DeleteRow, DeleteContent
        <4> QED
          BY <1>1, <2>0, <4>1, WritingStays
      <3> QED
        BY <2>3, <3>1, <3>2, <3>3 DEF StoreStep
    <2>4. ASSUME NEW k \in Call, Write(k) PROVE Writing'
      BY <1>1, <2>0, <2>4, WriteWriting
    <2> QED
      BY <1>1, <2>1, <2>2, <2>3, <2>4 DEF Next
  <1>2. ASSUME Writer, UNCHANGED vars PROVE Writer'
    BY <1>2 DEF Writer, Writing, Stored, vars, store, hub
  <1> QED
    BY <1>1, <1>2

\* An upload gets one section, however its two calls, other people's edits and
\* the saves of several replicas interleave, as long as nothing failed and no
\* call ran on a copy that lagged behind storage.
THEOREM OneSectionEach == Spec => []OneSection
  BY InitWriter, StepWriter, StorageCorrect, WriterMeans, PTL DEF Spec

-----------------------------------------------------------------------------
(* Copies and what is stored.                                              *)

\* A copy without subscription that dropAll does not wait for.
Alone(r) == ~Subscribed(r) /\ r \notin leaving

\* A call that a copy was made for, and that lets it go when its save ends.
Opener(k, r) ==
  /\ call[k].at = r /\ ~call[k].opened
  /\ \/ call[k].st = "opening"
     \/ call[k].st = "saving" /\ \E f \in flights : f.by = k /\ f.of = "copy" /\ f.at = r

OnWire(r, e) == \E u \in wire[r] : u.edit = e

\* The peers of a copy are connected there; who sent an edit has it; what a
\* compaction has read is there.
Inside ==
  /\ \A r \in Replica : copy[r].peers # {} => copy[r].st = "open"
  /\ \A r \in Replica : \A c \in copy[r].peers : at[c] = r
  /\ \A r \in leaving : ~Subscribed(r)

Own ==
  /\ \A c \in Editor : up[c] \subseteq mine[c]
  /\ \A r \in Replica : \A u \in wire[r] : u.from \in Editor => u.edit \in mine[u.from]

Reading == compacting.rows \subseteq rows /\ lost = {}

\* A copy that is alone is there for a call, and has nothing unsaved.
Needed ==
  \A r \in Replica : copy[r].st # "none" /\ Alone(r) =>
      copy[r].pending = {} /\ \E k \in Call : Opener(k, r)

\* Who is connected is a peer or about to be; a copy that is alone is about to
\* be reloaded.
Synced ==
  /\ \A c \in Editor : at[c] # Nowhere => phase[c] = "in" \/ c \in copy[at[c]].peers
  /\ \A r \in Replica : copy[r].st = "open" /\ Alone(r) => copy[r].catchUp

\* What a copy still gets: by a relay, or by its reload.
Coming(r, e) == OnWire(r, e) \/ (copy[r].catchUp /\ (e \in Stored \/ e \in copy[r].behind \/ ~Subscribed(r)))

\* Copies hold, and replicas relay, what is stored or on its way to storage;
\* a copy has all of that, or gets it; a peer has what the copy has, or gets
\* it; and the copy has what the peer has, or gets it.
CopySafe(r) == \A e \in Edits : e \in copy[r].doc \/ OnWire(r, e) => Safe(e)
CopyGets(r) == copy[r].st = "open" /\ r \notin leaving => \A e \in Edits : Safe(e) => e \in copy[r].doc \/ Coming(r, e)
PeerGets(r) == \A c \in copy[r].peers : \A e \in copy[r].doc :
                   e \in mine[c] \/ \E u \in wire[r] : u.edit = e /\ u.from # c
PeerSends(r) == \A c \in copy[r].peers : mine[c] \subseteq up[c] \cup copy[r].doc
ExchangeAt(r) == CopySafe(r) /\ CopyGets(r) /\ PeerGets(r) /\ PeerSends(r)
Exchange == \A r \in Replica : ExchangeAt(r)

Linked == Inside /\ Own /\ Reading /\ Needed /\ (deleting.st = "no" => Synced /\ Exchange)

\* Until a fault, or the deletion.
CopiesLinked == failed \/ ~listed \/ Linked

\* A step of the listed document that is no fault.
Calm == StorageInv /\ StorageInv' /\ Writing /\ Linked /\ Next /\ listed /\ listed' /\ ~failed /\ ~failed'

\* What pends after a step of one copy pended before, or is what pends there.
LEMMA PendingBack ==
  ASSUME NEW e, NEW r \in Replica, NEW st, NEW doc, NEW peers, NEW pending, CopyMoves(r, st, doc, peers, pending),
         Pending(e)'
  PROVE  Pending(e) \/ e \in pending
  <1>1. PICK q \in Replica : e \in copy'[q].pending
    BY DEF Pending
  <1>2. q = r \/ e \in copy[q].pending
    BY <1>1 DEF CopyMoves
  <1> QED
    BY <1>1, <1>2 DEF CopyMoves, Pending

\* Saves that go on as a copy is released carry nothing new.
LEMMA OrphanedBack ==
  ASSUME Shaped, NEW r, NEW e, NEW g \in Orphaned(r), e \in g.batch
  PROVE  Flying(e)
  <1>1. PICK f \in flights : g = Afterwards(f, r)
    BY OrphanedMeans DEF Shaped
  <1>2. SameSave(g, f)
    BY <1>1, AfterwardsMeans DEF Shaped
  <1> QED
    BY <1>1, <1>2 DEF SameSave, Flying

\* Browsers that come, type and go put nothing on its way to storage.
LEMMA EditorBack ==
  ASSUME StorageInv, NEW c \in Editor,
         (\E r \in Replica : Join(c, r)) \/ (\E f \in Typing : Type(c, f)) \/ Leave(c) \/ Hello(c), NEW e, Safe(e)'
  PROVE  Safe(e)
  <1>0. Shaped /\ Away
    BY DEF StorageInv, Placed
  <1>1. UNCHANGED <<rows, snapshot, flights, loose>>
    BY DEF Join, Type, Leave, Hello, hub, store
  <1>2. Stored' = Stored /\ (Flying(e)' => Flying(e)) /\ (Loose(e)' => Loose(e))
    BY <1>1 DEF Stored, Flying, Loose
  <1>3. ASSUME Pending(e)' PROVE Pending(e)
    <2>1. ASSUME NEW r \in Replica, Join(c, r) PROVE Pending(e)
      <3>1. Pending(e) \/ e \in copy[r].pending
        BY <1>0, <1>3, <2>1, JoinCopy, PendingBack
      <3> QED
        BY <3>1 DEF Pending
    <2>2. ASSUME NEW f \in Typing, Type(c, f) PROVE Pending(e)
      BY <1>3, <2>2 DEF Type, hub, Pending
    <2>3. CASE Leave(c)
      <3>1. at[c] \in Replica /\ (Pending(e) \/ e \in copy[at[c]].pending)
        BY <1>0, <1>3, <2>3, LeaveCopy, PendingBack
      <3> QED
        BY <3>1 DEF Pending
    <2>4. CASE Hello(c)
      <3>1. at[c] \in Replica /\ (Pending(e) \/ e \in copy[at[c]].pending)
        BY <1>0, <1>3, <2>4, HelloCopy, PendingBack
      <3> QED
        BY <3>1 DEF Pending
    <2> QED
      BY <2>1, <2>2, <2>3, <2>4
  <1> QED
    BY <1>2, <1>3 DEF Safe

\* A copy puts there what it receives.
LEMMA ReceiveBack ==
  ASSUME StorageInv, NEW c \in Editor, NEW f \in Edits, Receive(c, f), NEW e, Safe(e)'
  PROVE  Safe(e) \/ e = f
  <1>0. Shaped /\ Away
    BY DEF StorageInv, Placed
  <1>1. UNCHANGED <<rows, snapshot, flights, loose>>
    BY DEF Receive, store
  <1>2. Stored' = Stored /\ (Flying(e)' => Flying(e)) /\ (Loose(e)' => Loose(e))
    BY <1>1 DEF Stored, Flying, Loose
  <1>3. Pending(e)' => at[c] \in Replica /\ (Pending(e) \/ e \in copy[at[c]].pending \cup ({f} \ copy[at[c]].doc))
    BY <1>0, ReceiveCopy, PendingBack
  <1>4. Pending(e)' => Pending(e) \/ e = f
    BY <1>3 DEF Pending
  <1> QED
    BY <1>2, <1>4 DEF Safe

\* Copies put nothing on its way to storage that was not.
LEMMA ReplicaBack ==
  ASSUME StorageInv, listed, NEW r \in Replica, ReplicaStep(r), ~failed', NEW e, Safe(e)'
  PROVE  Safe(e)
  <1>0. Shaped /\ CopiesHold /\ copy \in [Replica -> Copies] /\ Unlisted
    BY DEF StorageInv, Saving, Deleting, Shaped
  <1>a. UNCHANGED <<rows, snapshot, loose>>
    BY DEF ReplicaStep, Open, Load, LoadFails, Relay, CatchUp, Flush, Compact, DropAll, Crash, DeleteDrops,
           Forget, Begin, Fault, store, hub
  <1>b. (e \in Stored' => e \in Stored) /\ (Loose(e)' => Loose(e))
    BY <1>a DEF Stored, Loose
  <1>1. CASE Crash(r) \/ LoadFails(r)
    BY <1>1 DEF Crash, LoadFails, Fault
  <1>2. CASE Flush(r)
    <2>1. PICK g : g = Flight(r, copy[r].pending, "copy", Nowhere, 0)
      OBVIOUS
    <2>2. flights' = flights \cup {g} /\ g.batch = copy[r].pending
      BY <1>2, <2>1 DEF Flush, Flight
    <2>3. CopyMoves(r, "open", copy[r].doc, copy[r].peers, {})
      BY <1>0, <1>2, FlushCopy
    <2>4. Flying(e)' => Flying(e) \/ Pending(e)
      BY <2>2 DEF Flying, Pending
    <2>5. Pending(e)' => Pending(e)
      BY <2>3, PendingBack
    <2> QED
      BY <1>b, <2>4, <2>5 DEF Safe
  <1>3. CASE DropAll(r) \/ DeleteDrops(r)
    <2>1. /\ flights' = Orphaned(r) \cup Released(r)
          /\ copy' = [copy EXCEPT ![r] = NoCopy]
      BY <1>3 DEF DropAll, DeleteDrops
    <2>2. CopyMoves(r, "none", {}, {}, {})
      BY <1>0, <2>1, CopyGoes
    <2>3. Pending(e)' => Pending(e)
      BY <2>2, PendingBack
    <2>4. Flying(e)' => Flying(e) \/ Pending(e)
      <3> SUFFICES ASSUME NEW g \in flights', e \in g.batch PROVE Flying(e) \/ Pending(e)
        BY DEF Flying
      <3>1. CASE g \in Orphaned(r)
        BY <1>0, <3>1, OrphanedBack
      <3>2. CASE g \in Released(r)
        BY <1>0, <3>2, ReleasedMeans DEF Pending
      <3> QED
        BY <2>1, <3>1, <3>2
    <2> QED
      BY <1>b, <2>3, <2>4 DEF Safe
  <1>4. CASE Forget(r)
    BY <1>0, <1>4 DEF Forget, Unlisted
  <1>5. CASE Compact(r)
    <2>1. UNCHANGED <<copy, flights>>
      BY <1>5 DEF Compact, hub
    <2> QED
      BY <1>b, <2>1 DEF Safe, Pending, Flying
  <1>6. CASE \/ Open(r) \/ Load(r) \/ (\E u \in wire[r] : Relay(r, u)) \/ CatchUp(r)
             \/ \E u \in Upload, what \in {"uploaded", "finished"} : Begin(u, what, r)
    <2>1. flights' = flights
      BY <1>6 DEF Open, Load, Relay, CatchUp, Begin
    <2>2. Flying(e)' => Flying(e)
      BY <2>1 DEF Flying
    <2>3. ASSUME Pending(e)' PROVE Pending(e)
      <3>1. CASE Open(r) \/ \E u \in Upload, what \in {"uploaded", "finished"} : Begin(u, what, r)
        <4>1. copy' = [copy EXCEPT ![r] = Opened(r)]
          BY <3>1 DEF Open, Begin
        <4>2. Pending(e) \/ e \in IF copy[r].st = "none" THEN {} ELSE copy[r].pending
          BY <1>0, <2>3, <4>1, OpenedCopy, PendingBack
        <4> QED
          BY <4>2 DEF Pending
      <3>2. CASE Load(r)
        BY <1>0, <2>3, <3>2, LoadCopy, PendingBack DEF Pending
      <3>4. CASE \E u \in wire[r] : Relay(r, u)
        BY <1>0, <2>3, <3>4, RelayCopy, PendingBack DEF Pending
      <3>5. CASE CatchUp(r)
        BY <1>0, <2>3, <3>5, CatchUpCopy, PendingBack DEF Pending
      <3> QED
        BY <1>6, <3>1, <3>2, <3>4, <3>5
    <2> QED
      BY <1>b, <2>2, <2>3 DEF Safe
  <1> QED
    BY <1>1, <1>2, <1>3, <1>4, <1>5, <1>6 DEF ReplicaStep

\* Nor do the saves that commit, or a compaction.
LEMMA StoreBack ==
  ASSUME StorageInv, Reading, listed', StoreStep, ~failed', NEW e, Safe(e)'
  PROVE  Safe(e)
  <1>0. Shaped /\ SeqsApart /\ copy \in [Replica -> Copies] /\ Unlisted /\ flights \subseteq Flights
    BY DEF StorageInv, Saving, Shaped, Deleting
  <1>1. ASSUME NEW f \in flights, Append(f) PROVE Safe(e)
    <2>1. e \in Stored' => e \in Stored \/ Flying(e)
      <3>1. PICK row : row = [seq |-> f.seq, data |-> f.batch]
        OBVIOUS
      <3>2. rows' = rows \cup {row} /\ row.data = f.batch /\ snapshot' = snapshot
        BY <1>1, <3>1 DEF Append
      <3> QED
        BY <3>2 DEF Stored, Flying
    <2>2. Flying(e)' => Flying(e)
      <3> SUFFICES ASSUME NEW g \in flights', e \in g.batch PROVE Flying(e)
        BY DEF Flying
      <3>1. g \in flights \/ g \in Orphaned(f.at)
        BY <1>0, <1>1, AppendMeans
      <3> QED
        BY <1>0, <3>1, OrphanedBack DEF Flying
    <2>3. Pending(e)' => Pending(e)
      <3>1. f.at \in Replica
        BY <1>0, <1>1, AppendMeans
      <3>2. \/ CopyMoves(f.at, "none", {}, {}, {})
            \/ CopyMoves(f.at, copy[f.at].st, copy[f.at].doc, copy[f.at].peers, copy[f.at].pending)
        BY <1>0, <1>1, AppendMeans
      <3> QED
        BY <3>1, <3>2, PendingBack DEF Pending
    <2>4. Loose(e)' => Loose(e)
      BY <1>1 DEF Append, Loose
    <2> QED
      BY <2>1, <2>2, <2>3, <2>4 DEF Safe
  <1>2. ASSUME NEW l \in loose, Retry(l) PROVE Safe(e)
    <2>1. PICK g : g = Flight(l.at, l.batch, l.of, Nowhere, l.tries)
      OBVIOUS
    <2>2. /\ flights' = flights \cup {g} /\ g.batch = l.batch /\ loose' = loose \ {l} /\ copy' = copy
          /\ rows' = rows /\ snapshot' = snapshot
      BY <1>2, <2>1 DEF Retry, Flight
    <2>3. (Flying(e)' => Flying(e) \/ Loose(e)) /\ (Loose(e)' => Loose(e)) /\ (Pending(e)' => Pending(e))
      BY <2>2 DEF Flying, Loose, Pending
    <2> QED
      BY <2>2, <2>3 DEF Safe, Stored
  <1>3. CASE CompactCommits
    <2>1. /\ UNCHANGED <<copy, flights, loose>> /\ rows' \subseteq rows
          /\ snapshot' = snapshot \cup UNION {row.data : row \in compacting.rows}
      BY <1>3 DEF CompactCommits, hub
    <2>2. e \in Stored' => e \in Stored
      BY <2>1 DEF Stored, Reading
    <2> QED
      BY <2>1, <2>2 DEF Safe, Pending, Flying, Loose
  <1>4. CASE DeleteRow \/ DeleteContent
    BY <1>0, <1>4 DEF DeleteRow, DeleteContent, Unlisted
  <1>5. CASE (\E f \in flights : AppendFails(f)) \/ CompactFails
    BY <1>5 DEF AppendFails, CompactFails, Fault
  <1> QED
    BY <1>1, <1>2, <1>3, <1>4, <1>5 DEF StoreStep

\* The writer puts its edit there.
LEMMA WriteBack ==
  ASSUME StorageInv, NEW k \in Call, Write(k), NEW e, Safe(e)'
  PROVE  Safe(e) \/ e \in NewIn(k)
  <1>0. Shaped /\ Begun /\ call[k].at \in Replica
    BY WriteMeans DEF StorageInv, Placed
  <1>1. PICK r \in Replica : r = call[k].at
    BY <1>0
  <1>2. UNCHANGED <<rows, snapshot, loose>>
    BY DEF Write
  <1>3. PICK h : h = Flight(r, PendingIn(k), "copy", k, 0)
    OBVIOUS
  <1>4. h.batch = copy[r].pending \cup NewIn(k)
    BY <1>1, <1>3 DEF Flight, PendingIn
  <1>5. flights' = Orphaned(r) \/ flights' = flights \/ flights' = flights \cup {h}
    BY <1>0, <1>1, <1>3, WriteMeans
  <1>6. Flying(e)' => Flying(e) \/ Pending(e) \/ e \in NewIn(k)
    <2> SUFFICES ASSUME NEW g \in flights', e \in g.batch PROVE Flying(e) \/ Pending(e) \/ e \in NewIn(k)
      BY DEF Flying
    <2>1. CASE g \in flights
      BY <2>1 DEF Flying
    <2>2. CASE g \in Orphaned(r)
      BY <1>0, <2>2, OrphanedBack
    <2>3. CASE g = h
      BY <1>4, <2>3 DEF Pending
    <2> QED
      BY <1>5, <2>1, <2>2, <2>3
  <1>7. Pending(e)' => Pending(e)
    <2>1. \E st, doc, peers : CopyMoves(r, st, doc, peers, {})
      BY <1>0, <1>1, WriteMeans
    <2> QED
      BY <2>1, PendingBack
  <1> QED
    BY <1>2, <1>6, <1>7 DEF Safe, Stored, Loose

\* What is stored or on its way stays so.
LEMMA SafeForth == ASSUME Calm, lost' = {}, NEW e, Safe(e) PROVE Safe(e)'
  <1>1. CASE e \in Stored
    BY <1>1, StepStored DEF Calm, Safe
  <1>2. CASE Pending(e) \/ Flying(e) \/ Loose(e)
    BY <1>2, EditorSafe, ReplicaSafe, StoreSafe, WriteSafe DEF Calm, Next
  <1> QED
    BY <1>1, <1>2 DEF Safe

\* A compaction holds rows that are there; nothing is lost.
LEMMA StepReading == Calm => Reading'
  <1> SUFFICES ASSUME Calm PROVE Reading'
    OBVIOUS
  <1>0. Reading /\ Shaped /\ Unlisted
    BY DEF Calm, Linked, StorageInv, Deleting
  <1>1. ASSUME NEW c \in Editor, EditorStep(c) PROVE UNCHANGED <<rows, compacting, lost>>
    BY <1>1 DEF EditorStep, Join, Type, Leave, Hello, Receive, store
  <1>2. ASSUME NEW r \in Replica, ReplicaStep(r)
        PROVE  rows' = rows /\ lost' = lost /\ (compacting' = compacting \/ compacting'.rows = rows)
    <2>1. CASE Compact(r)
      BY <2>1 DEF Compact
    <2>2. CASE Crash(r) \/ LoadFails(r)
      BY <2>2 DEF Crash, LoadFails, Fault, Calm
    <2>3. CASE \/ Open(r) \/ Load(r) \/ (\E u \in wire[r] : Relay(r, u)) \/ CatchUp(r) \/ Flush(r) \/ DropAll(r)
               \/ DeleteDrops(r) \/ Forget(r)
               \/ \E u \in Upload, what \in {"uploaded", "finished"} : Begin(u, what, r)
      BY <2>3 DEF Open, Load, Relay, CatchUp, Flush, DropAll, DeleteDrops, Forget, Begin, store
    <2> QED
      BY <1>2, <2>1, <2>2, <2>3 DEF ReplicaStep
  <1>3. ASSUME StoreStep
        PROVE  lost' = lost /\ ((rows \subseteq rows' /\ compacting' = compacting) \/ compacting'.rows = {})
    <2>1. ASSUME NEW f \in flights, Append(f) PROVE rows \subseteq rows' /\ UNCHANGED <<compacting, lost>>
      BY <2>1 DEF Append
    <2>2. ASSUME NEW l \in loose, Retry(l) PROVE UNCHANGED <<rows, compacting, lost>>
      BY <2>2 DEF Retry
    <2>3. CASE CompactCommits
      BY <2>3 DEF CompactCommits
    <2>4. CASE (\E f \in flights : AppendFails(f)) \/ CompactFails
      BY <2>4 DEF AppendFails, CompactFails, Fault, Calm
    <2>5. CASE DeleteRow \/ DeleteContent
      BY <1>0, <2>5 DEF DeleteRow, DeleteContent, Unlisted, Calm
    <2> QED
      BY <1>3, <2>1, <2>2, <2>3, <2>4, <2>5 DEF StoreStep
  <1>4. ASSUME NEW k \in Call, Write(k) PROVE UNCHANGED <<rows, compacting, lost>>
    BY <1>4 DEF Write
  <1> QED
    BY <1>0, <1>1, <1>2, <1>3, <1>4 DEF Reading, Calm, Next

\* A copy that a step leaves as it is, but for what is pending; one it lets go.
Rest(q) == /\ copy'[q].st = copy[q].st /\ copy'[q].doc = copy[q].doc /\ copy'[q].peers = copy[q].peers
           /\ copy'[q].catchUp = copy[q].catchUp /\ copy'[q].behind = copy[q].behind
Gone(q) == copy[q].peers = {} /\ copy'[q].peers = {} /\ copy'[q].doc = {} /\ copy'[q].st # "open"

\* A copy that rests: it gets what is newly on its way.
LEMMA ExchangeStays ==
  ASSUME Calm, NEW q \in Replica, Rest(q), ExchangeAt(q), lost' = {},
         wire[q] \subseteq wire'[q], \A u \in wire'[q] : u \in wire[q] \/ Safe(u.edit)',
         q \in leaving => q \in leaving', Subscribed(q)' => Subscribed(q),
         \A c \in copy[q].peers : /\ mine[c] \subseteq mine'[c]
                                  /\ mine[c] \subseteq up[c] \cup copy[q].doc
                                       => mine'[c] \subseteq up'[c] \cup copy[q].doc,
         copy[q].st = "open" /\ q \notin leaving => \A e \in Edits : Safe(e)' => Safe(e) \/ Coming(q, e)'
  PROVE  ExchangeAt(q)'
  <1>1. CopySafe(q)'
    <2> SUFFICES ASSUME NEW e \in Edits, e \in copy'[q].doc \/ OnWire(q, e)' PROVE Safe(e)'
      BY DEF CopySafe
    <2>1. CASE e \in copy[q].doc \/ OnWire(q, e)
      BY <2>1, SafeForth DEF ExchangeAt, CopySafe
    <2>2. CASE \E u \in wire'[q] : u \notin wire[q] /\ u.edit = e
      BY <2>2
    <2> QED
      BY <2>1, <2>2 DEF Rest, OnWire
  <1>2. CopyGets(q)'
    <2> SUFFICES ASSUME copy'[q].st = "open", q \notin leaving', NEW e \in Edits, Safe(e)'
                 PROVE  e \in copy'[q].doc \/ Coming(q, e)'
      BY DEF CopyGets
    <2>1. copy[q].st = "open" /\ q \notin leaving
      BY DEF Rest
    <2>2. CASE Coming(q, e)'
      BY <2>2
    <2>3. CASE Safe(e)
      <3>1. e \in copy[q].doc \/ Coming(q, e)
        BY <2>1, <2>3 DEF ExchangeAt, CopyGets
      <3>2. OnWire(q, e) => OnWire(q, e)'
        BY DEF OnWire
      <3>3. e \in Stored => e \in Stored'
        BY StepStored DEF Calm
      <3> QED
        BY <3>1, <3>2, <3>3 DEF Coming, Rest
    <2> QED
      BY <2>1, <2>2, <2>3
  <1>3. PeerGets(q)' /\ PeerSends(q)'
    BY DEF ExchangeAt, PeerGets, PeerSends, Rest
  <1> QED
    BY <1>1, <1>2, <1>3 DEF ExchangeAt

\* A copy that is let go.
LEMMA ExchangeGone ==
  ASSUME Calm, NEW q \in Replica, Gone(q), ExchangeAt(q), lost' = {}, wire'[q] \subseteq wire[q]
  PROVE  ExchangeAt(q)'
  <1>1. CopySafe(q)'
    <2> SUFFICES ASSUME NEW e \in Edits, e \in copy'[q].doc \/ OnWire(q, e)' PROVE Safe(e)'
      BY DEF CopySafe
    <2>1. OnWire(q, e)
      BY DEF Gone, OnWire
    <2> QED
      BY <2>1, SafeForth DEF ExchangeAt, CopySafe
  <1> QED
    BY <1>1 DEF ExchangeAt, CopyGets, PeerGets, PeerSends, Gone

\* What holds of where browsers and copies are, and of what they exchange.
Together == Inside /\ Own /\ (deleting.st = "no" => Synced /\ Exchange)

\* Steps that leave every copy as it is, or let it go.
LEMMA CopiesRest ==
  ASSUME Calm, lost' = {}, UNCHANGED <<wire, at, phase, mine, up>>, deleting'.st = "no" => deleting.st = "no",
         \A q \in Replica : Gone(q) \/ (Rest(q) /\ (q \in leaving => q \in leaving')),
         leaving' \subseteq leaving, \A e : Safe(e)' => Safe(e)
  PROVE  Together'
  <1>0. Inside /\ Own /\ (deleting.st = "no" => Synced /\ Exchange)
    BY DEF Calm, Linked
  <1>1. Own'
    BY <1>0 DEF Own
  <1>2. \A q : Subscribed(q)' <=> Subscribed(q)
    BY DEF Subscribed
  <1>3. Inside'
    <2>1. \A q \in Replica : copy'[q].peers # {} => copy'[q].st = "open"
      BY <1>0 DEF Inside, Rest, Gone
    <2>2. \A q \in Replica : \A c \in copy'[q].peers : at'[c] = q
      BY <1>0 DEF Inside, Rest, Gone
    <2>3. \A q \in leaving' : ~Subscribed(q)'
      BY <1>0, <1>2 DEF Inside
    <2> QED
      BY <2>1, <2>2, <2>3 DEF Inside
  <1>4. ASSUME deleting'.st = "no" PROVE Synced' /\ Exchange'
    <2>0. Synced /\ Exchange
      BY <1>0, <1>4
    <2>1. ASSUME NEW c \in Editor, at'[c] # Nowhere PROVE phase'[c] = "in" \/ c \in copy'[at'[c]].peers
      <3>1. at[c] \in Replica /\ at'[c] = at[c]
        BY <2>1 DEF Calm, StorageInv, Shaped
      <3>2. phase[c] = "in" \/ c \in copy[at[c]].peers
        BY <2>0, <2>1 DEF Synced
      <3>3. c \in copy[at[c]].peers => c \in copy'[at[c]].peers
        BY <3>1 DEF Gone, Rest
      <3> QED
        BY <3>1, <3>2, <3>3
    <2>2. ASSUME NEW q \in Replica, copy'[q].st = "open", Alone(q)' PROVE copy'[q].catchUp
      <3>1. Rest(q) /\ Alone(q)
        BY <1>2, <2>2 DEF Alone, Gone
      <3> QED
        BY <2>0, <2>2, <3>1 DEF Rest, Synced
    <2>3. ASSUME NEW q \in Replica PROVE ExchangeAt(q)'
      <3>1. ExchangeAt(q)
        BY <2>0 DEF Exchange
      <3>2. CASE Gone(q)
        BY <3>1, <3>2, ExchangeGone
      <3>3. CASE Rest(q) /\ (q \in leaving => q \in leaving')
        BY <1>2, <3>1, <3>3, ExchangeStays
      <3> QED
        BY <3>2, <3>3
    <2> QED
      BY <2>1, <2>2, <2>3 DEF Synced, Exchange
  <1> QED
    BY <1>1, <1>3, <1>4 DEF Together

\* A copy that is no copy, or one that is as it was.
LEMMA OpenedRests ==
  ASSUME Calm, NEW r \in Replica, copy' = [copy EXCEPT ![r] = Opened(r)]
  PROVE  \A q \in Replica : Gone(q) \/ Rest(q)
  <1>0. copy \in [Replica -> Copies] /\ Inside
    BY DEF Calm, StorageInv, Shaped, Linked
  <1>1. CASE copy[r].st = "none"
    <2>1. CopyMoves(r, "loading", {}, {}, {}) /\ copy[r].peers = {}
      BY <1>0, <1>1, OpenedCopy DEF Inside
    <2> QED
      BY <2>1 DEF CopyMoves, Gone, Rest
  <1>2. CASE copy[r].st # "none"
    <2>1. copy' = copy
      BY <1>0, <1>2 DEF Opened
    <2> QED
      BY <2>1 DEF Rest
  <1> QED
    BY <1>1, <1>2

\* One that is dropped has no peers when nobody is connected.
LEMMA DroppedRests ==
  ASSUME Calm, NEW r \in Replica, copy' = [copy EXCEPT ![r] = NoCopy], copy[r].peers = {}
  PROVE  \A q \in Replica : IF q = r THEN Gone(q) ELSE Rest(q)
  <1>0. copy \in [Replica -> Copies]
    BY DEF Calm, StorageInv, Shaped
  <1>1. CopyMoves(r, "none", {}, {}, {})
    BY <1>0, CopyGoes
  <1> QED
    BY <1>1 DEF CopyMoves, Gone, Rest

\* Replicas' steps that leave what browsers and copies exchange.
LEMMA ReplicaTogether ==
  ASSUME Calm, lost' = {}, NEW r \in Replica,
         \/ Open(r) \/ Flush(r) \/ Compact(r) \/ DropAll(r)
         \/ \E u \in Upload, what \in {"uploaded", "finished"} : Begin(u, what, r)
  PROVE  Together'
  <1>0. copy \in [Replica -> Copies] /\ Inside /\ StorageInv /\ Shaped /\ listed /\ ~failed'
    BY DEF Calm, StorageInv, Shaped, Linked
  <1>1. UNCHANGED <<wire, at, phase, mine, up, deleting>>
    BY DEF Open, Flush, Compact, DropAll, Begin, browsers, hub
  <1>2. ReplicaStep(r)
    BY DEF ReplicaStep
  <1>3. \A e : Safe(e)' => Safe(e)
    BY <1>0, <1>2, ReplicaBack
  <1>4. CASE Open(r) \/ \E u \in Upload, what \in {"uploaded", "finished"} : Begin(u, what, r)
    <2>1. copy' = [copy EXCEPT ![r] = Opened(r)] /\ leaving' = leaving
      BY <1>4 DEF Open, Begin
    <2>2. \A q \in Replica : Gone(q) \/ Rest(q)
      BY <2>1, OpenedRests
    <2> QED
      BY <1>1, <1>3, <2>1, <2>2, CopiesRest
  <1>5. CASE Flush(r)
    <2>1. CopyMoves(r, "open", copy[r].doc, copy[r].peers, {}) /\ Reload(r, copy[r].catchUp, copy[r].behind)
      BY <1>0, <1>5, FlushCopy
    <2>2. leaving' = leaving /\ copy[r].st = "open"
      BY <1>5 DEF Flush
    <2>3. \A q \in Replica : Rest(q)
      BY <2>1, <2>2 DEF CopyMoves, Reload, Rest
    <2> QED
      BY <1>1, <1>3, <2>2, <2>3, CopiesRest
  <1>6. CASE Compact(r)
    <2>1. copy' = copy /\ leaving' = leaving
      BY <1>6 DEF Compact, hub
    <2>2. \A q \in Replica : Rest(q)
      BY <2>1 DEF Rest
    <2> QED
      BY <1>1, <1>3, <2>1, <2>2, CopiesRest
  <1>7. CASE DropAll(r)
    <2>1. copy' = [copy EXCEPT ![r] = NoCopy] /\ leaving' = leaving \ {r} /\ r \in leaving
      BY <1>7 DEF DropAll
    <2>2. copy[r].peers = {}
      BY <1>0, <2>1 DEF Inside, Subscribed, Shaped, Copies
    <2>3. \A q \in Replica : IF q = r THEN Gone(q) ELSE Rest(q)
      BY <2>1, <2>2, DroppedRests
    <2> QED
      BY <1>1, <1>3, <2>1, <2>3, CopiesRest
  <1> QED
    BY <1>4, <1>5, <1>6, <1>7

\* Commits of saves and of compactions.
LEMMA StoreTogether ==
  ASSUME Calm, lost' = {}, StoreStep
  PROVE  Together'
  <1>0. /\ copy \in [Replica -> Copies] /\ Inside /\ Reading /\ StorageInv /\ Shaped /\ listed /\ listed' /\ ~failed'
        /\ Unlisted /\ loose = {}
    BY DEF Calm, StorageInv, Shaped, Linked, Deleting, Told
  <1>1. \A e : Safe(e)' => Safe(e)
    BY <1>0, StoreBack
  <1>2. ASSUME NEW f \in flights, Append(f) PROVE Together'
    <2>1. f.at \in Replica /\ UNCHANGED <<wire, leaving, at, phase, mine, up, deleting>>
      BY <1>0, <1>2, AppendMeans DEF browsers
    <2>2. \A q \in Replica : Gone(q) \/ Rest(q)
      <3>1. CASE AppendDrops(f)
        <4>1. copy' = [copy EXCEPT ![f.at] = NoCopy]
          BY <1>2, <3>1 DEF Append, AppendDrops
        <4>2. copy[f.at].peers = {}
          BY <3>1 DEF AppendDrops, Kept
        <4> QED
          BY <2>1, <4>1, <4>2, DroppedRests
      <3>2. CASE ~AppendDrops(f)
        <4>1. copy' = copy
          BY <1>2, <3>2 DEF Append, AppendDrops
        <4> QED
          BY <4>1 DEF Rest
      <3> QED
        BY <3>1, <3>2
    <2> QED
      BY <1>1, <2>1, <2>2, CopiesRest
  <1>3. CASE CompactCommits
    <2>1. UNCHANGED <<copy, wire, leaving, at, phase, mine, up, deleting>>
      BY <1>3 DEF CompactCommits, hub, browsers
    <2>2. \A q \in Replica : Rest(q)
      BY <2>1 DEF Rest
    <2> QED
      BY <1>1, <2>1, <2>2, CopiesRest
  <1>4. CASE DeleteRow \/ DeleteContent \/ (\E l \in loose : Retry(l))
    BY <1>0, <1>4 DEF DeleteRow, DeleteContent, Unlisted
  <1>5. CASE (\E f \in flights : AppendFails(f)) \/ CompactFails
    BY <1>0, <1>5 DEF AppendFails, CompactFails, Fault
  <1> QED
    BY <1>2, <1>3, <1>4, <1>5 DEF StoreStep

\* What is safe is stored or unsaved.
LEMMA SafeMeans == ASSUME NEW e, Safe(e) PROVE e \in Stored \cup Unsaved
  BY DEF Safe, Pending, Flying, Loose, Unsaved

\* What the step starts from.
LEMMA CalmMeans ==
  ASSUME Calm
  PROVE  /\ Shaped /\ Placed /\ StorageInv /\ Inside /\ Own /\ Needed /\ listed /\ ~failed /\ ~failed'
         /\ copy \in [Replica -> Copies] /\ mine \in [Editor -> SUBSET Edits] /\ up \in [Editor -> SUBSET Edits]
         /\ at \in [Editor -> Replica \cup {Nowhere}] /\ Nowhere \notin Replica /\ Away
         /\ phase \in [Editor -> {"off", "in", "unanswered", "synced", "over"}]
         /\ wire \in [Replica -> SUBSET [edit : Edits, from : Editor \cup {Nowhere}]]
         /\ deleting.st = "no" => Synced /\ Exchange
  BY DocAssumption DEF Calm, Linked, StorageInv, Shaped, Placed

\* Joining: what the copy misses by then, its reload gets.
LEMMA JoinTogether ==
  ASSUME Calm, lost' = {}, NEW c \in Editor, NEW r \in Replica, Join(c, r)
  PROVE  Together'
  <1>0. /\ Shaped /\ StorageInv /\ Inside /\ Own /\ copy \in [Replica -> Copies]
        /\ at \in [Editor -> Replica \cup {Nowhere}] /\ Nowhere \notin Replica
        /\ phase \in [Editor -> {"off", "in", "unanswered", "synced", "over"}]
        /\ deleting.st = "no" => Synced /\ Exchange
    BY CalmMeans
  <1>1. /\ at[c] = Nowhere /\ (Subscribed(r) \/ r \notin leaving)
        /\ at' = [at EXCEPT ![c] = r] /\ phase' = [phase EXCEPT ![c] = "in"]
        /\ UNCHANGED <<wire, leaving, deleting, mine, up, rows, snapshot>>
    BY DEF Join, store
  <1>2. /\ CopyMoves(r, copy[r].st, copy[r].doc, copy[r].peers, copy[r].pending)
        /\ Reload(r, copy[r].catchUp, IF copy[r].catchUp /\ ~Subscribed(r) THEN Unsaved ELSE copy[r].behind)
    BY <1>0, JoinCopy
  <1>3. at'[c] = r /\ phase'[c] = "in" /\ \A d \in Editor : d # c => at'[d] = at[d] /\ phase'[d] = phase[d]
    BY <1>0, <1>1
  <1>4. (\A q \in Replica : q # r => (Subscribed(q)' <=> Subscribed(q))) /\ Subscribed(r)'
    BY <1>0, <1>1, <1>3 DEF Subscribed
  <1>5. \A e : Safe(e)' => Safe(e)
    BY <1>0, EditorBack
  <1>6. \A q \in Replica : /\ copy'[q].peers = copy[q].peers
                           /\ copy'[q].st = copy[q].st
                           /\ copy'[q].catchUp = copy[q].catchUp
    BY <1>2 DEF CopyMoves, Reload
  <1>7. Own'
    BY <1>0, <1>1 DEF Own
  <1>8. Inside'
    <2>1. \A q \in Replica : c \notin copy[q].peers
      BY <1>0, <1>1 DEF Inside
    <2>2. \A q \in Replica : \A d \in copy'[q].peers : at'[d] = q
      BY <1>0, <1>3, <1>6, <2>1 DEF Inside, Copies
    <2>3. \A q \in leaving' : ~Subscribed(q)'
      BY <1>0, <1>1, <1>4 DEF Inside, Shaped
    <2> QED
      BY <1>0, <1>6, <2>2, <2>3 DEF Inside
  <1>9. ASSUME deleting'.st = "no" PROVE Synced' /\ Exchange'
    <2>0. Synced /\ Exchange
      BY <1>0, <1>1, <1>9
    <2>1. Synced'
      <3>1. ASSUME NEW d \in Editor, at'[d] # Nowhere PROVE phase'[d] = "in" \/ d \in copy'[at'[d]].peers
        <4>1. CASE d = c
          BY <1>3, <4>1
        <4>2. CASE d # c
          <5>1. at'[d] = at[d] /\ phase'[d] = phase[d] /\ at[d] \in Replica
            BY <1>0, <1>3, <3>1, <4>2
          <5> QED
            BY <1>6, <2>0, <3>1, <5>1 DEF Synced
        <4> QED
          BY <4>1, <4>2
      <3>2. ASSUME NEW q \in Replica, copy'[q].st = "open", Alone(q)' PROVE copy'[q].catchUp
        BY <1>1, <1>4, <1>6, <2>0, <3>2 DEF Synced, Alone
      <3> QED
        BY <3>1, <3>2 DEF Synced
    <2>2. ASSUME NEW q \in Replica, q # r \/ Subscribed(r) PROVE ExchangeAt(q)'
      <3>1. Rest(q)
        BY <1>2, <2>2 DEF CopyMoves, Reload, Rest
      <3>2. Subscribed(q)' => Subscribed(q)
        BY <1>4, <2>2
      <3> QED
        BY <1>1, <1>5, <2>0, <3>1, <3>2, ExchangeStays DEF Exchange
    <2>3. ASSUME ~Subscribed(r) PROVE ExchangeAt(r)'
      <3>1. ExchangeAt(r) /\ r \notin leaving
        BY <1>1, <2>0, <2>3 DEF Exchange
      <3>2. copy'[r].peers = {} /\ copy'[r].doc = copy[r].doc
        <4>1. \A d \in copy[r].peers : d \in Editor /\ at[d] = r
          BY <1>0 DEF Inside, Copies
        <4> QED
          BY <1>2, <2>3, <4>1 DEF CopyMoves, Subscribed
      <3>3. CopySafe(r)'
        BY <1>1, <3>1, <3>2, SafeForth DEF ExchangeAt, CopySafe, OnWire
      <3>4. CopyGets(r)'
        <4> SUFFICES ASSUME copy'[r].st = "open", NEW e \in Edits, Safe(e)' PROVE Coming(r, e)'
          BY DEF CopyGets
        <4>1. copy[r].catchUp
          BY <1>6, <2>0, <2>3, <3>1 DEF Synced, Alone
        <4>2. e \in Stored \/ e \in Unsaved
          BY <1>5, SafeMeans
        <4>3. copy'[r].catchUp /\ copy'[r].behind = Unsaved
          BY <1>2, <2>3, <4>1 DEF Reload
        <4>4. Stored' = Stored
          BY <1>1 DEF Stored
        <4> QED
          BY <4>2, <4>3, <4>4 DEF Coming
      <3> QED
        BY <3>2, <3>3, <3>4 DEF ExchangeAt, PeerGets, PeerSends
    <2> QED
      BY <2>1, <2>2, <2>3 DEF Exchange
  <1> QED
    BY <1>7, <1>8, <1>9 DEF Together

\* Typing: what a connected browser types is on its way to its copy.
LEMMA TypeTogether ==
  ASSUME Calm, lost' = {}, NEW c \in Editor, NEW f \in Typing, Type(c, f)
  PROVE  Together'
  <1>0. /\ StorageInv /\ Inside /\ Own /\ copy \in [Replica -> Copies]
        /\ mine \in [Editor -> SUBSET Edits] /\ up \in [Editor -> SUBSET Edits]
        /\ wire \in [Replica -> SUBSET [edit : Edits, from : Editor \cup {Nowhere}]] /\ Nowhere \notin Replica
        /\ deleting.st = "no" => Synced /\ Exchange
    BY CalmMeans
  <1>1. /\ mine' = [mine EXCEPT ![c] = @ \cup {f}]
        /\ up' = IF at[c] # Nowhere THEN [up EXCEPT ![c] = @ \cup {f}] ELSE up
        /\ UNCHANGED <<copy, wire, leaving, deleting, at, phase>>
    BY DEF Type, hub
  <1>2. /\ mine'[c] = mine[c] \cup {f} /\ up'[c] \subseteq up[c] \cup {f} /\ up[c] \subseteq up'[c]
        /\ at[c] # Nowhere => up'[c] = up[c] \cup {f}
        /\ \A d \in Editor : d # c => mine'[d] = mine[d] /\ up'[d] = up[d]
    BY <1>0, <1>1
  <1>3. \A e : Safe(e)' => Safe(e)
    BY <1>0, EditorBack
  <1>4. Own'
    <2>1. \A d \in Editor : up'[d] \subseteq mine'[d] /\ mine[d] \subseteq mine'[d]
      BY <1>0, <1>2 DEF Own
    <2> QED
      BY <1>0, <1>1, <2>1 DEF Own
  <1>5. Inside' /\ \A q : Subscribed(q)' <=> Subscribed(q)
    BY <1>0, <1>1 DEF Inside, Subscribed
  <1>6. ASSUME deleting'.st = "no" PROVE Synced' /\ Exchange'
    <2>0. Synced /\ Exchange
      BY <1>0, <1>1, <1>6
    <2>1. Synced'
      BY <1>1, <1>5, <2>0 DEF Synced, Alone
    <2>2. ASSUME NEW q \in Replica PROVE ExchangeAt(q)'
      <3>1. Rest(q) /\ ExchangeAt(q)
        BY <1>1, <2>0 DEF Rest, Exchange
      <3>2. ASSUME NEW d \in copy[q].peers
            PROVE  /\ mine[d] \subseteq mine'[d]
                   /\ mine[d] \subseteq up[d] \cup copy[q].doc => mine'[d] \subseteq up'[d] \cup copy[q].doc
        <4>1. d \in Editor /\ at[d] # Nowhere
          BY <1>0 DEF Inside, Copies
        <4> QED
          BY <1>2, <4>1
      <3> QED
        BY <1>1, <1>3, <1>5, <3>1, <3>2, ExchangeStays
    <2> QED
      BY <2>1, <2>2 DEF Exchange
  <1> QED
    BY <1>4, <1>5, <1>6 DEF Together

\* Leaving: the last one to leave takes what was on its way to the copy along.
LEMMA LeaveTogether ==
  ASSUME Calm, lost' = {}, NEW c \in Editor, Leave(c)
  PROVE  Together'
  <1>0. /\ Shaped /\ StorageInv /\ Inside /\ Own /\ copy \in [Replica -> Copies]
        /\ at \in [Editor -> Replica \cup {Nowhere}] /\ Nowhere \notin Replica
        /\ phase \in [Editor -> {"off", "in", "unanswered", "synced", "over"}]
        /\ up \in [Editor -> SUBSET Edits]
        /\ wire \in [Replica -> SUBSET [edit : Edits, from : Editor \cup {Nowhere}]]
        /\ deleting.st = "no" => Synced /\ Exchange
    BY CalmMeans
  <1>1. PICK r \in Replica : r = at[c]
    BY <1>0, LeaveCopy
  <1>2. PICK last \in BOOLEAN : last <=> \A d \in Editor \ {c} : at[d] # r
    OBVIOUS
  <1>3. /\ at' = [at EXCEPT ![c] = Nowhere] /\ phase' = [phase EXCEPT ![c] = "off"] /\ up' = [up EXCEPT ![c] = {}]
        /\ leaving' = (IF last THEN leaving \cup {r} ELSE leaving)
        /\ wire' = (IF last THEN [wire EXCEPT ![r] = {}] ELSE wire)
        /\ UNCHANGED <<deleting, mine>>
    BY <1>1, <1>2 DEF Leave
  <1>4. /\ CopyMoves(r, copy[r].st, copy[r].doc, copy[r].peers \ {c}, copy[r].pending)
        /\ Reload(r, copy[r].catchUp, copy[r].behind)
    BY <1>0, <1>1, LeaveCopy
  <1>5. /\ at'[c] = Nowhere /\ up'[c] = {}
        /\ \A d \in Editor : d # c => at'[d] = at[d] /\ phase'[d] = phase[d] /\ up'[d] = up[d]
    BY <1>0, <1>3
  <1>6. /\ \A q \in Replica : q # r => (Subscribed(q)' <=> Subscribed(q))
        /\ Subscribed(r)' <=> ~last
        /\ Subscribed(r)
    BY <1>0, <1>1, <1>2, <1>5 DEF Subscribed
  <1>7. \A e : Safe(e)' => Safe(e)
    BY <1>0, EditorBack
  <1>8. /\ \A q \in Replica : wire'[q] \subseteq wire[q]
        /\ \A q \in Replica : q # r => wire'[q] = wire[q]
        /\ wire'[r] = (IF last THEN {} ELSE wire[r])
    BY <1>0, <1>3
  <1>9. \A q \in Replica : \A d \in copy'[q].peers : d \in copy[q].peers /\ d # c /\ d \in Editor
    <2>1. \A q \in Replica : \A d \in copy[q].peers : at[d] = q /\ d \in Editor
      BY <1>0 DEF Inside, Copies
    <2> QED
      BY <1>1, <1>4, <2>1 DEF CopyMoves
  <1>10. \A q \in Replica : /\ copy'[q].st = copy[q].st /\ copy'[q].doc = copy[q].doc
                            /\ copy'[q].catchUp = copy[q].catchUp /\ copy'[q].behind = copy[q].behind
    BY <1>4 DEF CopyMoves, Reload
  <1>11. Own'
    <2>1. \A d \in Editor : up'[d] \subseteq mine'[d]
      BY <1>0, <1>3, <1>5 DEF Own
    <2> QED
      BY <1>0, <1>3, <1>8, <2>1 DEF Own
  <1>12. Inside'
    <2>1. \A q \in Replica : copy'[q].peers # {} => copy'[q].st = "open"
      BY <1>0, <1>9, <1>10 DEF Inside
    <2>2. \A q \in Replica : \A d \in copy'[q].peers : at'[d] = q
      BY <1>0, <1>5, <1>9 DEF Inside
    <2>3. \A q \in leaving' : ~Subscribed(q)'
      BY <1>0, <1>3, <1>6 DEF Inside, Shaped
    <2> QED
      BY <2>1, <2>2, <2>3 DEF Inside
  <1>13. ASSUME deleting'.st = "no" PROVE Synced' /\ Exchange'
    <2>0. Synced /\ Exchange
      BY <1>0, <1>3, <1>13
    <2>1. Synced'
      <3>1. ASSUME NEW d \in Editor, at'[d] # Nowhere PROVE phase'[d] = "in" \/ d \in copy'[at'[d]].peers
        <4>1. d # c /\ at'[d] = at[d] /\ phase'[d] = phase[d] /\ at[d] \in Replica
          BY <1>0, <1>5, <3>1
        <4>2. phase[d] = "in" \/ d \in copy[at[d]].peers
          BY <2>0, <3>1, <4>1 DEF Synced
        <4>3. d \in copy[at[d]].peers => d \in copy'[at[d]].peers
          BY <1>4, <4>1 DEF CopyMoves
        <4> QED
          BY <4>1, <4>2, <4>3
      <3>2. ASSUME NEW q \in Replica, copy'[q].st = "open", Alone(q)' PROVE copy'[q].catchUp
        <4>1. q # r /\ Alone(q)
          BY <1>3, <1>6, <3>2 DEF Alone
        <4> QED
          BY <1>10, <2>0, <3>2, <4>1 DEF Synced
      <3> QED
        BY <3>1, <3>2 DEF Synced
    <2>2. ASSUME NEW q \in Replica, q # r PROVE ExchangeAt(q)'
      <3>1. Rest(q)
        BY <1>4, <2>2 DEF CopyMoves, Rest
      <3>2. \A d \in copy[q].peers : up'[d] = up[d] /\ mine'[d] = mine[d]
        <4>1. \A d \in copy[q].peers : d \in Editor /\ d # c
          BY <1>0, <1>1, <2>2 DEF Inside, Copies
        <4> QED
          BY <1>3, <1>5, <4>1
      <3>3. Subscribed(q)' => Subscribed(q)
        BY <1>6, <2>2
      <3>4. wire'[q] = wire[q] /\ (q \in leaving => q \in leaving')
        BY <1>3, <1>8, <2>2
      <3> QED
        BY <1>7, <2>0, <3>1, <3>2, <3>3, <3>4, ExchangeStays DEF Exchange
    <2>3. ExchangeAt(r)'
      <3>1. ExchangeAt(r)
        BY <2>0 DEF Exchange
      <3>2. CopySafe(r)'
        BY <1>8, <1>10, <3>1, SafeForth DEF ExchangeAt, CopySafe, OnWire
      <3>3. CopyGets(r)'
        <4> SUFFICES ASSUME copy'[r].st = "open", r \notin leaving', NEW e \in Edits, Safe(e)'
                     PROVE  e \in copy'[r].doc \/ Coming(r, e)'
          BY DEF CopyGets
        <4>1. ~last /\ r \notin leaving
          BY <1>3
        <4>2. e \in copy[r].doc \/ Coming(r, e)
          BY <1>7, <1>10, <3>1, <4>1 DEF ExchangeAt, CopyGets
        <4>3. OnWire(r, e) => OnWire(r, e)'
          BY <1>8, <4>1 DEF OnWire
        <4>4. e \in Stored => e \in Stored'
          BY StepStored DEF Calm
        <4> QED
          BY <1>6, <1>10, <4>2, <4>3, <4>4 DEF Coming
      <3>4. last => copy'[r].peers = {}
        BY <1>0, <1>2, <1>9 DEF Inside
      <3>5. ~last => PeerGets(r)'
        BY <1>3, <1>8, <1>9, <1>10, <3>1 DEF ExchangeAt, PeerGets
      <3>6. PeerSends(r)'
        BY <1>3, <1>5, <1>9, <1>10, <3>1 DEF ExchangeAt, PeerSends
      <3> QED
        BY <3>2, <3>3, <3>4, <3>5, <3>6 DEF ExchangeAt, PeerGets
    <2> QED
      BY <2>1, <2>2, <2>3 DEF Exchange
  <1> QED
    BY <1>11, <1>12, <1>13 DEF Together

\* A load: what is not saved by its end is for the reload.
LEMMA LoadTogether ==
  ASSUME Calm, lost' = {}, NEW r \in Replica, Load(r)
  PROVE  Together'
  <1>0. /\ Shaped /\ StorageInv /\ Inside /\ Own /\ copy \in [Replica -> Copies] /\ listed /\ ~failed'
        /\ at \in [Editor -> Replica \cup {Nowhere}]
        /\ deleting.st = "no" => Synced /\ Exchange
    BY CalmMeans
  <1>1. /\ copy[r].st = "loading"
        /\ UNCHANGED <<wire, leaving, deleting, at, phase, mine, up, rows, snapshot>>
    BY DEF Load, store, browsers
  <1>2. CopyMoves(r, "open", copy[r].doc \cup Stored, copy[r].peers, copy[r].pending) /\ Reload(r, TRUE, Unsaved)
    BY <1>0, LoadCopy
  <1>3. \A e : Safe(e)' => Safe(e)
    BY <1>0, ReplicaBack DEF ReplicaStep
  <1>4. /\ \A q \in Replica : q # r => copy'[q] = copy[q]
        /\ copy[r].peers = {} /\ copy'[r].peers = {} /\ copy'[r].doc = copy[r].doc \cup Stored
        /\ copy'[r].catchUp = TRUE /\ copy'[r].behind = Unsaved
    BY <1>0, <1>1, <1>2 DEF CopyMoves, Reload, Inside
  <1>5. Stored' = Stored /\ \A q : Subscribed(q)' <=> Subscribed(q)
    BY <1>1 DEF Stored, Subscribed
  <1>6. Own'
    BY <1>0, <1>1 DEF Own
  <1>7. Inside'
    BY <1>0, <1>1, <1>4, <1>5 DEF Inside
  <1>8. ASSUME deleting'.st = "no" PROVE Synced' /\ Exchange'
    <2>0. Synced /\ Exchange
      BY <1>0, <1>1, <1>8
    <2>1. Synced'
      <3>1. ASSUME NEW d \in Editor, at'[d] # Nowhere PROVE phase'[d] = "in" \/ d \in copy'[at'[d]].peers
        <4>1. at'[d] = at[d] /\ phase'[d] = phase[d] /\ at[d] \in Replica
          BY <1>0, <1>1, <3>1
        <4>2. phase[d] = "in" \/ d \in copy[at[d]].peers
          BY <2>0, <3>1, <4>1 DEF Synced
        <4> QED
          BY <1>4, <4>1, <4>2
      <3>2. ASSUME NEW q \in Replica, copy'[q].st = "open", Alone(q)' PROVE copy'[q].catchUp
        BY <1>1, <1>4, <1>5, <2>0, <3>2 DEF Synced, Alone
      <3> QED
        BY <3>1, <3>2 DEF Synced
    <2>2. ASSUME NEW q \in Replica, q # r PROVE ExchangeAt(q)'
      <3>1. Rest(q)
        BY <1>4, <2>2 DEF Rest
      <3> QED
        BY <1>1, <1>3, <1>5, <2>0, <3>1, ExchangeStays DEF Exchange
    <2>3. ExchangeAt(r)'
      <3>1. ExchangeAt(r)
        BY <2>0 DEF Exchange
      <3>2. CopySafe(r)'
        <4> SUFFICES ASSUME NEW e \in Edits, e \in copy'[r].doc \/ OnWire(r, e)' PROVE Safe(e)'
          BY DEF CopySafe
        <4>1. CASE e \in Stored
          BY <1>5, <4>1 DEF Safe
        <4>2. CASE e \in copy[r].doc \/ OnWire(r, e)
          BY <3>1, <4>2, SafeForth DEF ExchangeAt, CopySafe
        <4> QED
          BY <1>1, <1>4, <4>1, <4>2 DEF OnWire
      <3>3. CopyGets(r)'
        <4> SUFFICES ASSUME NEW e \in Edits, Safe(e)' PROVE e \in copy'[r].doc \/ Coming(r, e)'
          BY DEF CopyGets
        <4>1. e \in Stored \/ e \in Unsaved
          BY <1>3, SafeMeans
        <4> QED
          BY <1>4, <4>1 DEF Coming
      <3> QED
        BY <1>4, <3>2, <3>3 DEF ExchangeAt, PeerGets, PeerSends
    <2> QED
      BY <2>1, <2>2, <2>3 DEF Exchange
  <1> QED
    BY <1>6, <1>7, <1>8 DEF Together

\* The handshake: each side gets what it lacks, or the other sends it.
LEMMA HelloTogether ==
  ASSUME Calm, lost' = {}, NEW c \in Editor, Hello(c)
  PROVE  Together'
  <1>0. /\ Shaped /\ Away /\ StorageInv /\ Inside /\ Own /\ copy \in [Replica -> Copies]
        /\ at \in [Editor -> Replica \cup {Nowhere}]
        /\ mine \in [Editor -> SUBSET Edits] /\ up \in [Editor -> SUBSET Edits]
        /\ phase \in [Editor -> {"off", "in", "unanswered", "synced", "over"}]
        /\ wire \in [Replica -> SUBSET [edit : Edits, from : Editor \cup {Nowhere}]]
        /\ deleting.st = "no" => Synced /\ Exchange
    BY CalmMeans
  <1>1. PICK r \in Replica : r = at[c]
    BY <1>0, HelloCopy
  <1>2. /\ copy[r].st = "open" /\ phase' = [phase EXCEPT ![c] = "synced"]
        /\ mine' = [mine EXCEPT ![c] = @ \cup copy[r].doc]
        /\ up' = [up EXCEPT ![c] = @ \cup (mine[c] \ copy[r].doc)]
        /\ UNCHANGED <<wire, leaving, deleting, at, rows, snapshot>>
    BY <1>1 DEF Hello, Lacked, store
  <1>3. /\ CopyMoves(r, "open", copy[r].doc, copy[r].peers \cup {c}, copy[r].pending)
        /\ Reload(r, copy[r].catchUp, copy[r].behind)
    BY <1>0, <1>1, HelloCopy
  <1>4. /\ mine'[c] = mine[c] \cup copy[r].doc /\ up'[c] = up[c] \cup (mine[c] \ copy[r].doc)
        /\ \A d \in Editor : d # c => mine'[d] = mine[d] /\ up'[d] = up[d] /\ phase'[d] = phase[d]
    BY <1>0, <1>2
  <1>5. \A e : Safe(e)' => Safe(e)
    BY <1>0, EditorBack
  <1>6. /\ \A q \in Replica : q # r => copy'[q] = copy[q]
        /\ copy'[r].st = "open" /\ copy'[r].doc = copy[r].doc /\ copy'[r].peers = copy[r].peers \cup {c}
        /\ copy'[r].catchUp = copy[r].catchUp /\ copy'[r].behind = copy[r].behind
    BY <1>3 DEF CopyMoves, Reload
  <1>7. Stored' = Stored /\ \A q : Subscribed(q)' <=> Subscribed(q)
    BY <1>2 DEF Stored, Subscribed
  <1>8. Own'
    <2>1. \A d \in Editor : up'[d] \subseteq mine'[d] /\ mine[d] \subseteq mine'[d]
      BY <1>0, <1>4 DEF Own
    <2> QED
      BY <1>0, <1>2, <2>1 DEF Own
  <1>9. Inside'
    <2>1. \A q \in Replica : copy'[q].peers # {} => copy'[q].st = "open"
      BY <1>0, <1>6 DEF Inside
    <2>2. \A q \in Replica : \A d \in copy'[q].peers : at'[d] = q
      BY <1>0, <1>1, <1>2, <1>6 DEF Inside
    <2>3. \A q \in leaving' : ~Subscribed(q)'
      BY <1>0, <1>2, <1>7 DEF Inside
    <2> QED
      BY <2>1, <2>2, <2>3 DEF Inside
  <1>10. ASSUME deleting'.st = "no" PROVE Synced' /\ Exchange'
    <2>0. Synced /\ Exchange
      BY <1>0, <1>2, <1>10
    <2>1. Synced'
      <3>1. ASSUME NEW d \in Editor, at'[d] # Nowhere PROVE phase'[d] = "in" \/ d \in copy'[at'[d]].peers
        <4>1. CASE d = c
          BY <1>1, <1>2, <1>6, <4>1
        <4>2. CASE d # c
          <5>1. at'[d] = at[d] /\ phase'[d] = phase[d] /\ at[d] \in Replica
            BY <1>0, <1>2, <1>4, <3>1, <4>2
          <5>2. phase[d] = "in" \/ d \in copy[at[d]].peers
            BY <2>0, <3>1, <5>1 DEF Synced
          <5> QED
            BY <1>6, <5>1, <5>2
        <4> QED
          BY <4>1, <4>2
      <3>2. ASSUME NEW q \in Replica, copy'[q].st = "open", Alone(q)' PROVE copy'[q].catchUp
        <4>1. copy[q].st = "open" /\ Alone(q)
          BY <1>2, <1>6, <1>7, <3>2 DEF Alone
        <4> QED
          BY <1>6, <2>0, <4>1 DEF Synced
      <3> QED
        BY <3>1, <3>2 DEF Synced
    <2>2. ASSUME NEW q \in Replica, q # r PROVE ExchangeAt(q)'
      <3>1. Rest(q)
        BY <1>6, <2>2 DEF Rest
      <3>2. \A d \in copy[q].peers : up'[d] = up[d] /\ mine'[d] = mine[d]
        <4>1. \A d \in copy[q].peers : d \in Editor /\ d # c
          BY <1>0, <1>1, <2>2 DEF Inside, Copies
        <4> QED
          BY <1>4, <4>1
      <3> QED
        BY <1>2, <1>5, <1>7, <2>0, <3>1, <3>2, ExchangeStays DEF Exchange
    <2>3. ExchangeAt(r)'
      <3>1. ExchangeAt(r)
        BY <2>0 DEF Exchange
      <3>2. CopySafe(r)'
        BY <1>2, <1>6, <3>1, SafeForth DEF ExchangeAt, CopySafe, OnWire
      <3>3. CopyGets(r)'
        <4> SUFFICES ASSUME r \notin leaving', NEW e \in Edits, Safe(e)' PROVE e \in copy'[r].doc \/ Coming(r, e)'
          BY DEF CopyGets
        <4>1. e \in copy[r].doc \/ Coming(r, e)
          BY <1>2, <1>5, <3>1 DEF ExchangeAt, CopyGets
        <4> QED
          BY <1>2, <1>6, <1>7, <4>1 DEF Coming, OnWire
      <3>4. \A d \in copy'[r].peers : d \in Editor /\ (d = c \/ d \in copy[r].peers)
        BY <1>0, <1>6 DEF Copies
      <3>5. PeerGets(r)'
        <4> SUFFICES ASSUME NEW d \in copy'[r].peers, NEW e \in copy'[r].doc
                     PROVE  e \in mine'[d] \/ \E u \in wire'[r] : u.edit = e /\ u.from # d
          BY DEF PeerGets
        <4>1. CASE d = c
          BY <1>4, <1>6, <4>1
        <4>2. CASE d # c
          <5>1. d \in copy[r].peers /\ mine'[d] = mine[d] /\ e \in copy[r].doc
            BY <1>4, <1>6, <3>4, <4>2
          <5> QED
            BY <1>2, <3>1, <5>1 DEF ExchangeAt, PeerGets
        <4> QED
          BY <4>1, <4>2
      <3>6. PeerSends(r)'
        <4> SUFFICES ASSUME NEW d \in copy'[r].peers PROVE mine'[d] \subseteq up'[d] \cup copy'[r].doc
          BY DEF PeerSends
        <4>1. CASE d = c
          BY <1>4, <1>6, <4>1
        <4>2. CASE d # c
          <5>1. d \in copy[r].peers /\ mine'[d] = mine[d] /\ up'[d] = up[d]
            BY <1>4, <3>4, <4>2
          <5> QED
            BY <1>6, <3>1, <5>1 DEF ExchangeAt, PeerSends
        <4> QED
          BY <4>1, <4>2
      <3> QED
        BY <3>2, <3>3, <3>5, <3>6 DEF ExchangeAt
    <2> QED
      BY <2>1, <2>2, <2>3 DEF Exchange
  <1> QED
    BY <1>8, <1>9, <1>10 DEF Together

\* What a replica publishes reaches those who are subscribed.
LEMMA PublishedMeans ==
  ASSUME NEW es, NEW from, NEW q \in Replica, wire' = Published(es, from)
  PROVE  /\ wire[q] \subseteq wire'[q]
         /\ \A u \in wire'[q] : u \in wire[q] \/ (u.edit \in es /\ u.from = from)
         /\ Subscribed(q) => \A e \in es : \E u \in wire'[q] : u.edit = e /\ u.from = from
  <1>1. PICK S : S = {[edit |-> e, from |-> from] : e \in es}
    OBVIOUS
  <1>2. wire'[q] = IF Subscribed(q) THEN wire[q] \cup S ELSE wire[q]
    BY <1>1 DEF Published
  <1>3. \A u \in S : u.edit \in es /\ u.from = from
    BY <1>1
  <1>4. \A e \in es : \E u \in S : u.edit = e /\ u.from = from
    <2> SUFFICES ASSUME NEW e \in es PROVE \E u \in S : u.edit = e /\ u.from = from
      OBVIOUS
    <2>1. PICK u : u = [edit |-> e, from |-> from]
      OBVIOUS
    <2>2. u \in S
      BY <1>1, <2>1
    <2> QED
      BY <2>1, <2>2
  <1> QED
    BY <1>2, <1>3, <1>4

\* A copy that was not there for a new edit gets it: it is subscribed and the
\* edit is published, or it will be reloaded.
LEMMA NewComes ==
  ASSUME Calm, Synced, NEW q \in Replica, Rest(q), copy[q].st = "open", q \notin leaving, at' = at,
         NEW e, NEW es, NEW from, e \in es, wire' = Published(es, from)
  PROVE  Coming(q, e)'
  <1>1. Subscribed(q)' <=> Subscribed(q)
    BY DEF Subscribed
  <1>2. CASE Subscribed(q)
    BY <1>2, PublishedMeans DEF Coming, OnWire
  <1>3. CASE ~Subscribed(q)
    <2>1. copy[q].catchUp
      BY <1>3 DEF Synced, Alone
    <2> QED
      BY <1>1, <1>3, <2>1 DEF Coming, Rest
  <1> QED
    BY <1>2, <1>3

\* A frame: what a copy receives new is pending there, and published.
LEMMA ReceiveTogether ==
  ASSUME Calm, lost' = {}, NEW c \in Editor, NEW f \in Edits, Receive(c, f)
  PROVE  Together'
  <1>0. /\ Shaped /\ Away /\ StorageInv /\ Inside /\ Own /\ copy \in [Replica -> Copies] /\ ~failed'
        /\ at \in [Editor -> Replica \cup {Nowhere}]
        /\ up \in [Editor -> SUBSET Edits]
        /\ deleting.st = "no" => Synced /\ Exchange
    BY CalmMeans
  <1>1. PICK r \in Replica : r = at[c]
    BY <1>0, ReceiveCopy
  <1>2. PICK new : new = {f} \ copy[r].doc
    OBVIOUS
  <1>3. /\ f \in up[c] /\ copy[r].st = "open" /\ up' = [up EXCEPT ![c] = @ \ {f}] /\ wire' = Published(new, c)
        /\ UNCHANGED <<leaving, deleting, at, phase, mine, rows, snapshot>>
    BY <1>0, <1>1, <1>2 DEF Receive, Fault, store
  <1>4. /\ CopyMoves(r, "open", copy[r].doc \cup {f}, copy[r].peers, copy[r].pending \cup new)
        /\ Reload(r, copy[r].catchUp, copy[r].behind)
    BY <1>0, <1>1, <1>2, ReceiveCopy
  <1>5. /\ up'[c] = up[c] \ {f} /\ f \in mine[c] /\ Subscribed(r)
        /\ \A d \in Editor : d # c => up'[d] = up[d]
    BY <1>0, <1>1, <1>3 DEF Own, Subscribed
  <1>6. \A e : Safe(e)' => Safe(e) \/ e = f
    BY <1>0, ReceiveBack
  <1>7. /\ \A q \in Replica : q # r => copy'[q] = copy[q]
        /\ copy'[r].st = "open" /\ copy'[r].doc = copy[r].doc \cup {f} /\ copy'[r].peers = copy[r].peers
        /\ copy'[r].catchUp = copy[r].catchUp /\ copy'[r].behind = copy[r].behind
        /\ new \subseteq copy'[r].pending
    BY <1>4 DEF CopyMoves, Reload
  <1>8. Stored' = Stored /\ \A q : Subscribed(q)' <=> Subscribed(q)
    BY <1>3 DEF Stored, Subscribed
  <1>9. \A q \in Replica : /\ wire[q] \subseteq wire'[q]
                           /\ \A u \in wire'[q] : u \in wire[q] \/ (u.edit \in new /\ u.from = c)
                           /\ Subscribed(q) => \A e \in new : \E u \in wire'[q] : u.edit = e /\ u.from = c
    BY <1>3, PublishedMeans
  <1>10. \A e \in new : Safe(e)'
    BY <1>7 DEF Safe, Pending
  <1>11. Own'
    <2>1. \A d \in Editor : up'[d] \subseteq mine'[d]
      BY <1>0, <1>3, <1>5 DEF Own
    <2>2. ASSUME NEW q \in Replica, NEW u \in wire'[q], u.from \in Editor PROVE u.edit \in mine'[u.from]
      <3>1. CASE u \in wire[q]
        BY <1>0, <1>3, <2>2, <3>1 DEF Own
      <3>2. CASE u.edit \in new /\ u.from = c
        BY <1>2, <1>3, <1>5, <3>2
      <3> QED
        BY <1>9, <3>1, <3>2
    <2> QED
      BY <2>1, <2>2 DEF Own
  <1>12. Inside'
    <2>1. \A q \in Replica : copy'[q].peers # {} => copy'[q].st = "open"
      BY <1>0, <1>7 DEF Inside
    <2>2. \A q \in Replica : \A d \in copy'[q].peers : at'[d] = q
      BY <1>0, <1>3, <1>7 DEF Inside
    <2>3. \A q \in leaving' : ~Subscribed(q)'
      BY <1>0, <1>3, <1>8 DEF Inside
    <2> QED
      BY <2>1, <2>2, <2>3 DEF Inside
  <1>13. ASSUME deleting'.st = "no" PROVE Synced' /\ Exchange'
    <2>0. Synced /\ Exchange
      BY <1>0, <1>3, <1>13
    <2>1. Synced'
      <3>1. ASSUME NEW d \in Editor, at'[d] # Nowhere PROVE phase'[d] = "in" \/ d \in copy'[at'[d]].peers
        <4>1. at'[d] = at[d] /\ phase'[d] = phase[d] /\ at[d] \in Replica
          BY <1>0, <1>3, <3>1
        <4>2. phase[d] = "in" \/ d \in copy[at[d]].peers
          BY <2>0, <3>1, <4>1 DEF Synced
        <4> QED
          BY <1>7, <4>1, <4>2
      <3>2. ASSUME NEW q \in Replica, copy'[q].st = "open", Alone(q)' PROVE copy'[q].catchUp
        <4>1. copy[q].st = "open" /\ Alone(q)
          BY <1>3, <1>7, <1>8, <3>2 DEF Alone
        <4> QED
          BY <1>7, <2>0, <4>1 DEF Synced
      <3> QED
        BY <3>1, <3>2 DEF Synced
    <2>2. ASSUME NEW q \in Replica, q # r PROVE ExchangeAt(q)'
      <3>1. Rest(q) /\ ExchangeAt(q) /\ ExchangeAt(r)
        BY <1>7, <2>0, <2>2 DEF Rest, Exchange
      <3>2. \A d \in copy[q].peers : up'[d] = up[d] /\ mine'[d] = mine[d]
        <4>1. \A d \in copy[q].peers : d \in Editor /\ d # c
          BY <1>0, <1>1, <2>2 DEF Inside, Copies
        <4> QED
          BY <1>3, <1>5, <4>1
      <3>3. ASSUME copy[q].st = "open", q \notin leaving, NEW e \in Edits, Safe(e)' PROVE Safe(e) \/ Coming(q, e)'
        <4>1. CASE e \in new
          BY <1>3, <2>0, <3>1, <3>3, <4>1, NewComes
        <4>2. CASE e = f /\ e \notin new
          <5>1. e \in copy[r].doc
            BY <1>2, <4>2
          <5> QED
            BY <3>1, <5>1 DEF ExchangeAt, CopySafe
        <4> QED
          BY <1>6, <3>3, <4>1, <4>2
      <3>4. \A u \in wire'[q] : u \in wire[q] \/ Safe(u.edit)'
        BY <1>9, <1>10
      <3> QED
        BY <1>3, <1>8, <1>9, <3>1, <3>2, <3>3, <3>4, ExchangeStays
    <2>3. ExchangeAt(r)'
      <3>1. ExchangeAt(r)
        BY <2>0 DEF Exchange
      <3>2. CopySafe(r)'
        <4> SUFFICES ASSUME NEW e \in Edits, e \in copy'[r].doc \/ OnWire(r, e)' PROVE Safe(e)'
          BY DEF CopySafe
        <4>1. CASE e \in copy[r].doc \/ OnWire(r, e)
          BY <3>1, <4>1, SafeForth DEF ExchangeAt, CopySafe
        <4>2. CASE e \in new
          BY <1>10, <4>2
        <4>3. e \in copy'[r].doc => e \in copy[r].doc \/ e \in new
          BY <1>2, <1>7
        <4>4. OnWire(r, e)' => OnWire(r, e) \/ e \in new
          BY <1>9 DEF OnWire
        <4> QED
          BY <4>1, <4>2, <4>3, <4>4
      <3>3. CopyGets(r)'
        <4> SUFFICES ASSUME r \notin leaving', NEW e \in Edits, Safe(e)' PROVE e \in copy'[r].doc \/ Coming(r, e)'
          BY DEF CopyGets
        <4>1. CASE Safe(e)
          <5>1. e \in copy[r].doc \/ Coming(r, e)
            BY <1>3, <3>1, <4>1 DEF ExchangeAt, CopyGets
          <5>2. OnWire(r, e) => OnWire(r, e)'
            BY <1>9 DEF OnWire
          <5> QED
            BY <1>7, <1>8, <5>1, <5>2 DEF Coming
        <4>2. CASE e = f
          BY <1>7, <4>2
        <4> QED
          BY <1>6, <4>1, <4>2
      <3>4. PeerGets(r)'
        <4> SUFFICES ASSUME NEW d \in copy'[r].peers, NEW e \in copy'[r].doc
                     PROVE  e \in mine'[d] \/ \E u \in wire'[r] : u.edit = e /\ u.from # d
          BY DEF PeerGets
        <4>1. CASE e \in copy[r].doc
          <5>1. e \in mine[d] \/ \E u \in wire[r] : u.edit = e /\ u.from # d
            BY <1>7, <3>1, <4>1 DEF ExchangeAt, PeerGets
          <5> QED
            BY <1>3, <1>9, <5>1
        <4>2. CASE e \in new /\ d = c
          BY <1>2, <1>3, <1>5, <4>2
        <4>3. CASE e \in new /\ d # c
          <5>1. \E u \in wire'[r] : u.edit = e /\ u.from = c
            BY <1>5, <1>9, <4>3
          <5> QED
            BY <4>3, <5>1
        <4> QED
          BY <1>2, <1>7, <4>1, <4>2, <4>3
      <3>5. PeerSends(r)'
        <4> SUFFICES ASSUME NEW d \in copy'[r].peers PROVE mine'[d] \subseteq up'[d] \cup copy'[r].doc
          BY DEF PeerSends
        <4>1. mine[d] \subseteq up[d] \cup copy[r].doc /\ d \in Editor
          BY <1>0, <1>7, <3>1 DEF ExchangeAt, PeerSends, Copies
        <4>2. up[d] \subseteq up'[d] \cup {f}
          BY <1>5, <4>1
        <4> QED
          BY <1>3, <1>7, <4>1, <4>2
      <3> QED
        BY <3>2, <3>3, <3>4, <3>5 DEF ExchangeAt
    <2> QED
      BY <2>1, <2>2, <2>3 DEF Exchange
  <1> QED
    BY <1>11, <1>12, <1>13 DEF Together

\* A relay: into the copy, and to its peers but the one who sent it.
LEMMA RelayTogether ==
  ASSUME Calm, lost' = {}, NEW r \in Replica, NEW u \in wire[r], Relay(r, u)
  PROVE  Together'
  <1>0. /\ Shaped /\ StorageInv /\ Inside /\ Own /\ copy \in [Replica -> Copies] /\ listed /\ ~failed'
        /\ at \in [Editor -> Replica \cup {Nowhere}] /\ mine \in [Editor -> SUBSET Edits]
        /\ wire \in [Replica -> SUBSET [edit : Edits, from : Editor \cup {Nowhere}]]
        /\ deleting.st = "no" => Synced /\ Exchange
    BY CalmMeans
  <1>1. /\ wire' = [wire EXCEPT ![r] = @ \ {u}]
        /\ mine' = [c \in Editor |-> IF c \in copy[r].peers \ {u.from} THEN mine[c] \cup {u.edit} ELSE mine[c]]
        /\ UNCHANGED <<leaving, deleting, at, phase, up, rows, snapshot>>
    BY DEF Relay, store
  <1>2. /\ CopyMoves(r, copy[r].st, IF copy[r].st = "none" THEN copy[r].doc ELSE copy[r].doc \cup {u.edit},
                     copy[r].peers, copy[r].pending)
        /\ Reload(r, copy[r].catchUp, copy[r].behind) /\ u.edit \in Edits
    BY <1>0, RelayCopy
  <1>3. /\ \A q \in Replica : q # r => copy'[q] = copy[q]
        /\ \A q \in Replica : copy'[q].st = copy[q].st /\ copy'[q].peers = copy[q].peers
        /\ copy'[r].doc = IF copy[r].st = "none" THEN copy[r].doc ELSE copy[r].doc \cup {u.edit}
        /\ \A q \in Replica : copy'[q].catchUp = copy[q].catchUp /\ copy'[q].behind = copy[q].behind
    BY <1>2 DEF CopyMoves, Reload
  <1>4. /\ wire'[r] = wire[r] \ {u} /\ \A q \in Replica : q # r => wire'[q] = wire[q]
        /\ \A d \in Editor : mine[d] \subseteq mine'[d] /\ mine'[d] \subseteq mine[d] \cup {u.edit}
        /\ \A d \in Editor : d \notin copy[r].peers => mine'[d] = mine[d]
        /\ \A d \in copy[r].peers : d # u.from /\ d \in Editor => u.edit \in mine'[d]
    BY <1>0, <1>1
  <1>5. \A e : Safe(e)' => Safe(e)
    BY <1>0, ReplicaBack DEF ReplicaStep
  <1>6. Stored' = Stored /\ \A q : Subscribed(q)' <=> Subscribed(q)
    BY <1>1 DEF Stored, Subscribed
  <1>7. Own'
    <2>1. \A d \in Editor : up'[d] \subseteq mine'[d]
      BY <1>0, <1>1, <1>4 DEF Own
    <2>2. \A q \in Replica : wire'[q] \subseteq wire[q]
      BY <1>4
    <2> QED
      BY <1>0, <1>4, <2>1, <2>2 DEF Own
  <1>8. Inside'
    BY <1>0, <1>1, <1>3, <1>6 DEF Inside
  <1>9. ASSUME deleting'.st = "no" PROVE Synced' /\ Exchange'
    <2>0. Synced /\ Exchange
      BY <1>0, <1>1, <1>9
    <2>1. Synced'
      <3>1. ASSUME NEW d \in Editor, at'[d] # Nowhere PROVE phase'[d] = "in" \/ d \in copy'[at'[d]].peers
        <4>1. at'[d] = at[d] /\ phase'[d] = phase[d] /\ at[d] \in Replica
          BY <1>0, <1>1, <3>1
        <4>2. phase[d] = "in" \/ d \in copy[at[d]].peers
          BY <2>0, <3>1, <4>1 DEF Synced
        <4> QED
          BY <1>3, <4>1, <4>2
      <3>2. ASSUME NEW q \in Replica, copy'[q].st = "open", Alone(q)' PROVE copy'[q].catchUp
        BY <1>1, <1>3, <1>6, <2>0, <3>2 DEF Synced, Alone
      <3> QED
        BY <3>1, <3>2 DEF Synced
    <2>2. ASSUME NEW q \in Replica, q # r PROVE ExchangeAt(q)'
      <3>1. Rest(q)
        BY <1>3, <2>2 DEF Rest
      <3>2. \A d \in copy[q].peers : up'[d] = up[d] /\ mine'[d] = mine[d]
        <4>1. \A d \in copy[q].peers : d \in Editor /\ d \notin copy[r].peers
          BY <1>0, <2>2 DEF Inside, Copies
        <4> QED
          BY <1>1, <1>4, <4>1
      <3> QED
        BY <1>1, <1>4, <1>5, <1>6, <2>0, <2>2, <3>1, <3>2, ExchangeStays DEF Exchange
    <2>3. ExchangeAt(r)'
      <3>1. ExchangeAt(r)
        BY <2>0 DEF Exchange
      <3>2. CopySafe(r)'
        <4> SUFFICES ASSUME NEW e \in Edits, e \in copy'[r].doc \/ OnWire(r, e)' PROVE Safe(e)'
          BY DEF CopySafe
        <4>1. e \in copy[r].doc \/ OnWire(r, e)
          BY <1>3, <1>4 DEF OnWire
        <4> QED
          BY <3>1, <4>1, SafeForth DEF ExchangeAt, CopySafe
      <3>3. CopyGets(r)'
        <4> SUFFICES ASSUME copy'[r].st = "open", r \notin leaving', NEW e \in Edits, Safe(e)'
                     PROVE  e \in copy'[r].doc \/ Coming(r, e)'
          BY DEF CopyGets
        <4>1. copy[r].st = "open" /\ r \notin leaving /\ copy'[r].doc = copy[r].doc \cup {u.edit}
          BY <1>1, <1>3
        <4>2. e \in copy[r].doc \/ Coming(r, e)
          BY <1>5, <3>1, <4>1 DEF ExchangeAt, CopyGets
        <4>3. OnWire(r, e) => OnWire(r, e)' \/ e = u.edit
          BY <1>4 DEF OnWire
        <4> QED
          BY <1>3, <1>6, <4>1, <4>2, <4>3 DEF Coming
      <3>4. ASSUME NEW d \in copy'[r].peers
            PROVE  /\ d \in Editor /\ d \in copy[r].peers /\ copy'[r].doc = copy[r].doc \cup {u.edit}
                   /\ u.edit \in mine'[d]
        <4>1. d \in Editor /\ d \in copy[r].peers
          BY <1>0, <1>3 DEF Copies
        <4>2. copy[r].st = "open"
          BY <1>0, <4>1 DEF Inside
        <4>3. u.from = d => u.edit \in mine[d]
          BY <1>0, <4>1 DEF Own
        <4> QED
          BY <1>3, <1>4, <4>1, <4>2, <4>3
      <3>5. PeerGets(r)'
        <4> SUFFICES ASSUME NEW d \in copy'[r].peers, NEW e \in copy'[r].doc, e \notin mine'[d]
                     PROVE  \E w \in wire'[r] : w.edit = e /\ w.from # d
          BY DEF PeerGets
        <4>1. d \in Editor /\ d \in copy[r].peers /\ e \in copy[r].doc /\ e # u.edit
          BY <3>4
        <4>2. e \notin mine[d]
          BY <1>4, <4>1
        <4>3. PICK w \in wire[r] : w.edit = e /\ w.from # d
          BY <3>1, <4>1, <4>2 DEF ExchangeAt, PeerGets
        <4> QED
          BY <1>4, <4>1, <4>3
      <3>6. PeerSends(r)'
        <4> SUFFICES ASSUME NEW d \in copy'[r].peers PROVE mine'[d] \subseteq up'[d] \cup copy'[r].doc
          BY DEF PeerSends
        <4>1. /\ d \in Editor /\ d \in copy[r].peers /\ copy'[r].doc = copy[r].doc \cup {u.edit}
          BY <3>4
        <4>2. mine[d] \subseteq up[d] \cup copy[r].doc
          BY <3>1, <4>1 DEF ExchangeAt, PeerSends
        <4> QED
          BY <1>1, <1>4, <4>1, <4>2
      <3> QED
        BY <3>2, <3>3, <3>5, <3>6 DEF ExchangeAt
    <2> QED
      BY <2>1, <2>2, <2>3 DEF Exchange
  <1> QED
    BY <1>7, <1>8, <1>9 DEF Together

\* The reload: what was unsaved at the load is stored by now.
LEMMA CatchUpTogether ==
  ASSUME Calm, lost' = {}, NEW r \in Replica, CatchUp(r)
  PROVE  Together'
  <1>0. /\ Shaped /\ StorageInv /\ Inside /\ Own /\ Needed /\ copy \in [Replica -> Copies] /\ listed /\ ~failed'
        /\ at \in [Editor -> Replica \cup {Nowhere}] /\ mine \in [Editor -> SUBSET Edits] /\ ~failed
        /\ deleting.st = "no" => Synced /\ Exchange
    BY CalmMeans
  <1>1. /\ copy[r].behind \cap Unsaved = {}
        /\ \A k \in Call : call[k].at = r /\ call[k].st \in {"opening", "saving"} => call[k].opened
        /\ mine' = [c \in Editor |-> IF c \in copy[r].peers THEN mine[c] \cup (Stored \ copy[r].doc) ELSE mine[c]]
        /\ UNCHANGED <<wire, leaving, deleting, at, phase, up, rows, snapshot>>
    BY <1>0 DEF CatchUp, store
  <1>2. CopyMoves(r, copy[r].st, copy[r].doc \cup Stored, copy[r].peers, copy[r].pending) /\ Reload(r, FALSE, {})
    BY <1>0, CatchUpCopy
  <1>3. /\ \A q \in Replica : q # r => copy'[q] = copy[q]
        /\ \A q \in Replica : copy'[q].st = copy[q].st /\ copy'[q].peers = copy[q].peers
        /\ copy'[r].doc = copy[r].doc \cup Stored
    BY <1>2 DEF CopyMoves
  <1>4. /\ \A d \in Editor : mine[d] \subseteq mine'[d]
        /\ \A d \in Editor : d \notin copy[r].peers => mine'[d] = mine[d]
        /\ \A d \in Editor : d \in copy[r].peers => mine'[d] = mine[d] \cup (Stored \ copy[r].doc)
    BY <1>1
  <1>5. \A e : Safe(e)' => Safe(e)
    BY <1>0, ReplicaBack DEF ReplicaStep
  <1>6. Stored' = Stored /\ \A q : Subscribed(q)' <=> Subscribed(q)
    BY <1>1 DEF Stored, Subscribed
  <1>7. Own'
    BY <1>0, <1>1, <1>4 DEF Own
  <1>8. Inside'
    BY <1>0, <1>1, <1>3, <1>6 DEF Inside
  <1>9. copy[r].st # "none" => ~Alone(r)
    BY <1>0, <1>1 DEF Needed, Opener
  <1>10. ASSUME deleting'.st = "no" PROVE Synced' /\ Exchange'
    <2>0. Synced /\ Exchange
      BY <1>0, <1>1, <1>10
    <2>1. Synced'
      <3>1. ASSUME NEW d \in Editor, at'[d] # Nowhere PROVE phase'[d] = "in" \/ d \in copy'[at'[d]].peers
        <4>1. at'[d] = at[d] /\ phase'[d] = phase[d] /\ at[d] \in Replica
          BY <1>0, <1>1, <3>1
        <4>2. phase[d] = "in" \/ d \in copy[at[d]].peers
          BY <2>0, <3>1, <4>1 DEF Synced
        <4> QED
          BY <1>3, <4>1, <4>2
      <3>2. ASSUME NEW q \in Replica, copy'[q].st = "open", Alone(q)' PROVE copy'[q].catchUp
        <4>1. Alone(q) /\ copy[q].st = "open"
          BY <1>1, <1>3, <1>6, <3>2 DEF Alone
        <4>2. q # r
          BY <1>9, <4>1
        <4> QED
          BY <1>3, <2>0, <4>1, <4>2 DEF Synced
      <3> QED
        BY <3>1, <3>2 DEF Synced
    <2>2. ASSUME NEW q \in Replica, q # r PROVE ExchangeAt(q)'
      <3>1. Rest(q)
        BY <1>3, <2>2 DEF Rest
      <3>2. \A d \in copy[q].peers : up'[d] = up[d] /\ mine'[d] = mine[d]
        <4>1. \A d \in copy[q].peers : d \in Editor /\ d \notin copy[r].peers
          BY <1>0, <2>2 DEF Inside, Copies
        <4> QED
          BY <1>1, <1>4, <4>1
      <3> QED
        BY <1>1, <1>5, <1>6, <2>0, <3>1, <3>2, ExchangeStays DEF Exchange
    <2>3. ExchangeAt(r)'
      <3>1. ExchangeAt(r)
        BY <2>0 DEF Exchange
      <3>2. CopySafe(r)'
        <4> SUFFICES ASSUME NEW e \in Edits, e \in copy'[r].doc \/ OnWire(r, e)' PROVE Safe(e)'
          BY DEF CopySafe
        <4>1. CASE e \in Stored
          BY <1>6, <4>1 DEF Safe
        <4>2. CASE e \in copy[r].doc \/ OnWire(r, e)
          BY <3>1, <4>2, SafeForth DEF ExchangeAt, CopySafe
        <4> QED
          BY <1>1, <1>3, <4>1, <4>2 DEF OnWire
      <3>3. CopyGets(r)'
        <4> SUFFICES ASSUME copy'[r].st = "open", r \notin leaving', NEW e \in Edits, Safe(e)'
                     PROVE  e \in copy'[r].doc \/ OnWire(r, e)'
          BY DEF CopyGets, Coming
        <4>1. copy[r].st = "open" /\ r \notin leaving /\ Subscribed(r)
          BY <1>1, <1>3, <1>9 DEF Alone
        <4>2. e \in copy[r].doc \/ Coming(r, e)
          BY <1>5, <3>1, <4>1 DEF ExchangeAt, CopyGets
        <4>3. e \in Stored \/ e \in Unsaved
          BY <1>5, SafeMeans
        <4>4. e \in copy[r].behind => e \in Stored
          BY <1>1, <4>3
        <4> QED
          BY <1>1, <1>3, <4>1, <4>2, <4>4 DEF Coming, OnWire
      <3>4. \A d \in copy'[r].peers : d \in Editor /\ d \in copy[r].peers
        BY <1>0, <1>3 DEF Copies
      <3>5. PeerGets(r)'
        <4> SUFFICES ASSUME NEW d \in copy'[r].peers, NEW e \in copy'[r].doc, e \notin mine'[d]
                     PROVE  \E w \in wire'[r] : w.edit = e /\ w.from # d
          BY DEF PeerGets
        <4>1. d \in Editor /\ d \in copy[r].peers
          BY <3>4
        <4>2. e \in copy[r].doc /\ e \notin mine[d]
          BY <1>3, <1>4, <4>1
        <4> QED
          BY <1>1, <3>1, <4>1, <4>2 DEF ExchangeAt, PeerGets
      <3>6. PeerSends(r)'
        <4> SUFFICES ASSUME NEW d \in copy'[r].peers PROVE mine'[d] \subseteq up'[d] \cup copy'[r].doc
          BY DEF PeerSends
        <4>1. d \in Editor /\ d \in copy[r].peers
          BY <3>4
        <4>2. mine[d] \subseteq up[d] \cup copy[r].doc
          BY <3>1, <4>1 DEF ExchangeAt, PeerSends
        <4> QED
          BY <1>1, <1>3, <1>4, <4>1, <4>2
      <3> QED
        BY <3>2, <3>3, <3>5, <3>6 DEF ExchangeAt
    <2> QED
      BY <2>1, <2>2, <2>3 DEF Exchange
  <1> QED
    BY <1>7, <1>8, <1>10 DEF Together

\* A deletion begins: what browsers have is not compared any more.
LEMMA DeleteTogether ==
  ASSUME Calm, lost' = {}, NEW r \in Replica, DeleteDrops(r)
  PROVE  Together'
  <1>0. Inside /\ Own /\ copy \in [Replica -> Copies]
    BY CalmMeans
  <1>1. /\ copy' = [copy EXCEPT ![r] = NoCopy] /\ deleting'.st = "dropping"
        /\ UNCHANGED <<wire, leaving, at, mine, up>>
    BY DEF DeleteDrops, browsers
  <1>2. CopyMoves(r, "none", {}, {}, {})
    BY <1>0, <1>1, CopyGoes
  <1>3. \A q : Subscribed(q)' <=> Subscribed(q)
    BY <1>1 DEF Subscribed
  <1>4. Own'
    BY <1>0, <1>1 DEF Own
  <1>5. Inside'
    BY <1>0, <1>1, <1>2, <1>3 DEF Inside, CopyMoves
  <1> QED
    BY <1>1, <1>4, <1>5 DEF Together

\* The writer: its edit is in the copy, in a save and published; a copy made
\* for it alone goes when there was nothing to write.
LEMMA WriteTogether ==
  ASSUME Calm, lost' = {}, NEW k \in Call, Write(k)
  PROVE  Together'
  <1>0. /\ Shaped /\ Placed /\ Begun /\ StorageInv /\ Inside /\ Own /\ copy \in [Replica -> Copies] /\ ~failed'
        /\ at \in [Editor -> Replica \cup {Nowhere}]
        /\ deleting.st = "no" => Synced /\ Exchange
    BY CalmMeans DEF Placed
  <1>1. PICK r \in Replica : r = call[k].at
    BY <1>0, WriteMeans
  <1>2. PICK new : new = NewIn(k)
    OBVIOUS
  <1>3. /\ wire' = Published(new, Nowhere) /\ copy[r].st = "open" /\ new \subseteq {k}
        /\ UNCHANGED <<leaving, deleting, at, phase, mine, up, rows, snapshot>>
    BY <1>0, <1>1, <1>2, WriteMeans DEF browsers
  <1>4. \/ new = {} /\ copy[r].peers = {} /\ CopyMoves(r, "none", {}, {}, {})
        \/ /\ CopyMoves(r, "open", copy[r].doc \cup new, copy[r].peers, {})
           /\ Reload(r, copy[r].catchUp, copy[r].behind)
    <2>1. PendingIn(k) = {} => new = {}
      BY <1>2 DEF PendingIn
    <2>2. new = {} => copy[r].doc \cup new = copy[r].doc
      OBVIOUS
    <2>3. \/ PendingIn(k) = {} /\ copy[r].peers = {} /\ CopyMoves(r, "none", {}, {}, {})
          \/ /\ PendingIn(k) = {} /\ CopyMoves(r, "open", copy[r].doc, copy[r].peers, {})
             /\ Reload(r, copy[r].catchUp, copy[r].behind)
          \/ /\ CopyMoves(r, "open", copy[r].doc \cup new, copy[r].peers, {})
             /\ Reload(r, copy[r].catchUp, copy[r].behind)
      BY <1>0, <1>1, <1>2, WriteMeans
    <2> QED
      BY <2>1, <2>2, <2>3
  <1>5. \A e : Safe(e)' => Safe(e) \/ e \in new
    BY <1>0, <1>2, WriteBack
  <1>6. \A e \in new : Safe(e)'
    BY <1>0, <1>2, WriteSafe
  <1>7. Stored' = Stored /\ \A q : Subscribed(q)' <=> Subscribed(q)
    BY <1>3 DEF Stored, Subscribed
  <1>8. \A q \in Replica : /\ wire[q] \subseteq wire'[q]
                           /\ \A u \in wire'[q] : u \in wire[q] \/ (u.edit \in new /\ u.from = Nowhere)
                           /\ Subscribed(q) => \A e \in new : \E u \in wire'[q] : u.edit = e /\ u.from = Nowhere
    BY <1>3, PublishedMeans
  <1>9. \A q \in Replica : q # r => Rest(q)
    BY <1>4 DEF CopyMoves, Rest
  <1>10. Own'
    BY <1>0, <1>3, <1>8, EditAssumption DEF Own
  <1>11. \/ new = {} /\ Gone(r)
         \/ /\ copy'[r].st = "open" /\ copy'[r].doc = copy[r].doc \cup new /\ copy'[r].peers = copy[r].peers
            /\ copy'[r].catchUp = copy[r].catchUp /\ copy'[r].behind = copy[r].behind
    BY <1>4 DEF CopyMoves, Reload, Gone
  <1>12. Inside'
    <2>1. \A q \in Replica : copy'[q].peers # {} => copy'[q].st = "open"
      BY <1>0, <1>9, <1>11 DEF Inside, Rest, Gone
    <2>2. \A q \in Replica : \A d \in copy'[q].peers : at'[d] = q
      BY <1>0, <1>3, <1>9, <1>11 DEF Inside, Rest, Gone
    <2>3. \A q \in leaving' : ~Subscribed(q)'
      BY <1>0, <1>3, <1>7 DEF Inside
    <2> QED
      BY <2>1, <2>2, <2>3 DEF Inside
  <1>13. ASSUME deleting'.st = "no" PROVE Synced' /\ Exchange'
    <2>0. Synced /\ Exchange
      BY <1>0, <1>3, <1>13
    <2>1. Synced'
      <3>1. ASSUME NEW d \in Editor, at'[d] # Nowhere PROVE phase'[d] = "in" \/ d \in copy'[at'[d]].peers
        <4>1. at'[d] = at[d] /\ phase'[d] = phase[d] /\ at[d] \in Replica
          BY <1>0, <1>3, <3>1
        <4>2. phase[d] = "in" \/ d \in copy[at[d]].peers
          BY <2>0, <3>1, <4>1 DEF Synced
        <4>3. d \in copy[at[d]].peers => d \in copy'[at[d]].peers
          BY <1>9, <1>11, <4>1 DEF Rest, Gone
        <4> QED
          BY <4>1, <4>2, <4>3
      <3>2. ASSUME NEW q \in Replica, copy'[q].st = "open", Alone(q)' PROVE copy'[q].catchUp
        <4>1. Alone(q)
          BY <1>3, <1>7, <3>2 DEF Alone
        <4>2. copy[q].st = "open" /\ copy'[q].catchUp = copy[q].catchUp
          BY <1>3, <1>9, <1>11, <3>2 DEF Rest, Gone
        <4> QED
          BY <2>0, <4>1, <4>2 DEF Synced
      <3> QED
        BY <3>1, <3>2 DEF Synced
    <2>2. ASSUME NEW q \in Replica, q # r PROVE ExchangeAt(q)'
      <3>1. Rest(q) /\ ExchangeAt(q)
        BY <1>9, <2>0, <2>2 DEF Exchange
      <3>2. ASSUME copy[q].st = "open", q \notin leaving, NEW e \in Edits, Safe(e)' PROVE Safe(e) \/ Coming(q, e)'
        <4>1. CASE e \in new
          BY <1>3, <2>0, <3>1, <3>2, <4>1, NewComes
        <4> QED
          BY <1>5, <3>2, <4>1
      <3>3. \A u \in wire'[q] : u \in wire[q] \/ Safe(u.edit)'
        BY <1>6, <1>8
      <3> QED
        BY <1>3, <1>7, <1>8, <3>1, <3>2, <3>3, ExchangeStays
    <2>3. CASE new = {} /\ Gone(r)
      <3>1. wire'[r] \subseteq wire[r]
        BY <1>8, <2>3
      <3>2. ExchangeAt(r)'
        BY <2>0, <2>3, <3>1, ExchangeGone DEF Exchange
      <3> QED
        BY <2>1, <2>2, <3>2 DEF Exchange
    <2>4. ASSUME copy'[r].st = "open", copy'[r].doc = copy[r].doc \cup new, copy'[r].peers = copy[r].peers,
                 copy'[r].catchUp = copy[r].catchUp, copy'[r].behind = copy[r].behind
          PROVE  ExchangeAt(r)'
      <3>1. ExchangeAt(r)
        BY <2>0 DEF Exchange
      <3>2. CopySafe(r)'
        <4> SUFFICES ASSUME NEW e \in Edits, e \in copy'[r].doc \/ OnWire(r, e)' PROVE Safe(e)'
          BY DEF CopySafe
        <4>1. CASE e \in copy[r].doc \/ OnWire(r, e)
          BY <3>1, <4>1, SafeForth DEF ExchangeAt, CopySafe
        <4>2. CASE e \in new
          BY <1>6, <4>2
        <4>3. OnWire(r, e)' => OnWire(r, e) \/ e \in new
          BY <1>8 DEF OnWire
        <4> QED
          BY <2>4, <4>1, <4>2, <4>3
      <3>3. CopyGets(r)'
        <4> SUFFICES ASSUME r \notin leaving', NEW e \in Edits, Safe(e)' PROVE e \in copy'[r].doc \/ Coming(r, e)'
          BY DEF CopyGets
        <4>1. CASE Safe(e)
          <5>1. e \in copy[r].doc \/ Coming(r, e)
            BY <1>3, <3>1, <4>1 DEF ExchangeAt, CopyGets
          <5>2. OnWire(r, e) => OnWire(r, e)'
            BY <1>8 DEF OnWire
          <5> QED
            BY <1>7, <2>4, <5>1, <5>2 DEF Coming
        <4> QED
          BY <1>5, <2>4, <4>1
      <3>4. PeerGets(r)'
        <4> SUFFICES ASSUME NEW d \in copy'[r].peers, NEW e \in copy'[r].doc
                     PROVE  e \in mine'[d] \/ \E u \in wire'[r] : u.edit = e /\ u.from # d
          BY DEF PeerGets
        <4>0. d \in Editor /\ d \in copy[r].peers /\ Subscribed(r)
          BY <1>0, <2>4 DEF Copies, Inside, Subscribed
        <4>1. CASE e \in copy[r].doc
          <5>1. e \in mine[d] \/ \E u \in wire[r] : u.edit = e /\ u.from # d
            BY <3>1, <4>0, <4>1 DEF ExchangeAt, PeerGets
          <5> QED
            BY <1>3, <1>8, <5>1
        <4>2. CASE e \in new
          <5>1. \E u \in wire'[r] : u.edit = e /\ u.from = Nowhere
            BY <1>8, <4>0, <4>2
          <5> QED
            BY <4>0, <5>1, EditAssumption
        <4> QED
          BY <2>4, <4>1, <4>2
      <3>5. PeerSends(r)'
        BY <1>3, <2>4, <3>1 DEF ExchangeAt, PeerSends
      <3> QED
        BY <3>2, <3>3, <3>4, <3>5 DEF ExchangeAt
    <2> QED
      BY <1>11, <2>1, <2>2, <2>3, <2>4 DEF Exchange
  <1> QED
    BY <1>10, <1>12, <1>13 DEF Together

\* A call's save that a step leaves alone keeps the call an opener.
LEMMA OpenerStays ==
  ASSUME NEW k \in Call, NEW q, Opener(k, q), call'[k] = call[k],
         \A f \in flights : f.by = k /\ f.of = "copy" /\ f.at = q => f \in flights'
  PROVE  Opener(k, q)'
  BY DEF Opener

\* A step that makes no copy alone, makes nothing pend in one that is, and ends
\* no opener's call.
LEMMA NeededStays ==
  ASSUME Needed,
         \A q \in Replica : copy'[q].st # "none" /\ Alone(q)' =>
             /\ copy[q].st # "none" /\ Alone(q) /\ copy'[q].pending \subseteq copy[q].pending
             /\ \A k \in Call : Opener(k, q) => Opener(k, q)'
  PROVE  Needed'
  BY DEF Needed

\* Browsers: whoever is connected to a copy keeps it from being alone.
LEMMA EditorNeeded ==
  ASSUME Calm, NEW c \in Editor, EditorStep(c)
  PROVE  Needed'
  <1>0. /\ Shaped /\ Away /\ Needed /\ copy \in [Replica -> Copies]
        /\ at \in [Editor -> Replica \cup {Nowhere}] /\ Nowhere \notin Replica
    BY CalmMeans
  <1>1. UNCHANGED <<call, flights>>
    BY DEF EditorStep, Join, Type, Leave, Hello, Receive, hub
  <1>2. \A q : \A k \in Call : Opener(k, q) => Opener(k, q)'
    BY <1>1, OpenerStays
  <1>3. ASSUME NEW r \in Replica, Join(c, r) PROVE Needed'
    <2>1. CopyMoves(r, copy[r].st, copy[r].doc, copy[r].peers, copy[r].pending)
      BY <1>0, <1>3, JoinCopy
    <2>2. at' = [at EXCEPT ![c] = r] /\ at[c] = Nowhere /\ leaving' = leaving
      BY <1>3 DEF Join
    <2>3. \A q \in Replica : Subscribed(q) => Subscribed(q)'
      BY <1>0, <2>2 DEF Subscribed
    <2> QED
      BY <1>0, <1>2, <2>1, <2>2, <2>3, NeededStays DEF CopyMoves, Alone
  <1>4. ASSUME NEW f \in Typing, Type(c, f) PROVE Needed'
    <2>1. UNCHANGED <<copy, leaving, at>>
      BY <1>4 DEF Type, hub
    <2> QED
      BY <1>0, <1>2, <2>1, NeededStays DEF Alone, Subscribed
  <1>5. CASE Leave(c)
    <2>1. PICK r \in Replica : r = at[c]
      BY <1>0, <1>5, LeaveCopy
    <2>2. CopyMoves(r, copy[r].st, copy[r].doc, copy[r].peers \ {c}, copy[r].pending)
      BY <1>0, <1>5, <2>1, LeaveCopy
    <2>3. /\ at' = [at EXCEPT ![c] = Nowhere]
          /\ leaving' = IF \A d \in Editor \ {c} : at[d] # r THEN leaving \cup {r} ELSE leaving
      BY <1>5, <2>1 DEF Leave
    <2>4. \A d \in Editor : d # c => at'[d] = at[d]
      BY <1>0, <2>3
    <2>5. \A q \in Replica : q # r => (Subscribed(q) => Subscribed(q)')
      BY <2>1, <2>4 DEF Subscribed
    <2>6. r \in leaving' \/ Subscribed(r)'
      BY <2>3, <2>4 DEF Subscribed
    <2>7. \A q \in Replica : Alone(q)' => q # r /\ Alone(q)
      BY <2>3, <2>5, <2>6 DEF Alone
    <2> QED
      BY <1>0, <1>2, <2>2, <2>7, NeededStays DEF CopyMoves
  <1>6. CASE Hello(c)
    <2>1. PICK r \in Replica : r = at[c]
      BY <1>0, <1>6, HelloCopy
    <2>2. CopyMoves(r, "open", copy[r].doc, copy[r].peers \cup {c}, copy[r].pending)
      BY <1>0, <1>6, <2>1, HelloCopy
    <2>3. UNCHANGED <<leaving, at>> /\ copy[r].st = "open"
      BY <1>6, <2>1 DEF Hello
    <2> QED
      BY <1>0, <1>2, <2>2, <2>3, NeededStays DEF CopyMoves, Alone, Subscribed
  <1>7. ASSUME NEW f \in Edits, Receive(c, f) PROVE Needed'
    <2>1. PICK r \in Replica : r = at[c]
      BY <1>0, <1>7, ReceiveCopy
    <2>2. CopyMoves(r, "open", copy[r].doc \cup {f}, copy[r].peers, copy[r].pending \cup ({f} \ copy[r].doc))
      BY <1>0, <1>7, <2>1, ReceiveCopy
    <2>3. UNCHANGED <<leaving, at>>
      BY <1>7 DEF Receive
    <2>4. \A q \in Replica : Alone(q)' => q # r /\ Alone(q)
      BY <2>1, <2>3 DEF Alone, Subscribed
    <2> QED
      BY <1>0, <1>2, <2>2, <2>4, NeededStays DEF CopyMoves
  <1> QED
    BY <1>3, <1>4, <1>5, <1>6, <1>7 DEF EditorStep

\* A call begins: the copy that is made for it has it as opener.
LEMMA BeginNeeded ==
  ASSUME Calm, NEW u \in Upload, NEW what \in {"uploaded", "finished"}, NEW r \in Replica, Begin(u, what, r)
  PROVE  Needed'
  <1>0. Shaped /\ Needed /\ copy \in [Replica -> Copies] /\ call \in [Call -> Calls] /\ CopiesHold
    BY CalmMeans DEF Shaped, StorageInv, Saving
  <1>1. PICK k \in Call : k = <<u, what>>
    BY DEF Call
  <1>2. /\ call[k].st = "idle"
        /\ call' = [call EXCEPT ![k] = [at |-> r, st |-> "opening", opened |-> copy[r].st # "none"]]
        /\ copy' = [copy EXCEPT ![r] = Opened(r)] /\ UNCHANGED <<flights, leaving, at>>
    BY <1>1 DEF Begin, browsers
  <1>3. /\ call'[k].at = r /\ call'[k].st = "opening" /\ call'[k].opened = (copy[r].st # "none")
        /\ \A j \in Call : j # k => call'[j] = call[j]
    BY <1>0, <1>2
  <1>4. \A q : \A j \in Call : Opener(j, q) => Opener(j, q)'
    <2> SUFFICES ASSUME NEW q, NEW j \in Call, Opener(j, q) PROVE Opener(j, q)'
      OBVIOUS
    <2>1. j # k
      BY <1>2 DEF Opener
    <2> QED
      BY <1>2, <1>3, <2>1, OpenerStays
  <1>5. \A q : Alone(q)' <=> Alone(q)
    BY <1>2 DEF Alone, Subscribed
  <1>6. CASE copy[r].st # "none"
    <2>1. copy' = copy
      BY <1>0, <1>2, <1>6 DEF Opened
    <2> QED
      BY <1>0, <1>4, <1>5, <2>1, NeededStays
  <1>7. CASE copy[r].st = "none"
    <2>1. CopyMoves(r, "loading", {}, {}, {})
      BY <1>0, <1>2, <1>7, OpenedCopy
    <2>2. Opener(k, r)'
      BY <1>3, <1>7 DEF Opener
    <2> QED
      BY <1>0, <1>4, <1>5, <2>1, <2>2 DEF Needed, CopyMoves
  <1> QED
    BY <1>6, <1>7

\* Copies: those that are let go are let go whole.
LEMMA ReplicaNeeded ==
  ASSUME Calm, NEW r \in Replica, ReplicaStep(r)
  PROVE  Needed'
  <1>0. /\ Shaped /\ Needed /\ copy \in [Replica -> Copies] /\ Unlisted /\ listed /\ ~failed' /\ CopiesHold
        /\ flights \subseteq Flights
    BY CalmMeans DEF StorageInv, Deleting, Saving, Shaped
  <1>1. CASE Crash(r) \/ LoadFails(r) \/ Forget(r)
    BY <1>0, <1>1 DEF Crash, LoadFails, Fault, Forget, Unlisted
  <1>2. ASSUME NEW u \in Upload, NEW what \in {"uploaded", "finished"}, Begin(u, what, r) PROVE Needed'
    BY <1>2, BeginNeeded
  <1>3. CASE DropAll(r) \/ DeleteDrops(r)
    <2>1. /\ flights' = Orphaned(r) \cup Released(r) /\ copy' = [copy EXCEPT ![r] = NoCopy]
          /\ call' = call /\ at' = at /\ leaving \ {r} \subseteq leaving'
      BY <1>3 DEF DropAll, DeleteDrops, browsers
    <2>2. CopyMoves(r, "none", {}, {}, {})
      BY <1>0, <2>1, CopyGoes
    <2>3. ASSUME NEW q \in Replica, q # r, NEW f \in flights, f.at = q PROVE f \in flights'
      <3>1. Afterwards(f, r) = f
        BY <2>3 DEF Afterwards
      <3>2. Afterwards(f, r) \in Orphaned(r)
        BY <1>0, OrphanedMeans
      <3> QED
        BY <2>1, <3>1, <3>2
    <2>4. \A q \in Replica : q # r => \A k \in Call : Opener(k, q) => Opener(k, q)'
      BY <2>1, <2>3, OpenerStays
    <2>5. \A q \in Replica : q # r /\ Alone(q)' => Alone(q)
      BY <2>1 DEF Alone, Subscribed
    <2> QED
      BY <1>0, <2>2, <2>4, <2>5, NeededStays DEF CopyMoves
  <1>4. CASE Open(r)
    <2>1. copy' = [copy EXCEPT ![r] = Opened(r)] /\ UNCHANGED <<flights, call, leaving, at>>
      BY <1>4 DEF Open, browsers
    <2>2. Subscribed(r) /\ \A q \in Replica : q # r => copy'[q] = copy[q]
      BY <1>0, <1>4, <2>1 DEF Open, Subscribed
    <2>3. \A q : \A k \in Call : Opener(k, q) => Opener(k, q)'
      BY <2>1, OpenerStays
    <2>4. \A q \in Replica : Alone(q)' => q # r /\ Alone(q)
      BY <2>1, <2>2 DEF Alone, Subscribed
    <2> QED
      BY <1>0, <2>2, <2>3, <2>4, NeededStays
  <1>5. CASE Load(r) \/ (\E u \in wire[r] : Relay(r, u)) \/ CatchUp(r) \/ Flush(r) \/ Compact(r)
    <2>1. UNCHANGED <<call, leaving, at>> /\ flights \subseteq flights'
      BY <1>5 DEF Load, Relay, CatchUp, Flush, Compact, browsers, hub
    <2>2. \A q : \A k \in Call : Opener(k, q) => Opener(k, q)'
      BY <2>1, OpenerStays
    <2>3. \A q \in Replica : copy'[q].st # "none" => copy[q].st # "none" /\ copy'[q].pending \subseteq copy[q].pending
      <3>1. CASE Load(r)
        <4>1. CopyMoves(r, "open", copy[r].doc \cup Stored, copy[r].peers, copy[r].pending) /\ copy[r].st = "loading"
          BY <1>0, <3>1, LoadCopy DEF Load
        <4> QED
          BY <4>1 DEF CopyMoves
      <3>2. ASSUME NEW u \in wire[r], Relay(r, u)
            PROVE  \A q \in Replica : copy'[q].st # "none" =>
                       copy[q].st # "none" /\ copy'[q].pending \subseteq copy[q].pending
        <4>1. \E doc : CopyMoves(r, copy[r].st, doc, copy[r].peers, copy[r].pending)
          BY <1>0, <3>2, RelayCopy
        <4> QED
          BY <4>1 DEF CopyMoves
      <3>3. CASE CatchUp(r)
        <4>1. CopyMoves(r, copy[r].st, copy[r].doc \cup Stored, copy[r].peers, copy[r].pending)
          BY <1>0, <3>3, CatchUpCopy
        <4> QED
          BY <4>1 DEF CopyMoves
      <3>4. CASE Flush(r)
        <4>1. CopyMoves(r, "open", copy[r].doc, copy[r].peers, {}) /\ copy[r].st = "open"
          BY <1>0, <3>4, FlushCopy DEF Flush
        <4> QED
          BY <4>1 DEF CopyMoves
      <3>5. CASE Compact(r)
        BY <3>5 DEF Compact, hub
      <3> QED
        BY <1>5, <3>1, <3>2, <3>3, <3>4, <3>5
    <2> QED
      BY <1>0, <2>1, <2>2, <2>3, NeededStays DEF Alone, Subscribed
  <1> QED
    BY <1>1, <1>2, <1>3, <1>4, <1>5 DEF ReplicaStep

\* A save that commits: a copy that only its call needed goes with it.
LEMMA AppendNeeded ==
  ASSUME Calm, NEW f \in flights, Append(f)
  PROVE  Needed'
  <1>0. /\ Shaped /\ Needed /\ Inside /\ Writing /\ copy \in [Replica -> Copies] /\ call \in [Call -> Calls]
        /\ flights \subseteq Flights /\ f \in Flights
    BY CalmMeans DEF Shaped, Calm
  <1>1. PICK r \in Replica : r = f.at
    BY <1>0, AppendMeans
  <1>2. /\ UNCHANGED <<leaving, at>> /\ call' = IF f.by = Nowhere THEN call ELSE Returned(f.by)
        /\ \/ AppendDrops(f) /\ flights' = Orphaned(r) \ {f, Freed(f)} /\ CopyMoves(r, "none", {}, {}, {})
           \/ /\ ~AppendDrops(f) \/ f.by = Nowhere
              /\ flights' = flights \ {f, Freed(f)} \/ flights' = flights \ {f}
              /\ CopyMoves(r, copy[r].st, copy[r].doc, copy[r].peers, copy[r].pending)
    BY <1>0, <1>1, AppendMeans DEF browsers
  <1>3. \A q : Alone(q)' <=> Alone(q)
    BY <1>2 DEF Alone, Subscribed
  <1>4. Freed(f).by = f.by /\ Freed(f).at = r /\ f.by \in Call \cup {Nowhere} /\ Nowhere \notin Call
    BY <1>0, <1>1, FreedMeans, CallsMean DEF SameSave, Flights
  <1>5. ASSUME NEW q \in Replica, NEW k \in Call, Opener(k, q), k # f.by, copy'[q].st # "none" PROVE Opener(k, q)'
    <2>1. call'[k] = call[k]
      BY <1>0, <1>2, <1>4, <1>5 DEF Returned
    <2>2. ASSUME NEW g \in flights, g.by = k, g.of = "copy", g.at = q PROVE g \in flights'
      <3>1. g # f /\ g # Freed(f)
        BY <1>4, <1>5, <2>2
      <3>2. CASE AppendDrops(f) /\ flights' = Orphaned(r) \ {f, Freed(f)} /\ CopyMoves(r, "none", {}, {}, {})
        <4>1. q # r
          BY <1>5, <3>2 DEF CopyMoves
        <4>2. Afterwards(g, r) = g
          BY <2>2, <4>1 DEF Afterwards
        <4>3. Afterwards(g, r) \in Orphaned(r)
          BY <1>0, OrphanedMeans
        <4> QED
          BY <3>1, <3>2, <4>2, <4>3
      <3> QED
        BY <1>2, <3>1, <3>2
    <2> QED
      BY <1>5, <2>1, <2>2, OpenerStays
  <1>6. ASSUME NEW q \in Replica, copy'[q].st # "none", Alone(q) PROVE ~Opener(f.by, q) \/ f.by = Nowhere
    <2> SUFFICES ASSUME Opener(f.by, q), f.by # Nowhere PROVE FALSE
      OBVIOUS
    <2>1. call[f.by].st = "saving" /\ ~call[f.by].opened
      BY <1>0 DEF Writing, Opener
    <2>2. PICK g \in flights : g.by = f.by /\ g.of = "copy" /\ g.at = q
      BY <2>1 DEF Opener
    <2>3. g = f
      BY <1>0, <2>2 DEF Writing
    <2>4. q = r /\ f.of = "copy"
      BY <1>1, <2>2, <2>3
    <2>5. ~AppendDrops(f) /\ copy[q].st # "none"
      BY <1>2, <1>6, <2>4 DEF CopyMoves
    <2>6. copy[q].pending = {}
      BY <1>0, <1>6, <2>5 DEF Needed
    <2>7. copy[q].peers = {}
      BY <1>0, <1>6 DEF Inside, Alone, Subscribed, Copies
    <2> QED
      BY <1>1, <2>1, <2>4, <2>5, <2>6, <2>7 DEF AppendDrops, Kept
  <1>7. \A q \in Replica : copy'[q].st # "none" => copy[q].st # "none" /\ copy'[q].pending = copy[q].pending
    BY <1>2 DEF CopyMoves
  <1>8. ASSUME NEW q \in Replica, copy'[q].st # "none", Alone(q)'
        PROVE  /\ copy[q].st # "none" /\ Alone(q) /\ copy'[q].pending \subseteq copy[q].pending
               /\ \A k \in Call : Opener(k, q) => Opener(k, q)'
    BY <1>3, <1>4, <1>5, <1>6, <1>7, <1>8
  <1> QED
    BY <1>0, <1>8, NeededStays

\* A call writes: the copy it opened stays until its save ends.
LEMMA WriteNeeded ==
  ASSUME Calm, NEW k \in Call, Write(k)
  PROVE  Needed'
  <1>0. /\ Shaped /\ Begun /\ Needed /\ Inside /\ copy \in [Replica -> Copies] /\ call \in [Call -> Calls]
        /\ flights \subseteq Flights
    BY CalmMeans DEF Shaped, Placed
  <1>1. PICK r \in Replica : r = call[k].at
    BY <1>0, WriteMeans
  <1>2. PICK h : h = Flight(r, PendingIn(k), "copy", k, 0)
    OBVIOUS
  <1>3. h.by = k /\ h.of = "copy" /\ h.at = r
    BY <1>2 DEF Flight
  <1>4. UNCHANGED <<leaving, at>> /\ call[k].st = "opening" /\ copy[r].st = "open"
    BY <1>0, <1>1, WriteMeans DEF browsers
  <1>5. \/ CopyMoves(r, "none", {}, {}, {}) /\ flights' = Orphaned(r) /\ call' = Returned(k)
        \/ /\ call[k].opened \/ copy[r].peers # {}
           /\ CopyMoves(r, "open", copy[r].doc, copy[r].peers, {})
           /\ flights' = flights /\ call' = Returned(k)
        \/ /\ CopyMoves(r, "open", copy[r].doc \cup NewIn(k), copy[r].peers, {})
           /\ flights' = flights \cup {h} /\ call' = [call EXCEPT ![k].st = "saving"]
    BY <1>0, <1>1, <1>2, WriteMeans
  <1>6. \A q : Alone(q)' <=> Alone(q)
    BY <1>4 DEF Alone, Subscribed
  <1>7. \A j \in Call : j # k => call'[j] = call[j]
    BY <1>0, <1>5 DEF Returned
  <1>8. ASSUME NEW q \in Replica, NEW j \in Call, Opener(j, q), j # k, copy'[q].st # "none" PROVE Opener(j, q)'
    <2>1. ASSUME NEW g \in flights, g.by = j, g.of = "copy", g.at = q PROVE g \in flights'
      <3>1. CASE CopyMoves(r, "none", {}, {}, {}) /\ flights' = Orphaned(r)
        <4>1. q # r
          BY <1>8, <3>1 DEF CopyMoves
        <4>2. Afterwards(g, r) = g
          BY <2>1, <4>1 DEF Afterwards
        <4>3. Afterwards(g, r) \in Orphaned(r)
          BY <1>0, OrphanedMeans
        <4> QED
          BY <3>1, <4>2, <4>3
      <3> QED
        BY <1>5, <3>1
    <2> QED
      BY <1>7, <1>8, <2>1, OpenerStays
  <1>9. ASSUME NEW q \in Replica, copy'[q].st # "none", Alone(q), Opener(k, q) PROVE Opener(k, q)'
    <2>1. q = r /\ ~call[k].opened
      BY <1>1, <1>9 DEF Opener
    <2>2. copy[r].peers = {}
      BY <1>0, <1>9, <2>1 DEF Inside, Alone, Subscribed, Copies
    <2>3. flights' = flights \cup {h} /\ call' = [call EXCEPT ![k].st = "saving"]
      BY <1>5, <1>9, <2>1, <2>2 DEF CopyMoves
    <2>4. call'[k].st = "saving" /\ call'[k].at = r /\ ~call'[k].opened
      BY <1>0, <1>1, <2>1, <2>3 DEF Calls
    <2> QED
      BY <1>3, <2>1, <2>3, <2>4 DEF Opener
  <1>10. \A q \in Replica : copy'[q].st # "none" => copy[q].st # "none" /\ copy'[q].pending \subseteq copy[q].pending
    BY <1>4, <1>5 DEF CopyMoves
  <1>11. ASSUME NEW q \in Replica, copy'[q].st # "none", Alone(q)'
         PROVE  /\ copy[q].st # "none" /\ Alone(q) /\ copy'[q].pending \subseteq copy[q].pending
                /\ \A j \in Call : Opener(j, q) => Opener(j, q)'
    BY <1>6, <1>8, <1>9, <1>10, <1>11
  <1> QED
    BY <1>0, <1>11, NeededStays

\* Every step keeps Needed.
LEMMA StepNeeded == Calm => Needed'
  <1> SUFFICES ASSUME Calm PROVE Needed'
    OBVIOUS
  <1>0. Needed /\ Unlisted /\ listed' /\ ~failed' /\ loose = {}
    BY DEF Calm, Linked, StorageInv, Deleting, Told
  <1>1. ASSUME StoreStep PROVE Needed'
    <2>1. ASSUME NEW f \in flights, Append(f) PROVE Needed'
      BY <2>1, AppendNeeded
    <2>2. CASE CompactCommits
      <3>1. UNCHANGED <<copy, flights, call, leaving, at>>
        BY <2>2 DEF CompactCommits, hub, browsers
      <3>2. \A q : \A k \in Call : Opener(k, q) => Opener(k, q)'
        BY <3>1, OpenerStays
      <3> QED
        BY <1>0, <3>1, <3>2, NeededStays DEF Alone, Subscribed
    <2>3. CASE DeleteRow \/ DeleteContent \/ (\E l \in loose : Retry(l))
      BY <1>0, <2>3 DEF DeleteRow, DeleteContent, Unlisted
    <2>4. CASE (\E f \in flights : AppendFails(f)) \/ CompactFails
      BY <1>0, <2>4 DEF AppendFails, CompactFails, Fault
    <2> QED
      BY <1>1, <2>1, <2>2, <2>3, <2>4 DEF StoreStep
  <1> QED
    BY <1>1, EditorNeeded, ReplicaNeeded, WriteNeeded DEF Calm, Next

\* Every step keeps CopiesLinked.
LEMMA StepLinked ==
  StorageInv /\ StorageInv' /\ Writer /\ CopiesLinked /\ [Next]_vars => CopiesLinked'
  <1>1. ASSUME StorageInv, StorageInv', Writer, CopiesLinked, Next PROVE CopiesLinked'
    <2> SUFFICES ASSUME ~failed', listed' PROVE Linked'
      BY DEF CopiesLinked
    <2>1. Calm /\ Unlisted
      BY <1>1, StepFailed, StepLost DEF Calm, CopiesLinked, Writer, StorageInv, Deleting
    <2>2. Reading' /\ lost' = {}
      BY <2>1, StepReading DEF Reading
    <2>3. Needed'
      BY <2>1, StepNeeded
    <2>4. ASSUME NEW c \in Editor, EditorStep(c) PROVE Together'
      BY <2>1, <2>2, <2>4, JoinTogether, TypeTogether, LeaveTogether, HelloTogether, ReceiveTogether DEF EditorStep
    <2>5. ASSUME NEW r \in Replica, ReplicaStep(r) PROVE Together'
      <3>1. CASE Crash(r) \/ LoadFails(r) \/ Forget(r)
        BY <2>1, <3>1 DEF Crash, LoadFails, Fault, Forget, Unlisted, Calm
      <3>2. CASE Load(r) \/ (\E u \in wire[r] : Relay(r, u)) \/ CatchUp(r) \/ DeleteDrops(r)
        BY <2>1, <2>2, <3>2, LoadTogether, RelayTogether, CatchUpTogether, DeleteTogether
      <3>3. CASE \/ Open(r) \/ Flush(r) \/ Compact(r) \/ DropAll(r)
                 \/ \E u \in Upload, what \in {"uploaded", "finished"} : Begin(u, what, r)
        BY <2>1, <2>2, <3>3, ReplicaTogether
      <3> QED
        BY <2>5, <3>1, <3>2, <3>3 DEF ReplicaStep
    <2>6. Together'
      BY <1>1, <2>1, <2>2, <2>4, <2>5, StoreTogether, WriteTogether DEF Next
    <2> QED
      BY <2>2, <2>3, <2>6 DEF Linked, Together
  <1>2. ASSUME CopiesLinked, UNCHANGED vars PROVE CopiesLinked'
    <2>0. /\ UNCHANGED <<rows, snapshot, compacting, copy, flights, loose, wire, leaving>>
          /\ UNCHANGED <<listed, deleting, at, phase, mine, up, call, lost, failed>>
      BY <1>2 DEF vars, store, hub, browsers
    <2>1. Stored' = Stored /\ \A e : Safe(e)' <=> Safe(e)
      BY <2>0 DEF Stored, Safe, Pending, Flying, Loose
    <2>2. \A r : (Alone(r)' <=> Alone(r)) /\ (Subscribed(r)' <=> Subscribed(r))
      BY <2>0 DEF Alone, Subscribed
    <2>3. (Inside' <=> Inside) /\ (Own' <=> Own) /\ (Reading' <=> Reading) /\ (Synced' <=> Synced)
      BY <2>0, <2>2 DEF Inside, Own, Reading, Synced
    <2>4. Needed' <=> Needed
      BY <2>0, <2>2 DEF Needed, Opener
    <2>5. ASSUME NEW r \in Replica PROVE ExchangeAt(r)' <=> ExchangeAt(r)
      BY <2>0, <2>1, <2>2 DEF ExchangeAt, CopySafe, CopyGets, Coming, OnWire, PeerGets, PeerSends
    <2>6. Exchange' <=> Exchange
      BY <2>5 DEF Exchange
    <2> QED
      BY <1>2, <2>0, <2>3, <2>4, <2>6 DEF CopiesLinked, Linked
  <1> QED
    BY <1>1, <1>2

\* Init satisfies CopiesLinked.
LEMMA InitLinked == Init => CopiesLinked
  <1> SUFFICES ASSUME Init PROVE Linked
    BY DEF CopiesLinked
  <1>1. /\ \A r \in Replica : copy[r].st = "none" /\ copy[r].doc = {} /\ copy[r].peers = {} /\ wire[r] = {}
        /\ \A c \in Editor : at[c] = Nowhere /\ up[c] = {}
        /\ leaving = {} /\ compacting.rows = {} /\ lost = {}
    BY DEF Init, NoCopy
  <1>2. Inside /\ Own /\ Reading /\ Needed /\ Synced
    BY <1>1 DEF Inside, Own, Reading, Needed, Synced
  <1>3. Exchange
    BY <1>1 DEF Exchange, ExchangeAt, CopySafe, CopyGets, OnWire, PeerGets, PeerSends
  <1> QED
    BY <1>2, <1>3 DEF Linked

\* CopiesLinked says what CopiesCurrent does.
LEMMA LinkedMeans == StorageInv /\ CopiesLinked => CopiesCurrent
  <1> SUFFICES ASSUME StorageInv, CopiesLinked PROVE CopiesCurrent
    OBVIOUS
  <1>0. /\ Shaped /\ Unlisted
    BY DEF StorageInv, Deleting
  <1>1. NoStaleCopy
    <2> SUFFICES ASSUME NEW r \in Replica, copy[r].st = "open", ~Subscribed(r), r \notin leaving, ~failed, listed
                 PROVE  \E k \in Call : call[k].at = r /\ call[k].st \in {"opening", "saving"}
      BY DEF NoStaleCopy
    <2>1. PICK k \in Call : Opener(k, r)
      BY DEF CopiesLinked, Linked, Needed, Alone
    <2> QED
      BY <2>1 DEF Opener
  <1>2. ConvergedAtRest
    <2> SUFFICES ASSUME Quiet, ~failed, deleting.st = "no", NEW c \in Editor, at[c] # Nowhere
                 PROVE  mine[c] = Stored
      BY DEF ConvergedAtRest
    <2>1. Inside /\ Synced /\ Exchange
      BY <1>0 DEF CopiesLinked, Linked, Unlisted
    <2>2. PICK r \in Replica : r = at[c]
      BY <1>0 DEF Shaped
    <2>3. c \in copy[r].peers /\ up[c] = {} /\ wire[r] = {} /\ ~copy[r].catchUp /\ r \notin leaving
      BY <2>1, <2>2 DEF Synced, Quiet
    <2>4. copy[r].st = "open" /\ ExchangeAt(r)
      BY <2>1, <2>3 DEF Inside, Exchange
    <2>5. \A e : Safe(e) <=> e \in Stored
      <3>1. \A e : Safe(e) => e \in Stored \cup Unsaved
        BY SafeMeans
      <3> QED
        BY <3>1 DEF Quiet, Safe
    <2>6. Stored \subseteq Edits /\ copy[r].doc \subseteq Edits /\ mine[c] \subseteq Edits
      BY <1>0, StoredAreEdits DEF Shaped, Copies
    <2>7. copy[r].doc = Stored
      BY <2>3, <2>4, <2>5, <2>6 DEF ExchangeAt, CopySafe, CopyGets, Coming, OnWire
    <2>8. copy[r].doc \subseteq mine[c]
      BY <2>3, <2>4 DEF ExchangeAt, PeerGets
    <2>9. mine[c] \subseteq copy[r].doc
      BY <2>3, <2>4 DEF ExchangeAt, PeerSends
    <2> QED
      BY <2>7, <2>8, <2>9
  <1> QED
    BY <1>1, <1>2 DEF CopiesCurrent

\* Without a fault, no replica keeps a copy of a document whose updates it does
\* not hear, but for a call of the writer; and when nothing is on its way, every
\* browser that is connected has the document that is stored, whichever replica
\* it is on and whatever people typed before they came or while away.
THEOREM CopiesComeToAgree == Spec => []CopiesCurrent
  BY InitWriter, InitLinked, StepWriter, StepLinked, StorageCorrect, LinkedMeans, PTL DEF Spec
=============================================================================
