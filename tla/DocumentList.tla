---------------------------- MODULE DocumentList ----------------------------
(***************************************************************************)
(* The documents of one room: made, renamed and deleted on request         *)
(* (http/routes/documents.ts over db/roomDocs.ts), each change followed by *)
(* the room being told the whole list.  A request awaits the database      *)
(* between its steps, and several run at once on any replica.  What the    *)
(* documents hold is RoomDocs' subject.                                    *)
(***************************************************************************)
EXTENDS Naturals, FiniteSets

CONSTANTS Main, Doc,   \* the main document and those a request may make
          Person, Owner,
          Request, By,   \* the requests, and who makes each
          MaxDocuments,  \* MAX_DOCUMENTS_PER_ROOM
          None

\* A room has finitely many documents, the main one is not made on request,
\* and somebody asks.
ListAssumption ==
    /\ IsFiniteSet(Doc) /\ Main \notin Doc
    /\ IsFiniteSet(Request) /\ Request # {}
    /\ By \in [Request -> Person] /\ Owner \in Person
    /\ None \notin Person \cup Doc \cup {Main}
    /\ "no" \notin Person \cup {None}
    /\ MaxDocuments \in Nat

VARIABLES rows,      \* room_documents: who made each document, or None
          renamed,   \* the documents renamed
          requests,
          listed,    \* history: the list read last to tell the room of
          told,      \* the list the room was told last
          late       \* history: that list was read before another one was
vars == <<rows, renamed, requests, listed, told, late>>

Documents == Doc \cup {Main}
There == {d \in Documents : rows[d] # "no"}
Idle == [step |-> "idle", doc |-> None, kind |-> "none", list |-> {}]
Entry(d, names) == [doc |-> d, new |-> d \in names]

TypeOK ==
    /\ rows \in [Documents -> Person \cup {"no", None}]
    /\ rows[Main] \in {"no", None} /\ \A d \in Doc : rows[d] # None
    /\ renamed \subseteq There \ {Main}
    /\ \A q \in Request :
          /\ requests[q].step \in {"idle", "room", "owned", "released", "tell", "publish", "done", "refused"}
          /\ requests[q].doc \in Documents \cup {None}
    /\ late \in BOOLEAN

\* listDocuments: the main document is made if it is missing.
WithMain == [rows EXCEPT ![Main] = None]
Listing == {Entry(d, renamed) : d \in There \cup {Main}}

Init ==
    /\ \E made \in SUBSET Doc :
          /\ Cardinality(made) <= MaxDocuments
          /\ rows = [d \in Documents |-> IF d \in made THEN Owner ELSE "no"]
    /\ renamed = {}
    /\ requests = [q \in Request |-> Idle]
    /\ listed = Listing /\ told = Listing /\ late = FALSE

-----------------------------------------------------------------------------
Goto(q, step) == requests' = [requests EXCEPT ![q].step = step]

(* createDocument: counted, then inserted.                                   *)
(* Mutant: the one that fills the room up is not counted. *)
FullAfter(n) == n > MaxDocuments
Full(n) == n >= MaxDocuments
Count(q) ==
    /\ requests[q].step = "idle"
    /\ requests' = [requests EXCEPT ![q].kind = "create",
                                    ![q].step = IF Full(Cardinality(There)) THEN "refused" ELSE "room"]
    /\ UNCHANGED <<rows, renamed, listed, told, late>>
Insert(q, d) ==
    /\ requests[q].step = "room" /\ rows[d] = "no" /\ \A p \in Request : requests[p].doc # d
    /\ rows' = [WithMain EXCEPT ![d] = By[q]]
    /\ requests' = [requests EXCEPT ![q].doc = d, ![q].step = "tell"]
    /\ UNCHANGED <<renamed, listed, told, late>>

(* owned: there, not the main one, and the person's own or the room's owner. *)
May(q, d) == rows[d] = By[q] \/ By[q] = Owner
Find(q, d, kind) ==
    /\ requests[q].step = "idle"
    /\ rows' = WithMain
    /\ requests' = [requests EXCEPT ![q] = [step |-> IF d \in There \cap Doc /\ May(q, d) THEN "owned" ELSE "refused",
                                            doc |-> d, kind |-> kind, list |-> {}]]
    /\ UNCHANGED <<renamed, listed, told, late>>

(* Mutant: a row that is gone is renamed all the same. *)
NamedAnyway(d) == {d}
Named(d) == {d} \cap There
(* A row deleted meanwhile is renamed by nobody; the room is told all the    *)
(* same.                                                                     *)
Rename(q) ==
    /\ requests[q].step = "owned" /\ requests[q].kind = "rename"
    /\ renamed' = renamed \cup Named(requests[q].doc)
    /\ Goto(q, "tell")
    /\ UNCHANGED <<rows, listed, told, late>>

(* The hub releases its copy first; then the row goes, then what it held.    *)
Release(q) ==
    /\ requests[q].step = "owned" /\ requests[q].kind = "delete" /\ Goto(q, "released")
    /\ UNCHANGED <<rows, renamed, listed, told, late>>
(* Mutant: nobody is told of a deletion. *)
AfterDeleteSilent == "done"
AfterDelete == "tell"
DeleteRow(q) ==
    /\ requests[q].step = "released"
    /\ rows' = [rows EXCEPT ![requests[q].doc] = "no"]
    /\ renamed' = renamed \ {requests[q].doc}
    /\ Goto(q, AfterDelete)
    /\ UNCHANGED <<listed, told, late>>

(* announce: the list is read, then published.                               *)
ReadList(q) ==
    /\ requests[q].step = "tell"
    /\ rows' = WithMain
    /\ listed' = Listing
    /\ requests' = [requests EXCEPT ![q].list = Listing, ![q].step = "publish"]
    /\ UNCHANGED <<renamed, told, late>>
Publish(q) ==
    /\ requests[q].step = "publish"
    /\ told' = requests[q].list /\ late' = (requests[q].list # listed)
    /\ requests' = [requests EXCEPT ![q].step = "done", ![q].list = {}]
    /\ UNCHANGED <<rows, renamed, listed>>

(* A member reads the list.                                                  *)
Read == rows' = WithMain /\ UNCHANGED <<renamed, requests, listed, told, late>>

Next ==
    \/ \E q \in Request : Count(q) \/ (\E d \in Doc : Insert(q, d)) \/ Rename(q) \/ Release(q) \/ DeleteRow(q)
                          \/ ReadList(q) \/ Publish(q)
                          \/ \E d \in Documents, kind \in {"rename", "delete"} : Find(q, d, kind)
    \/ Read
Spec == Init /\ [][Next]_vars

-----------------------------------------------------------------------------
AtRest == \A q \in Request : requests[q].step \in {"idle", "done", "refused"}

(* However many requests count the documents before any of them inserts its  *)
(* own, a room holds no more than its cap and one for each other request.    *)
NearTheCap == Cardinality(There \ {Main}) <= MaxDocuments + Cardinality(Request) - 1

(* Once no request is going on, the list read last to tell the room of is    *)
(* the list as it is; and so is what the room was told last, unless that was *)
(* read before another one was and published after it.                       *)
LastListIsCurrent == AtRest => listed = Listing /\ (late \/ told = Listing)
=============================================================================
