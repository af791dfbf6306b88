------------------------- MODULE DocumentListProofs -------------------------
(***************************************************************************)
(* What holds of a room's list of documents for any number of requests on  *)
(* any number of replicas: the cap is overrun by no more than the requests *)
(* that race, and the room ends up told the list as it is.                 *)
(***************************************************************************)
EXTENDS DocumentList, FiniteSetTheorems, TLAPS

Steps == {"idle", "room", "owned", "released", "tell", "publish", "done", "refused"}
Entries == [doc : Documents, new : BOOLEAN]
Requests == [step : Steps, doc : Documents \cup {None}, kind : {"none", "create", "rename", "delete"},
             list : SUBSET Entries]

\* A request that may change a document has one, and it is not the main one.
Shaped ==
    /\ rows \in [Documents -> Person \cup {"no", None}]
    /\ rows[Main] \in {"no", None} /\ \A d \in Doc : rows[d] # None
    /\ renamed \subseteq There \ {Main}
    /\ requests \in [Request -> Requests]
    /\ \A q \in Request : requests[q].step \in {"owned", "released"} => requests[q].doc \in Doc
    /\ late \in BOOLEAN

\* The documents made, and the requests that counted them and have not
\* inserted theirs.
Made == There \ {Main}
Counted == {q \in Request : requests[q].step = "room"}
Room == Cardinality(Made) + Cardinality(Counted) <= MaxDocuments + Cardinality(Request) - 1

\* While the list read last is not the list as it is, a request is about to
\* read it; while the room was not told the one read last, a request is about
\* to publish, or one published late.
Following ==
    /\ (\E q \in Request : requests[q].step = "tell") \/ listed = Listing
    /\ (\E q \in Request : requests[q].step = "publish") \/ late \/ told = listed

ListInv == Shaped /\ Room /\ Following

-----------------------------------------------------------------------------
LEMMA Shape == ASSUME Shaped PROVE TypeOK
  BY DEF Shaped, TypeOK, Requests, Steps

\* A row for the main document changes neither the list nor what was made.
LEMMA MainIsListed ==
  ASSUME ListAssumption, Shaped, rows' = WithMain, UNCHANGED renamed
  PROVE  /\ rows' \in [Documents -> Person \cup {"no", None}]
         /\ rows'[Main] \in {"no", None} /\ \A d \in Doc : rows'[d] = rows[d]
         /\ Made' = Made /\ Listing' = Listing
         /\ There \ {Main} \subseteq There'
  <1>1. /\ rows' \in [Documents -> Person \cup {"no", None}]
        /\ rows'[Main] = None /\ \A d \in Doc : rows'[d] = rows[d]
    BY DEF Shaped, WithMain, Documents, ListAssumption
  <1>2. Made' = Made /\ There' \cup {Main} = There \cup {Main}
    BY <1>1 DEF Made, There, Documents
  <1> QED
    BY <1>1, <1>2 DEF Listing, Entry, Made

LEMMA MadeFinite ==
  ASSUME ListAssumption, Shaped
  PROVE  /\ IsFiniteSet(Made) /\ IsFiniteSet(There) /\ IsFiniteSet(Counted)
         /\ Cardinality(Made) \in Nat /\ Cardinality(Counted) \in Nat /\ Cardinality(Request) \in Nat \ {0}
         /\ Cardinality(Made) <= Cardinality(There) /\ Cardinality(Counted) <= Cardinality(Request)
  <1>1. IsFiniteSet(Documents)
    BY FS_AddElement DEF Documents, ListAssumption
  <1>2. There \subseteq Documents /\ Made \subseteq There /\ Counted \subseteq Request
    BY DEF There, Made, Counted
  <1>3. IsFiniteSet(There) /\ IsFiniteSet(Made) /\ IsFiniteSet(Counted)
    BY <1>1, <1>2, FS_Subset DEF ListAssumption
  <1>4. Cardinality(Made) <= Cardinality(There) /\ Cardinality(Counted) <= Cardinality(Request)
    BY <1>2, <1>3, FS_Subset DEF ListAssumption
  <1>5. Cardinality(Request) # 0
    BY FS_EmptySet DEF ListAssumption
  <1> QED
    BY <1>3, <1>4, <1>5, FS_CardinalityType DEF ListAssumption

LEMMA InitList == ASSUME ListAssumption, Init PROVE ListInv
  <1>1. PICK made \in SUBSET Doc : /\ Cardinality(made) <= MaxDocuments
                                   /\ rows = [d \in Documents |-> IF d \in made THEN Owner ELSE "no"]
    BY DEF Init
  <1>2. requests = [q \in Request |-> Idle] /\ renamed = {} /\ listed = Listing /\ told = Listing /\ late = FALSE
    BY DEF Init
  <1>3. Shaped
    <2>1. rows \in [Documents -> Person \cup {"no", None}] /\ rows[Main] = "no" /\ \A d \in Doc : rows[d] # None
      BY <1>1 DEF ListAssumption, Documents
    <2>2. Idle \in Requests /\ Idle.step = "idle"
      BY DEF Idle, Requests, Steps
    <2> QED
      BY <1>2, <2>1, <2>2 DEF Shaped
  <1>4. Made = made /\ Counted = {}
    BY <1>1, <1>2 DEF ListAssumption, Made, There, Documents, Counted, Idle
  <1>5. Room
    <2>1. Cardinality(Made) <= MaxDocuments /\ Cardinality(Counted) = 0
      BY <1>1, <1>4, FS_EmptySet
    <2>2. Cardinality(Made) \in Nat /\ Cardinality(Request) \in Nat \ {0} /\ MaxDocuments \in Nat
      BY <1>3, MadeFinite DEF ListAssumption
    <2> QED
      BY <2>1, <2>2 DEF Room
  <1> QED
    BY <1>2, <1>3, <1>5 DEF ListInv, Following

-----------------------------------------------------------------------------
\* One request moves; nothing else about it changes the room for the others.
Moves(q, step) ==
    /\ requests' \in [Request -> Requests]
    /\ requests'[q].step = step
    /\ \A p \in Request \ {q} : requests'[p] = requests[p]

\* A request that goes on without making anything, and not from counting.
LEMMA RoomStays ==
  ASSUME ListAssumption, Shaped, Shaped', Room, Made' \subseteq Made,
         NEW q \in Request, NEW step, step # "room", Moves(q, step)
  PROVE  Room'
  <1>1. Counted' \subseteq Counted
    BY DEF Counted, Moves
  <1>2. Cardinality(Made') <= Cardinality(Made) /\ Cardinality(Counted') <= Cardinality(Counted)
    BY <1>1, MadeFinite, FS_Subset
  <1>3. Cardinality(Made') \in Nat /\ Cardinality(Counted') \in Nat
    BY <1>1, MadeFinite, FS_Subset, FS_CardinalityType
  <1> QED
    BY <1>2, <1>3, MadeFinite DEF Room, ListAssumption

\* A request that neither tells nor publishes leaves those that do.
LEMMA FollowingStays ==
  ASSUME Following, NEW q \in Request, NEW step, Moves(q, step),
         UNCHANGED <<listed, told, late>>, requests[q].step # "publish",
         step = "tell" \/ (Listing' = Listing /\ requests[q].step # "tell")
  PROVE  Following'
  <1>1. \A p \in Request : requests[p].step = "publish" => requests'[p].step = "publish"
    BY DEF Moves
  <1>2. (\E p \in Request : requests'[p].step = "tell") \/ listed' = Listing'
    BY DEF Moves, Following
  <1> QED
    BY <1>1, <1>2 DEF Following

LEMMA CountList ==
  ASSUME ListAssumption, ListInv, NEW q \in Request, Count(q)
  PROVE  ListInv'
  <1>1. /\ requests[q].step = "idle" /\ UNCHANGED <<rows, renamed, listed, told, late>>
        /\ requests' = [requests EXCEPT ![q].kind = "create",
                        ![q].step = IF Full(Cardinality(There)) THEN "refused" ELSE "room"]
    BY DEF Count
  <1>2. PICK step \in {"refused", "room"} :
              /\ Moves(q, step) /\ (step = "room" => ~Full(Cardinality(There)))
    BY <1>1 DEF ListInv, Shaped, Requests, Steps, Moves
  <1>3. Shaped' /\ Made' = Made /\ Listing' = Listing
    <2>1. rows' = rows /\ renamed' = renamed /\ late' = late
      BY <1>1
    <2>2. There' = There
      BY <2>1 DEF There
    <2>3. Made' = Made /\ Listing' = Listing
      BY <2>1, <2>2 DEF Made, Listing
    <2>4. \A p \in Request : requests'[p].step \in {"owned", "released"} => requests'[p].doc \in Doc
      BY <1>2 DEF Moves, ListInv, Shaped
    <2> QED
      BY <1>2, <2>1, <2>2, <2>3, <2>4 DEF ListInv, Shaped, Moves
  <1>4. Following'
    BY <1>1, <1>2, <1>3, FollowingStays DEF ListInv
  <1>5. CASE step = "refused"
    BY <1>2, <1>3, <1>4, <1>5, RoomStays DEF ListInv
  <1>6. CASE step = "room"
    <2>0. Shaped /\ Shaped' /\ MaxDocuments \in Nat
      BY <1>3 DEF ListInv, ListAssumption
    <2>1. Cardinality(There) \in Nat /\ Cardinality(Made) \in Nat /\ Cardinality(Made) <= Cardinality(There)
      BY <2>0, MadeFinite, FS_CardinalityType
    <2>2. Cardinality(There) < MaxDocuments
      BY <1>2, <1>6, <2>0, <2>1 DEF Full
    <2>3. /\ Cardinality(Counted') \in Nat /\ Cardinality(Counted') <= Cardinality(Request)
          /\ Cardinality(Request) \in Nat
      <3>1. Counted' \subseteq Request
        BY DEF Counted
      <3> QED
        BY <3>1, FS_Subset, FS_CardinalityType DEF ListAssumption
    <2>4. Room'
      BY <1>3, <2>0, <2>1, <2>2, <2>3 DEF Room
    <2> QED
      BY <1>3, <1>4, <2>4 DEF ListInv
  <1> QED
    BY <1>2, <1>5, <1>6

LEMMA InsertList ==
  ASSUME ListAssumption, ListInv, NEW q \in Request, NEW d \in Doc, Insert(q, d)
  PROVE  ListInv'
  <1>0. rows \in [Documents -> Person \cup {"no", None}] /\ requests \in [Request -> Requests] /\ d # Main
    BY DEF ListInv, Shaped, ListAssumption
  <1>1. /\ requests[q].step = "room" /\ rows[d] = "no" /\ UNCHANGED <<renamed, listed, told, late>>
        /\ rows' = [WithMain EXCEPT ![d] = By[q]]
        /\ requests' = [requests EXCEPT ![q].doc = d, ![q].step = "tell"]
    BY DEF Insert
  <1>2. Moves(q, "tell") /\ requests'[q].step = "tell"
    BY <1>0, <1>1 DEF Requests, Steps, Documents, Moves
  <1>3. /\ rows' \in [Documents -> Person \cup {"no", None}]
        /\ rows'[Main] = None /\ rows'[d] = By[q] /\ \A e \in Doc \ {d} : rows'[e] = rows[e]
    BY <1>0, <1>1 DEF WithMain, Documents, ListAssumption
  <1>4. By[q] # "no" /\ By[q] # None
    BY DEF ListAssumption
  <1>5. Made' = Made \cup {d} /\ d \notin Made /\ d \in There'
    BY <1>0, <1>1, <1>3, <1>4 DEF Made, There, Documents
  <1>6. Shaped'
    <2>1. renamed' \subseteq There' \ {Main}
      BY <1>1, <1>5 DEF ListInv, Shaped, Made
    <2>2. \A p \in Request : requests'[p].step \in {"owned", "released"} => requests'[p].doc \in Doc
      BY <1>2 DEF Moves, ListInv, Shaped
    <2>3. \A e \in Doc : rows'[e] # None
      BY <1>3, <1>4 DEF ListInv, Shaped
    <2> QED
      BY <1>1, <1>2, <1>3, <2>1, <2>2, <2>3 DEF ListInv, Shaped, Moves
  <1>7. Following'
    BY <1>1, <1>2, FollowingStays DEF ListInv
  <1>8. Counted' = Counted \ {q} /\ q \in Counted
    BY <1>1, <1>2 DEF Counted, Moves
  <1>9. /\ Cardinality(Made') = Cardinality(Made) + 1
        /\ Cardinality(Counted') = Cardinality(Counted) - 1
    BY <1>5, <1>8, MadeFinite, FS_AddElement, FS_RemoveElement DEF ListInv
  <1>10. Room'
    BY <1>9, MadeFinite DEF ListInv, Room, ListAssumption
  <1> QED
    BY <1>6, <1>7, <1>10 DEF ListInv

LEMMA FindList ==
  ASSUME ListAssumption, ListInv, NEW q \in Request, NEW d \in Documents, NEW kind \in {"rename", "delete"},
         Find(q, d, kind)
  PROVE  ListInv'
  <1>1. /\ requests[q].step = "idle" /\ rows' = WithMain /\ UNCHANGED <<renamed, listed, told, late>>
        /\ requests' = [requests EXCEPT ![q] = [step |-> IF d \in There \cap Doc /\ May(q, d) THEN "owned" ELSE "refused",
                                            doc |-> d, kind |-> kind, list |-> {}]]
    BY DEF Find
  <1>2. PICK step \in {"owned", "refused"} :
            /\ requests' = [requests EXCEPT ![q] = [step |-> step, doc |-> d, kind |-> kind, list |-> {}]]
            /\ step = "owned" => d \in Doc
    BY <1>1
  <1>3. Moves(q, step) /\ (step = "owned" => requests'[q].doc \in Doc)
    BY <1>2 DEF ListInv, Shaped, Requests, Steps, Moves
  <1>4. /\ rows' \in [Documents -> Person \cup {"no", None}] /\ rows'[Main] \in {"no", None}
        /\ \A e \in Doc : rows'[e] = rows[e]
        /\ Made' = Made /\ Listing' = Listing /\ There \ {Main} \subseteq There'
    BY <1>1, MainIsListed DEF ListInv
  <1>5. Shaped'
    BY <1>1, <1>3, <1>4 DEF ListInv, Shaped, Moves
  <1>6. Room'
    BY <1>3, <1>4, <1>5, RoomStays DEF ListInv
  <1>7. Following'
    BY <1>1, <1>3, <1>4, FollowingStays DEF ListInv
  <1> QED
    BY <1>5, <1>6, <1>7 DEF ListInv

LEMMA RenameList ==
  ASSUME ListAssumption, ListInv, NEW q \in Request, Rename(q)
  PROVE  ListInv'
  <1>1. /\ requests[q].step = "owned" /\ UNCHANGED <<rows, listed, told, late>>
        /\ renamed' = renamed \cup Named(requests[q].doc)
        /\ requests' = [requests EXCEPT ![q].step = "tell"]
    BY DEF Rename, Goto
  <1>2. Moves(q, "tell")
    BY <1>1 DEF ListInv, Shaped, Requests, Steps, Moves
  <1>3. There' = There /\ Made' = Made
    BY <1>1 DEF There, Made
  <1>4. renamed' \subseteq There' \ {Main}
    BY <1>1, <1>3 DEF ListInv, Shaped, Named, ListAssumption
  <1>5. Shaped'
    <2>1. \A p \in Request : requests'[p].step \in {"owned", "released"} => requests'[p].doc \in Doc
      BY <1>2 DEF Moves, ListInv, Shaped
    <2> QED
      BY <1>1, <1>2, <1>4, <2>1 DEF ListInv, Shaped, Moves
  <1>6. Room'
    BY <1>2, <1>3, <1>5, RoomStays DEF ListInv
  <1>7. Following'
    BY <1>1, <1>2, FollowingStays DEF ListInv
  <1> QED
    BY <1>5, <1>6, <1>7 DEF ListInv

LEMMA ReleaseList ==
  ASSUME ListAssumption, ListInv, NEW q \in Request, Release(q)
  PROVE  ListInv'
  <1>1. /\ requests[q].step = "owned" /\ UNCHANGED <<rows, renamed, listed, told, late>>
        /\ requests' = [requests EXCEPT ![q].step = "released"]
    BY DEF Release, Goto
  <1>2. Moves(q, "released") /\ requests'[q].doc = requests[q].doc
    BY <1>1 DEF ListInv, Shaped, Requests, Steps, Moves
  <1>3. There' = There /\ Made' = Made /\ Listing' = Listing
    BY <1>1 DEF There, Made, Listing
  <1>4. Shaped'
    <2>1. \A p \in Request : requests'[p].step \in {"owned", "released"} => requests'[p].doc \in Doc
      BY <1>1, <1>2 DEF Moves, ListInv, Shaped
    <2> QED
      BY <1>1, <1>2, <1>3, <2>1 DEF ListInv, Shaped, Moves
  <1>5. Room'
    BY <1>2, <1>3, <1>4, RoomStays DEF ListInv
  <1>6. Following'
    BY <1>1, <1>2, <1>3, FollowingStays DEF ListInv
  <1> QED
    BY <1>4, <1>5, <1>6 DEF ListInv

LEMMA DeleteRowList ==
  ASSUME ListAssumption, ListInv, NEW q \in Request, DeleteRow(q)
  PROVE  ListInv'
  <1>1. /\ requests[q].step = "released" /\ UNCHANGED <<listed, told, late>>
        /\ rows' = [rows EXCEPT ![requests[q].doc] = "no"]
        /\ renamed' = renamed \ {requests[q].doc}
        /\ requests' = [requests EXCEPT ![q].step = "tell"]
    BY DEF DeleteRow, Goto, AfterDelete
  <1>2. requests[q].doc \in Doc /\ requests[q].doc # Main
    BY <1>1 DEF ListInv, Shaped, ListAssumption
  <1>3. Moves(q, "tell")
    BY <1>1 DEF ListInv, Shaped, Requests, Steps, Moves
  <1>4. /\ rows' \in [Documents -> Person \cup {"no", None}] /\ rows'[Main] = rows[Main]
        /\ \A d \in Doc : rows'[d] \in {rows[d], "no"}
        /\ There' = There \ {requests[q].doc}
    BY <1>1, <1>2 DEF ListInv, Shaped, Documents, There
  <1>5. Shaped'
    <2>1. renamed' \subseteq There' \ {Main}
      BY <1>1, <1>4 DEF ListInv, Shaped
    <2>2. \A d \in Doc : rows'[d] # None
      BY <1>4 DEF ListInv, Shaped, ListAssumption
    <2>3. \A p \in Request : requests'[p].step \in {"owned", "released"} => requests'[p].doc \in Doc
      BY <1>3 DEF Moves, ListInv, Shaped
    <2> QED
      BY <1>1, <1>3, <1>4, <2>1, <2>2, <2>3 DEF ListInv, Shaped, Moves
  <1>6. Made' \subseteq Made
    BY <1>4 DEF Made
  <1>7. Room'
    BY <1>3, <1>5, <1>6, RoomStays DEF ListInv
  <1>8. Following'
    BY <1>1, <1>3, FollowingStays DEF ListInv
  <1> QED
    BY <1>5, <1>7, <1>8 DEF ListInv

LEMMA ReadListList ==
  ASSUME ListAssumption, ListInv, NEW q \in Request, ReadList(q)
  PROVE  ListInv'
  <1>1. /\ requests[q].step = "tell" /\ rows' = WithMain /\ listed' = Listing
        /\ UNCHANGED <<renamed, told, late>>
        /\ requests' = [requests EXCEPT ![q].list = Listing, ![q].step = "publish"]
    BY DEF ReadList
  <1>2. Listing \in SUBSET Entries
    <2>1. There \cup {Main} \subseteq Documents
      BY DEF There, Documents
    <2>2. \A d \in Documents : Entry(d, renamed) \in Entries
      BY DEF Entry, Entries
    <2> QED
      BY <2>1, <2>2 DEF Listing
  <1>3. Moves(q, "publish") /\ requests'[q].step = "publish"
    BY <1>1, <1>2 DEF ListInv, Shaped, Requests, Steps, Moves
  <1>4. /\ rows' \in [Documents -> Person \cup {"no", None}] /\ rows'[Main] \in {"no", None}
        /\ \A e \in Doc : rows'[e] = rows[e]
        /\ Made' = Made /\ Listing' = Listing /\ There \ {Main} \subseteq There'
    BY <1>1, MainIsListed DEF ListInv
  <1>5. Shaped'
    <2>1. \A p \in Request : requests'[p].step \in {"owned", "released"} => requests'[p].doc \in Doc
      BY <1>3 DEF Moves, ListInv, Shaped
    <2> QED
      BY <1>1, <1>3, <1>4, <2>1 DEF ListInv, Shaped, Moves
  <1>6. Room'
    BY <1>3, <1>4, <1>5, RoomStays DEF ListInv
  <1>7. Following'
    <2>1. listed' = Listing' /\ \E p \in Request : requests'[p].step = "publish"
      BY <1>1, <1>3, <1>4
    <2> QED
      BY <2>1 DEF Following
  <1> QED
    BY <1>5, <1>6, <1>7 DEF ListInv

LEMMA PublishList ==
  ASSUME ListAssumption, ListInv, NEW q \in Request, Publish(q)
  PROVE  ListInv'
  <1>1. /\ requests[q].step = "publish" /\ UNCHANGED <<rows, renamed, listed>>
        /\ told' = requests[q].list /\ late' = (requests[q].list # listed)
        /\ requests' = [requests EXCEPT ![q].step = "done", ![q].list = {}]
    BY DEF Publish
  <1>2. Moves(q, "done")
    <2>1. requests \in [Request -> Requests] /\ requests[q] \in Requests
      BY DEF ListInv, Shaped
    <2>2. PICK x : x = [requests[q] EXCEPT !.step = "done", !.list = {}]
      OBVIOUS
    <2>3. x \in Requests /\ x.step = "done"
      BY <2>1, <2>2 DEF Requests, Steps
    <2>4. requests' = [requests EXCEPT ![q] = x]
      BY <1>1, <2>2
    <2> QED
      BY <2>1, <2>3, <2>4 DEF Moves
  <1>3. There' = There /\ Made' = Made /\ Listing' = Listing
    BY <1>1 DEF There, Made, Listing
  <1>4. Shaped'
    <2>1. \A p \in Request : requests'[p].step \in {"owned", "released"} => requests'[p].doc \in Doc
      BY <1>2 DEF Moves, ListInv, Shaped
    <2>2. late' \in BOOLEAN
      BY <1>1
    <2> QED
      BY <1>1, <1>2, <1>3, <2>1, <2>2 DEF ListInv, Shaped, Moves
  <1>5. Room'
    BY <1>2, <1>3, <1>4, RoomStays DEF ListInv
  <1>6. (\E p \in Request : requests'[p].step = "tell") \/ listed' = Listing'
    <2>1. CASE \E p \in Request : requests[p].step = "tell"
      BY <1>1, <1>2, <2>1 DEF Moves
    <2>2. CASE listed = Listing
      BY <1>1, <1>3, <2>2
    <2> QED
      BY <2>1, <2>2 DEF ListInv, Following
  <1>7. late' \/ told' = listed'
    BY <1>1
  <1> QED
    BY <1>4, <1>5, <1>6, <1>7 DEF ListInv, Following

\* A list read for nobody, and a step of nothing.
LEMMA ReadKeeps ==
  ASSUME ListAssumption, ListInv, Read
  PROVE  ListInv'
  <1>1. rows' = WithMain /\ UNCHANGED <<renamed, requests, listed, told, late>>
    BY DEF Read
  <1>2. /\ rows' \in [Documents -> Person \cup {"no", None}] /\ rows'[Main] \in {"no", None}
        /\ \A e \in Doc : rows'[e] = rows[e]
        /\ Made' = Made /\ Listing' = Listing /\ There \ {Main} \subseteq There'
    BY <1>1, MainIsListed DEF ListInv
  <1>3. Shaped'
    BY <1>1, <1>2 DEF ListInv, Shaped
  <1>4. Counted' = Counted
    BY <1>1 DEF Counted
  <1> QED
    BY <1>1, <1>2, <1>3, <1>4 DEF ListInv, Room, Following

LEMMA StutterList == ASSUME ListInv, UNCHANGED vars PROVE ListInv'
  <1>1. There' = There /\ Counted' = Counted
    BY DEF vars, There, Counted
  <1>2. Made' = Made /\ Listing' = Listing
    BY <1>1 DEF vars, Made, Listing
  <1> QED
    BY <1>1, <1>2 DEF vars, ListInv, Shaped, Room, Following

LEMMA StepList == ASSUME ListAssumption, ListInv, [Next]_vars PROVE ListInv'
  BY CountList, InsertList, FindList, RenameList, ReleaseList, DeleteRowList, ReadListList, PublishList,
     ReadKeeps, StutterList DEF Next

THEOREM ListInvariant == ASSUME ListAssumption PROVE Spec => []ListInv
  BY InitList, StepList, PTL DEF Spec

-----------------------------------------------------------------------------
\* routes/documents.ts counts a room's documents and inserts one more in two
\* steps: however many requests do so at once, wherever, the room holds no
\* more than its cap and one for each other request.
THEOREM CapNearlyHolds == ASSUME ListAssumption PROVE Spec => []NearTheCap
  <1>1. ASSUME ListInv PROVE NearTheCap
    BY <1>1, MadeFinite DEF ListInv, Room, NearTheCap, Made, ListAssumption
  <1> QED
    BY <1>1, ListInvariant, PTL

\* routes/documents.ts, announce: whatever requests raced, once none is going
\* on the list read last is the list as it is, and the room was told it,
\* unless one read before it was published after it.
THEOREM RoomIsTold == ASSUME ListAssumption PROVE Spec => [](TypeOK /\ LastListIsCurrent)
  <1>1. ASSUME ListInv PROVE TypeOK /\ LastListIsCurrent
    BY <1>1, Shape DEF ListInv, Following, LastListIsCurrent, AtRest
  <1> QED
    BY <1>1, ListInvariant, PTL
=============================================================================
