------------------------- MODULE UploadStorageProofs -------------------------
(***************************************************************************)
(* Proofs about UploadStorage, for any uploads, rooms, replicas, limits,   *)
(* crashes and deletions: the limits hold, connections come back, the      *)
(* sweep takes no session that somebody is in, and what is recorded has    *)
(* its file.                                                               *)
(***************************************************************************)
EXTENDS UploadStorage, FiniteSetTheorems, TLAPS

-----------------------------------------------------------------------------
(* The inductive invariant.                                                *)

\* Between MoveIn and the row; with a connection; with the lock.
Moving == {"moved", "connected", "locked", "fits"}
Inside == {"locked", "fits", "recorded", "unfit", "over"}
Connected == Inside \cup {"connected"}

\* What the variables hold.
Shaped ==
  /\ into \in Plans
  /\ step \in [Upload -> {"new", "allowed", "moved", "connected", "locked", "fits", "recorded", "unfit", "over",
                          "unlocked", "refused", "saved", "done"}]
  /\ owner \in Upload \cup {None}
  /\ free \in [Replica -> Nat]
  /\ stored \subseteq Upload /\ files \subseteq Upload /\ working \subseteq Upload /\ deleting \subseteq Upload
  /\ alive \in BOOLEAN /\ present \in BOOLEAN /\ idle \in BOOLEAN /\ here \in BOOLEAN
  /\ sweep \in [at : {"rest", "begun", "idle", "deleted", "files", "listed", "asked"}, found : BOOLEAN,
                seen : SUBSET Upload, doomed : SUBSET Upload]
  /\ raced \subseteq Upload
  /\ crashes \in 0 .. MaxCrashes /\ deletes \in 0 .. MaxDeletes /\ idles \in 0 .. MaxIdles

\* The session's lock is held by the upload that is inside, and by no other.
OneInside == \A u \in Upload : step[u] \in Inside <=> owner = u

\* Each connection of a replica is free or in someone's hands; the sweep's is
\* counted as None's.
Users(r) == {u \in Upload : At[u] = r /\ step[u] \in Connected}
            \cup (IF r = Sweeper /\ sweep.at # "rest" THEN {None} ELSE {})
NoneLeaks == \A r \in Replica : free[r] + Cardinality(Users(r)) = PoolSize

\* What was found to fit fits until it is recorded.
StillFits == \A u \in Upload : step[u] = "fits" => Fits(u)

\* Who is in a session keeps it from being idle, and what the sweep found idle
\* had nobody in it.
Attended ==
  /\ present => alive /\ ~idle
  /\ ~alive => ~here
  /\ sweep.found => ~here
  /\ sweep.at = "deleted" => ~alive

\* How far an upload is, by what there is of it.
Begun ==
  \A u \in Upload :
    u \in files \cup stored \cup working \cup deleting \cup sweep.seen \cup sweep.doomed =>
      step[u] \notin {"new", "allowed"}
NotYetRecorded ==
  /\ \A u \in Upload : step[u] \in Moving \cup {"over", "refused", "unfit"} => u \notin stored
  /\ \A u \in deleting : u \notin stored /\ step[u] \notin Moving
  /\ \A u \in sweep.doomed : u \in raced \/ (u \notin stored /\ step[u] \notin Moving)

\* What is recorded, or about to be, has its file or was taken for left behind.
HasFile == alive => \A u \in Upload : u \in stored \/ step[u] \in Moving => u \in files \cup raced

UploadsInv ==
  /\ Shaped /\ OneInside /\ NoneLeaks /\ StillFits /\ WithinLimits
  /\ Attended /\ Begun /\ NotYetRecorded /\ HasFile

-----------------------------------------------------------------------------
(* What the variables hold.                                                *)

\* Initially nothing is stored and every connection is free.
LEMMA ShapedStarts ==
  ASSUME StorageAssumption, Init
  PROVE  Shaped
  <1>1. PoolSize \in Nat /\ MaxCrashes \in Nat /\ MaxDeletes \in Nat /\ MaxIdles \in Nat
    BY DEF StorageAssumption
  <1>2. sweep \in [at : {"rest", "begun", "idle", "deleted", "files", "listed", "asked"}, found : BOOLEAN,
                   seen : SUBSET Upload, doomed : SUBSET Upload]
    BY DEF Init, Resting
  <1>3. 0 \in 0 .. MaxCrashes /\ 0 \in 0 .. MaxDeletes /\ 0 \in 0 .. MaxIdles
    BY <1>1
  <1>4. free \in [Replica -> Nat]
    BY <1>1 DEF Init
  <1> QED
    BY <1>2, <1>3, <1>4 DEF Init, Shaped

\* Every step keeps it.
LEMMA ShapedKeeps ==
  ASSUME StorageAssumption, Shaped, [Next]_vars
  PROVE  Shaped'
  <1>1. CASE UNCHANGED vars
    BY <1>1 DEF vars, Shaped, StorageAssumption
  <1>2. ASSUME NEW u \in Upload, Check(u) PROVE Shaped'
    BY <1>2 DEF Check, Goto, pool, session, Shaped, StorageAssumption
  <1>3. ASSUME NEW u \in Upload, MoveIn(u) PROVE Shaped'
    BY <1>3 DEF MoveIn, Goto, pool, session, Shaped, StorageAssumption
  <1>4. ASSUME NEW u \in Upload, Connect(u) PROVE Shaped'
    BY <1>4 DEF Connect, Goto, Takes, pool, session, Shaped, StorageAssumption
  <1>5. ASSUME NEW u \in Upload, Lock(u) PROVE Shaped'
    BY <1>5 DEF Lock, Goto, pool, session, Shaped, StorageAssumption
  <1>6. ASSUME NEW u \in Upload, Measure(u) PROVE Shaped'
    BY <1>6 DEF Measure, Goto, pool, session, Shaped, StorageAssumption
  <1>7. ASSUME NEW u \in Upload, Insert(u) PROVE Shaped'
    BY <1>7 DEF Insert, Goto, pool, session, Shaped, StorageAssumption
  <1>8. ASSUME NEW u \in Upload, Unlock(u) PROVE Shaped'
    BY <1>8 DEF Unlock, Goto, Gives, pool, session, Shaped, StorageAssumption
  <1>9. ASSUME NEW u \in Upload, RemoveRefused(u) PROVE Shaped'
    BY <1>9 DEF RemoveRefused, Goto, pool, session, Shaped, StorageAssumption
  <1>10. ASSUME NEW u \in Upload, Finish(u) PROVE Shaped'
    BY <1>10 DEF Finish, Goto, pool, session, Shaped, StorageAssumption
  <1>11. ASSUME NEW u \in Upload, RemoveFiles(u) PROVE Shaped'
    BY <1>11 DEF RemoveFiles, pool, session, Shaped, StorageAssumption
  <1>12. ASSUME NEW u \in Upload, WorkerWrites(u) PROVE Shaped'
    BY <1>12 DEF WorkerWrites, pool, session, Shaped, StorageAssumption
  <1>13. ASSUME NEW u \in Upload, Delete(u) PROVE Shaped'
    BY <1>13 DEF Delete, pool, session, Shaped, StorageAssumption
  <1>14. ASSUME NEW u \in Upload, SweepRemove(u) PROVE Shaped'
    BY <1>14 DEF SweepRemove, pool, session, Shaped, StorageAssumption
  <1>15. CASE Leave
    BY <1>15 DEF Leave, pool, session, Shaped, StorageAssumption
  <1>16. CASE DaysPass
    BY <1>16 DEF DaysPass, pool, session, Shaped, StorageAssumption
  <1>17. CASE Return
    BY <1>17 DEF Return, pool, session, Shaped, StorageAssumption
  <1>18. CASE SweepBegin
    BY <1>18 DEF SweepBegin, Takes, pool, session, Shaped, StorageAssumption
  <1>19. CASE SweepIdle
    BY <1>19 DEF SweepIdle, pool, session, Shaped, StorageAssumption
  <1>20. CASE SweepDelete
    BY <1>20 DEF SweepDelete, pool, session, Shaped, StorageAssumption
  <1>21. CASE SweepRoomFolders
    BY <1>21 DEF SweepRoomFolders, pool, session, Shaped, StorageAssumption
  <1>22. CASE SweepList
    BY <1>22 DEF SweepList, pool, session, Shaped, StorageAssumption
  <1>23. CASE SweepAsk
    BY <1>23 DEF SweepAsk, LeftBehind, pool, session, Shaped, StorageAssumption
  <1>24. CASE SweepEnd
    BY <1>24 DEF SweepEnd, Gives, Resting, pool, session, Shaped, StorageAssumption
  <1>25. ASSUME NEW r \in Replica, Crash(r) PROVE Shaped'
    BY <1>25 DEF Crash, Resting, pool, session, Shaped, StorageAssumption
  <1> QED
    BY <1>1, <1>2, <1>3, <1>4, <1>5, <1>6, <1>7, <1>8, <1>9, <1>10, <1>11, <1>12, <1>13, <1>14, <1>15, <1>16,
       <1>17, <1>18, <1>19, <1>20, <1>21, <1>22, <1>23, <1>24, <1>25
          DEF Next, Uploading, Sweeping

-----------------------------------------------------------------------------
(* The session's lock.                                                     *)

\* The lock's holder is inside, and nobody else.
LEMMA OneInsideKeeps ==
  ASSUME StorageAssumption, Shaped, OneInside, [Next]_vars
  PROVE  OneInside'
  <1>1. CASE UNCHANGED <<step, owner>>
    BY <1>1 DEF Shaped, OneInside, Inside, StorageAssumption
  <1>2. ASSUME NEW u \in Upload, Check(u) PROVE OneInside'
    BY <1>2 DEF Check, Goto, pool, session, Shaped, OneInside, Inside, StorageAssumption
  <1>3. ASSUME NEW u \in Upload, MoveIn(u) PROVE OneInside'
    BY <1>3 DEF MoveIn, Goto, pool, session, Shaped, OneInside, Inside, StorageAssumption
  <1>4. ASSUME NEW u \in Upload, Connect(u) PROVE OneInside'
    BY <1>4 DEF Connect, Goto, Takes, pool, session, Shaped, OneInside, Inside, StorageAssumption
  <1>5. ASSUME NEW u \in Upload, Lock(u) PROVE OneInside'
    BY <1>5 DEF Lock, Goto, pool, session, Shaped, OneInside, Inside, StorageAssumption
  <1>6. ASSUME NEW u \in Upload, Measure(u) PROVE OneInside'
    BY <1>6 DEF Measure, Goto, pool, session, Shaped, OneInside, Inside, StorageAssumption
  <1>7. ASSUME NEW u \in Upload, Insert(u) PROVE OneInside'
    BY <1>7 DEF Insert, Goto, pool, session, Shaped, OneInside, Inside, StorageAssumption
  <1>8. ASSUME NEW u \in Upload, Unlock(u) PROVE OneInside'
    BY <1>8 DEF Unlock, Goto, Gives, pool, session, Shaped, OneInside, Inside, StorageAssumption
  <1>9. ASSUME NEW u \in Upload, RemoveRefused(u) PROVE OneInside'
    BY <1>9 DEF RemoveRefused, Goto, pool, session, Shaped, OneInside, Inside, StorageAssumption
  <1>10. ASSUME NEW u \in Upload, Finish(u) PROVE OneInside'
    BY <1>10 DEF Finish, Goto, pool, session, Shaped, OneInside, Inside, StorageAssumption
  <1>11. ASSUME NEW r \in Replica, Crash(r) PROVE OneInside'
    BY <1>11 DEF Crash, Resting, pool, session, Shaped, OneInside, Inside, StorageAssumption
  <1> QED
    BY <1>1, <1>2, <1>3, <1>4, <1>5, <1>6, <1>7, <1>8, <1>9, <1>10, <1>11
          DEF Next, Uploading, Sweeping, vars, pool, session, RemoveFiles, WorkerWrites, Delete, SweepRemove,
          Leave, DaysPass, Return, SweepBegin, SweepIdle, SweepDelete, SweepRoomFolders, SweepList, SweepAsk,
          SweepEnd

-----------------------------------------------------------------------------
(* Connections.                                                            *)

\* The users of a replica's connections are finitely many.
LEMMA UsersFinite ==
  ASSUME StorageAssumption, NEW r \in Replica
  PROVE  IsFiniteSet(Users(r)) /\ Cardinality(Users(r)) \in Nat
  <1>1. IsFiniteSet({u \in Upload : At[u] = r /\ step[u] \in Connected})
    BY FS_Subset DEF StorageAssumption
  <1>2. IsFiniteSet({None}) /\ IsFiniteSet({})
    BY FS_Singleton, FS_EmptySet
  <1>3. IsFiniteSet(Users(r))
    BY <1>1, <1>2, FS_Union DEF Users
  <1> QED
    BY <1>3, FS_CardinalityType

\* One connection is taken.
LEMMA OneTaken ==
  ASSUME StorageAssumption, Shaped, NoneLeaks, NEW r \in Replica, NEW x,
         Takes(r), Users(r)' = Users(r) \cup {x}, x \notin Users(r),
         \A q \in Replica : q # r => Users(q)' = Users(q)
  PROVE  NoneLeaks'
  <1> SUFFICES ASSUME NEW q \in Replica PROVE free'[q] + Cardinality(Users(q)') = PoolSize
    BY DEF NoneLeaks
  <1>1. free[q] + Cardinality(Users(q)) = PoolSize /\ free[q] \in Nat
    BY DEF NoneLeaks, Shaped
  <1>2. CASE q = r
    <2>1. free'[q] = free[q] - 1
      BY <1>2 DEF Takes, Shaped
    <2>2. IsFiniteSet(Users(r)) /\ Cardinality(Users(r)) \in Nat
      BY UsersFinite
    <2>3. Cardinality(Users(r)') = Cardinality(Users(r)) + 1
      BY <2>2, FS_AddElement
    <2>4. PICK n \in Nat : n = Cardinality(Users(r))
      BY <2>2
    <2>5. free[q] + n = PoolSize /\ Cardinality(Users(q)') = n + 1
      BY <1>1, <1>2, <2>3, <2>4
    <2> QED
      BY <1>1, <2>1, <2>4, <2>5
  <1>3. CASE q # r
    BY <1>1, <1>3 DEF Takes, Shaped
  <1> QED
    BY <1>2, <1>3

\* One is given back.
LEMMA OneGiven ==
  ASSUME StorageAssumption, Shaped, NoneLeaks, NEW r \in Replica, NEW x,
         Gives(r), Users(r)' = Users(r) \ {x}, x \in Users(r),
         \A q \in Replica : q # r => Users(q)' = Users(q)
  PROVE  NoneLeaks'
  <1> SUFFICES ASSUME NEW q \in Replica PROVE free'[q] + Cardinality(Users(q)') = PoolSize
    BY DEF NoneLeaks
  <1>1. free[q] + Cardinality(Users(q)) = PoolSize /\ free[q] \in Nat
    BY DEF NoneLeaks, Shaped
  <1>2. CASE q = r
    <2>1. free'[q] = free[q] + 1
      BY <1>2 DEF Gives, Shaped
    <2>2. IsFiniteSet(Users(r)) /\ Cardinality(Users(r)) \in Nat
      BY UsersFinite
    <2>3. Cardinality(Users(r) \ {x}) = Cardinality(Users(r)) - 1
      BY <2>2, FS_RemoveElement
    <2>4. PICK m \in Nat, n \in Nat : m = free[q] /\ n = Cardinality(Users(q)) /\ m + n = PoolSize
      BY <1>1, <1>2, <2>2
    <2>5. free'[q] = m + 1 /\ Cardinality(Users(q)') = n - 1
      BY <1>2, <2>1, <2>3, <2>4
    <2> QED
      BY <2>4, <2>5
  <1>3. CASE q # r
    BY <1>1, <1>3 DEF Gives, Shaped
  <1> QED
    BY <1>2, <1>3

\* None is taken or given back.
LEMMA NoneTaken ==
  ASSUME NoneLeaks, free' = free, sweep'.at = "rest" <=> sweep.at = "rest",
         \A u \in Upload : step'[u] \in Connected <=> step[u] \in Connected
  PROVE  NoneLeaks'
  <1>1. \A r \in Replica : Users(r)' = Users(r)
    BY DEF Users, Connected
  <1> QED
    BY <1>1 DEF NoneLeaks

\* No step loses a connection or makes one.
LEMMA NoneLeaksKeeps ==
  ASSUME StorageAssumption, Shaped, NoneLeaks, [Next]_vars
  PROVE  NoneLeaks'
  <1>1. CASE UNCHANGED <<step, free, sweep>>
    BY <1>1 DEF NoneLeaks, Users
  <1>2. ASSUME NEW u \in Upload, Check(u) PROVE NoneLeaks'
    BY <1>2, NoneTaken DEF Check, Goto, pool, Shaped, Connected, Inside
  <1>3. ASSUME NEW u \in Upload, MoveIn(u) PROVE NoneLeaks'
    BY <1>3, NoneTaken DEF MoveIn, Goto, pool, Shaped, Connected, Inside
  <1>4. ASSUME NEW u \in Upload, Connect(u) PROVE NoneLeaks'
    <2>1. u \in Users(At[u])' /\ u \notin Users(At[u]) /\ Takes(At[u]) /\ At[u] \in Replica /\ u # None
      BY <1>4 DEF Connect, Goto, Users, Shaped, Connected, Inside, StorageAssumption
    <2>2. \A v \in Upload : v # u => step'[v] = step[v]
      BY <1>4 DEF Connect, Goto, Shaped
    <2>3. sweep' = sweep
      BY <1>4 DEF Connect
    <2>4. \A q \in Replica : \A x : x \in Users(q)' <=> x \in Users(q) \/ (q = At[u] /\ x = u)
      BY <2>1, <2>2, <2>3 DEF Users
    <2> QED
      BY <2>1, <2>4, OneTaken
  <1>5. ASSUME NEW u \in Upload, Lock(u) PROVE NoneLeaks'
    BY <1>5, NoneTaken DEF Lock, Goto, pool, Shaped, Connected, Inside
  <1>6. ASSUME NEW u \in Upload, Measure(u) PROVE NoneLeaks'
    BY <1>6, NoneTaken DEF Measure, Goto, pool, Shaped, Connected, Inside
  <1>7. ASSUME NEW u \in Upload, Insert(u) PROVE NoneLeaks'
    BY <1>7, NoneTaken DEF Insert, Goto, pool, Shaped, Connected, Inside
  <1>8. ASSUME NEW u \in Upload, Unlock(u) PROVE NoneLeaks'
    <2>1. u \in Users(At[u]) /\ u \notin Users(At[u])' /\ Gives(At[u]) /\ At[u] \in Replica /\ u # None
      BY <1>8 DEF Unlock, Goto, Users, Shaped, Connected, Inside, StorageAssumption
    <2>2. \A v \in Upload : v # u => step'[v] = step[v]
      BY <1>8 DEF Unlock, Goto, Shaped
    <2>3. sweep' = sweep
      BY <1>8 DEF Unlock
    <2>4. \A q \in Replica : \A x : x \in Users(q)' <=> x \in Users(q) /\ ~(q = At[u] /\ x = u)
      BY <2>1, <2>2, <2>3 DEF Users
    <2> QED
      BY <2>1, <2>4, OneGiven
  <1>9. ASSUME NEW u \in Upload, RemoveRefused(u) PROVE NoneLeaks'
    BY <1>9, NoneTaken DEF RemoveRefused, Goto, pool, Shaped, Connected, Inside
  <1>10. ASSUME NEW u \in Upload, Finish(u) PROVE NoneLeaks'
    BY <1>10, NoneTaken DEF Finish, Goto, pool, Shaped, Connected, Inside
  <1>11. ASSUME NEW u \in Upload, SweepRemove(u) PROVE NoneLeaks'
    BY <1>11, NoneTaken DEF SweepRemove, pool, Shaped, Connected, Inside
  <1>12. CASE SweepBegin
    <2>1. /\ sweep.at = "rest" /\ sweep'.at = "begun" /\ Takes(Sweeper) /\ step' = step
          /\ Sweeper \in Replica /\ None \notin Upload
      BY <1>12 DEF SweepBegin, Shaped, StorageAssumption
    <2>2. None \notin Users(Sweeper)
      BY <2>1 DEF Users
    <2>3. \A q \in Replica : \A x : x \in Users(q)' <=> x \in Users(q) \/ (q = Sweeper /\ x = None)
      BY <2>1 DEF Users, Connected
    <2> QED
      BY <2>1, <2>2, <2>3, OneTaken
  <1>13. CASE SweepIdle
    BY <1>13, NoneTaken DEF SweepIdle, pool, Shaped, Connected, Inside
  <1>14. CASE SweepDelete
    BY <1>14, NoneTaken DEF SweepDelete, pool, Shaped, Connected, Inside
  <1>15. CASE SweepRoomFolders
    BY <1>15, NoneTaken DEF SweepRoomFolders, pool, Shaped, Connected, Inside
  <1>16. CASE SweepList
    BY <1>16, NoneTaken DEF SweepList, pool, Shaped, Connected, Inside
  <1>17. CASE SweepAsk
    BY <1>17, NoneTaken DEF SweepAsk, LeftBehind, pool, Shaped, Connected, Inside
  <1>18. CASE SweepEnd
    <2>1. /\ sweep.at # "rest" /\ sweep'.at = "rest" /\ Gives(Sweeper) /\ step' = step
          /\ Sweeper \in Replica /\ None \notin Upload
      BY <1>18 DEF SweepEnd, Shaped, StorageAssumption, Resting
    <2>2. None \in Users(Sweeper)
      BY <2>1 DEF Users
    <2>3. \A q \in Replica : \A x : x \in Users(q)' <=> x \in Users(q) /\ ~(q = Sweeper /\ x = None)
      BY <2>1 DEF Users, Connected
    <2> QED
      BY <2>1, <2>2, <2>3, OneGiven
  <1>19. ASSUME NEW r \in Replica, Crash(r) PROVE NoneLeaks'
    <2>1. /\ \A u \in Upload : step'[u] = IF At[u] = r /\ step[u] # "new" THEN "done" ELSE step[u]
          /\ \A q \in Replica : free'[q] = IF q = r THEN PoolSize ELSE free[q]
          /\ sweep' = IF r = Sweeper THEN Resting ELSE sweep
          /\ Resting.at = "rest"
      BY <1>19 DEF Crash, Shaped, Resting
    <2>2. Users(r)' = {}
      BY <2>1 DEF Users, Connected, Inside
    <2>3. \A q \in Replica : q # r => Users(q)' = Users(q)
      BY <2>1 DEF Users, Connected
    <2>4. PoolSize \in Nat
      BY DEF StorageAssumption
    <2> QED
      BY <2>1, <2>2, <2>3, <2>4, FS_EmptySet DEF NoneLeaks
  <1> QED
    BY <1>1, <1>2, <1>3, <1>4, <1>5, <1>6, <1>7, <1>8, <1>9, <1>10, <1>11, <1>12, <1>13, <1>14, <1>15, <1>16,
       <1>17, <1>18, <1>19
          DEF Next, Uploading, Sweeping, vars, pool, session, RemoveFiles, WorkerWrites, Delete, Leave,
          DaysPass, Return

-----------------------------------------------------------------------------
(* Bytes and limits.                                                       *)

\* What one upload holds.
Held(u) == {u} \X (1 .. Size[u])
AllOf(us) == UNION {Held(u) : u \in us}

\* Bytes are counted one by one, and there are finitely many.
LEMMA BytesOfOne ==
  ASSUME StorageAssumption, NEW u \in Upload
  PROVE  IsFiniteSet(Held(u)) /\ Cardinality(Held(u)) = Size[u] /\ Size[u] \in Nat
  <1>1. Size[u] \in Nat
    BY DEF StorageAssumption
  <1>2. IsFiniteSet(1 .. Size[u]) /\ Cardinality(1 .. Size[u]) = Size[u]
    <2>1. PICK n \in Nat : n = Size[u]
      BY <1>1
    <2>2. 1 \in Int /\ n \in Int
      OBVIOUS
    <2>3. IsFiniteSet(1 .. n) /\ Cardinality(1 .. n) = IF 1 > n THEN 0 ELSE n - 1 + 1
      BY ZenonT(60), <2>2, FS_Interval
    <2>4. (IF 1 > n THEN 0 ELSE n - 1 + 1) = n
      OBVIOUS
    <2> QED
      BY ZenonT(60), <2>1, <2>3, <2>4
  <1>3. IsFiniteSet({u}) /\ Cardinality({u}) = 1
    BY FS_Singleton
  <1>4. IsFiniteSet(Held(u)) /\ Cardinality(Held(u)) = 1 * Size[u]
    <2>1. /\ IsFiniteSet({u} \X (1 .. Size[u]))
          /\ Cardinality({u} \X (1 .. Size[u])) = Cardinality({u}) * Cardinality(1 .. Size[u])
      BY ZenonT(60), <1>2, <1>3, FS_Product
    <2> QED
      BY ZenonT(60), <1>2, <1>3, <2>1 DEF Held
  <1> QED
    BY <1>1, <1>4

LEMMA BytesFinite ==
  ASSUME StorageAssumption, NEW us \in SUBSET Upload
  PROVE  IsFiniteSet(AllOf(us)) /\ Bytes(us) = Cardinality(AllOf(us)) /\ Bytes(us) \in Nat
  <1>1. IsFiniteSet(us)
    BY FS_Subset DEF StorageAssumption
  <1>2. PICK T : T = {Held(u) : u \in us}
    OBVIOUS
  <1>3. PICK f : f = [u \in us |-> Held(u)]
    OBVIOUS
  <1>4. f \in Surjection(us, T)
    BY <1>2, <1>3 DEF Surjection
  <1>5. IsFiniteSet(T)
    BY <1>1, <1>4, FS_Surjection
  <1>6. \A t \in T : IsFiniteSet(t)
    BY <1>2, BytesOfOne
  <1>7. IsFiniteSet(UNION T)
    BY <1>5, <1>6, FS_UNION
  <1>8. IsFiniteSet(AllOf(us))
    BY <1>2, <1>7 DEF AllOf
  <1>9. Bytes(us) = Cardinality(AllOf(us))
    BY DEF Bytes, AllOf, Held
  <1> QED
    BY <1>8, <1>9, FS_CardinalityType

\* Fewer uploads are no more bytes, and one more adds its size at most.
LEMMA BytesOfFewer ==
  ASSUME StorageAssumption, NEW us \in SUBSET Upload, NEW vs \in SUBSET us
  PROVE  Bytes(vs) <= Bytes(us)
  <1>1. AllOf(vs) \subseteq AllOf(us)
    BY DEF AllOf
  <1>2. IsFiniteSet(AllOf(us)) /\ Bytes(us) = Cardinality(AllOf(us)) /\ Bytes(vs) = Cardinality(AllOf(vs))
    BY BytesFinite
  <1> QED
    BY <1>1, <1>2, FS_Subset

LEMMA BytesOfOneMore ==
  ASSUME StorageAssumption, NEW us \in SUBSET Upload, NEW u \in Upload
  PROVE  Bytes(us \cup {u}) <= Bytes(us) + Size[u]
  <1>1. AllOf(us \cup {u}) = AllOf(us) \cup Held(u)
    BY DEF AllOf
  <1>2. IsFiniteSet(AllOf(us)) /\ Bytes(us) = Cardinality(AllOf(us)) /\ Bytes(us) \in Nat
    BY BytesFinite
  <1>3. Bytes(us \cup {u}) = Cardinality(AllOf(us) \cup Held(u))
    <2>1. us \cup {u} \in SUBSET Upload
      OBVIOUS
    <2> QED
      BY <1>1, <2>1, BytesFinite
  <1>4. IsFiniteSet(Held(u)) /\ Cardinality(Held(u)) = Size[u] /\ Size[u] \in Nat
    BY BytesOfOne
  <1>5. Cardinality(AllOf(us) \cup Held(u)) =
          Cardinality(AllOf(us)) + Cardinality(Held(u)) - Cardinality(AllOf(us) \cap Held(u))
    BY <1>2, <1>4, FS_Union
  <1>6. IsFiniteSet(AllOf(us) \cap Held(u))
    BY <1>2, FS_Intersection
  <1>7. PICK n \in Nat : n = Cardinality(AllOf(us) \cap Held(u))
    BY <1>6, FS_CardinalityType
  <1> QED
    BY <1>2, <1>3, <1>4, <1>5, <1>7

\* What fits goes on fitting while nothing is recorded.
LEMMA FitsOn ==
  ASSUME StorageAssumption, Shaped, NEW u \in Upload, Fits(u), into' = into, stored' \subseteq stored
  PROVE  Fits(u)'
  <1>1. PICK room : room = {v \in stored : into[v] = into[u]}
    OBVIOUS
  <1>2. PICK left : left = {v \in stored' : into[v] = into[u]}
    OBVIOUS
  <1>3. left \subseteq room /\ room \subseteq stored /\ stored \subseteq Upload
    BY <1>1, <1>2 DEF Shaped
  <1>4. Bytes(left) <= Bytes(room) /\ Bytes(stored') <= Bytes(stored)
    BY <1>3, BytesOfFewer
  <1>5. /\ Bytes(left) \in Nat /\ Bytes(room) \in Nat /\ Bytes(stored') \in Nat /\ Bytes(stored) \in Nat
    BY <1>3, BytesFinite
  <1>6. Size[u] \in Nat /\ RoomLimit \in Nat /\ SessionLimit \in Nat
    BY DEF StorageAssumption
  <1>7. Bytes(room) + Size[u] <= RoomLimit /\ Bytes(stored) + Size[u] <= SessionLimit
    BY <1>1 DEF Fits
  <1>8. Bytes(left) + Size[u] <= RoomLimit /\ Bytes(stored') + Size[u] <= SessionLimit
    BY <1>4, <1>5, <1>6, <1>7
  <1> QED
    BY <1>2, <1>8 DEF Fits, Bytes

\* What is recorded grows by what fitted, or shrinks.
LEMMA StoredSteps ==
  ASSUME Shaped, [Next]_vars
  PROVE  /\ into' = into
         /\ \/ stored' \subseteq stored
            \/ \E u \in Upload : Insert(u) /\ stored' = stored \cup {u}
  <1>1. CASE UNCHANGED <<into, stored>>
    BY <1>1
  <1>2. ASSUME NEW u \in Upload, Insert(u)
        PROVE  into' = into /\ (stored' \subseteq stored \/ stored' = stored \cup {u})
    BY <1>2 DEF Insert
  <1>3. ASSUME NEW u \in Upload, Delete(u) PROVE into' = into /\ stored' \subseteq stored
    BY <1>3 DEF Delete
  <1>4. CASE SweepDelete
    BY <1>4 DEF SweepDelete
  <1> QED
    BY <1>1, <1>2, <1>3, <1>4
       DEF Next, Uploading, Sweeping, vars, Check, MoveIn, Connect, Lock, Measure, Unlock, RemoveRefused, Finish,
           RemoveFiles, WorkerWrites, SweepRemove, Leave, DaysPass, Return, SweepBegin, SweepIdle,
           SweepRoomFolders, SweepList, SweepAsk, SweepEnd, Crash

\* The limits are kept: what goes in was found to fit, and nothing else went in
\* since.
LEMMA LimitsKeep ==
  ASSUME StorageAssumption, Shaped, OneInside, StillFits, WithinLimits, [Next]_vars
  PROVE  WithinLimits'
  <1>1. into' = into /\ stored \subseteq Upload /\ \A r : {v \in stored : into[v] = r} \subseteq Upload
    BY StoredSteps DEF Shaped
  <1>2. RoomLimit \in Nat /\ SessionLimit \in Nat
    BY DEF StorageAssumption
  <1>3. Bytes(stored) <= SessionLimit /\ \A r \in Room : Bytes({v \in stored : into[v] = r}) <= RoomLimit
    BY DEF WithinLimits
  <1>4. CASE stored' \subseteq stored
    <2>1. Bytes(stored') <= SessionLimit
      BY <1>1, <1>2, <1>3, <1>4, BytesOfFewer, BytesFinite
    <2>2. ASSUME NEW r \in Room PROVE Bytes({v \in stored' : into[v] = r}) <= RoomLimit
      <3>1. PICK room : room = {v \in stored : into[v] = r}
        OBVIOUS
      <3>2. PICK left : left = {v \in stored' : into[v] = r}
        OBVIOUS
      <3>3. left \subseteq room /\ room \subseteq Upload /\ Bytes(room) <= RoomLimit
        BY <1>1, <1>3, <1>4, <3>1, <3>2
      <3>4. Bytes(left) <= Bytes(room) /\ Bytes(left) \in Nat /\ Bytes(room) \in Nat
        BY <3>3, BytesOfFewer, BytesFinite
      <3> QED
        BY <1>2, <3>2, <3>3, <3>4
    <2> QED
      BY <1>1, <2>1, <2>2 DEF WithinLimits, Bytes
  <1>5. ASSUME NEW u \in Upload, Insert(u), stored' = stored \cup {u} PROVE WithinLimits'
    <2>1. Fits(u) /\ Size[u] \in Nat
      BY <1>5 DEF Insert, StillFits, StorageAssumption
    <2>2. Bytes(stored') <= SessionLimit
      <3>1. Bytes(stored') <= Bytes(stored) + Size[u] /\ Bytes(stored') \in Nat /\ Bytes(stored) \in Nat
        BY <1>1, <1>5, BytesOfOneMore, BytesFinite
      <3> QED
        BY <1>2, <2>1, <3>1 DEF Fits
    <2>3. ASSUME NEW r \in Room PROVE Bytes({v \in stored' : into[v] = r}) <= RoomLimit
      <3>1. PICK room : room = {v \in stored : into[v] = r}
        OBVIOUS
      <3>2. PICK now : now = {v \in stored' : into[v] = r}
        OBVIOUS
      <3>3. room \subseteq Upload /\ Bytes(room) <= RoomLimit
        BY <1>1, <1>3, <3>1
      <3>4. CASE into[u] # r
        <4>1. now = room
          BY <1>5, <3>1, <3>2, <3>4
        <4> QED
          BY <3>2, <3>3, <4>1
      <3>5. CASE into[u] = r
        <4>1. now = room \cup {u}
          BY <1>5, <3>1, <3>2, <3>5
        <4>2. Bytes(room) + Size[u] <= RoomLimit
          BY <2>1, <3>1, <3>5 DEF Fits
        <4>3. Bytes(now) <= Bytes(room) + Size[u] /\ Bytes(now) \in Nat /\ Bytes(room) \in Nat
          BY <3>3, <4>1, BytesOfOneMore, BytesFinite
        <4> QED
          BY <1>2, <2>1, <3>2, <4>2, <4>3
      <3> QED
        BY <3>4, <3>5
    <2> QED
      BY <1>1, <2>2, <2>3 DEF WithinLimits, Bytes
  <1> QED
    BY <1>4, <1>5, StoredSteps

\* Nobody else records while one that fits has the lock.
LEMMA StillFitsKeeps ==
  ASSUME StorageAssumption, Shaped, OneInside, StillFits, [Next]_vars
  PROVE  StillFits'
  <1> SUFFICES ASSUME NEW u \in Upload, step'[u] = "fits" PROVE Fits(u)'
    BY DEF StillFits
  <1>1. CASE step[u] = "fits"
    <2>1. ASSUME NEW v \in Upload, Insert(v) PROVE FALSE
      <3>1. step[v] = "fits" /\ step'[v] # "fits"
        BY <2>1 DEF Insert, Goto, Shaped
      <3>2. owner = u /\ owner = v
        BY <1>1, <3>1 DEF OneInside, Inside
      <3> QED
        BY <3>1, <3>2
    <2>2. stored' \subseteq stored /\ into' = into
      BY <2>1, StoredSteps
    <2> QED
      BY <1>1, <2>2, FitsOn DEF StillFits
  <1>2. ASSUME NEW v \in Upload, Measure(v), step[u] # "fits" PROVE Fits(u)'
    <2>1. u = v
      BY <1>2 DEF Measure, Goto, Shaped
    <2>2. Fits(u)
      BY <1>2, <2>1 DEF Measure, Goto, Shaped
    <2>3. stored' = stored /\ into' = into
      BY <1>2 DEF Measure
    <2> QED
      BY <2>2, <2>3, FitsOn
  <1>3. CASE step[u] # "fits" /\ ~(\E v \in Upload : Measure(v))
    <2>1. CASE UNCHANGED step
      BY <2>1, <1>3 DEF Shaped
    <2>2. ASSUME NEW v \in Upload, Check(v) PROVE FALSE
      BY <1>3, <2>2 DEF Check, Goto, Shaped
    <2>3. ASSUME NEW v \in Upload, MoveIn(v) PROVE FALSE
      BY <1>3, <2>3 DEF MoveIn, Goto, Shaped
    <2>4. ASSUME NEW v \in Upload, Connect(v) PROVE FALSE
      BY <1>3, <2>4 DEF Connect, Goto, Takes, Shaped
    <2>5. ASSUME NEW v \in Upload, Lock(v) PROVE FALSE
      BY <1>3, <2>5 DEF Lock, Goto, Shaped
    <2>6. ASSUME NEW v \in Upload, Insert(v) PROVE FALSE
      BY <1>3, <2>6 DEF Insert, Goto, Shaped
    <2>7. ASSUME NEW v \in Upload, Unlock(v) PROVE FALSE
      BY <1>3, <2>7 DEF Unlock, Goto, Gives, Shaped
    <2>8. ASSUME NEW v \in Upload, RemoveRefused(v) PROVE FALSE
      BY <1>3, <2>8 DEF RemoveRefused, Goto, Shaped
    <2>9. ASSUME NEW v \in Upload, Finish(v) PROVE FALSE
      BY <1>3, <2>9 DEF Finish, Goto, Shaped
    <2>10. ASSUME NEW r \in Replica, Crash(r) PROVE FALSE
      BY <1>3, <2>10 DEF Crash, Resting, Shaped
    <2> QED
      BY <1>3, <2>1, <2>2, <2>3, <2>4, <2>5, <2>6, <2>7, <2>8, <2>9, <2>10
            DEF Next, Uploading, Sweeping, vars, pool, session, Measure, RemoveFiles, WorkerWrites, Delete,
            SweepRemove, Leave, DaysPass, Return, SweepBegin, SweepIdle, SweepDelete, SweepRoomFolders,
            SweepList, SweepAsk, SweepEnd
  <1> QED
    BY <1>1, <1>2, <1>3

-----------------------------------------------------------------------------
(* The session and the sweep.                                              *)

\* Who is in the session keeps it; the sweep takes what had nobody in it.
LEMMA AttendedKeeps ==
  ASSUME StorageAssumption, Shaped, Attended, [Next]_vars
  PROVE  Attended'
  <1>1. CASE UNCHANGED <<alive, present, idle, here, sweep>>
    BY <1>1 DEF Shaped, Attended, Touched
  <1>2. ASSUME NEW u \in Upload, Finish(u) PROVE Attended'
    BY <1>2 DEF Finish, Goto, pool, session, Shaped, Attended, Touched
  <1>3. ASSUME NEW u \in Upload, SweepRemove(u) PROVE Attended'
    BY <1>3 DEF SweepRemove, pool, session, Shaped, Attended, Touched
  <1>4. CASE Leave
    BY <1>4 DEF Leave, pool, session, Shaped, Attended, Touched
  <1>5. CASE DaysPass
    BY <1>5 DEF DaysPass, pool, session, Shaped, Attended, Touched
  <1>6. CASE Return
    BY <1>6 DEF Return, pool, session, Shaped, Attended, Touched
  <1>7. CASE SweepBegin
    BY <1>7 DEF SweepBegin, Takes, pool, session, Shaped, Attended, Touched
  <1>8. CASE SweepIdle
    BY <1>8 DEF SweepIdle, pool, session, Shaped, Attended, Touched
  <1>9. CASE SweepDelete
    BY <1>9 DEF SweepDelete, pool, session, Shaped, Attended, Touched
  <1>10. CASE SweepRoomFolders
    BY <1>10 DEF SweepRoomFolders, pool, session, Shaped, Attended, Touched
  <1>11. CASE SweepList
    BY <1>11 DEF SweepList, pool, session, Shaped, Attended, Touched
  <1>12. CASE SweepAsk
    BY <1>12 DEF SweepAsk, LeftBehind, pool, session, Shaped, Attended, Touched
  <1>13. CASE SweepEnd
    BY <1>13 DEF SweepEnd, Gives, Resting, pool, session, Shaped, Attended, Touched
  <1>14. ASSUME NEW r \in Replica, Crash(r) PROVE Attended'
    BY <1>14 DEF Crash, Resting, pool, session, Shaped, Attended, Touched
  <1> QED
    BY <1>1, <1>2, <1>3, <1>4, <1>5, <1>6, <1>7, <1>8, <1>9, <1>10, <1>11, <1>12, <1>13, <1>14
          DEF Next, Uploading, Sweeping, vars, pool, session, Check, MoveIn, Connect, Lock, Measure, Insert,
          Unlock, RemoveRefused, RemoveFiles, WorkerWrites, Delete

-----------------------------------------------------------------------------
(* Rows and files.                                                         *)

\* There is nothing of an upload before it is moved in.
LEMMA BegunKeeps ==
  ASSUME StorageAssumption, Shaped, Begun, [Next]_vars
  PROVE  Begun'
  <1>1. CASE UNCHANGED <<step, files, stored, working, deleting, sweep>>
    BY <1>1 DEF Shaped, Begun
  <1>2. ASSUME NEW u \in Upload, Check(u) PROVE Begun'
    BY <1>2 DEF Check, Goto, pool, session, Shaped, Begun
  <1>3. ASSUME NEW u \in Upload, MoveIn(u) PROVE Begun'
    BY <1>3 DEF MoveIn, Goto, pool, session, Shaped, Begun
  <1>4. ASSUME NEW u \in Upload, Connect(u) PROVE Begun'
    BY <1>4 DEF Connect, Goto, Takes, pool, session, Shaped, Begun
  <1>5. ASSUME NEW u \in Upload, Lock(u) PROVE Begun'
    BY <1>5 DEF Lock, Goto, pool, session, Shaped, Begun
  <1>6. ASSUME NEW u \in Upload, Measure(u) PROVE Begun'
    BY <1>6 DEF Measure, Goto, pool, session, Shaped, Begun
  <1>7. ASSUME NEW u \in Upload, Insert(u) PROVE Begun'
    BY <1>7 DEF Insert, Goto, pool, session, Shaped, Begun
  <1>8. ASSUME NEW u \in Upload, Unlock(u) PROVE Begun'
    BY <1>8 DEF Unlock, Goto, Gives, pool, session, Shaped, Begun
  <1>9. ASSUME NEW u \in Upload, RemoveRefused(u) PROVE Begun'
    BY <1>9 DEF RemoveRefused, Goto, pool, session, Shaped, Begun
  <1>10. ASSUME NEW u \in Upload, Finish(u) PROVE Begun'
    BY <1>10 DEF Finish, Goto, pool, session, Shaped, Begun
  <1>11. ASSUME NEW u \in Upload, RemoveFiles(u) PROVE Begun'
    BY <1>11 DEF RemoveFiles, pool, session, Shaped, Begun
  <1>12. ASSUME NEW u \in Upload, WorkerWrites(u) PROVE Begun'
    BY <1>12 DEF WorkerWrites, pool, session, Shaped, Begun
  <1>13. ASSUME NEW u \in Upload, Delete(u) PROVE Begun'
    BY <1>13 DEF Delete, pool, session, Shaped, Begun
  <1>14. ASSUME NEW u \in Upload, SweepRemove(u) PROVE Begun'
    BY <1>14 DEF SweepRemove, pool, session, Shaped, Begun
  <1>15. CASE SweepBegin
    BY <1>15 DEF SweepBegin, Takes, pool, session, Shaped, Begun
  <1>16. CASE SweepIdle
    BY <1>16 DEF SweepIdle, pool, session, Shaped, Begun
  <1>17. CASE SweepDelete
    BY <1>17 DEF SweepDelete, pool, session, Shaped, Begun
  <1>18. CASE SweepRoomFolders
    BY <1>18 DEF SweepRoomFolders, pool, session, Shaped, Begun
  <1>19. CASE SweepList
    BY <1>19 DEF SweepList, pool, session, Shaped, Begun
  <1>20. CASE SweepAsk
    BY <1>20 DEF SweepAsk, LeftBehind, pool, session, Shaped, Begun
  <1>21. CASE SweepEnd
    BY <1>21 DEF SweepEnd, Gives, Resting, pool, session, Shaped, Begun
  <1>22. ASSUME NEW r \in Replica, Crash(r) PROVE Begun'
    BY <1>22 DEF Crash, Resting, pool, session, Shaped, Begun
  <1> QED
    BY <1>1, <1>2, <1>3, <1>4, <1>5, <1>6, <1>7, <1>8, <1>9, <1>10, <1>11, <1>12, <1>13, <1>14, <1>15, <1>16,
       <1>17, <1>18, <1>19, <1>20, <1>21, <1>22
          DEF Next, Uploading, Sweeping, vars, pool, session, Leave, DaysPass, Return

\* What is deleted, or taken for left behind, is not recorded again.
LEMMA NotYetRecordedKeeps ==
  ASSUME StorageAssumption, Shaped, Begun, NotYetRecorded, [Next]_vars
  PROVE  NotYetRecorded'
  <1>1. CASE UNCHANGED <<step, stored, deleting, sweep, raced>>
    BY <1>1 DEF Shaped, Begun, NotYetRecorded, Moving
  <1>2. ASSUME NEW u \in Upload, Check(u) PROVE NotYetRecorded'
    BY <1>2 DEF Check, Goto, pool, session, Shaped, Begun, NotYetRecorded, Moving
  <1>3. ASSUME NEW u \in Upload, MoveIn(u) PROVE NotYetRecorded'
    BY <1>3 DEF MoveIn, Goto, pool, session, Shaped, Begun, NotYetRecorded, Moving
  <1>4. ASSUME NEW u \in Upload, Connect(u) PROVE NotYetRecorded'
    BY <1>4 DEF Connect, Goto, Takes, pool, session, Shaped, Begun, NotYetRecorded, Moving
  <1>5. ASSUME NEW u \in Upload, Lock(u) PROVE NotYetRecorded'
    BY <1>5 DEF Lock, Goto, pool, session, Shaped, Begun, NotYetRecorded, Moving
  <1>6. ASSUME NEW u \in Upload, Measure(u) PROVE NotYetRecorded'
    BY <1>6 DEF Measure, Goto, pool, session, Shaped, Begun, NotYetRecorded, Moving
  <1>7. ASSUME NEW u \in Upload, Insert(u) PROVE NotYetRecorded'
    BY <1>7 DEF Insert, Goto, pool, session, Shaped, Begun, NotYetRecorded, Moving
  <1>8. ASSUME NEW u \in Upload, Unlock(u) PROVE NotYetRecorded'
    BY <1>8 DEF Unlock, Goto, Gives, pool, session, Shaped, Begun, NotYetRecorded, Moving
  <1>9. ASSUME NEW u \in Upload, RemoveRefused(u) PROVE NotYetRecorded'
    BY <1>9 DEF RemoveRefused, Goto, pool, session, Shaped, Begun, NotYetRecorded, Moving
  <1>10. ASSUME NEW u \in Upload, Finish(u) PROVE NotYetRecorded'
    BY <1>10 DEF Finish, Goto, pool, session, Shaped, Begun, NotYetRecorded, Moving
  <1>11. ASSUME NEW u \in Upload, RemoveFiles(u) PROVE NotYetRecorded'
    BY <1>11 DEF RemoveFiles, pool, session, Shaped, Begun, NotYetRecorded, Moving
  <1>12. ASSUME NEW u \in Upload, Delete(u) PROVE NotYetRecorded'
    BY <1>12 DEF Delete, pool, session, Shaped, Begun, NotYetRecorded, Moving
  <1>13. ASSUME NEW u \in Upload, SweepRemove(u) PROVE NotYetRecorded'
    BY <1>13 DEF SweepRemove, pool, session, Shaped, Begun, NotYetRecorded, Moving
  <1>14. CASE SweepBegin
    BY <1>14 DEF SweepBegin, Takes, pool, session, Shaped, Begun, NotYetRecorded, Moving
  <1>15. CASE SweepIdle
    BY <1>15 DEF SweepIdle, pool, session, Shaped, Begun, NotYetRecorded, Moving
  <1>16. CASE SweepDelete
    BY <1>16 DEF SweepDelete, pool, session, Shaped, Begun, NotYetRecorded, Moving
  <1>17. CASE SweepRoomFolders
    BY <1>17 DEF SweepRoomFolders, pool, session, Shaped, Begun, NotYetRecorded, Moving
  <1>18. CASE SweepList
    BY <1>18 DEF SweepList, pool, session, Shaped, Begun, NotYetRecorded, Moving
  <1>19. CASE SweepAsk
    BY <1>19 DEF SweepAsk, LeftBehind, pool, session, Shaped, Begun, NotYetRecorded, Moving
  <1>20. CASE SweepEnd
    BY <1>20 DEF SweepEnd, Gives, Resting, pool, session, Shaped, Begun, NotYetRecorded, Moving
  <1>21. ASSUME NEW r \in Replica, Crash(r) PROVE NotYetRecorded'
    BY <1>21 DEF Crash, Resting, pool, session, Shaped, Begun, NotYetRecorded, Moving
  <1> QED
    BY <1>1, <1>2, <1>3, <1>4, <1>5, <1>6, <1>7, <1>8, <1>9, <1>10, <1>11, <1>12, <1>13, <1>14, <1>15, <1>16,
       <1>17, <1>18, <1>19, <1>20, <1>21
          DEF Next, Uploading, Sweeping, vars, pool, session, WorkerWrites, Leave, DaysPass, Return

\* Files go after their rows, or were taken for left behind.
LEMMA HasFileKeeps ==
  ASSUME StorageAssumption, Shaped, Attended, Begun, NotYetRecorded, HasFile, [Next]_vars
  PROVE  HasFile'
  <1>1. CASE UNCHANGED <<alive, step, stored, files, raced>>
    BY <1>1 DEF Shaped, Attended, Begun, NotYetRecorded, HasFile, Moving
  <1>2. ASSUME NEW u \in Upload, Check(u) PROVE HasFile'
    BY <1>2 DEF Check, Goto, pool, session, Shaped, Attended, Begun, NotYetRecorded, HasFile, Moving
  <1>3. ASSUME NEW u \in Upload, MoveIn(u) PROVE HasFile'
    BY <1>3 DEF MoveIn, Goto, pool, session, Shaped, Attended, Begun, NotYetRecorded, HasFile, Moving
  <1>4. ASSUME NEW u \in Upload, Connect(u) PROVE HasFile'
    BY <1>4 DEF Connect, Goto, Takes, pool, session, Shaped, Attended, Begun, NotYetRecorded, HasFile, Moving
  <1>5. ASSUME NEW u \in Upload, Lock(u) PROVE HasFile'
    BY <1>5 DEF Lock, Goto, pool, session, Shaped, Attended, Begun, NotYetRecorded, HasFile, Moving
  <1>6. ASSUME NEW u \in Upload, Measure(u) PROVE HasFile'
    BY <1>6 DEF Measure, Goto, pool, session, Shaped, Attended, Begun, NotYetRecorded, HasFile, Moving
  <1>7. ASSUME NEW u \in Upload, Insert(u) PROVE HasFile'
    BY <1>7 DEF Insert, Goto, pool, session, Shaped, Attended, Begun, NotYetRecorded, HasFile, Moving
  <1>8. ASSUME NEW u \in Upload, Unlock(u) PROVE HasFile'
    BY <1>8 DEF Unlock, Goto, Gives, pool, session, Shaped, Attended, Begun, NotYetRecorded, HasFile, Moving
  <1>9. ASSUME NEW u \in Upload, RemoveRefused(u) PROVE HasFile'
    BY <1>9 DEF RemoveRefused, Goto, pool, session, Shaped, Attended, Begun, NotYetRecorded, HasFile, Moving
  <1>10. ASSUME NEW u \in Upload, Finish(u) PROVE HasFile'
    BY <1>10 DEF Finish, Goto, pool, session, Shaped, Attended, Begun, NotYetRecorded, HasFile, Moving
  <1>11. ASSUME NEW u \in Upload, RemoveFiles(u) PROVE HasFile'
    BY <1>11 DEF RemoveFiles, pool, session, Shaped, Attended, Begun, NotYetRecorded, HasFile, Moving
  <1>12. ASSUME NEW u \in Upload, WorkerWrites(u) PROVE HasFile'
    BY <1>12 DEF WorkerWrites, pool, session, Shaped, Attended, Begun, NotYetRecorded, HasFile, Moving
  <1>13. ASSUME NEW u \in Upload, Delete(u) PROVE HasFile'
    BY <1>13 DEF Delete, pool, session, Shaped, Attended, Begun, NotYetRecorded, HasFile, Moving
  <1>14. ASSUME NEW u \in Upload, SweepRemove(u) PROVE HasFile'
    BY <1>14 DEF SweepRemove, pool, session, Shaped, Attended, Begun, NotYetRecorded, HasFile, Moving
  <1>15. CASE SweepDelete
    BY <1>15 DEF SweepDelete, pool, session, Shaped, Attended, Begun, NotYetRecorded, HasFile, Moving
  <1>16. CASE SweepRoomFolders
    BY <1>16 DEF SweepRoomFolders, pool, session, Shaped, Attended, Begun, NotYetRecorded, HasFile, Moving
  <1>17. CASE SweepAsk
    BY <1>17 DEF SweepAsk, LeftBehind, pool, session, Shaped, Attended, Begun, NotYetRecorded, HasFile, Moving
  <1>18. ASSUME NEW r \in Replica, Crash(r) PROVE HasFile'
    BY <1>18 DEF Crash, Resting, pool, session, Shaped, Attended, Begun, NotYetRecorded, HasFile, Moving
  <1> QED
    BY <1>1, <1>2, <1>3, <1>4, <1>5, <1>6, <1>7, <1>8, <1>9, <1>10, <1>11, <1>12, <1>13, <1>14, <1>15, <1>16,
       <1>17, <1>18
          DEF Next, Uploading, Sweeping, vars, pool, session, Leave, DaysPass, Return, SweepBegin, SweepIdle,
          SweepList, SweepEnd

-----------------------------------------------------------------------------
(* The theorems.                                                           *)

\* Initially.
LEMMA StorageStarts ==
  ASSUME StorageAssumption, Init
  PROVE  UploadsInv
  <1>1. Shaped
    BY ShapedStarts
  <1>2. OneInside /\ StillFits
    BY DEF Init, OneInside, StillFits, Inside, StorageAssumption
  <1>3. NoneLeaks
    <2>1. \A r \in Replica : Users(r) = {}
      BY DEF Init, Users, Connected, Inside, Resting
    <2>2. Cardinality({}) = 0 /\ PoolSize \in Nat
      BY FS_EmptySet DEF StorageAssumption
    <2>3. \A r \in Replica : free[r] = PoolSize
      BY DEF Init
    <2> QED
      BY <2>1, <2>2, <2>3 DEF NoneLeaks
  <1>4. WithinLimits
    <2>1. UNION {{u} \X (1 .. Size[u]) : u \in {}} = {}
      OBVIOUS
    <2>2. Bytes({}) = 0
      BY <2>1, FS_EmptySet DEF Bytes
    <2>3. stored = {} /\ \A r \in Room : {u \in stored : into[u] = r} = {}
      BY DEF Init
    <2> QED
      BY <2>2, <2>3 DEF WithinLimits, StorageAssumption
  <1>5. Attended /\ Begun /\ NotYetRecorded /\ HasFile
    BY DEF Init, Attended, Begun, NotYetRecorded, HasFile, Moving, Resting
  <1> QED
    BY <1>1, <1>2, <1>3, <1>4, <1>5 DEF UploadsInv

\* The invariant the rest follows from.
THEOREM UploadsCorrect == ASSUME StorageAssumption PROVE Spec => []UploadsInv
  <1>1. Init => UploadsInv
    BY StorageStarts
  <1>2. UploadsInv /\ [Next]_vars => UploadsInv'
    BY ShapedKeeps, OneInsideKeeps, NoneLeaksKeeps, StillFitsKeeps, LimitsKeep, AttendedKeeps, BegunKeeps,
       NotYetRecordedKeeps, HasFileKeeps DEF UploadsInv
  <1> QED
    BY <1>1, <1>2, PTL DEF Spec

\* A replica's connections are never more than its pool.
LEMMA PoolBounded == ASSUME StorageAssumption, Shaped, NoneLeaks PROVE TypeOK
  <1>1. ASSUME NEW r \in Replica PROVE free[r] \in 0 .. PoolSize
    <2>1. PICK n \in Nat : n = Cardinality(Users(r))
      BY UsersFinite
    <2>2. free[r] \in Nat /\ free[r] + n = PoolSize
      BY <2>1 DEF Shaped, NoneLeaks
    <2> QED
      BY <2>1, <2>2
  <1>2. free \in [Replica -> 0 .. PoolSize]
    BY <1>1 DEF Shaped
  <1> QED
    BY <1>2 DEF TypeOK, Shaped

\* limits.ts, http/routes/media.ts, lifecycle.ts: however uploads, deletions,
\* sweeps and crashes interleave, what is recorded stays within the limits of
\* its room and session, has its file unless the sweep overtook it, and only a
\* session nobody was in is swept.
THEOREM UploadsAreKept ==
  ASSUME StorageAssumption PROVE Spec => [](TypeOK /\ WithinLimits /\ StoredHasFile /\ DeletedWhenIdle)
  <1>1. UploadsInv => TypeOK /\ WithinLimits /\ StoredHasFile /\ DeletedWhenIdle
    <2> SUFFICES ASSUME UploadsInv PROVE TypeOK /\ WithinLimits /\ StoredHasFile /\ DeletedWhenIdle
      OBVIOUS
    <2>1. TypeOK
      BY PoolBounded DEF UploadsInv
    <2>2. StoredHasFile
      BY DEF UploadsInv, Shaped, HasFile, StoredHasFile
    <2>3. WithinLimits /\ DeletedWhenIdle
      BY DEF UploadsInv, Attended, DeletedWhenIdle
    <2> QED
      BY <2>1, <2>2, <2>3
  <1> QED
    BY <1>1, UploadsCorrect, PTL
=============================================================================
