---------------------------- MODULE RoomFeedProofs ----------------------------
(***************************************************************************)
(* Proofs about RoomFeed, for any messages, retries of the socket and      *)
(* budgets: at rest the browser shows the room its socket is in, or was    *)
(* refused one (NeverInLimbo), and nothing of another room is ever shown   *)
(* (OnlyItsRoom).                                                          *)
(*                                                                         *)
(* Every request for a room is answered: the join, the work under way for  *)
(* it, and then a snapshot or an error (Answered).  The last snapshot on   *)
(* its way is of the room the socket is in (RoomAgrees).  What a snapshot  *)
(* does not mend is the deletion of the room that is shown: it takes the   *)
(* snapshot away, and the list without the room follows it                 *)
(* (DeletionFollows), which a browser that listed the room leaves it for   *)
(* (WillLeave).  That it had listed it is SideSeen: it asks for the        *)
(* breakout room only after seeing it.                                     *)
(***************************************************************************)
EXTENDS RoomFeed, WellFoundedInduction, TLAPS

JobStates == {"none", "queued", "processing", "done", "failed"}
Job == [id : Nat, st : JobStates]
View == [chat : SUBSET Msg, peer : BOOLEAN, job : Job]
Event == [t : {"message", "unsaid"}, room : Rooms, msg : Msg] \cup [t : {"joined", "left"}, room : Rooms]
         \cup [t : {"uploaded", "updated"}, room : {"main"}, id : Nat] \cup [t : {"deleted"}, room : {"main"}]
         \cup [t : {"status", "complete"}, room : {"main"}, id : Nat, st : JobStates]

-----------------------------------------------------------------------------
(* Induction over numbers, and what was held.                              *)

\* A set of numbers that is not empty has a least one.
LEMMA Least ==
  ASSUME NEW T \in SUBSET Nat, T # {}
  PROVE  \E n \in T : \A m \in T : n <= m
  <1> DEFINE R == OpToRel(<, Nat)
  <1>1. IsWellFoundedOn(R, Nat)
    BY Zenon, NatLessThanWellFounded
  <1> HIDE DEF R
  <1>2. PICK n \in T : \A m \in T : <<m, n>> \notin R
    BY <1>1, WFMin
  <1>3. \A m \in T : ~(m < n)
    BY <1>2 DEF R, OpToRel
  <1> QED
    BY <1>3

\* One that holds 0 and every successor is all of them.
LEMMA EveryNumber ==
  ASSUME NEW T \in SUBSET Nat, 0 \in T, \A n \in T : n + 1 \in T
  PROVE  T = Nat
  <1> SUFFICES ASSUME Nat \ T # {} PROVE FALSE
    OBVIOUS
  <1>1. PICK n \in Nat \ T : \A m \in Nat \ T : n <= m
    BY Least
  <1>2. n # 0 /\ n - 1 \in Nat /\ n - 1 < n
    OBVIOUS
  <1>3. n - 1 \in T
    BY <1>1, <1>2
  <1> QED
    BY <1>2, <1>3

\* What Replayed computes: what was held is applied event by event.
Replays(f, v, held, k) ==
    f = [n \in 0..Len(held) |->
            IF n = 0 THEN v
            ELSE IF held[n].room = k THEN Applied(f[n - 1], held[n]) ELSE f[n - 1]]

\* That can be done,
LEMMA ReplayExists ==
  ASSUME NEW v, NEW held \in Seq(Event), NEW k
  PROVE  \E f : Replays(f, v, held, k)
  <1> DEFINE Step(x, n) == IF held[n].room = k THEN Applied(x, held[n]) ELSE x
             Upto(f, m) == f = [n \in 0..m |-> IF n = 0 THEN v ELSE Step(f[n - 1], n)]
             T == {m \in Nat : \E f : Upto(f, m)}
  <1> HIDE DEF Step
  <1>1. 0 \in T
    <2>1. Upto([n \in 0..0 |-> v], 0)
      OBVIOUS
    <2> QED
      BY <2>1
  <1>2. ASSUME NEW m \in T PROVE m + 1 \in T
    <2>1. PICK f : Upto(f, m)
      OBVIOUS
    <2> DEFINE g == [n \in 0..(m + 1) |-> IF n = m + 1 THEN Step(f[m], n) ELSE f[n]]
    <2>2. ASSUME NEW n \in 0..(m + 1)
          PROVE  g[n] = IF n = 0 THEN v ELSE Step(g[n - 1], n)
      BY <2>1
    <2>3. g = [n \in 0..(m + 1) |-> IF n = 0 THEN v ELSE Step(g[n - 1], n)]
      BY <2>2
    <2>4. Upto(g, m + 1)
      BY <2>3
    <2> HIDE DEF g, Upto
    <2> QED
      BY <2>4
  <1>3. T = Nat
    BY <1>1, <1>2, EveryNumber
  <1>4. PICK f : Upto(f, Len(held))
    BY <1>3
  <1> QED
    BY <1>4 DEF Replays, Step

\* and Replayed is what comes of it.
LEMMA ReplayedIs ==
  ASSUME NEW v, NEW held \in Seq(Event), NEW k
  PROVE  \E f : Replays(f, v, held, k) /\ Replayed(v, held, k) = f[Len(held)]
  <1> DEFINE after == CHOOSE f : Replays(f, v, held, k)
  <1>1. Replays(after, v, held, k)
    BY ReplayExists
  <1>2. Replayed(v, held, k) = after[Len(held)]
    BY DEF Replayed, Replays
  <1> QED
    BY <1>1, <1>2

-----------------------------------------------------------------------------
(* Types.                                                                  *)

JobEvent == [t : {"status", "complete"}, room : {"main"}, id : Nat, st : JobStates]
News == Event \cup [t : {"room deleted"}, room : {"side"}] \cup [t : {"rooms"}, rooms : SUBSET Rooms]
        \cup [t : {"ended"}]
Frame == News \cup [t : {"session joined"}, rooms : SUBSET Rooms] \cup [t : {"snapshot"}, room : Rooms, snap : View]
         \cup [t : {"error"}]
Ask == [t : {"join session"}, room : Rooms \cup {None}, code : BOOLEAN]
       \cup [t : {"join room"}, room : Rooms, code : BOOLEAN] \cup [t : {"chat"}, room : Rooms, msg : Msg]
Store == [chat : SUBSET Msg, said : SUBSET Msg, peer : Rooms \cup {None}, job : Job]
Socket == [joined : BOOLEAN, room : Rooms \cup {None}, at : {"idle", "read", "send"}, snap : View \cup {None}]
Ui == [status : {"closed", "online", "offline"}, attempt : Nat, desired : Rooms \cup {None},
       active : Rooms \cup {None}, synced : BOOLEAN, loaded : Rooms \cup {None}, held : Seq(Event), shown : View,
       rooms : SUBSET Rooms, refused : BOOLEAN, odd : BOOLEAN]

Typed ==
    /\ store \in Store /\ rooms \subseteq Rooms /\ "main" \in rooms
    /\ outbox \subseteq News /\ jobs \subseteq JobEvent /\ op \in {"idle", "told"}
    /\ srv \in Socket /\ up \in Seq(Ask) /\ down \in Seq(Frame)
    /\ ui \in Ui /\ listed \subseteq Rooms
    /\ budget \in [Ops -> Nat]

Shaped ==
    /\ srv.at # "idle" => srv.joined /\ srv.room \in Rooms
    /\ srv.at = "send" => srv.snap \in View
    /\ ~srv.joined => srv.room = None
    /\ ui.status = "closed" => up = <<>> /\ down = <<>> /\ srv = Gone /\ ~ui.synced /\ ui.attempt < MaxAttempts
    /\ ui.status = "online" => ui.attempt = 0
    /\ ui.attempt <= MaxAttempts
    /\ ui.synced => ui.loaded = ui.active /\ ui.held = <<>> /\ ui.active \in Rooms

-----------------------------------------------------------------------------
(* What the browser asked for, and what answers it.                        *)

Joins(f) == f.t \in {"join session", "join room"}
AsksLeft == \E i \in DOMAIN up : Joins(up[i])
Serving == AsksLeft \/ srv.at # "idle"
SnapshotComes == \E i \in DOMAIN down : down[i].t = "snapshot"
\* The session has not been ended for this browser.
Talking == ui.status = "online" /\ \A i \in DOMAIN down : down[i].t # "ended"

\* A socket is opened with a join, which is handled first.
JoinFirst == Talking /\ ~srv.joined => down = <<>> /\ up # <<>> /\ up[1].t = "join session"
\* The breakout room is what was asked for last, or another is on its way.
SideInUp == \A i \in DOMAIN up : Joins(up[i]) /\ up[i].room = "side" =>
                ui.desired = "side" \/ \E j \in DOMAIN up : j > i /\ Joins(up[j])
SideAsked ==
    Talking =>
        /\ SideInUp
        /\ srv.at # "idle" /\ srv.room = "side" => ui.desired = "side" \/ AsksLeft
        /\ \A i \in DOMAIN down : down[i].t = "snapshot" /\ down[i].room = "side" =>
               ui.desired = "side" \/ Serving \/ \E j \in DOMAIN down : j > i /\ down[j].t = "snapshot"
        /\ ui.active = "side" => ui.desired = "side" \/ Serving \/ SnapshotComes
\* The last snapshot is of the room the socket is in.
RoomAgrees ==
    Talking =>
        /\ \A i \in DOMAIN down : down[i].t = "snapshot" =>
               \/ down[i].room = srv.room \/ srv.at # "idle"
               \/ \E j \in DOMAIN down : j > i /\ down[j].t = "snapshot"
        /\ ui.synced => ui.active = srv.room \/ srv.at # "idle" \/ SnapshotComes
\* A welcome is followed by a snapshot.
Welcomed ==
    Talking => \A i \in DOMAIN down : down[i].t = "session joined" =>
        srv.at # "idle" \/ \E j \in DOMAIN down : j > i /\ down[j].t = "snapshot"

-----------------------------------------------------------------------------
(* The breakout room's deletion.                                           *)

\* Nothing is said any more of the room's deletion but that it is not there.
Past == "side" \notin rooms /\ op = "idle" /\ \A i \in DOMAIN down : down[i].t # "room deleted"
Deletion ==
    /\ op = "told" => "side" \in rooms
    /\ \A e \in outbox : /\ e.t = "room deleted" => op = "told"
                         /\ e.t = "rooms" => "side" \notin rooms /\ "side" \notin e.rooms
    /\ \A i \in DOMAIN down :
           /\ down[i].t = "rooms" => "side" \notin rooms /\ "side" \notin down[i].rooms
           /\ down[i].t \in {"rooms", "session joined"} /\ "side" \notin down[i].rooms =>
                  /\ "side" \notin rooms /\ op = "idle"
                  /\ \A j \in DOMAIN down : j > i => down[j].t # "room deleted"
    /\ "side" \in listed /\ "side" \notin ui.rooms => Past
RoomsAnnounced == \E e \in outbox : e.t = "rooms"
RoomsComes == \E i \in DOMAIN down : down[i].t = "rooms"
DeletionFollows ==
    Talking => \A i \in DOMAIN down : down[i].t = "room deleted" =>
        op = "told" \/ RoomsAnnounced \/ \E j \in DOMAIN down : j > i /\ down[j].t = "rooms"
\* Nobody is, or is on the way to, the breakout room who never saw it.
SideUnasked == /\ ui.active # "side" /\ ui.desired # "side" /\ srv.room # "side"
               /\ \A i \in DOMAIN up : Joins(up[i]) => up[i].room # "side"
               /\ \A i \in DOMAIN down : down[i].t = "snapshot" => down[i].room # "side"
SideSeen == SideUnasked \/ "side" \in listed \/ Past
\* Whoever shows the deleted room will see that it is gone.
WillLeave == /\ ui.active = "side" /\ "side" \in listed
             /\ op = "told" \/ RoomsAnnounced \/ RoomsComes \/ "side" \notin ui.rooms
Answered == Talking => \/ ui.synced \/ ui.refused \/ Serving \/ WillLeave
                       \/ \E i \in DOMAIN down : down[i].t \in {"snapshot", "error"}

FeedInv == /\ Typed /\ Shaped /\ JoinFirst /\ SideAsked /\ RoomAgrees /\ Welcomed
           /\ Deletion /\ DeletionFollows /\ SideSeen /\ Answered

\* The kinds of frames, one by one.
LEMMA FrameMeans ==
  ASSUME NEW e \in Frame
  PROVE  /\ e.t = "snapshot" => e.room \in Rooms /\ e.snap \in View
         /\ e.t \in {"session joined", "rooms"} => e.rooms \subseteq Rooms
         /\ e.t = "room deleted" => e.room = "side"
         /\ e.t \notin {"session joined", "rooms", "snapshot", "error", "room deleted", "ended"} => e \in Event
         /\ e \in Event => e.t \notin {"session joined", "rooms", "snapshot", "error", "room deleted", "ended"}
         /\ e \in News => e.t \notin {"session joined", "snapshot", "error"}
  BY DEF Frame, News, Event

\* The kinds of events about a room.
LEMMA EventMeans ==
  ASSUME NEW e \in Event
  PROVE  /\ e.t \in {"message", "unsaid", "joined", "left", "uploaded", "updated", "deleted", "status", "complete"}
         /\ e.room \in Rooms
         /\ e.t \in {"message", "unsaid"} => e.msg \in Msg
         /\ e.t \in {"uploaded", "updated", "status", "complete"} => e.id \in Nat
         /\ e.t \in {"status", "complete"} => e.st \in JobStates
         /\ e.t \in {"uploaded", "updated", "deleted", "status", "complete"} => e.room = "main"
  BY DEF Event, Rooms

\* An event makes a view of a view,
LEMMA AppliedTyped ==
  ASSUME NEW v \in View, NEW e \in Event
  PROVE  Applied(v, e) \in View
  <1> USE EventMeans
  <1>1. CASE e.t \in {"message", "unsaid", "joined", "left"}
    BY <1>1 DEF Applied, View
  <1>2. CASE e.t \in {"uploaded", "updated", "deleted"}
    BY <1>2 DEF Applied, View, Job, JobStates, NoJob
  <1>3. CASE e.t \in {"status", "complete"}
    <2>1. v.job \in Job
      BY DEF View
    <2>2. Patched(v.job, e) \in Job
      BY <1>3, <2>1 DEF Patched, Job
    <2>3. Applied(v, e) = [v EXCEPT !.job = Patched(v.job, e)]
      BY <1>3 DEF Applied
    <2> QED
      BY <2>2, <2>3 DEF View
  <1> QED
    BY <1>1, <1>2, <1>3

\* and so do all that were held.
LEMMA ReplayedTyped ==
  ASSUME NEW v \in View, NEW held \in Seq(Event), NEW k
  PROVE  Replayed(v, held, k) \in View
  <1>1. PICK f : Replays(f, v, held, k) /\ Replayed(v, held, k) = f[Len(held)]
    BY ReplayedIs
  <1> DEFINE T == {n \in Nat : n \in 0..Len(held) => f[n] \in View}
  <1>2. 0 \in T
    BY <1>1 DEF Replays
  <1>3. ASSUME NEW n \in T PROVE n + 1 \in T
    <2> SUFFICES ASSUME n + 1 \in 0..Len(held) PROVE f[n + 1] \in View
      OBVIOUS
    <2>1. f[n] \in View /\ held[n + 1] \in Event
      OBVIOUS
    <2>2. f[n + 1] = IF held[n + 1].room = k THEN Applied(f[n], held[n + 1]) ELSE f[n]
      BY <1>1 DEF Replays
    <2> QED
      BY <2>1, <2>2, AppliedTyped
  <1>4. T = Nat
    BY <1>2, <1>3, EveryNumber
  <1> QED
    BY <1>1, <1>4

-----------------------------------------------------------------------------
(* What the reducer does to what the browser knows.                        *)

\* Asked for a room, it shows that one, and nothing yet if it is another.
LEMMA RequestedMeans ==
  ASSUME NEW s \in Ui, NEW k \in Rooms
  PROVE  LET r == Requested(s, k)
         IN  /\ r \in Ui /\ r.status = s.status /\ r.attempt = s.attempt /\ r.desired = s.desired
             /\ r.rooms = s.rooms /\ r.refused = s.refused /\ r.active = k
             /\ r.synced => r = s
             /\ s.active = k /\ s.synced => r = s
  <1>1. CASE s.active = k /\ s.synced
    BY <1>1 DEF Requested
  <1>2. CASE ~(s.active = k /\ s.synced)
    <2> DEFINE loaded == IF s.loaded = k THEN s.loaded ELSE None
               held == IF s.active = k THEN s.held ELSE <<>>
               odd == s.odd /\ s.active = k
               shown == IF s.active = k THEN s.shown ELSE Empty
    <2>1. Requested(s, k) = [s EXCEPT !.active = k, !.synced = FALSE, !.loaded = loaded, !.held = held,
                                      !.odd = odd, !.shown = shown]
      BY <1>2 DEF Requested
    <2>2. loaded \in Rooms \cup {None} /\ held \in Seq(Event) /\ odd \in BOOLEAN /\ shown \in View
      BY DEF Ui, Empty, View, NoJob, Job, JobStates
    <2> HIDE DEF loaded, held, odd, shown
    <2> QED
      BY ZenonT(60), <1>2, <2>1, <2>2 DEF Ui
  <1> QED
    BY <1>1, <1>2

\* The same of a click or a room that is left.
LEMMA JoinMeans ==
  ASSUME NEW s \in Ui, NEW k \in Rooms, NEW code \in BOOLEAN
  PROVE  LET r == Join(s, k, code)
         IN  /\ r \in Ui /\ r.status = s.status /\ r.attempt = s.attempt /\ r.desired = k
             /\ r.rooms = s.rooms /\ r.refused = s.refused
             /\ s.desired = k /\ ~code => r = s
             /\ ~(s.desired = k /\ ~code) => r.active = k
             /\ r.synced => /\ s.synced /\ r.active = s.active /\ r.loaded = s.loaded /\ r.held = s.held
                            /\ r.shown = s.shown /\ r.odd = s.odd
  <1>1. CASE s.desired = k /\ ~code
    BY <1>1 DEF Join
  <1>2. CASE ~(s.desired = k /\ ~code)
    <2> DEFINE q == Requested(s, k)
    <2>1. Join(s, k, code) = [q EXCEPT !.desired = k]
      BY <1>2 DEF Join
    <2>2. /\ q \in Ui /\ q.status = s.status /\ q.attempt = s.attempt
          /\ q.rooms = s.rooms /\ q.refused = s.refused /\ q.active = k /\ (q.synced => q = s)
      BY RequestedMeans
    <2> HIDE DEF q
    <2> QED
      BY <1>2, <2>1, <2>2 DEF Ui
  <1> QED
    BY <1>1, <1>2

\* A welcome brings the rooms, and the first one leads to the main room.
LEMMA JoinedMeans ==
  ASSUME NEW s \in Ui, NEW e \in Frame, e.t = "session joined"
  PROVE  LET r == Joined(s, e)
         IN  /\ r \in Ui /\ r.status = s.status /\ r.attempt = s.attempt
             /\ r.rooms = e.rooms /\ r.refused = s.refused
             /\ s.desired # None => r = [s EXCEPT !.rooms = e.rooms]
             /\ s.desired = None => r.desired = "main" /\ r.active = "main"
             /\ r.synced => /\ s.synced /\ r.active = s.active /\ r.loaded = s.loaded /\ r.held = s.held
                            /\ r.shown = s.shown /\ r.odd = s.odd
  <1> DEFINE t == [s EXCEPT !.rooms = e.rooms]
  <1>1. t \in Ui /\ e.rooms \subseteq Rooms
    BY FrameMeans DEF Ui
  <1>2. CASE s.desired # None
    BY <1>1, <1>2 DEF Joined, Ui
  <1>3. CASE s.desired = None
    <2> DEFINE q == Requested(t, "main")
    <2>1. Joined(s, e) = [q EXCEPT !.desired = "main"]
      BY <1>3 DEF Joined
    <2>2. /\ q \in Ui /\ q.status = t.status /\ q.attempt = t.attempt
          /\ q.rooms = t.rooms /\ q.refused = t.refused /\ q.active = "main" /\ (q.synced => q = t)
      BY <1>1, RequestedMeans DEF Rooms
    <2> HIDE DEF q
    <2>3. t.status = s.status /\ t.attempt = s.attempt /\ t.rooms = e.rooms /\ t.refused = s.refused
          /\ t.synced = s.synced /\ t.active = s.active /\ t.loaded = s.loaded /\ t.held = s.held
          /\ t.shown = s.shown /\ t.odd = s.odd
      BY DEF Ui
    <2> HIDE DEF t
    <2> DEFINE r == Joined(s, e)
    <2>4. /\ r \in Ui /\ r.desired = "main" /\ r.status = q.status /\ r.attempt = q.attempt
          /\ r.rooms = q.rooms /\ r.refused = q.refused /\ r.active = q.active /\ r.synced = q.synced
          /\ r.loaded = q.loaded /\ r.held = q.held /\ r.shown = q.shown /\ r.odd = q.odd
      BY <2>1, <2>2 DEF Ui, Rooms
    <2> HIDE DEF r
    <2> QED
      BY ZenonT(60), <1>3, <2>2, <2>3, <2>4 DEF r
  <1> QED
    BY <1>2, <1>3

\* A snapshot is shown, with what was held for its room.
LEMMA SnapshotMeans ==
  ASSUME NEW s \in Ui, NEW e \in Frame, e.t = "snapshot"
  PROVE  LET r == Snapshot(s, e)
         IN  /\ r \in Ui /\ r.status = s.status /\ r.attempt = s.attempt /\ r.desired = s.desired
             /\ r.rooms = s.rooms /\ r.active = e.room /\ r.loaded = e.room /\ r.held = <<>>
             /\ r.synced /\ ~r.refused
  <1> DEFINE shown == Replayed(e.snap, s.held, e.room)
             odd == s.odd \/ e.room # s.active \/ s.synced
  <1>1. e.room \in Rooms /\ shown \in View /\ odd \in BOOLEAN
    <2>1. e.room \in Rooms /\ e.snap \in View
      BY FrameMeans
    <2>2. s.held \in Seq(Event) /\ s.odd \in BOOLEAN /\ s.synced \in BOOLEAN
      BY DEF Ui
    <2>3. shown \in View
      BY <2>1, <2>2, ReplayedTyped
    <2> QED
      BY <2>1, <2>2, <2>3
  <1>2. Snapshot(s, e) = [s EXCEPT !.active = e.room, !.synced = TRUE, !.loaded = e.room, !.refused = FALSE,
                                   !.held = <<>>, !.odd = odd, !.shown = shown]
    BY DEF Snapshot
  <1> HIDE DEF shown, odd
  <1>3. Snapshot(s, e) \in Ui
    <2> DEFINE none == <<>>
    <2>1. none \in Seq(Event)
      OBVIOUS
    <2>2. Snapshot(s, e) = [s EXCEPT !.active = e.room, !.synced = TRUE, !.loaded = e.room, !.refused = FALSE,
                                     !.held = none, !.odd = odd, !.shown = shown]
      BY <1>2
    <2> HIDE DEF none
    <2> QED
      BY <1>1, <2>1, <2>2 DEF Ui
  <1>4. LET r == Snapshot(s, e)
        IN  /\ r.status = s.status /\ r.attempt = s.attempt /\ r.desired = s.desired
            /\ r.rooms = s.rooms /\ r.active = e.room /\ r.loaded = e.room /\ r.held = <<>>
            /\ r.synced /\ ~r.refused
    BY <1>2 DEF Ui
  <1> QED
    BY <1>3, <1>4

\* It is odd if it was not asked for, came on top of one or met what an earlier socket held.
LEMMA SnapshotShows ==
  ASSUME NEW s \in Ui, NEW e \in Frame, e.t = "snapshot"
  PROVE  LET r == Snapshot(s, e)
         IN  /\ r.odd = (s.odd \/ e.room # s.active \/ s.synced)
             /\ r.shown = Replayed(e.snap, s.held, e.room)
  <1> DEFINE shown == Replayed(e.snap, s.held, e.room)
             odd == s.odd \/ e.room # s.active \/ s.synced
  <1>1. Snapshot(s, e) = [s EXCEPT !.active = e.room, !.synced = TRUE, !.loaded = e.room, !.refused = FALSE,
                                   !.held = <<>>, !.odd = odd, !.shown = shown]
    BY DEF Snapshot
  <1> HIDE DEF shown, odd
  <1>2. LET r == Snapshot(s, e) IN r.odd = odd /\ r.shown = shown
    BY <1>1 DEF Ui
  <1> QED
    BY <1>2 DEF odd, shown

\* An event is held, shown or dropped.
LEMMA RoomEventMeans ==
  ASSUME NEW s \in Ui, NEW e \in Event
  PROVE  LET r == RoomEvent(s, e)
         IN  /\ r \in Ui
             /\ \/ Hold(s, e) /\ r = [s EXCEPT !.held = Append(s.held, e)]
                \/ ~Hold(s, e) /\ Current(s, e) /\ r = [s EXCEPT !.shown = Applied(s.shown, e)]
                \/ ~Hold(s, e) /\ ~Current(s, e) /\ r = s
  <1>1. Append(s.held, e) \in Seq(Event) /\ Applied(s.shown, e) \in View
    BY AppliedTyped DEF Ui
  <1> QED
    BY <1>1 DEF RoomEvent, Ui

\* A deleted room is emptied.
LEMMA RoomDeletedMeans ==
  ASSUME NEW s \in Ui, NEW e \in Frame, e.t = "room deleted"
  PROVE  LET r == RoomDeleted(s, e)
         IN  /\ r \in Ui /\ r.status = s.status /\ r.attempt = s.attempt /\ r.desired = s.desired
             /\ r.rooms = s.rooms /\ r.refused = s.refused /\ r.active = s.active /\ r.held = s.held
             /\ r.odd = s.odd
             /\ \/ Current(s, e) /\ ~r.synced /\ r.shown = [s.shown EXCEPT !.chat = {}, !.job = NoJob]
                \/ ~Current(s, e) /\ r = s
  <1>1. CASE Current(s, e)
    <2>1. [s.shown EXCEPT !.chat = {}, !.job = NoJob] \in View
      BY DEF Ui, View, NoJob, Job, JobStates
    <2>2. RoomDeleted(s, e) = [s EXCEPT !.shown = [s.shown EXCEPT !.chat = {}, !.job = NoJob],
                                        !.synced = FALSE, !.loaded = None]
      BY <1>1 DEF RoomDeleted, Ui, View
    <2> QED
      BY ZenonT(60), <1>1, <2>1, <2>2 DEF Ui
  <1>2. CASE ~Current(s, e)
    BY <1>2 DEF RoomDeleted
  <1> QED
    BY <1>1, <1>2

-----------------------------------------------------------------------------
(* What is on its way: a frame more, or one less.                          *)

\* A frame more is the last one.
LEMMA Longer ==
  ASSUME NEW S, NEW s \in Seq(S), NEW x \in S
  PROVE  LET r == Append(s, x)
         IN  /\ r \in Seq(S) /\ r # <<>> /\ r[Len(s) + 1] = x
             /\ Len(s) + 1 \in DOMAIN r /\ Len(s) \in Nat
             /\ \A i \in DOMAIN s : i \in DOMAIN r /\ r[i] = s[i] /\ i < Len(s) + 1
             /\ \A i \in DOMAIN r : i \in Nat /\ (i # Len(s) + 1 => i \in DOMAIN s) /\ ~(i > Len(s) + 1)
             /\ s # <<>> => r[1] = s[1] /\ 1 \in DOMAIN s
  <1>1. Len(s) \in Nat /\ DOMAIN s = 1..Len(s) /\ (s # <<>> => Len(s) >= 1)
    OBVIOUS
  <1>2. Append(s, x) \in Seq(S) /\ DOMAIN Append(s, x) = 1..(Len(s) + 1) /\ Append(s, x) # <<>>
    <2>1. Append(s, x) \in Seq(S) /\ Len(Append(s, x)) = Len(s) + 1
      OBVIOUS
    <2>2. \A q \in Seq(S) : DOMAIN q = 1..Len(q)
      OBVIOUS
    <2>3. DOMAIN Append(s, x) = 1..(Len(s) + 1)
      BY ZenonT(60), <2>1, <2>2
    <2> QED
      BY <1>1, <2>1, <2>3
  <1>3. Append(s, x)[Len(s) + 1] = x
    OBVIOUS
  <1>4. ASSUME NEW i \in 1..Len(s) PROVE Append(s, x)[i] = s[i]
    OBVIOUS
  <1> DEFINE r == Append(s, x)
  <1> HIDE DEF r
  <1> QED
    BY <1>1, <1>2, <1>3, <1>4 DEF r

\* One less is the first one.
LEMMA Shorter ==
  ASSUME NEW S, NEW s \in Seq(S), s # <<>>
  PROVE  LET r == Tail(s)
         IN  /\ r \in Seq(S) /\ Head(s) = s[1] /\ 1 \in DOMAIN s /\ s[1] \in S
             /\ \A i \in DOMAIN r : i \in Nat /\ i + 1 \in DOMAIN s /\ r[i] = s[i + 1] /\ i + 1 > 1
             /\ \A i \in DOMAIN s : i \in Nat /\ (i # 1 => i > 1 /\ i - 1 \in DOMAIN r /\ r[i - 1] = s[i])
             /\ \A i \in DOMAIN r : \A j \in DOMAIN s : j > i + 1 => j # 1 /\ j - 1 > i
             /\ \A i, j \in DOMAIN r : j > i => j + 1 > i + 1
             /\ \A j \in DOMAIN s : j > 1 => j # 1
  <1>1. Len(s) \in Nat /\ Len(s) >= 1 /\ DOMAIN s = 1..Len(s) /\ Head(s) = s[1]
    OBVIOUS
  <1>2. Tail(s) \in Seq(S) /\ Len(Tail(s)) = Len(s) - 1 /\ DOMAIN Tail(s) = 1..(Len(s) - 1)
    OBVIOUS
  <1>3. ASSUME NEW i \in 1..(Len(s) - 1) PROVE Tail(s)[i] = s[i + 1]
    OBVIOUS
  <1>4. s[1] \in S
    OBVIOUS
  <1> DEFINE r == Tail(s)
  <1> HIDE DEF r
  <1>5. ASSUME NEW i \in DOMAIN r PROVE i \in Nat /\ i + 1 \in DOMAIN s /\ r[i] = s[i + 1] /\ i + 1 > 1
    BY <1>1, <1>2, <1>3 DEF r
  <1>6. ASSUME NEW i \in DOMAIN s, i # 1 PROVE i > 1 /\ i - 1 \in DOMAIN r /\ r[i - 1] = s[i]
    <2>1. i - 1 \in 1..(Len(s) - 1) /\ (i - 1) + 1 = i
      BY <1>1, <1>6
    <2> QED
      BY <1>2, <1>3, <2>1 DEF r
  <1>7. /\ \A i \in DOMAIN r : \A j \in DOMAIN s : j > i + 1 => j # 1 /\ j - 1 > i
        /\ \A i, j \in DOMAIN r : j > i => j + 1 > i + 1
        /\ \A j \in DOMAIN s : j > 1 => j # 1
    BY <1>1, <1>2 DEF r
  <1> QED
    BY <1>1, <1>2, <1>4, <1>5, <1>6, <1>7 DEF r

-----------------------------------------------------------------------------
(* What each action does to the types.                                     *)

\* What is left alone keeps its type.
LEMMA SameTyped ==
  ASSUME Typed, Shaped, UNCHANGED vars
  PROVE  Typed' /\ Shaped'
  BY DEF Typed, Shaped, vars

\* Nothing that the browser or its socket sees of its own.
Quiet == /\ UNCHANGED <<rooms, op, srv, up, down, ui, listed>>
         /\ outbox \subseteq outbox'
         /\ \A e \in outbox' : e \in outbox \/ e.t \notin {"room deleted", "rooms"}

\* A budget is spent down.
LEMMA Spent ==
  ASSUME Typed, NEW what \in Ops, Spend(what)
  PROVE  budget' \in [Ops -> Nat]
  BY DEF Typed, Spend

\* Messages are written and erased by others.
LEMMA WriteMeans ==
  ASSUME Typed, Shaped, NEW m \in Msg, Write(m) \/ Erase(m)
  PROVE  Typed' /\ Shaped' /\ Quiet
  <1>1. budget' \in [Ops -> Nat]
    BY Spent DEF Write, Erase, Ops
  <1>2. store' \in Store
    <2>1. CASE Write(m)
      BY <2>1 DEF Write, Change, Typed, Store
    <2>2. CASE Erase(m)
      BY <2>2 DEF Erase, Change, Typed, Store
    <2> QED
      BY <2>1, <2>2
  <1>3. PICK e \in [t : {"message", "unsaid"}, room : Rooms, msg : Msg] : outbox' = outbox \cup {e}
    <2>1. RoomOf[m] \in Rooms
      BY FeedAssumption
    <2>2. \A t \in {"message", "unsaid"} :
              [t |-> t, room |-> RoomOf[m], msg |-> m] \in [t : {"message", "unsaid"}, room : Rooms, msg : Msg]
      BY <2>1
    <2> QED
      BY <2>2 DEF Write, Erase, Change
  <1>4. e \in News /\ e.t \notin {"room deleted", "rooms"}
    BY DEF News, Event
  <1>5. UNCHANGED <<rooms, granted, op, late, srv, up, down, ui, listed, jobs>>
    BY DEF Write, Erase, others
  <1>6. Quiet
    BY <1>3, <1>4, <1>5 DEF Quiet
  <1>7. Typed'
    BY <1>1, <1>2, <1>3, <1>4, <1>5 DEF Typed
  <1>8. Shaped'
    BY <1>5 DEF Shaped
  <1> QED
    BY <1>6, <1>7, <1>8

\* Others come and go.
LEMMA PeerMovesMeans ==
  ASSUME Typed, Shaped, NEW k \in Rooms \cup {None}, PeerMoves(k)
  PROVE  Typed' /\ Shaped' /\ Quiet
  <1>1. budget' \in [Ops -> Nat]
    BY Spent DEF PeerMoves, Ops
  <1>2. store' \in Store /\ store.peer \in Rooms \cup {None}
    BY DEF PeerMoves, Typed, Store
  <1> DEFINE news == {[t |-> "left", room |-> r] : r \in {store.peer} \ {None}}
                     \cup {[t |-> "joined", room |-> r] : r \in {k} \ {None}}
  <1>3. outbox' = outbox \cup news
    BY DEF PeerMoves
  <1>4. news \subseteq News /\ \A e \in news : e.t \in {"left", "joined"}
    <2>1. news \subseteq [t : {"joined", "left"}, room : Rooms]
      BY <1>2
    <2> QED
      BY <2>1 DEF News, Event
  <1> HIDE DEF news
  <1>5. UNCHANGED <<rooms, granted, op, late, srv, up, down, ui, listed, jobs>>
    BY DEF PeerMoves, others
  <1>6. Quiet
    BY <1>3, <1>4, <1>5 DEF Quiet
  <1>7. Typed'
    BY <1>1, <1>2, <1>3, <1>4, <1>5 DEF Typed
  <1>8. Shaped'
    BY <1>5 DEF Shaped
  <1> QED
    BY <1>6, <1>7, <1>8

\* The upload comes, is retried and goes.
LEMMA UploadMeans ==
  ASSUME Typed, Shaped, Upload \/ Retry \/ Delete
  PROVE  Typed' /\ Shaped' /\ Quiet
  <1>1. budget' \in [Ops -> Nat]
    <2>1. CASE Upload
      BY <2>1, Spent DEF Upload, Ops
    <2>2. CASE Retry
      BY <2>2, Spent DEF Retry, Ops
    <2>3. CASE Delete
      BY <2>3, Spent DEF Delete, Ops
    <2> QED
      BY <2>1, <2>2, <2>3
  <1>2. store' \in Store
    <2>1. PICK job \in Job : store' = [store EXCEPT !.job = job]
      <3>1. /\ NoJob \in Job
            /\ \A n \in {1, 2} : [id |-> n, st |-> "queued"] \in Job
        BY DEF Job, JobStates, NoJob
      <3>2. \/ store' = [store EXCEPT !.job = NoJob]
            \/ \E n \in {1, 2} : store' = [store EXCEPT !.job = [id |-> n, st |-> "queued"]]
        BY DEF Upload, Retry, Delete, Change
      <3> QED
        BY <3>1, <3>2
    <2> QED
      BY <2>1 DEF Typed, Store
  <1>3. jobs' \subseteq JobEvent
    BY DEF Upload, Retry, Delete, Typed, Emits, JobEvent, JobStates
  <1>4. PICK e \in [t : {"uploaded", "updated"}, room : {"main"}, id : Nat] \cup [t : {"deleted"}, room : {"main"}] :
            outbox' = outbox \cup {e}
    <2>1. CASE Upload
      <3>1. [t |-> "uploaded", room |-> "main", id |-> 1] \in [t : {"uploaded", "updated"}, room : {"main"}, id : Nat]
        OBVIOUS
      <3> QED
        BY <2>1, <3>1 DEF Upload, Change
    <2>2. CASE Retry
      <3>1. [t |-> "updated", room |-> "main", id |-> 2] \in [t : {"uploaded", "updated"}, room : {"main"}, id : Nat]
        OBVIOUS
      <3> QED
        BY <2>2, <3>1 DEF Retry, Change
    <2>3. CASE Delete
      <3>1. [t |-> "deleted", room |-> "main"] \in [t : {"deleted"}, room : {"main"}]
        OBVIOUS
      <3> QED
        BY <2>3, <3>1 DEF Delete, Change
    <2> QED
      BY <2>1, <2>2, <2>3
  <1>5. e \in News /\ e.t \notin {"room deleted", "rooms"}
    BY DEF News, Event
  <1>6. UNCHANGED <<rooms, granted, op, late, srv, up, down, ui, listed>>
    BY DEF Upload, Retry, Delete, others
  <1>7. Quiet
    BY <1>4, <1>5, <1>6 DEF Quiet
  <1>8. Typed'
    BY <1>1, <1>2, <1>3, <1>4, <1>5, <1>6 DEF Typed
  <1>9. Shaped'
    BY <1>6 DEF Shaped
  <1> QED
    BY <1>7, <1>8, <1>9

\* A job's event is handled.
LEMMA HandleJobEventMeans ==
  ASSUME Typed, Shaped, NEW e \in jobs, HandleJobEvent(e)
  PROVE  Typed' /\ Shaped' /\ Quiet
  <1>1. e \in JobEvent /\ store \in Store /\ outbox \subseteq News /\ jobs \subseteq JobEvent
    BY DEF Typed
  <1>2. e.t \in {"status", "complete"} /\ e.st \in JobStates /\ e.id \in Nat /\ e \in News
    BY <1>1 DEF JobEvent, News, Event
  <1>3. store' \in Store
    BY <1>1, <1>2 DEF HandleJobEvent, Change, Store, Job
  <1>4. jobs' \subseteq JobEvent
    <2>1. \A st \in {"done", "failed"} : Ends(e.id, st) \in JobEvent
      BY <1>2 DEF Ends, JobEvent, JobStates
    <2> QED
      BY <1>1, <2>1 DEF HandleJobEvent
  <1>5. outbox' = outbox \/ outbox' = outbox \cup {e}
    BY DEF HandleJobEvent, Change
  <1>6. UNCHANGED <<rooms, granted, op, late, srv, up, down, ui, listed, budget>>
    BY DEF HandleJobEvent, others
  <1>7. Quiet
    BY <1>2, <1>5, <1>6 DEF Quiet
  <1>8. Typed'
    BY <1>2, <1>3, <1>4, <1>5, <1>6 DEF Typed
  <1>9. Shaped'
    BY <1>6 DEF Shaped
  <1> QED
    BY <1>7, <1>8, <1>9

\* The room is locked, the session ended.
LEMMA LockMeans ==
  ASSUME Typed, Shaped, Lock \/ EndSession
  PROVE  Typed' /\ Shaped' /\ Quiet
  <1>1. budget' \in [Ops -> Nat]
    BY Spent DEF Lock, EndSession, Ops
  <1>2. UNCHANGED <<store, rooms, jobs, op, late, srv, up, down, ui, listed>>
    BY DEF Lock, EndSession
  <1>3. PICK e \in [t : {"ended"}] : outbox' = outbox \/ outbox' = outbox \cup {e}
    <2>1. [t |-> "ended"] \in [t : {"ended"}]
      OBVIOUS
    <2> QED
      BY <2>1 DEF Lock, EndSession
  <1>4. e \in News /\ e.t \notin {"room deleted", "rooms"}
    BY DEF News
  <1>5. Quiet
    BY <1>2, <1>3, <1>4 DEF Quiet
  <1>6. Typed'
    BY <1>1, <1>2, <1>3, <1>4 DEF Typed
  <1>7. Shaped'
    BY <1>2 DEF Shaped
  <1> QED
    BY <1>5, <1>6, <1>7

\* The breakout room's deletion is announced,
LEMMA DeleteRoomMeans ==
  ASSUME Typed, Shaped, DeleteRoom
  PROVE  /\ Typed' /\ Shaped' /\ UNCHANGED <<rooms, srv, up, down, ui, listed>>
         /\ op = "idle" /\ "side" \in rooms /\ op' = "told" /\ outbox \subseteq outbox'
         /\ \A e \in outbox' : e \in outbox \/ e.t = "room deleted"
  <1>1. budget' \in [Ops -> Nat]
    BY Spent DEF DeleteRoom, Ops
  <1>2. UNCHANGED <<store, jobs, late, rooms, srv, up, down, ui, listed>> /\ op = "idle" /\ "side" \in rooms /\ op' = "told"
    BY DEF DeleteRoom
  <1>3. PICK e \in [t : {"room deleted"}, room : {"side"}] : outbox' = outbox \cup {e}
    <2>1. [t |-> "room deleted", room |-> "side"] \in [t : {"room deleted"}, room : {"side"}]
      OBVIOUS
    <2> QED
      BY <2>1 DEF DeleteRoom
  <1>4. e \in News /\ e.t = "room deleted"
    BY DEF News
  <1>5. Typed'
    BY <1>1, <1>2, <1>3, <1>4 DEF Typed
  <1>6. Shaped'
    BY <1>2 DEF Shaped
  <1> QED
    BY <1>2, <1>3, <1>4, <1>5, <1>6

\* and done.
LEMMA DeleteRowsMeans ==
  ASSUME Typed, Shaped, DeleteRows
  PROVE  /\ Typed' /\ Shaped' /\ UNCHANGED <<srv, up, down, ui, listed>>
         /\ op = "told" /\ op' = "idle" /\ rooms' = rooms \ {"side"} /\ outbox \subseteq outbox' /\ RoomsAnnounced'
         /\ \A e \in outbox' : e.t # "room deleted" /\ (e \in outbox \/ (e.t = "rooms" /\ "side" \notin e.rooms))
  <1>1. /\ UNCHANGED <<jobs, late, srv, up, down, ui, listed, budget>> /\ op = "told" /\ op' = "idle"
        /\ rooms' = rooms \ {"side"}
    BY DEF DeleteRows
  <1>2. store' \in Store
    BY DEF DeleteRows, Typed, Store
  <1>3. rooms' \subseteq Rooms /\ "main" \in rooms'
    BY <1>1 DEF Typed
  <1>4. PICK e \in [t : {"rooms"}, rooms : SUBSET Rooms] : outbox' = outbox \cup {e} /\ e.rooms = rooms'
    <2>1. [t |-> "rooms", rooms |-> rooms'] \in [t : {"rooms"}, rooms : SUBSET Rooms]
      BY <1>3
    <2> QED
      BY <2>1 DEF DeleteRows
  <1>5. e \in News /\ e.t = "rooms" /\ "side" \notin e.rooms
    BY <1>1, <1>4 DEF News
  <1>6. \A f \in outbox : f.t # "room deleted"
    BY DEF DeleteRows, Told
  <1>7. Typed'
    BY <1>1, <1>2, <1>3, <1>4, <1>5 DEF Typed
  <1>8. Shaped'
    BY <1>1 DEF Shaped
  <1>9. RoomsAnnounced'
    BY <1>4, <1>5 DEF RoomsAnnounced
  <1>10. outbox \subseteq outbox'
    BY <1>4
  <1>11. ASSUME NEW f \in outbox'
         PROVE  f.t # "room deleted" /\ (f \in outbox \/ (f.t = "rooms" /\ "side" \notin f.rooms))
    <2>1. CASE f \in outbox
      BY <1>6, <2>1
    <2>2. CASE f = e
      BY <1>5, <2>2
    <2> QED
      BY <1>4, <2>1, <2>2
  <1> QED
    BY <1>1, <1>7, <1>8, <1>9, <1>10, <1>11

\* A frame of the browser's is taken and answered or not.
LEMMA HandleJoinSessionMeans ==
  ASSUME Typed, Shaped, HandleJoinSession
  PROVE  /\ Typed' /\ Shaped' /\ UNCHANGED <<rooms, outbox, op, ui, listed>>
         /\ up # <<>> /\ up' = Tail(up) /\ srv.at = "idle" /\ up[1].t = "join session"
         /\ \E e \in Frame : e.t = "session joined" /\ e.rooms = rooms /\ down' = Append(down, e)
         /\ srv'.joined /\ srv'.at = "read" /\ srv'.room \in Rooms
         /\ srv'.room = "main" \/ srv'.room = up[1].room
         /\ ui.status # "closed"
  <1>0. up \in Seq(Ask) /\ (up # <<>> => Head(up) = up[1])
    BY Shorter DEF Typed
  <1>1. /\ up # <<>> /\ srv.at = "idle" /\ up[1].t = "join session" /\ up' = Tail(up) /\ up \in Seq(Ask)
        /\ UNCHANGED <<store, rooms, outbox, jobs, op, late, ui, listed, budget>>
    BY <1>0 DEF HandleJoinSession, content
  <1>2. up' \in Seq(Ask)
    BY <1>1, Shorter
  <1>3. PICK e \in Frame : e.t = "session joined" /\ e.rooms = rooms /\ down' = Append(down, e)
    <2> DEFINE e == [t |-> "session joined", rooms |-> rooms]
    <2>1. e \in [t : {"session joined"}, rooms : SUBSET Rooms] /\ e.t = "session joined" /\ e.rooms = rooms
      BY DEF Typed
    <2>2. down' = Append(down, e)
      BY DEF HandleJoinSession, Say
    <2> HIDE DEF e
    <2>3. e \in Frame
      BY <2>1 DEF Frame
    <2> QED
      BY <2>1, <2>2, <2>3
  <1>4. down' \in Seq(Frame)
    BY <1>3, Longer DEF Typed
  <1>5. PICK k \in Rooms : srv' = [srv EXCEPT !.joined = TRUE, !.room = k, !.at = "read"] /\ k \in {"main", up[1].room}
    <2> DEFINE k == IF up[1].room \in rooms /\ (up[1].room = "side" => granted) THEN up[1].room ELSE "main"
    <2>1. srv' = [srv EXCEPT !.joined = TRUE, !.room = k, !.at = "read"]
      BY <1>0, <1>1 DEF HandleJoinSession, Enters
    <2>2. k \in Rooms /\ k \in {"main", up[1].room}
      BY DEF Typed, Rooms
    <2> HIDE DEF k
    <2> QED
      BY <2>1, <2>2
  <1>6. srv' \in Socket /\ srv'.joined /\ srv'.at = "read" /\ srv'.room = k
    BY <1>5 DEF Typed, Socket
  <1>7. ui.status # "closed"
    BY <1>1 DEF Shaped
  <1>8. Typed'
    BY <1>1, <1>2, <1>4, <1>6 DEF Typed
  <1>9. Shaped'
    BY <1>1, <1>6, <1>7 DEF Shaped
  <1> QED
    BY <1>1, <1>3, <1>5, <1>6, <1>7, <1>8, <1>9

\* A room is entered or refused.
LEMMA HandleJoinRoomMeans ==
  ASSUME Typed, Shaped, HandleJoinRoom
  PROVE  /\ Typed' /\ Shaped' /\ UNCHANGED <<rooms, outbox, op, ui, listed>>
         /\ up # <<>> /\ up' = Tail(up) /\ srv.at = "idle" /\ up[1].t = "join room" /\ ui.status # "closed"
         /\ \/ /\ srv'.joined /\ srv'.at = "read" /\ srv'.room \in Rooms /\ srv'.room = up[1].room
               /\ UNCHANGED down
            \/ /\ srv' = srv /\ up[1].room = "side"
               /\ \E e \in Frame : e.t = "error" /\ down' = Append(down, e)
  <1>0. up \in Seq(Ask) /\ (up # <<>> => Head(up) = up[1])
    BY Shorter DEF Typed
  <1>1. /\ up # <<>> /\ srv.at = "idle" /\ up[1].t = "join room" /\ up' = Tail(up) /\ up \in Seq(Ask)
        /\ UNCHANGED <<store, rooms, outbox, jobs, op, late, ui, listed, budget>>
    BY <1>0 DEF HandleJoinRoom
  <1>2. up' \in Seq(Ask) /\ up[1] \in Ask
    BY <1>1, Shorter
  <1>3. up[1].room \in Rooms
    BY <1>1, <1>2 DEF Ask
  <1>4. ui.status # "closed"
    BY <1>1 DEF Shaped
  <1>5. CASE up[1].room \in rooms /\ (up[1].room = "side" => granted \/ up[1].code)
    <2>1. srv' = [srv EXCEPT !.joined = TRUE, !.room = up[1].room, !.at = "read"] /\ UNCHANGED down
      BY <1>0, <1>1, <1>5 DEF HandleJoinRoom, Enters
    <2>2. srv' \in Socket /\ srv'.joined /\ srv'.at = "read" /\ srv'.room = up[1].room
      BY <1>3, <2>1 DEF Typed, Socket
    <2>3. Typed'
      BY <1>1, <1>2, <2>1, <2>2 DEF Typed
    <2>4. Shaped'
      BY <1>1, <1>3, <1>4, <2>2 DEF Shaped
    <2> QED
      BY <1>1, <1>3, <1>4, <2>1, <2>2, <2>3, <2>4
  <1>6. CASE ~(up[1].room \in rooms /\ (up[1].room = "side" => granted \/ up[1].code))
    <2>1. srv' = srv /\ up[1].room = "side"
      BY <1>0, <1>1, <1>3, <1>6 DEF HandleJoinRoom, Typed, Rooms
    <2>2. PICK e \in [t : {"error"}] : down' = Append(down, e)
      <3>1. [t |-> "error"] \in [t : {"error"}] /\ down' = Append(down, [t |-> "error"])
        BY <1>0, <1>1, <1>6 DEF HandleJoinRoom, Say
      <3> QED
        BY <3>1
    <2>3. e \in Frame /\ e.t = "error"
      BY DEF Frame
    <2>4. down' \in Seq(Frame)
      BY <2>2, <2>3, Longer DEF Typed
    <2>5. Typed'
      BY <1>1, <1>2, <2>1, <2>4 DEF Typed
    <2>6. Shaped'
      BY <1>1, <1>4, <2>1 DEF Shaped
    <2> QED
      BY <1>1, <1>4, <2>1, <2>2, <2>3, <2>5, <2>6
  <1> QED
    BY <1>5, <1>6

\* A message is stored and announced, or refused.
LEMMA HandleChatMeans ==
  ASSUME Typed, Shaped, HandleChat
  PROVE  /\ Typed' /\ Shaped' /\ UNCHANGED <<rooms, op, srv, ui, listed>>
         /\ up # <<>> /\ up' = Tail(up) /\ up[1].t = "chat" /\ ui.status # "closed"
         /\ outbox \subseteq outbox' /\ \A e \in outbox' : e \in outbox \/ e.t = "message"
         /\ UNCHANGED down \/ \E e \in Frame : e.t = "error" /\ down' = Append(down, e)
  <1>0. up \in Seq(Ask) /\ (up # <<>> => Head(up) = up[1])
    BY Shorter DEF Typed
  <1>1. /\ up # <<>> /\ up[1].t = "chat" /\ up' = Tail(up) /\ up \in Seq(Ask)
        /\ UNCHANGED <<rooms, jobs, op, late, srv, ui, listed, budget>>
    BY <1>0 DEF HandleChat
  <1>2. up' \in Seq(Ask) /\ up[1] \in Ask
    BY <1>1, Shorter
  <1>3. up[1].room \in Rooms /\ up[1].msg \in Msg
    BY <1>1, <1>2 DEF Ask
  <1>4. ui.status # "closed"
    BY <1>1 DEF Shaped
  <1>5. CASE srv.room = up[1].room /\ up[1].room \in rooms
    <2>1. store' = [store EXCEPT !.chat = @ \cup {up[1].msg}] /\ UNCHANGED down
      BY <1>0, <1>1, <1>5 DEF HandleChat
    <2>2. PICK e \in [t : {"message", "unsaid"}, room : Rooms, msg : Msg] : outbox' = outbox \cup {e} /\ e.t = "message"
      <3> DEFINE e == [t |-> "message", room |-> up[1].room, msg |-> up[1].msg]
      <3>1. e \in [t : {"message", "unsaid"}, room : Rooms, msg : Msg] /\ e.t = "message"
        BY <1>3
      <3>2. outbox' = outbox \cup {e}
        BY <1>0, <1>1, <1>5 DEF HandleChat
      <3> HIDE DEF e
      <3> QED
        BY <3>1, <3>2
    <2>3. e \in News
      BY DEF News, Event
    <2>4. store' \in Store
      BY <1>3, <2>1 DEF Typed, Store
    <2>5. Typed'
      BY <1>1, <1>2, <2>1, <2>2, <2>3, <2>4 DEF Typed
    <2>6. Shaped'
      BY <1>1, <1>4 DEF Shaped
    <2> QED
      BY <1>1, <1>4, <2>1, <2>2, <2>5, <2>6
  <1>6. CASE ~(srv.room = up[1].room /\ up[1].room \in rooms)
    <2>1. UNCHANGED <<store, outbox>>
      BY <1>0, <1>1, <1>6 DEF HandleChat
    <2>2. PICK e \in [t : {"error"}] : down' = Append(down, e)
      <3>1. [t |-> "error"] \in [t : {"error"}] /\ down' = Append(down, [t |-> "error"])
        BY <1>0, <1>1, <1>6 DEF HandleChat, Say
      <3> QED
        BY <3>1
    <2>3. e \in Frame /\ e.t = "error"
      BY DEF Frame
    <2>4. down' \in Seq(Frame)
      BY <2>2, <2>3, Longer DEF Typed
    <2>5. Typed'
      BY <1>1, <1>2, <2>1, <2>4 DEF Typed
    <2>6. Shaped'
      BY <1>1, <1>4 DEF Shaped
    <2> QED
      BY <1>1, <1>4, <2>1, <2>2, <2>3, <2>5, <2>6
  <1> QED
    BY <1>5, <1>6

\* The snapshot is read,
LEMMA ReadSnapshotMeans ==
  ASSUME Typed, Shaped, ReadSnapshot
  PROVE  /\ Typed' /\ Shaped' /\ UNCHANGED <<rooms, op, outbox, up, down, ui, listed>>
         /\ srv.at = "read" /\ srv'.at = "send" /\ srv'.room = srv.room /\ srv'.joined = srv.joined
  <1>1. /\ srv.at = "read" /\ srv' = [srv EXCEPT !.at = "send", !.snap = Contents(srv.room)]
        /\ UNCHANGED <<store, rooms, granted, outbox, jobs, op, late, up, down, ui, listed, budget>>
    BY DEF ReadSnapshot, content
  <1>2. Contents(srv.room) \in View
    <2>1. store \in Store
      BY DEF Typed
    <2>2. (IF srv.room = "main" THEN store.job ELSE NoJob) \in Job
      BY <2>1 DEF Store, Job, NoJob, JobStates
    <2> QED
      BY <2>1, <2>2 DEF Store, Contents, View
  <1>3. srv' \in Socket /\ srv'.at = "send" /\ srv'.room = srv.room /\ srv'.joined = srv.joined /\ srv'.snap \in View
    BY <1>1, <1>2 DEF Typed, Socket
  <1>4. Typed'
    BY <1>1, <1>3 DEF Typed
  <1>5. ui.status # "closed"
    BY <1>1 DEF Shaped, Gone
  <1>6. Shaped'
    BY <1>1, <1>3, <1>5 DEF Shaped
  <1> QED
    BY <1>1, <1>3, <1>4, <1>6

\* and sent.
LEMMA SendSnapshotMeans ==
  ASSUME Typed, Shaped, SendSnapshot
  PROVE  /\ Typed' /\ Shaped' /\ UNCHANGED <<rooms, op, outbox, up, ui, listed>>
         /\ srv.at = "send" /\ srv'.at = "idle" /\ srv'.room = srv.room /\ srv'.joined = srv.joined
         /\ srv.joined /\ srv.room \in Rooms /\ srv.snap \in View
         /\ \E e \in Frame : e.t = "snapshot" /\ e.room = srv.room /\ e.snap = srv.snap /\ down' = Append(down, e)
  <1>1. /\ srv.at = "send" /\ srv' = [srv EXCEPT !.at = "idle", !.snap = None]
        /\ UNCHANGED <<store, rooms, granted, outbox, jobs, op, late, up, ui, listed, budget>>
    BY DEF SendSnapshot, content
  <1>2. srv.joined /\ srv.room \in Rooms /\ srv.snap \in View /\ ui.status # "closed"
    BY <1>1 DEF Shaped, Gone
  <1>3. PICK e \in Frame : e.t = "snapshot" /\ e.room = srv.room /\ e.snap = srv.snap /\ down' = Append(down, e)
    <2> DEFINE e == [t |-> "snapshot", room |-> srv.room, snap |-> srv.snap]
    <2>1. e \in [t : {"snapshot"}, room : Rooms, snap : View] /\ e.t = "snapshot" /\ e.room = srv.room /\ e.snap = srv.snap
      BY <1>2
    <2>2. down' = Append(down, e)
      BY DEF SendSnapshot, Say
    <2> HIDE DEF e
    <2>3. e \in Frame
      BY <2>1 DEF Frame
    <2> QED
      BY <2>1, <2>2, <2>3
  <1>4. down' \in Seq(Frame)
    BY <1>3, Longer DEF Typed
  <1>5. srv' \in Socket /\ srv'.at = "idle" /\ srv'.room = srv.room /\ srv'.joined = srv.joined
    BY <1>1 DEF Typed, Socket
  <1>6. Typed'
    BY <1>1, <1>4, <1>5 DEF Typed
  <1>7. Shaped'
    BY <1>1, <1>2, <1>5 DEF Shaped
  <1> QED
    BY <1>1, <1>2, <1>3, <1>5, <1>6, <1>7

\* What is published reaches whoever it is about.
LEMMA PublishMeans ==
  ASSUME Typed, Shaped, NEW e \in outbox, Publish(e)
  PROVE  /\ Typed' /\ Shaped' /\ UNCHANGED <<rooms, op, ui, listed>>
         /\ outbox' = outbox \ {e} /\ e \in News /\ e \in Frame
         /\ \/ ~Reaches(e) /\ UNCHANGED <<srv, up, down>>
            \/ /\ Reaches(e) /\ ui.status # "closed" /\ down' = Append(down, e)
               /\ \/ e.t # "ended" /\ UNCHANGED <<srv, up>> /\ srv.joined
                  \/ e.t = "ended" /\ srv' = Gone /\ up' = <<>>
  <1>1. /\ outbox' = outbox \ {e}
        /\ UNCHANGED <<store, rooms, granted, jobs, op, ui, listed, budget>>
    BY DEF Publish
  <1>2. e \in News /\ e \in Frame
    BY DEF Typed, Frame
  <1>3. Gone \in Socket /\ <<>> \in Seq(Ask) /\ ~Gone.joined /\ Gone.room = None /\ Gone.at = "idle"
    BY DEF Gone, Socket
  <1>4. CASE ~Reaches(e)
    <2>1. UNCHANGED <<srv, up, down>>
      BY <1>4 DEF Publish, Reaches
    <2>2. Typed'
      BY <1>1, <2>1 DEF Typed
    <2>3. Shaped'
      BY <1>1, <2>1 DEF Shaped
    <2> QED
      BY <1>1, <1>2, <1>4, <2>1, <2>2, <2>3
  <1>5. CASE Reaches(e)
    <2>1. down' = Append(down, e)
      BY <1>5 DEF Publish, Say
    <2>2. down' \in Seq(Frame)
      BY <1>2, <2>1, Longer DEF Typed
    <2>3. srv.joined
      <3>1. e.t \notin {"rooms", "ended"} => e.room \in Rooms
        BY <1>2, EventMeans, FrameMeans DEF News, Rooms
      <3> QED
        BY <1>5, <3>1, FeedAssumption DEF Reaches, Shaped
    <2>4. ui.status # "closed"
      BY <1>3, <2>3 DEF Shaped
    <2>5. \/ e.t # "ended" /\ UNCHANGED <<srv, up>>
          \/ e.t = "ended" /\ srv' = Gone /\ up' = <<>>
      BY <2>3 DEF Publish
    <2>6. srv' \in Socket /\ up' \in Seq(Ask)
      BY <1>3, <2>5 DEF Typed
    <2>7. Typed'
      BY <1>1, <2>2, <2>6 DEF Typed
    <2>8. Shaped'
      BY <1>1, <1>3, <2>4, <2>5 DEF Shaped
    <2> QED
      BY <1>1, <1>2, <1>5, <2>1, <2>3, <2>4, <2>5, <2>7, <2>8
  <1> QED
    BY <1>4, <1>5

\* The socket opens with a join,
LEMMA OpenMeans ==
  ASSUME Typed, Shaped, Open
  PROVE  /\ Typed' /\ Shaped' /\ UNCHANGED <<rooms, op, outbox, srv, down, listed>>
         /\ down = <<>> /\ srv = Gone /\ ~ui.synced
         /\ ui' = [ui EXCEPT !.status = "online", !.attempt = 0]
         /\ \E f \in Ask : up' = <<f>> /\ f.t = "join session" /\ f.room = ui.desired
  <1>1. /\ ui' = [ui EXCEPT !.status = "online", !.attempt = 0]
        /\ UNCHANGED <<store, rooms, granted, outbox, jobs, op, late, srv, down, listed, budget>>
    BY DEF Open, content
  <1>2. down = <<>> /\ srv = Gone /\ ~ui.synced
    BY DEF Open, Shaped
  <1>3. PICK f \in Ask : up' = <<f>> /\ f.t = "join session" /\ f.room = ui.desired
    <2> DEFINE f == [t |-> "join session", room |-> ui.desired, code |-> FALSE]
    <2>1. f \in Ask /\ f.t = "join session" /\ f.room = ui.desired
      BY DEF Typed, Ui, Ask
    <2>2. up' = <<f>>
      BY DEF Open
    <2> HIDE DEF f
    <2> QED
      BY <2>1, <2>2
  <1>4. up' \in Seq(Ask)
    <2>1. \A x \in Ask : <<x>> \in Seq(Ask)
      OBVIOUS
    <2> QED
      BY <1>3, <2>1
  <1>5. ui' \in Ui /\ ui'.status = "online" /\ ui'.attempt = 0 /\ ui'.synced = ui.synced
    BY <1>1 DEF Typed, Ui
  <1>6. Typed'
    BY <1>1, <1>4, <1>5 DEF Typed
  <1>7. Shaped'
    <2>1. MaxAttempts \in Nat
      BY FeedAssumption
    <2> QED
      BY <1>1, <1>2, <1>5, <2>1 DEF Shaped
  <1> QED
    BY <1>1, <1>2, <1>3, <1>6, <1>7

\* does not open,
LEMMA OpenFailsMeans ==
  ASSUME Typed, Shaped, OpenFails
  PROVE  /\ Typed' /\ Shaped' /\ UNCHANGED <<rooms, op, outbox, srv, up, down, listed>>
         /\ ui'.status # "online" /\ ui'.desired = ui.desired /\ ui'.active = ui.active /\ ui'.rooms = ui.rooms
         /\ ui'.held = ui.held /\ ui'.shown = ui.shown
  <1>1. /\ ui.status = "closed" /\ UNCHANGED <<store, rooms, granted, outbox, jobs, op, late, srv, up, down, listed>>
        /\ ui' = [ui EXCEPT !.attempt = ui.attempt + 1,
                            !.status = IF ui.attempt + 1 >= MaxAttempts THEN "offline" ELSE "closed"]
    BY DEF OpenFails, content
  <1>2. budget' \in [Ops -> Nat]
    BY Spent DEF OpenFails, Ops
  <1>3. ui.attempt \in Nat /\ MaxAttempts \in Nat
    BY FeedAssumption DEF Typed, Ui
  <1>4. /\ ui' \in Ui /\ ui'.attempt = ui.attempt + 1
        /\ ui'.status = IF ui.attempt + 1 >= MaxAttempts THEN "offline" ELSE "closed"
        /\ ui'.synced = ui.synced /\ ui'.desired = ui.desired /\ ui'.active = ui.active /\ ui'.rooms = ui.rooms
        /\ ui'.loaded = ui.loaded /\ ui'.held = ui.held /\ ui'.shown = ui.shown
    <2> DEFINE st == IF ui.attempt + 1 >= MaxAttempts THEN "offline" ELSE "closed"
               n == ui.attempt + 1
    <2>1. st \in {"closed", "offline"} /\ n \in Nat
      BY <1>3
    <2>2. ui' = [ui EXCEPT !.attempt = n, !.status = st]
      BY <1>1
    <2> HIDE DEF st, n
    <2>3. ui \in Ui
      BY DEF Typed
    <2>4. /\ ui' \in Ui /\ ui'.attempt = n /\ ui'.status = st
          /\ ui'.synced = ui.synced /\ ui'.desired = ui.desired /\ ui'.active = ui.active /\ ui'.rooms = ui.rooms
          /\ ui'.loaded = ui.loaded /\ ui'.held = ui.held /\ ui'.shown = ui.shown
      BY <2>1, <2>2, <2>3 DEF Ui
    <2> QED
      BY <2>4 DEF st, n
  <1>5. Typed'
    BY <1>1, <1>2, <1>4 DEF Typed
  <1>6. Shaped'
    BY <1>1, <1>3, <1>4 DEF Shaped
  <1> QED
    BY <1>1, <1>4, <1>5, <1>6

\* or is lost with all that was on its way.
LEMMA LostMeans ==
  ASSUME Typed, Shaped, Lost
  PROVE  /\ Typed' /\ Shaped' /\ UNCHANGED <<rooms, op, outbox, listed>>
         /\ ui'.status # "online" /\ ui'.desired = ui.desired /\ ui'.active = ui.active /\ ui'.rooms = ui.rooms
         /\ ui'.held = ui.held /\ ui'.shown = ui.shown
         /\ srv' = Gone /\ up' = <<>> /\ down' = <<>>
  <1>1. /\ ui.status = "online" /\ UNCHANGED <<store, rooms, granted, outbox, jobs, op, late, listed>>
        /\ srv' = Gone /\ up' = <<>> /\ down' = <<>>
    BY DEF Lost, content
  <1>2. budget' \in [Ops -> Nat]
    BY Spent DEF Lost, Ops
  <1>3. Gone \in Socket /\ ~Gone.joined /\ Gone.room = None /\ Gone.at = "idle"
    BY DEF Gone, Socket
  <1>4. /\ ui' \in Ui /\ ui'.status = "closed" /\ ui'.attempt = ui.attempt /\ ~ui'.synced
        /\ ui'.desired = ui.desired /\ ui'.active = ui.active /\ ui'.rooms = ui.rooms
        /\ ui'.held = ui.held /\ ui'.shown = ui.shown
    <2> DEFINE odd == ui.held # <<>>
    <2>1. ui' = [ui EXCEPT !.status = "closed", !.synced = FALSE, !.odd = odd] /\ odd \in BOOLEAN
      BY DEF Lost
    <2> HIDE DEF odd
    <2> QED
      BY <2>1 DEF Typed, Ui
  <1>5. <<>> \in Seq(Ask) /\ <<>> \in Seq(Frame)
    OBVIOUS
  <1>6. Typed'
    BY <1>1, <1>2, <1>3, <1>4, <1>5 DEF Typed
  <1>7. Shaped'
    <2>1. MaxAttempts > 0 /\ ui.attempt = 0
      BY <1>1, FeedAssumption DEF Shaped
    <2> QED
      BY <1>1, <1>3, <1>4, <2>1, FeedAssumption DEF Shaped
  <1> QED
    BY <1>1, <1>4, <1>6, <1>7

\* What a frame does to the browser.
Received(e) ==
    /\ ui'.status = IF e.t = "ended" THEN "offline" ELSE "online"
    /\ ui'.rooms = IF e.t \in {"session joined", "rooms"} THEN e.rooms ELSE ui.rooms
    /\ \/ ui'.desired = ui.desired
       \/ e.t = "session joined" /\ ui.desired = None /\ ui'.desired = "main"
    /\ \/ ui'.active = ui.active
       \/ e.t = "session joined" /\ ui'.active = "main" /\ ui'.desired = "main"
       \/ e.t = "snapshot" /\ ui'.active = e.room
    /\ e.t = "snapshot" => ui'.synced /\ ui'.active = e.room
    /\ e.t = "error" => ui'.refused
    /\ e.t \notin {"snapshot", "error"} => ui'.refused = ui.refused
    /\ e.t # "snapshot" /\ ui'.synced => ui.synced /\ ui'.active = ui.active
    /\ \/ e.t \in {"session joined", "snapshot", "room deleted"} \/ ui'.synced = ui.synced
       \/ e.t = "room deleted" /\ ~Current(ui, e)
    /\ e.t = "room deleted" => ui'.synced = ui.synced \/ (ui.active = "side" /\ ui'.active = "side")

\* Receiving does that to the first of them, and takes it.
LEMMA ReceiveMeans ==
  ASSUME Typed, Shaped, Receive
  PROVE  /\ Typed' /\ Shaped' /\ UNCHANGED <<rooms, op, outbox, srv, up, listed>>
         /\ down # <<>> /\ down' = Tail(down) /\ ui.status = "online" /\ down[1] \in Frame /\ Received(down[1])
  <1> DEFINE e == down[1]
  <1>1. down # <<>> /\ down \in Seq(Frame) /\ Head(down) = e /\ e \in Frame
    BY Shorter DEF Receive, Typed
  <1>2. /\ down' = Tail(down) /\ ui.status = "online"
        /\ UNCHANGED <<store, rooms, granted, outbox, jobs, op, late, srv, up, listed, budget>>
        /\ ui' = CASE e.t = "session joined" -> Joined(ui, e)
                   [] e.t = "rooms" -> [ui EXCEPT !.rooms = e.rooms]
                   [] e.t = "snapshot" -> Snapshot(ui, e)
                   [] e.t = "error" -> [ui EXCEPT !.refused = TRUE]
                   [] e.t = "room deleted" -> RoomDeleted(ui, e)
                   [] e.t = "ended" -> [ui EXCEPT !.status = "offline"]
                   [] OTHER -> RoomEvent(ui, e)
    BY <1>1 DEF Receive, content
  <1> HIDE DEF e
  <1>3. down' \in Seq(Frame) /\ ui \in Ui /\ ui.attempt = 0
    BY <1>1, <1>2, Shorter DEF Typed, Shaped
  <1>4. ui.synced \in BOOLEAN /\ (ui.synced => ui.loaded = ui.active /\ ui.held = <<>> /\ ui.active \in Rooms)
    BY <1>3 DEF Ui, Shaped
  <1> DEFINE Good == /\ ui' \in Ui /\ Received(e) /\ ui'.attempt = 0
                     /\ ui'.synced => ui'.loaded = ui'.active /\ ui'.held = <<>> /\ ui'.active \in Rooms
  <1>5. ASSUME e.t = "session joined" PROVE Good
    <2>1. ui' = Joined(ui, e)
      BY <1>2, <1>5
    <2> DEFINE r == Joined(ui, e)
    <2>2. /\ r \in Ui /\ r.status = ui.status /\ r.attempt = ui.attempt
          /\ r.rooms = e.rooms /\ r.refused = ui.refused
          /\ ui.desired # None => r = [ui EXCEPT !.rooms = e.rooms]
          /\ ui.desired = None => r.desired = "main" /\ r.active = "main"
          /\ r.synced => /\ ui.synced /\ r.active = ui.active /\ r.loaded = ui.loaded /\ r.held = ui.held
      BY <1>1, <1>3, <1>5, JoinedMeans
    <2> HIDE DEF r
    <2>3. ui.desired # None => r.desired = ui.desired /\ r.active = ui.active
      BY <1>3, <2>2 DEF Ui
    <2> QED
      BY ZenonT(60), <1>2, <1>3, <1>4, <1>5, <2>1, <2>2, <2>3 DEF Received, r
  <1>6. ASSUME e.t = "snapshot" PROVE Good
    <2>1. ui' = Snapshot(ui, e)
      BY <1>2, <1>6
    <2> DEFINE r == Snapshot(ui, e)
    <2>2. /\ r \in Ui /\ r.status = ui.status /\ r.attempt = ui.attempt /\ r.desired = ui.desired
          /\ r.rooms = ui.rooms /\ r.active = e.room /\ r.loaded = e.room /\ r.held = <<>>
          /\ r.synced
      BY <1>1, <1>3, <1>6, SnapshotMeans
    <2> HIDE DEF r
    <2>3. e.room \in Rooms
      BY <1>1, <1>6, FrameMeans
    <2> QED
      BY <1>2, <1>3, <1>6, <2>1, <2>2, <2>3 DEF Received, r
  <1>7. ASSUME e.t = "room deleted" PROVE Good
    <2>1. ui' = RoomDeleted(ui, e)
      BY <1>2, <1>7
    <2> DEFINE r == RoomDeleted(ui, e)
    <2>2. /\ r \in Ui /\ r.status = ui.status /\ r.attempt = ui.attempt /\ r.desired = ui.desired
          /\ r.rooms = ui.rooms /\ r.refused = ui.refused /\ r.active = ui.active
          /\ \/ Current(ui, e) /\ ~r.synced
             \/ ~Current(ui, e) /\ r = ui
      BY <1>1, <1>3, <1>7, RoomDeletedMeans
    <2> HIDE DEF r
    <2>3. e.room = "side" /\ (Current(ui, e) => ui.active = "side")
      BY <1>1, <1>7, FrameMeans DEF Current
    <2> QED
      BY <1>2, <1>3, <1>4, <1>7, <2>1, <2>2, <2>3 DEF Received, r
  <1>8. ASSUME e.t \in {"rooms", "error", "ended"} PROVE Good
    <2>1. e.t = "rooms" => e.rooms \subseteq Rooms
      BY <1>1, FrameMeans
    <2>2. /\ e.t = "rooms" => ui' = [ui EXCEPT !.rooms = e.rooms]
          /\ e.t = "error" => ui' = [ui EXCEPT !.refused = TRUE]
          /\ e.t = "ended" => ui' = [ui EXCEPT !.status = "offline"]
      BY <1>2
    <2>3. /\ ui' \in Ui /\ ui'.attempt = ui.attempt /\ ui'.desired = ui.desired /\ ui'.active = ui.active
          /\ ui'.synced = ui.synced /\ ui'.loaded = ui.loaded /\ ui'.held = ui.held
          /\ ui'.status = (IF e.t = "ended" THEN "offline" ELSE ui.status)
          /\ ui'.rooms = (IF e.t = "rooms" THEN e.rooms ELSE ui.rooms)
          /\ ui'.refused = (IF e.t = "error" THEN TRUE ELSE ui.refused)
      BY ZenonT(60), <1>3, <1>8, <2>1, <2>2 DEF Ui
    <2> QED
      BY <1>2, <1>3, <1>4, <1>8, <2>3 DEF Received
  <1>9. ASSUME e.t \notin {"session joined", "rooms", "snapshot", "error", "room deleted", "ended"} PROVE Good
    <2>1. ui' = RoomEvent(ui, e) /\ e \in Event
      BY <1>1, <1>2, <1>9, FrameMeans
    <2>2. /\ ui' \in Ui
          /\ \/ Hold(ui, e) /\ ui' = [ui EXCEPT !.held = Append(ui.held, e)]
             \/ ~Hold(ui, e) /\ Current(ui, e) /\ ui' = [ui EXCEPT !.shown = Applied(ui.shown, e)]
             \/ ~Hold(ui, e) /\ ~Current(ui, e) /\ ui' = ui
      BY <1>3, <2>1, RoomEventMeans
    <2>3. /\ ui'.attempt = ui.attempt /\ ui'.desired = ui.desired /\ ui'.active = ui.active
          /\ ui'.synced = ui.synced /\ ui'.loaded = ui.loaded /\ (ui.synced => ui'.held = ui.held)
          /\ ui'.status = ui.status /\ ui'.rooms = ui.rooms /\ ui'.refused = ui.refused
      BY <1>3, <2>2 DEF Ui, Hold
    <2> QED
      BY <1>2, <1>3, <1>4, <1>9, <2>2, <2>3 DEF Received
  <1>10. Good
    BY <1>5, <1>6, <1>7, <1>8, <1>9
  <1>11. Typed'
    BY <1>2, <1>3, <1>10 DEF Typed
  <1>12. Shaped'
    <2>1. ui'.status # "closed"
      BY <1>10 DEF Received
    <2>2. ui'.attempt = 0 /\ 0 <= MaxAttempts
      BY <1>10, FeedAssumption
    <2>3. ui'.synced => ui'.loaded = ui'.active /\ ui'.held = <<>> /\ ui'.active \in Rooms
      BY <1>10
    <2>4. UNCHANGED srv
      BY <1>2
    <2> QED
      BY <2>1, <2>2, <2>3, <2>4 DEF Shaped
  <1> QED
    BY <1>1, <1>2, <1>10, <1>11, <1>12 DEF e

\* A room is asked for.
Asks(k) ==
    /\ ui'.status = ui.status /\ ui'.rooms = ui.rooms /\ ui'.refused = ui.refused /\ ui'.desired = k
    /\ ui'.synced => ui.synced /\ ui'.active = ui.active
    /\ \/ UNCHANGED <<ui, up>>
       \/ ui'.active = k /\ ui.status # "online" /\ UNCHANGED up
       \/ /\ ui'.active = k /\ ui.status = "online"
          /\ \E f \in Ask : f.t = "join room" /\ f.room = k /\ up' = Append(up, f)

\* Joining a room asks for it.
LEMMA AsksMeans ==
  ASSUME Typed, Shaped, NEW k \in Rooms, NEW code \in BOOLEAN, ui' = Join(ui, k, code), JoinFrame(k, code),
         UNCHANGED <<rooms, srv, down>>
  PROVE  Asks(k) /\ ui' \in Ui /\ up' \in Seq(Ask) /\ Shaped'
  <1> DEFINE r == Join(ui, k, code)
  <1>1. /\ r \in Ui /\ r.status = ui.status /\ r.attempt = ui.attempt /\ r.desired = k
        /\ r.rooms = ui.rooms /\ r.refused = ui.refused
        /\ ui.desired = k /\ ~code => r = ui
        /\ ~(ui.desired = k /\ ~code) => r.active = k
        /\ r.synced => ui.synced /\ r.active = ui.active /\ r.loaded = ui.loaded /\ r.held = ui.held
    BY JoinMeans DEF Typed
  <1>2. ui' = r
    OBVIOUS
  <1> HIDE DEF r
  <1>3. /\ (ui.desired = k /\ ~code) \/ ui.status # "online" => up' = up
        /\ ~(ui.desired = k /\ ~code) /\ ui.status = "online" =>
               \E f \in Ask : f.t = "join room" /\ f.room = k /\ up' = Append(up, f)
    <2> DEFINE f == [t |-> "join room", room |-> k, code |-> code]
    <2>1. f \in Ask /\ f.t = "join room" /\ f.room = k
      BY DEF Ask
    <2>2. up' = IF (ui.desired = k /\ ~code) \/ ui.status # "online" THEN up ELSE Append(up, f)
      BY DEF JoinFrame
    <2> HIDE DEF f
    <2> QED
      BY <2>1, <2>2
  <1>4. up' \in Seq(Ask)
    <2>1. up \in Seq(Ask)
      BY DEF Typed
    <2>2. \A f \in Ask : Append(up, f) \in Seq(Ask)
      BY <2>1, Longer
    <2> QED
      BY <1>3, <2>1, <2>2
  <1>5. Asks(k)
    BY <1>1, <1>2, <1>3 DEF Asks
  <1>6. Shaped'
    BY <1>1, <1>2, <1>3 DEF Shaped
  <1> QED
    BY <1>1, <1>2, <1>4, <1>5, <1>6

\* By a click,
LEMMA ClickMeans ==
  ASSUME Typed, Shaped, NEW k \in Rooms, NEW code \in BOOLEAN, Click(k, code)
  PROVE  Typed' /\ Shaped' /\ Asks(k) /\ k \in listed /\ UNCHANGED <<rooms, op, outbox, srv, down, listed>>
  <1>1. /\ ui' = Join(ui, k, code) /\ JoinFrame(k, code) /\ k \in listed
        /\ UNCHANGED <<store, rooms, granted, outbox, jobs, op, late, srv, down, listed>>
    BY DEF Click, content
  <1>2. budget' \in [Ops -> Nat]
    BY Spent DEF Click, Ops
  <1>3. Asks(k) /\ ui' \in Ui /\ up' \in Seq(Ask) /\ Shaped'
    BY <1>1, AsksMeans
  <1>4. Typed'
    BY <1>1, <1>2, <1>3 DEF Typed
  <1> QED
    BY <1>1, <1>3, <1>4

\* or as the room that is shown is gone.
LEMMA RenderMeans ==
  ASSUME Typed, Shaped, Render
  PROVE  /\ Typed' /\ Shaped' /\ UNCHANGED <<rooms, op, outbox, srv, down>> /\ listed' = ui.rooms
         /\ IF ui.active \in listed \ ui.rooms THEN Asks("main") ELSE UNCHANGED <<ui, up>>
  <1>1. /\ listed' = ui.rooms
        /\ UNCHANGED <<store, rooms, granted, outbox, jobs, op, late, srv, down, budget>>
    BY DEF Render, content
  <1>2. ui.rooms \subseteq Rooms
    BY DEF Typed, Ui
  <1>3. CASE ui.active \in listed \ ui.rooms
    <2>1. ui' = Join(ui, "main", FALSE) /\ JoinFrame("main", FALSE)
      BY <1>3 DEF Render
    <2>2. Asks("main") /\ ui' \in Ui /\ up' \in Seq(Ask) /\ Shaped'
      BY <1>1, <2>1, AsksMeans DEF Rooms
    <2>3. Typed'
      BY <1>1, <1>2, <2>2 DEF Typed
    <2> QED
      BY <1>1, <1>3, <2>2, <2>3
  <1>4. CASE ui.active \notin listed \ ui.rooms
    <2>1. UNCHANGED <<ui, up>>
      BY <1>4 DEF Render
    <2>2. Typed'
      BY <1>1, <1>2, <2>1 DEF Typed
    <2>3. Shaped'
      BY <1>1, <2>1 DEF Shaped
    <2> QED
      BY <1>1, <1>4, <2>1, <2>2, <2>3
  <1> QED
    BY <1>3, <1>4

\* Something is said.
LEMMA SpeakMeans ==
  ASSUME Typed, Shaped, NEW m \in Msg, Speak(m)
  PROVE  /\ Typed' /\ Shaped' /\ UNCHANGED <<rooms, op, outbox, srv, down, ui, listed>>
         /\ ui.status = "online"
         /\ \E f \in Ask : f.t = "chat" /\ RoomOf[f.msg] = f.room /\ up' = Append(up, f)
  <1>1. /\ ui.status = "online" /\ RoomOf[m] = ui.desired /\ store' = [store EXCEPT !.said = @ \cup {m}]
        /\ UNCHANGED <<rooms, granted, outbox, jobs, op, late, srv, down, ui, listed>>
    BY DEF Speak
  <1>2. budget' \in [Ops -> Nat]
    BY Spent DEF Speak, Ops
  <1>3. store' \in Store
    BY <1>1 DEF Typed, Store
  <1>4. PICK f \in Ask : f.t = "chat" /\ RoomOf[f.msg] = f.room /\ up' = Append(up, f)
    <2> DEFINE f == [t |-> "chat", room |-> ui.desired, msg |-> m]
    <2>1. ui.desired \in Rooms
      BY <1>1, FeedAssumption
    <2>2. f \in [t : {"chat"}, room : Rooms, msg : Msg] /\ f.t = "chat" /\ f.msg = m /\ f.room = ui.desired
      BY <2>1
    <2>3. up' = Append(up, f)
      BY DEF Speak
    <2> HIDE DEF f
    <2>4. f \in Ask
      BY <2>2 DEF Ask
    <2> QED
      BY <1>1, <2>2, <2>3, <2>4
  <1>5. up' \in Seq(Ask)
    BY <1>4, Longer DEF Typed
  <1>6. Typed'
    BY <1>1, <1>2, <1>3, <1>5 DEF Typed
  <1>7. Shaped'
    BY <1>1 DEF Shaped
  <1> QED
    BY <1>1, <1>4, <1>6, <1>7

-----------------------------------------------------------------------------
(* Nobody ends in limbo, step by step.                                     *)

\* What the browser, its socket and the rooms do not see changes nothing.
LEMMA QuietKeeps ==
  ASSUME FeedInv, Typed', Shaped', Quiet
  PROVE  FeedInv'
  <1>1. /\ rooms' = rooms /\ op' = op /\ srv' = srv /\ up' = up /\ down' = down /\ ui' = ui /\ listed' = listed
        /\ outbox \subseteq outbox' /\ \A e \in outbox' : e \in outbox \/ e.t \notin {"room deleted", "rooms"}
    BY DEF Quiet
  <1>2. JoinFirst' /\ SideAsked' /\ RoomAgrees' /\ Welcomed'
    BY ZenonT(60), <1>1
       DEF FeedInv, JoinFirst, SideAsked, SideInUp, RoomAgrees, Welcomed, Talking, AsksLeft, Serving, SnapshotComes
  <1>3. Deletion'
    BY ZenonT(60), <1>1 DEF FeedInv, Deletion, Past
  <1>4. RoomsAnnounced => RoomsAnnounced'
    BY <1>1 DEF RoomsAnnounced
  <1>5. DeletionFollows'
    BY <1>1, <1>4 DEF FeedInv, DeletionFollows, Talking
  <1>6. SideSeen'
    BY <1>1 DEF FeedInv, SideSeen, SideUnasked, Past
  <1>7. Answered'
    BY <1>1, <1>4 DEF FeedInv, Answered, Talking, Serving, AsksLeft, WillLeave, RoomsComes
  <1> QED
    BY <1>2, <1>3, <1>5, <1>6, <1>7 DEF FeedInv

\* Nor does a step that changes nothing.
LEMMA StutterKeeps ==
  ASSUME FeedInv, UNCHANGED vars
  PROVE  FeedInv'
  <1>1. Typed' /\ Shaped'
    BY SameTyped DEF FeedInv
  <1>2. Quiet
    BY DEF vars, Quiet
  <1> QED
    BY <1>1, <1>2, QuietKeeps

\* The deletion is announced while the room is there.
LEMMA DeleteRoomKeeps ==
  ASSUME FeedInv, DeleteRoom
  PROVE  FeedInv'
  <1>1. /\ Typed' /\ Shaped' /\ rooms' = rooms /\ srv' = srv /\ up' = up /\ down' = down /\ ui' = ui /\ listed' = listed
        /\ op = "idle" /\ "side" \in rooms /\ op' = "told" /\ outbox \subseteq outbox'
        /\ \A e \in outbox' : e \in outbox \/ e.t = "room deleted"
    BY DeleteRoomMeans DEF FeedInv
  <1>2. JoinFirst' /\ SideAsked' /\ RoomAgrees' /\ Welcomed'
    BY ZenonT(60), <1>1
       DEF FeedInv, JoinFirst, SideAsked, SideInUp, RoomAgrees, Welcomed, Talking, AsksLeft, Serving, SnapshotComes
  <1>3. Deletion'
    BY <1>1 DEF FeedInv, Deletion, Past
  <1>4. RoomsAnnounced => RoomsAnnounced'
    BY <1>1 DEF RoomsAnnounced
  <1>5. DeletionFollows'
    BY <1>1, <1>4 DEF FeedInv, DeletionFollows, Talking
  <1>6. SideSeen'
    BY <1>1 DEF FeedInv, SideSeen, SideUnasked, Past
  <1>7. Answered'
    BY <1>1, <1>4 DEF FeedInv, Answered, Talking, Serving, AsksLeft, WillLeave, RoomsComes
  <1> QED
    BY <1>1, <1>2, <1>3, <1>5, <1>6, <1>7 DEF FeedInv

\* The rows go only when that has been published, and the rooms are announced then.
LEMMA DeleteRowsKeeps ==
  ASSUME FeedInv, DeleteRows
  PROVE  FeedInv'
  <1>1. /\ Typed' /\ Shaped' /\ srv' = srv /\ up' = up /\ down' = down /\ ui' = ui /\ listed' = listed
        /\ op = "told" /\ op' = "idle" /\ rooms' = rooms \ {"side"} /\ outbox \subseteq outbox' /\ RoomsAnnounced'
        /\ \A e \in outbox' : e.t # "room deleted" /\ (e \in outbox \/ (e.t = "rooms" /\ "side" \notin e.rooms))
    BY DeleteRowsMeans DEF FeedInv
  <1>2. JoinFirst' /\ SideAsked' /\ RoomAgrees' /\ Welcomed'
    BY ZenonT(60), <1>1
       DEF FeedInv, JoinFirst, SideAsked, SideInUp, RoomAgrees, Welcomed, Talking, AsksLeft, Serving, SnapshotComes
  <1>3. "side" \in rooms /\ ~Past
    BY <1>1 DEF FeedInv, Deletion, Past
  <1>4. Deletion'
    BY <1>1, <1>3 DEF FeedInv, Deletion
  <1>5. DeletionFollows'
    BY <1>1 DEF DeletionFollows
  <1>6. SideSeen'
    BY <1>1, <1>3 DEF FeedInv, SideSeen, SideUnasked
  <1>7. Answered'
    BY <1>1 DEF FeedInv, Answered, Talking, Serving, AsksLeft, WillLeave
  <1> QED
    BY <1>1, <1>2, <1>4, <1>5, <1>6, <1>7 DEF FeedInv

\* The snapshot is read,
LEMMA ReadSnapshotKeeps ==
  ASSUME FeedInv, ReadSnapshot
  PROVE  FeedInv'
  <1>1. /\ Typed' /\ Shaped' /\ rooms' = rooms /\ op' = op /\ outbox' = outbox /\ up' = up /\ down' = down
        /\ ui' = ui /\ listed' = listed
        /\ srv.at = "read" /\ srv'.at = "send" /\ srv'.room = srv.room /\ srv'.joined = srv.joined
    BY ReadSnapshotMeans DEF FeedInv
  <1>2. JoinFirst' /\ SideAsked' /\ RoomAgrees' /\ Welcomed'
    BY <1>1 DEF FeedInv, JoinFirst, SideAsked, SideInUp, RoomAgrees, Welcomed, Talking, AsksLeft, Serving, SnapshotComes
  <1>3. Deletion'
    BY ZenonT(60), <1>1 DEF FeedInv, Deletion, Past
  <1>5. DeletionFollows'
    BY <1>1 DEF FeedInv, DeletionFollows, Talking, RoomsAnnounced
  <1>6. SideSeen'
    BY <1>1 DEF FeedInv, SideSeen, SideUnasked, Past
  <1>7. Answered'
    BY <1>1 DEF FeedInv, Answered, Talking, Serving
  <1> QED
    BY <1>1, <1>2, <1>3, <1>5, <1>6, <1>7 DEF FeedInv

\* A frame more is the last one.
LEMMA AddedIs ==
  ASSUME down \in Seq(Frame), NEW e \in Frame, down' = Append(down, e)
  PROVE  LET n == Len(down) + 1
         IN  /\ down' # <<>> /\ down'[n] = e /\ n \in DOMAIN down' /\ n \in Nat
             /\ \A i \in DOMAIN down : i \in DOMAIN down' /\ down'[i] = down[i] /\ i < n
             /\ \A i \in DOMAIN down' : i \in Nat /\ (i # n => i \in DOMAIN down) /\ ~(i > n)
  BY Longer

\* A frame more is not of a room's deletion that is past,
LEMMA AddedDeletion ==
  ASSUME Deletion, down \in Seq(Frame), NEW e \in Frame, down' = Append(down, e),
         op \in {"idle", "told"}, rooms' = rooms, op' = op, ui'.rooms = ui.rooms, listed' = listed,
         \A x \in outbox' : x \in outbox \/ x.t \notin {"room deleted", "rooms"},
         e.t = "rooms" => "side" \notin rooms /\ "side" \notin e.rooms,
         e.t = "session joined" => e.rooms = rooms,
         e.t = "room deleted" => op = "told"
  PROVE  Deletion' /\ (Past => Past')
  <1> DEFINE n == Len(down) + 1
  <1>1. /\ down' # <<>> /\ down'[n] = e /\ n \in DOMAIN down' /\ n \in Nat
        /\ \A i \in DOMAIN down : i \in DOMAIN down' /\ down'[i] = down[i] /\ i < n
        /\ \A i \in DOMAIN down' : i \in Nat /\ (i # n => i \in DOMAIN down) /\ ~(i > n)
    BY AddedIs
  <1> HIDE DEF n
  <1>2. Past => Past'
    BY <1>1 DEF Past
  <1>3. /\ op = "told" => "side" \in rooms
        /\ \A x \in outbox' : /\ x.t = "room deleted" => op = "told"
                              /\ x.t = "rooms" => "side" \notin rooms /\ "side" \notin x.rooms
        /\ "side" \in listed /\ "side" \notin ui.rooms => Past'
    BY <1>2 DEF Deletion
  <1>4. ASSUME NEW i \in DOMAIN down'
        PROVE  /\ down'[i].t = "rooms" => "side" \notin rooms /\ "side" \notin down'[i].rooms
               /\ down'[i].t \in {"rooms", "session joined"} /\ "side" \notin down'[i].rooms =>
                      /\ "side" \notin rooms /\ op = "idle"
                      /\ \A j \in DOMAIN down' : j > i => down'[j].t # "room deleted"
    <2>1. CASE i = n
      <3>1. \A j \in DOMAIN down' : ~(j > i)
        BY <1>1, <2>1
      <3>2. e.t = "session joined" /\ "side" \notin e.rooms => op # "told"
        BY <1>3
      <3> QED
        BY <1>1, <1>3, <2>1, <3>1, <3>2
    <2>2. CASE i # n
      <3>1. i \in DOMAIN down /\ down'[i] = down[i]
        BY <1>1, <2>2
      <3>2. /\ down[i].t = "rooms" => "side" \notin rooms /\ "side" \notin down[i].rooms
            /\ down[i].t \in {"rooms", "session joined"} /\ "side" \notin down[i].rooms =>
                  /\ "side" \notin rooms /\ op = "idle"
                  /\ \A j \in DOMAIN down : j > i => down[j].t # "room deleted"
        BY <3>1 DEF Deletion
      <3>3. op = "idle" => e.t # "room deleted"
        OBVIOUS
      <3>4. ASSUME op = "idle", \A j \in DOMAIN down : j > i => down[j].t # "room deleted"
            PROVE  \A j \in DOMAIN down' : j > i => down'[j].t # "room deleted"
        BY <1>1, <3>3, <3>4
      <3> QED
        BY <3>1, <3>2, <3>4
    <2> QED
      BY <2>1, <2>2
  <1>5. Deletion'
    BY <1>3, <1>4 DEF Deletion
  <1> QED
    BY <1>2, <1>5

\* and the rooms are still announced after it.
LEMMA AddedFollows ==
  ASSUME DeletionFollows, down \in Seq(Frame), NEW e \in Frame, down' = Append(down, e), op' = op,
         Talking' => Talking, RoomsAnnounced => RoomsAnnounced' \/ e.t = "rooms",
         e.t = "room deleted" => op = "told"
  PROVE  DeletionFollows'
  <1> DEFINE n == Len(down) + 1
  <1>1. /\ down' # <<>> /\ down'[n] = e /\ n \in DOMAIN down' /\ n \in Nat
        /\ \A i \in DOMAIN down : i \in DOMAIN down' /\ down'[i] = down[i] /\ i < n
        /\ \A i \in DOMAIN down' : i \in Nat /\ (i # n => i \in DOMAIN down) /\ ~(i > n)
    BY AddedIs
  <1> HIDE DEF n
  <1>2. ASSUME Talking', NEW i \in DOMAIN down', down'[i].t = "room deleted"
        PROVE  op = "told" \/ RoomsAnnounced' \/ \E j \in DOMAIN down' : j > i /\ down'[j].t = "rooms"
    <2>1. CASE i = n
      BY <1>1, <1>2, <2>1
    <2>2. CASE i # n
      <3>1. i \in DOMAIN down /\ down[i].t = "room deleted" /\ i < n
        BY <1>1, <1>2, <2>2
      <3>2. op = "told" \/ RoomsAnnounced \/ \E j \in DOMAIN down : j > i /\ down[j].t = "rooms"
        BY <1>2, <3>1 DEF DeletionFollows
      <3>3. ASSUME NEW j \in DOMAIN down, j > i, down[j].t = "rooms"
            PROVE  \E l \in DOMAIN down' : l > i /\ down'[l].t = "rooms"
        BY <1>1, <3>3
      <3>4. e.t = "rooms" => \E l \in DOMAIN down' : l > i /\ down'[l].t = "rooms"
        BY <1>1, <3>1
      <3> QED
        BY <3>2, <3>3, <3>4
    <2> QED
      BY <2>1, <2>2
  <1> QED
    BY <1>2 DEF DeletionFollows

\* and sent: it is the last of its kind.
LEMMA SendSnapshotKeeps ==
  ASSUME FeedInv, SendSnapshot
  PROVE  FeedInv'
  <1>1. /\ Typed' /\ Shaped' /\ rooms' = rooms /\ op' = op /\ outbox' = outbox /\ up' = up
        /\ ui' = ui /\ listed' = listed
        /\ srv.at = "send" /\ srv'.at = "idle" /\ srv'.room = srv.room /\ srv'.joined = srv.joined /\ srv.joined
    BY SendSnapshotMeans DEF FeedInv
  <1>2. PICK e \in Frame : e.t = "snapshot" /\ e.room = srv.room /\ down' = Append(down, e)
    BY SendSnapshotMeans DEF FeedInv
  <1> DEFINE n == Len(down) + 1
  <1>3. /\ down' # <<>> /\ down'[n] = e /\ n \in DOMAIN down'
        /\ \A i \in DOMAIN down : i \in DOMAIN down' /\ down'[i] = down[i] /\ i < n
        /\ \A i \in DOMAIN down' : i \in Nat /\ (i # n => i \in DOMAIN down) /\ ~(i > n)
    BY <1>2, Longer DEF FeedInv, Typed
  <1> HIDE DEF n
  <1>4. Talking' => Talking
    BY <1>1, <1>2, <1>3 DEF Talking
  <1>5. JoinFirst'
    BY <1>1 DEF JoinFirst
  <1>6. SideAsked'
    BY <1>1, <1>2, <1>3, <1>4 DEF FeedInv, SideAsked, SideInUp, AsksLeft, Serving, SnapshotComes
  <1>7. RoomAgrees'
    BY <1>1, <1>2, <1>3, <1>4 DEF FeedInv, RoomAgrees, SnapshotComes
  <1>8. Welcomed'
    BY ZenonT(60), <1>1, <1>2, <1>3, <1>4 DEF FeedInv, Welcomed
  <1>9. Past => Past'
    BY ZenonT(60), <1>1, <1>2, <1>3 DEF Past
  <1>10. Deletion'
    BY <1>1, <1>2, AddedDeletion DEF FeedInv, Typed
  <1>11. DeletionFollows'
    BY <1>1, <1>2, <1>4, AddedFollows DEF FeedInv, Typed, RoomsAnnounced
  <1>12. SideSeen'
    BY <1>1, <1>2, <1>3, <1>9 DEF FeedInv, SideSeen, SideUnasked
  <1>13. Answered'
    BY <1>2, <1>3 DEF Answered
  <1> QED
    BY <1>1, <1>5, <1>6, <1>7, <1>8, <1>10, <1>11, <1>12, <1>13 DEF FeedInv

\* A join more is the last that was asked for; a message asks for no room.
LEMMA MoreAsks ==
  ASSUME up \in Seq(Ask), NEW f \in Ask, up' = Append(up, f),
         Joins(f) => (f.room = "side" => ui'.desired = "side"),
         ~Joins(f) => SideInUp /\ ui'.desired = ui.desired
  PROVE  /\ SideInUp' /\ (AsksLeft => AsksLeft') /\ (Joins(f) => AsksLeft')
         /\ up' # <<>> /\ (up # <<>> => up'[1] = up[1])
         /\ \A i \in DOMAIN up' : up'[i] = f \/ \E k \in DOMAIN up : up'[i] = up[k]
  <1> DEFINE n == Len(up) + 1
  <1>1. /\ up' # <<>> /\ up'[n] = f /\ n \in DOMAIN up' /\ n \in Nat
        /\ \A i \in DOMAIN up : i \in DOMAIN up' /\ up'[i] = up[i] /\ n > i
        /\ \A i \in DOMAIN up' : i \in Nat /\ (i # n => i \in DOMAIN up) /\ ~(i > n)
        /\ up # <<>> => up'[1] = up[1]
    <2> DEFINE r == Append(up, f)
    <2>1. /\ r # <<>> /\ r[n] = f /\ n \in DOMAIN r /\ n \in Nat
          /\ \A i \in DOMAIN up : i \in DOMAIN r /\ r[i] = up[i] /\ n > i
          /\ \A i \in DOMAIN r : i \in Nat /\ (i # n => i \in DOMAIN up) /\ ~(i > n)
          /\ up # <<>> => r[1] = up[1]
      BY Longer
    <2> HIDE DEF n, r
    <2> QED
      BY <2>1 DEF r
  <1> HIDE DEF n
  <1>2. (AsksLeft => AsksLeft') /\ (Joins(f) => AsksLeft')
    BY <1>1 DEF AsksLeft
  <1>3. CASE Joins(f)
    BY <1>1, <1>2, <1>3 DEF SideInUp
  <1>4. CASE ~Joins(f)
    <2>1. ASSUME NEW i \in DOMAIN up', Joins(up'[i]), up'[i].room = "side", ui'.desired # "side"
          PROVE  \E j \in DOMAIN up' : j > i /\ Joins(up'[j])
      <3>1. i \in DOMAIN up /\ Joins(up[i]) /\ up[i].room = "side"
        BY <1>1, <1>4, <2>1
      <3>2. PICK j \in DOMAIN up : j > i /\ Joins(up[j])
        BY <1>4, <2>1, <3>1 DEF SideInUp
      <3>3. j \in DOMAIN up' /\ up'[j] = up[j]
        BY <1>1
      <3> QED
        BY <3>2, <3>3
    <2>2. SideInUp'
      BY <2>1 DEF SideInUp
    <2> QED
      BY <1>1, <1>2, <1>4, <2>2
  <1> QED
    BY <1>3, <1>4

\* A frame is taken: what follows is what was asked for.
LEMMA FewerAsks ==
  ASSUME up \in Seq(Ask), up # <<>>, up' = Tail(up), SideInUp, ui'.desired = ui.desired
  PROVE  /\ SideInUp' /\ (AsksLeft => AsksLeft' \/ Joins(up[1]))
         /\ Joins(up[1]) /\ up[1].room = "side" => ui.desired = "side" \/ AsksLeft'
         /\ \A i \in DOMAIN up' : \E k \in DOMAIN up : up'[i] = up[k]
         /\ 1 \in DOMAIN up
  <1>1. /\ \A i \in DOMAIN up' : i + 1 \in DOMAIN up /\ up'[i] = up[i + 1]
        /\ \A j \in DOMAIN up : j # 1 => j - 1 \in DOMAIN up' /\ up'[j - 1] = up[j]
        /\ \A i \in DOMAIN up' : \A j \in DOMAIN up : j > i + 1 => j # 1 /\ j - 1 > i
        /\ \A j \in DOMAIN up : j > 1 => j # 1
        /\ 1 \in DOMAIN up
    <2> DEFINE r == Tail(up)
    <2>1. /\ \A i \in DOMAIN r : i + 1 \in DOMAIN up /\ r[i] = up[i + 1]
          /\ \A j \in DOMAIN up : j # 1 => j - 1 \in DOMAIN r /\ r[j - 1] = up[j]
          /\ \A i \in DOMAIN r : \A j \in DOMAIN up : j > i + 1 => j # 1 /\ j - 1 > i
          /\ \A j \in DOMAIN up : j > 1 => j # 1
          /\ 1 \in DOMAIN up
      BY Shorter
    <2> HIDE DEF r
    <2> QED
      BY <2>1 DEF r
  <1>2. ASSUME NEW j \in DOMAIN up, j # 1, Joins(up[j]) PROVE AsksLeft'
    <2>1. j - 1 \in DOMAIN up' /\ up'[j - 1] = up[j]
      BY <1>1, <1>2
    <2> QED
      BY <1>2, <2>1 DEF AsksLeft
  <1>3. AsksLeft => AsksLeft' \/ Joins(up[1])
    BY <1>2 DEF AsksLeft
  <1>4. ASSUME Joins(up[1]), up[1].room = "side", ui.desired # "side" PROVE AsksLeft'
    <2>1. PICK j \in DOMAIN up : j > 1 /\ Joins(up[j])
      BY <1>1, <1>4 DEF SideInUp
    <2> QED
      BY <1>1, <1>2, <2>1
  <1>5. ASSUME NEW i \in DOMAIN up', Joins(up'[i]), up'[i].room = "side", ui'.desired # "side"
        PROVE  \E j \in DOMAIN up' : j > i /\ Joins(up'[j])
    <2>1. i + 1 \in DOMAIN up /\ up'[i] = up[i + 1]
      BY <1>1
    <2>2. PICK j \in DOMAIN up : j > i + 1 /\ Joins(up[j])
      BY <1>5, <2>1 DEF SideInUp
    <2>3. j - 1 > i /\ j - 1 \in DOMAIN up' /\ up'[j - 1] = up[j]
      BY <1>1, <2>2
    <2> QED
      BY <2>2, <2>3
  <1>6. SideInUp'
    BY <1>5 DEF SideInUp
  <1> QED
    BY <1>1, <1>3, <1>4, <1>6

\* Nothing that comes tells anything else.
LEMMA SameDeletion ==
  ASSUME Deletion, rooms' = rooms, op' = op, down' = down, ui'.rooms = ui.rooms, listed' = listed,
         \A x \in outbox' : x \in outbox \/ x.t \notin {"room deleted", "rooms"}
  PROVE  Deletion' /\ (Past => Past')
  <1>1. Past => Past'
    BY DEF Past
  <1>2. \A i \in DOMAIN down' :
           /\ down'[i].t = "rooms" => "side" \notin rooms' /\ "side" \notin down'[i].rooms
           /\ down'[i].t \in {"rooms", "session joined"} /\ "side" \notin down'[i].rooms =>
                  /\ "side" \notin rooms' /\ op' = "idle"
                  /\ \A j \in DOMAIN down' : j > i => down'[j].t # "room deleted"
    <2>1. \A i \in DOMAIN down :
             /\ down[i].t = "rooms" => "side" \notin rooms /\ "side" \notin down[i].rooms
             /\ down[i].t \in {"rooms", "session joined"} /\ "side" \notin down[i].rooms =>
                    /\ "side" \notin rooms /\ op = "idle"
                    /\ \A j \in DOMAIN down : j > i => down[j].t # "room deleted"
      BY DEF Deletion
    <2> QED
      BY ZenonT(60), <2>1
  <1>3. \A e \in outbox' : /\ e.t = "room deleted" => op' = "told"
                          /\ e.t = "rooms" => "side" \notin rooms' /\ "side" \notin e.rooms
    BY DEF Deletion
  <1>4. (op' = "told" => "side" \in rooms') /\ ("side" \in listed' /\ "side" \notin ui'.rooms => Past')
    BY <1>1 DEF Deletion
  <1> QED
    BY <1>2, <1>3, <1>4, <1>1 DEF Deletion

\* A frame that is no snapshot leaves those that are the last ones.
LEMMA AddedSnapshots ==
  ASSUME RoomAgrees, Welcomed, down \in Seq(Frame), NEW e \in Frame, down' = Append(down, e),
         e.t \notin {"snapshot", "session joined"}, srv' = srv, ui'.synced = ui.synced, ui'.active = ui.active,
         Talking' => Talking
  PROVE  RoomAgrees' /\ Welcomed' /\ (SnapshotComes => SnapshotComes') /\ (RoomsComes => RoomsComes')
  <1> DEFINE n == Len(down) + 1
  <1>1. /\ down' # <<>> /\ down'[n] = e /\ n \in DOMAIN down' /\ n \in Nat
        /\ \A i \in DOMAIN down : i \in DOMAIN down' /\ down'[i] = down[i] /\ i < n
        /\ \A i \in DOMAIN down' : i \in Nat /\ (i # n => i \in DOMAIN down) /\ ~(i > n)
    BY AddedIs
  <1> HIDE DEF n
  <1>2. (SnapshotComes => SnapshotComes') /\ (RoomsComes => RoomsComes')
    BY <1>1 DEF SnapshotComes, RoomsComes
  <1>3. ASSUME NEW i \in DOMAIN down', down'[i].t \in {"snapshot", "session joined"}
        PROVE  i \in DOMAIN down /\ down'[i] = down[i]
    BY <1>1, <1>3
  <1>4. ASSUME NEW i \in DOMAIN down, NEW j \in DOMAIN down, j > i, down[j].t = "snapshot"
        PROVE  \E l \in DOMAIN down' : l > i /\ down'[l].t = "snapshot"
    BY <1>1, <1>4
  <1>5. ASSUME Talking', NEW i \in DOMAIN down', down'[i].t = "snapshot"
        PROVE  \/ down'[i].room = srv'.room \/ srv'.at # "idle"
               \/ \E j \in DOMAIN down' : j > i /\ down'[j].t = "snapshot"
    <2>1. i \in DOMAIN down /\ down'[i] = down[i]
      BY <1>3, <1>5
    <2>2. down[i].room = srv.room \/ srv.at # "idle" \/ \E j \in DOMAIN down : j > i /\ down[j].t = "snapshot"
      BY <1>5, <2>1 DEF RoomAgrees
    <2> QED
      BY <1>4, <2>1, <2>2
  <1>6. RoomAgrees'
    BY <1>2, <1>5 DEF RoomAgrees
  <1>7. ASSUME Talking', NEW i \in DOMAIN down', down'[i].t = "session joined"
        PROVE  srv'.at # "idle" \/ \E j \in DOMAIN down' : j > i /\ down'[j].t = "snapshot"
    <2>1. i \in DOMAIN down /\ down'[i] = down[i]
      BY <1>3, <1>7
    <2>2. srv.at # "idle" \/ \E j \in DOMAIN down : j > i /\ down[j].t = "snapshot"
      BY <1>7, <2>1 DEF Welcomed
    <2> QED
      BY <1>4, <2>1, <2>2
  <1>8. Welcomed'
    BY <1>7 DEF Welcomed
  <1> QED
    BY <1>2, <1>6, <1>8

\* A session is joined: a room is entered, and the welcome says which there are.
LEMMA HandleJoinSessionKeeps ==
  ASSUME FeedInv, HandleJoinSession
  PROVE  FeedInv'
  <1>1. /\ Typed' /\ Shaped' /\ rooms' = rooms /\ outbox' = outbox /\ op' = op /\ ui' = ui /\ listed' = listed
        /\ up # <<>> /\ up' = Tail(up) /\ srv.at = "idle" /\ up[1].t = "join session"
        /\ srv'.joined /\ srv'.at = "read" /\ srv'.room \in Rooms
        /\ srv'.room = "main" \/ srv'.room = up[1].room
    BY HandleJoinSessionMeans DEF FeedInv
  <1>2. PICK e \in Frame : e.t = "session joined" /\ e.rooms = rooms /\ down' = Append(down, e)
    BY HandleJoinSessionMeans DEF FeedInv
  <1> DEFINE n == Len(down) + 1
  <1>3. /\ down' # <<>> /\ down'[n] = e /\ n \in DOMAIN down' /\ n \in Nat
        /\ \A i \in DOMAIN down : i \in DOMAIN down' /\ down'[i] = down[i] /\ i < n
        /\ \A i \in DOMAIN down' : i \in Nat /\ (i # n => i \in DOMAIN down) /\ ~(i > n)
    BY <1>2, AddedIs DEF FeedInv, Typed
  <1> HIDE DEF n
  <1>4. Talking' => Talking
    BY <1>1, <1>2, <1>3 DEF Talking
  <1>5. Joins(up[1]) /\ Serving'
    BY <1>1 DEF Joins, Serving
  <1>6. Talking' => /\ SideInUp' /\ (up[1].room = "side" => ui.desired = "side" \/ AsksLeft')
    BY <1>1, <1>4, <1>5, FewerAsks DEF FeedInv, SideAsked, Typed
  <1>7. JoinFirst'
    BY <1>1 DEF JoinFirst
  <1>8. SideAsked'
    BY <1>1, <1>5, <1>6 DEF SideAsked
  <1>9. RoomAgrees' /\ Welcomed'
    BY <1>1 DEF RoomAgrees, Welcomed
  <1>10. op \in {"idle", "told"} /\ down \in Seq(Frame) /\ up \in Seq(Ask)
    BY DEF FeedInv, Typed
  <1>11. Deletion' /\ (Past => Past')
    BY <1>1, <1>2, <1>10, AddedDeletion DEF FeedInv
  <1>12. DeletionFollows'
    BY <1>1, <1>2, <1>4, <1>10, AddedFollows DEF FeedInv, RoomsAnnounced
  <1>13. SideUnasked => SideUnasked'
    <2> SUFFICES ASSUME SideUnasked PROVE SideUnasked'
      OBVIOUS
    <2>1. \A i \in DOMAIN up' : \E k \in DOMAIN up : up'[i] = up[k]
      <3>1. \A i \in DOMAIN up' : i + 1 \in DOMAIN up /\ up'[i] = up[i + 1]
        BY ZenonT(60), <1>1, <1>10, Shorter
      <3> QED
        BY <3>1
    <2>2. \A i \in DOMAIN up' : Joins(up'[i]) => up'[i].room # "side"
      BY <2>1 DEF SideUnasked
    <2>3. up[1].room # "side"
      BY <1>1, <1>5, <1>10, Shorter DEF SideUnasked
    <2>4. \A i \in DOMAIN down' : down'[i].t = "snapshot" => down'[i].room # "side"
      BY <1>2, <1>3 DEF SideUnasked
    <2> QED
      BY <1>1, <2>2, <2>3, <2>4 DEF SideUnasked
  <1>14. SideSeen'
    BY <1>1, <1>11, <1>13 DEF FeedInv, SideSeen
  <1>15. Answered'
    BY <1>5 DEF Answered
  <1> QED
    BY <1>1, <1>7, <1>8, <1>9, <1>11, <1>12, <1>14, <1>15 DEF FeedInv

\* A room is entered, or refused, which only the breakout room is.
LEMMA HandleJoinRoomKeeps ==
  ASSUME FeedInv, HandleJoinRoom
  PROVE  FeedInv'
  <1>1. /\ Typed' /\ Shaped' /\ rooms' = rooms /\ outbox' = outbox /\ op' = op /\ ui' = ui /\ listed' = listed
        /\ up # <<>> /\ up' = Tail(up) /\ srv.at = "idle" /\ up[1].t = "join room"
        /\ \/ srv'.joined /\ srv'.at = "read" /\ srv'.room = up[1].room /\ down' = down
           \/ srv' = srv /\ up[1].room = "side" /\ \E e \in Frame : e.t = "error" /\ down' = Append(down, e)
    BY HandleJoinRoomMeans DEF FeedInv
  <1>2. op \in {"idle", "told"} /\ down \in Seq(Frame) /\ up \in Seq(Ask)
    BY DEF FeedInv, Typed
  <1>3. Joins(up[1])
    BY <1>1 DEF Joins
  <1>4. 1 \in DOMAIN up /\ \A i \in DOMAIN up' : i + 1 \in DOMAIN up /\ up'[i] = up[i + 1]
    BY <1>1, <1>2, Shorter
  <1>5. Talking => /\ SideInUp' /\ (AsksLeft => AsksLeft' \/ Joins(up[1]))
                   /\ (up[1].room = "side" => ui.desired = "side" \/ AsksLeft')
    BY <1>1, <1>2, <1>3, FewerAsks DEF FeedInv, SideAsked
  <1>6. SideUnasked => /\ up[1].room # "side"
                       /\ \A i \in DOMAIN up' : Joins(up'[i]) => up'[i].room # "side"
    BY <1>3, <1>4 DEF SideUnasked
  <1>7. CASE srv'.joined /\ srv'.at = "read" /\ srv'.room = up[1].room /\ down' = down
    <2>1. Talking' => Talking
      BY <1>1, <1>7 DEF Talking
    <2>2. Serving'
      BY <1>7 DEF Serving
    <2>3. JoinFirst' /\ RoomAgrees' /\ Welcomed'
      BY <1>7 DEF JoinFirst, RoomAgrees, Welcomed
    <2>4. SideAsked'
      BY <1>1, <1>5, <1>7, <2>1, <2>2 DEF SideAsked
    <2>5. Deletion' /\ (Past => Past')
      BY <1>1, <1>7, SameDeletion DEF FeedInv
    <2>6. DeletionFollows'
      BY <1>1, <1>7, <2>1 DEF FeedInv, DeletionFollows, RoomsAnnounced
    <2>7. SideUnasked => SideUnasked'
      BY <1>1, <1>6, <1>7 DEF SideUnasked
    <2>8. SideSeen'
      BY <1>1, <2>5, <2>7 DEF FeedInv, SideSeen
    <2>9. Answered'
      BY <2>2 DEF Answered
    <2> QED
      BY <1>1, <2>3, <2>4, <2>5, <2>6, <2>8, <2>9 DEF FeedInv
  <1>8. CASE srv' = srv /\ up[1].room = "side" /\ \E e \in Frame : e.t = "error" /\ down' = Append(down, e)
    <2>1. PICK e \in Frame : e.t = "error" /\ down' = Append(down, e)
      BY <1>8
    <2> DEFINE n == Len(down) + 1
    <2>2. /\ down' # <<>> /\ down'[n] = e /\ n \in DOMAIN down' /\ n \in Nat
          /\ \A i \in DOMAIN down : i \in DOMAIN down' /\ down'[i] = down[i] /\ i < n
          /\ \A i \in DOMAIN down' : i \in Nat /\ (i # n => i \in DOMAIN down) /\ ~(i > n)
      BY <1>2, <2>1, AddedIs
    <2> HIDE DEF n
    <2>3. Talking' => Talking
      BY <1>1, <2>1, <2>2 DEF Talking
    <2>4. Talking => ui.desired = "side" \/ Serving'
      BY <1>5, <1>8 DEF Serving
    <2>5. JoinFirst'
      BY <1>1, <1>8, <2>3 DEF FeedInv, JoinFirst
    <2>6. SideAsked'
      BY <1>1, <1>5, <1>8, <2>2, <2>3, <2>4 DEF SideAsked
    <2>7. RoomAgrees' /\ Welcomed'
      BY <1>1, <1>2, <1>8, <2>1, <2>3, AddedSnapshots DEF FeedInv
    <2>9. Deletion' /\ (Past => Past')
      BY <1>1, <1>2, <2>1, AddedDeletion DEF FeedInv
    <2>10. DeletionFollows'
      BY <1>1, <1>2, <2>1, <2>3, AddedFollows DEF FeedInv, RoomsAnnounced
    <2>11. SideSeen'
      BY <1>1, <1>6, <1>8, <2>9 DEF FeedInv, SideSeen
    <2>12. Answered'
      BY <2>1, <2>2 DEF Answered
    <2> QED
      BY <1>1, <2>5, <2>6, <2>7, <2>9, <2>10, <2>11, <2>12 DEF FeedInv
  <1> QED
    BY <1>1, <1>7, <1>8

\* A message asks for no room.
LEMMA HandleChatKeeps ==
  ASSUME FeedInv, HandleChat
  PROVE  FeedInv'
  <1>1. /\ Typed' /\ Shaped' /\ rooms' = rooms /\ op' = op /\ srv' = srv /\ ui' = ui /\ listed' = listed
        /\ up # <<>> /\ up' = Tail(up) /\ up[1].t = "chat"
        /\ outbox \subseteq outbox' /\ \A e \in outbox' : e \in outbox \/ e.t = "message"
        /\ down' = down \/ \E e \in Frame : e.t = "error" /\ down' = Append(down, e)
    BY HandleChatMeans DEF FeedInv
  <1>2. op \in {"idle", "told"} /\ down \in Seq(Frame) /\ up \in Seq(Ask)
    BY DEF FeedInv, Typed
  <1>3. ~Joins(up[1])
    BY <1>1 DEF Joins
  <1>4. 1 \in DOMAIN up /\ \A i \in DOMAIN up' : i + 1 \in DOMAIN up /\ up'[i] = up[i + 1]
    BY <1>1, <1>2, Shorter
  <1>5. Talking => SideInUp' /\ (AsksLeft => AsksLeft')
    BY <1>1, <1>2, <1>3, FewerAsks DEF FeedInv, SideAsked
  <1>6. SideUnasked => \A i \in DOMAIN up' : Joins(up'[i]) => up'[i].room # "side"
    BY <1>3, <1>4 DEF SideUnasked
  <1>7. /\ (\E i \in DOMAIN down : down[i].t = "error") => (\E i \in DOMAIN down' : down'[i].t = "error")
        /\ SnapshotComes => SnapshotComes'
        /\ RoomsComes => RoomsComes'
        /\ RoomsAnnounced => RoomsAnnounced'
        /\ Talking' => Talking
        /\ \A i \in DOMAIN down' : down'[i].t # "error" => i \in DOMAIN down /\ down'[i] = down[i]
        /\ \A i \in DOMAIN down : i \in DOMAIN down' /\ down'[i] = down[i]
        /\ (Past => Past') /\ Deletion' /\ DeletionFollows'
    <2>1. RoomsAnnounced => RoomsAnnounced'
      BY <1>1 DEF RoomsAnnounced
    <2>2. CASE down' = down
      <3>1. Deletion' /\ (Past => Past')
        BY <1>1, <2>2, SameDeletion DEF FeedInv
      <3>2. Talking' => Talking
        BY <1>1, <2>2 DEF Talking
      <3>3. DeletionFollows'
        BY <1>1, <2>1, <2>2, <3>2 DEF FeedInv, DeletionFollows
      <3> QED
        BY <2>1, <2>2, <3>1, <3>2, <3>3 DEF SnapshotComes, RoomsComes
    <2>3. CASE \E e \in Frame : e.t = "error" /\ down' = Append(down, e)
      <3>1. PICK e \in Frame : e.t = "error" /\ down' = Append(down, e)
        BY <2>3
      <3> DEFINE n == Len(down) + 1
      <3>2. /\ down' # <<>> /\ down'[n] = e /\ n \in DOMAIN down' /\ n \in Nat
            /\ \A i \in DOMAIN down : i \in DOMAIN down' /\ down'[i] = down[i] /\ i < n
            /\ \A i \in DOMAIN down' : i \in Nat /\ (i # n => i \in DOMAIN down) /\ ~(i > n)
        BY <1>2, <3>1, AddedIs
      <3> HIDE DEF n
      <3>3. Talking' => Talking
        BY <1>1, <3>1, <3>2 DEF Talking
      <3>4. \A x \in outbox' : x \in outbox \/ x.t \notin {"room deleted", "rooms"}
        BY <1>1
      <3>5. Deletion' /\ (Past => Past')
        BY <1>1, <1>2, <3>1, <3>4, AddedDeletion DEF FeedInv
      <3>6. DeletionFollows'
        BY <1>1, <1>2, <2>1, <3>1, <3>3, AddedFollows DEF FeedInv
      <3> QED
        BY <2>1, <3>1, <3>2, <3>3, <3>5, <3>6 DEF SnapshotComes, RoomsComes
    <2> QED
      BY <1>1, <2>2, <2>3
  <1>8. JoinFirst'
    BY <1>1, <1>7 DEF FeedInv, JoinFirst
  <1>9. Talking => (Serving => Serving')
    BY <1>1, <1>5 DEF Serving
  <1>10. SideAsked'
    BY <1>1, <1>5, <1>7, <1>9 DEF FeedInv, SideAsked
  <1>11. RoomAgrees'
    BY <1>1, <1>7 DEF FeedInv, RoomAgrees
  <1>12. Welcomed'
    <2>1. ASSUME Talking', NEW i \in DOMAIN down', down'[i].t = "session joined"
          PROVE  srv'.at # "idle" \/ \E j \in DOMAIN down' : j > i /\ down'[j].t = "snapshot"
      <3>1. i \in DOMAIN down /\ down'[i] = down[i]
        BY <1>7, <2>1
      <3>2. srv.at # "idle" \/ \E j \in DOMAIN down : j > i /\ down[j].t = "snapshot"
        BY <1>7, <2>1, <3>1 DEF FeedInv, Welcomed
      <3> QED
        BY <1>1, <1>7, <3>2
    <2> QED
      BY <2>1 DEF Welcomed
  <1>13. SideSeen'
    BY <1>1, <1>6, <1>7 DEF FeedInv, SideSeen, SideUnasked
  <1>14. Answered'
    BY <1>1, <1>7, <1>9 DEF FeedInv, Answered, WillLeave
  <1> QED
    BY <1>1, <1>7, <1>8, <1>10, <1>11, <1>12, <1>13, <1>14 DEF FeedInv

\* Nothing on its way,
LEMMA Nothing == DOMAIN <<>> = {}
  OBVIOUS

\* and one thing.
LEMMA Single ==
  ASSUME NEW f
  PROVE  DOMAIN <<f>> = {1} /\ <<f>>[1] = f /\ <<f>> # <<>>
  OBVIOUS

\* What is published of a room's deletion comes to whoever is there; of the rooms, to whoever has joined.
LEMMA PublishKeeps ==
  ASSUME FeedInv, NEW e \in outbox, Publish(e)
  PROVE  FeedInv'
  <1>1. /\ Typed' /\ Shaped' /\ rooms' = rooms /\ op' = op /\ ui' = ui /\ listed' = listed
        /\ outbox' = outbox \ {e} /\ e \in News /\ e \in Frame
        /\ \/ ~Reaches(e) /\ srv' = srv /\ up' = up /\ down' = down
           \/ /\ Reaches(e) /\ ui.status # "closed" /\ down' = Append(down, e)
              /\ \/ e.t # "ended" /\ srv' = srv /\ up' = up /\ srv.joined
                 \/ e.t = "ended" /\ srv' = Gone /\ up' = <<>>
    BY PublishMeans DEF FeedInv
  <1>2. op \in {"idle", "told"} /\ down \in Seq(Frame)
    BY DEF FeedInv, Typed
  <1>3. /\ e.t = "rooms" => "side" \notin rooms /\ "side" \notin e.rooms
        /\ e.t = "room deleted" => op = "told"
        /\ e.t \notin {"session joined", "snapshot", "error"}
    BY <1>1, FrameMeans DEF FeedInv, Deletion
  <1>4. RoomsAnnounced => RoomsAnnounced' \/ e.t = "rooms"
    BY <1>1 DEF RoomsAnnounced
  <1>5. CASE ~Reaches(e)
    <2>1. srv' = srv /\ up' = up /\ down' = down
      BY <1>1, <1>5
    <2>2. JoinFirst' /\ SideAsked' /\ RoomAgrees' /\ Welcomed'
      BY ZenonT(60), <1>1, <2>1
         DEF FeedInv, JoinFirst, SideAsked, SideInUp, RoomAgrees, Welcomed, Talking, AsksLeft, Serving, SnapshotComes
    <2>3. Deletion' /\ (Past => Past')
      BY <1>1, <2>1, SameDeletion DEF FeedInv
    <2>4. SideSeen'
      BY <1>1, <2>1, <2>3 DEF FeedInv, SideSeen, SideUnasked
    <2>5. Talking /\ e.t = "rooms" => down = <<>> /\ AsksLeft
      <3>1. ASSUME Talking, e.t = "rooms" PROVE ~srv.joined
        BY <1>5, <3>1 DEF Reaches
      <3>2. ASSUME Talking, ~srv.joined PROVE down = <<>> /\ up # <<>> /\ up[1].t = "join session"
        BY <3>2 DEF FeedInv, JoinFirst
      <3>3. up # <<>> => 1 \in DOMAIN up
        BY Shorter DEF FeedInv, Typed
      <3> QED
        BY <3>1, <3>2, <3>3 DEF AsksLeft, Joins
    <2>6. Talking' = Talking /\ AsksLeft' = AsksLeft
      BY <1>1, <2>1 DEF Talking, AsksLeft
    <2>7. DeletionFollows'
      <3>1. CASE e.t = "rooms"
        BY <2>1, <2>5, <2>6, <3>1, Nothing DEF DeletionFollows
      <3>2. CASE e.t # "rooms"
        BY <1>1, <1>4, <2>1, <2>6, <3>2 DEF FeedInv, DeletionFollows
      <3> QED
        BY <3>1, <3>2
    <2>8. Answered'
      <3>1. CASE e.t = "rooms"
        BY <2>5, <2>6, <3>1 DEF Answered, Serving
      <3>2. CASE e.t # "rooms"
        BY <1>1, <1>4, <2>1, <2>6, <3>2 DEF FeedInv, Answered, Serving, WillLeave, RoomsComes
      <3> QED
        BY <3>1, <3>2
    <2> QED
      BY <1>1, <2>2, <2>3, <2>4, <2>7, <2>8 DEF FeedInv
  <1>6. CASE Reaches(e)
    <2>1. down' = Append(down, e) /\ \A x \in outbox' : x \in outbox \/ x.t \notin {"room deleted", "rooms"}
      BY <1>1, <1>6
    <2> DEFINE n == Len(down) + 1
    <2>2. /\ down' # <<>> /\ down'[n] = e /\ n \in DOMAIN down' /\ n \in Nat
          /\ \A i \in DOMAIN down : i \in DOMAIN down' /\ down'[i] = down[i] /\ i < n
          /\ \A i \in DOMAIN down' : i \in Nat /\ (i # n => i \in DOMAIN down) /\ ~(i > n)
      BY <1>1, <1>2, <2>1, AddedIs
    <2> HIDE DEF n
    <2>3. Talking' => Talking /\ e.t # "ended"
      BY <1>1, <2>1, <2>2 DEF Talking
    <2>4. Deletion' /\ (Past => Past')
      BY <1>1, <1>2, <1>3, <2>1, AddedDeletion DEF FeedInv
    <2>5. DeletionFollows'
      BY <1>1, <1>2, <1>3, <1>4, <2>1, <2>3, AddedFollows DEF FeedInv
    <2>6. SideUnasked => SideUnasked'
      <3>1. \A i \in DOMAIN down' : down'[i].t = "snapshot" => i \in DOMAIN down /\ down'[i] = down[i]
        BY <1>3, <2>2
      <3>2. (srv' = srv /\ up' = up) \/ (srv'.room = None /\ up' = <<>>)
        BY <1>1, <1>6 DEF Gone
      <3>3. SideUnasked => srv'.room # "side" /\ \A i \in DOMAIN up' : Joins(up'[i]) => up'[i].room # "side"
        <4>1. CASE srv' = srv /\ up' = up
          BY <4>1 DEF SideUnasked
        <4>2. CASE srv'.room = None /\ up' = <<>>
          BY <4>2, FeedAssumption DEF Rooms
        <4> QED
          BY <3>2, <4>1, <4>2
      <3> QED
        BY <1>1, <3>1, <3>3 DEF SideUnasked
    <2>7. SideSeen'
      BY <1>1, <2>4, <2>6 DEF FeedInv, SideSeen
    <2>8. CASE e.t = "ended"
      <3>1. ~Talking'
        BY <2>3, <2>8
      <3>2. JoinFirst' /\ SideAsked' /\ RoomAgrees' /\ Welcomed' /\ Answered'
        BY <3>1 DEF JoinFirst, SideAsked, RoomAgrees, Welcomed, Answered
      <3> QED
        BY <1>1, <2>4, <2>5, <2>7, <3>2 DEF FeedInv
    <2>9. CASE e.t # "ended"
      <3>1. srv' = srv /\ up' = up /\ srv.joined
        BY <1>1, <1>6, <2>9
      <3>2. RoomAgrees' /\ Welcomed' /\ (SnapshotComes => SnapshotComes') /\ (RoomsComes => RoomsComes')
        BY <1>1, <1>2, <1>3, <2>1, <2>3, <3>1, AddedSnapshots DEF FeedInv
      <3>3. JoinFirst'
        BY <3>1 DEF JoinFirst
      <3>4. Serving' = Serving /\ AsksLeft' = AsksLeft
        BY <3>1 DEF Serving, AsksLeft
      <3>5. ASSUME Talking', NEW i \in DOMAIN down', down'[i].t = "snapshot", down'[i].room = "side"
            PROVE  ui'.desired = "side" \/ Serving' \/ \E j \in DOMAIN down' : j > i /\ down'[j].t = "snapshot"
        <4>1. i \in DOMAIN down /\ down'[i] = down[i]
          BY <1>3, <2>2, <3>5
        <4>2. ui.desired = "side" \/ Serving \/ \E j \in DOMAIN down : j > i /\ down[j].t = "snapshot"
          BY <2>3, <3>5, <4>1 DEF FeedInv, SideAsked
        <4> QED
          BY <1>1, <2>2, <3>4, <4>2
      <3>6. SideAsked'
        BY <1>1, <2>3, <3>1, <3>2, <3>4, <3>5 DEF FeedInv, SideAsked, SideInUp
      <3>7. e.t = "rooms" => RoomsComes'
        BY <2>2 DEF RoomsComes
      <3>8. WillLeave => WillLeave'
        BY <1>1, <1>4, <3>2, <3>7 DEF WillLeave
      <3>9. Answered'
        BY <1>1, <2>2, <2>3, <3>4, <3>8 DEF FeedInv, Answered
      <3> QED
        BY <1>1, <2>4, <2>5, <2>7, <3>2, <3>3, <3>6, <3>9 DEF FeedInv
    <2> QED
      BY <2>8, <2>9
  <1> QED
    BY <1>5, <1>6

\* A socket opens: it asks for the room the browser asked for last.
LEMMA OpenKeeps ==
  ASSUME FeedInv, Open
  PROVE  FeedInv'
  <1>1. /\ Typed' /\ Shaped' /\ rooms' = rooms /\ op' = op /\ outbox' = outbox /\ srv' = srv /\ down' = down
        /\ listed' = listed /\ down = <<>> /\ srv = Gone /\ ~ui.synced
        /\ ui' = [ui EXCEPT !.status = "online", !.attempt = 0]
        /\ \E f \in Ask : up' = <<f>> /\ f.t = "join session" /\ f.room = ui.desired
    BY OpenMeans DEF FeedInv
  <1>2. PICK f \in Ask : up' = <<f>> /\ f.t = "join session" /\ f.room = ui.desired
    BY <1>1
  <1>3. DOMAIN up' = {1} /\ up'[1] = f /\ up' # <<>>
    BY <1>2, Single
  <1>4. /\ ui'.desired = ui.desired /\ ui'.active = ui.active /\ ui'.rooms = ui.rooms /\ ui'.synced = ui.synced
        /\ ui'.refused = ui.refused
    BY <1>1 DEF FeedInv, Typed, Ui
  <1>5. AsksLeft' /\ Serving'
    BY <1>2, <1>3 DEF AsksLeft, Serving, Joins
  <1>6. JoinFirst'
    BY <1>1, <1>2, <1>3 DEF JoinFirst
  <1>7. SideInUp'
    BY <1>2, <1>3, <1>4 DEF SideInUp
  <1>8. SideAsked'
    BY <1>5, <1>7 DEF SideAsked
  <1>9. RoomAgrees' /\ Welcomed'
    BY <1>1, <1>4, Nothing DEF RoomAgrees, Welcomed
  <1>10. Deletion' /\ (Past => Past')
    BY <1>1, <1>4, SameDeletion DEF FeedInv
  <1>11. DeletionFollows'
    BY <1>1, Nothing DEF DeletionFollows
  <1>12. SideUnasked => SideUnasked'
    BY ZenonT(60), <1>1, <1>2, <1>3, <1>4 DEF SideUnasked
  <1>13. SideSeen'
    BY <1>1, <1>10, <1>12 DEF FeedInv, SideSeen
  <1>14. Answered'
    BY <1>5 DEF Answered
  <1> QED
    BY <1>1, <1>6, <1>8, <1>9, <1>10, <1>11, <1>13, <1>14 DEF FeedInv

\* It does not, or is lost with what was on its way: there is nobody to answer.
LEMMA LostKeeps ==
  ASSUME FeedInv, OpenFails \/ Lost
  PROVE  FeedInv'
  <1>1. /\ Typed' /\ Shaped' /\ rooms' = rooms /\ op' = op /\ outbox' = outbox /\ listed' = listed
        /\ ui'.status # "online" /\ ui'.desired = ui.desired /\ ui'.active = ui.active /\ ui'.rooms = ui.rooms
        /\ \/ srv' = srv /\ up' = up /\ down' = down
           \/ srv' = Gone /\ up' = <<>> /\ down' = <<>>
    BY OpenFailsMeans, LostMeans DEF FeedInv
  <1>2. ~Talking'
    BY <1>1 DEF Talking
  <1>3. JoinFirst' /\ SideAsked' /\ RoomAgrees' /\ Welcomed' /\ DeletionFollows' /\ Answered'
    BY <1>2 DEF JoinFirst, SideAsked, RoomAgrees, Welcomed, DeletionFollows, Answered
  <1>4. CASE srv' = srv /\ up' = up /\ down' = down
    <2>1. Deletion' /\ (Past => Past')
      BY <1>1, <1>4, SameDeletion DEF FeedInv
    <2>2. SideSeen'
      BY <1>1, <1>4, <2>1 DEF FeedInv, SideSeen, SideUnasked
    <2> QED
      BY <1>1, <1>3, <2>1, <2>2 DEF FeedInv
  <1>5. CASE srv' = Gone /\ up' = <<>> /\ down' = <<>>
    <2>1. Past => Past'
      BY <1>1, <1>5, Nothing DEF Past
    <2>2. DOMAIN down' = {} /\ DOMAIN up' = {} /\ srv'.room # "side"
      BY <1>5, FeedAssumption DEF Gone, Rooms
    <2>3. Deletion'
      BY <1>1, <2>1, <2>2 DEF FeedInv, Deletion
    <2>4. SideUnasked => SideUnasked'
      BY <1>1, <2>2 DEF SideUnasked
    <2>5. SideSeen'
      BY <1>1, <2>1, <2>4 DEF FeedInv, SideSeen
    <2> QED
      BY <1>1, <1>3, <2>3, <2>5 DEF FeedInv
  <1> QED
    BY <1>1, <1>4, <1>5

\* What is said asks for no room.
LEMMA SpeakKeeps ==
  ASSUME FeedInv, NEW m \in Msg, Speak(m)
  PROVE  FeedInv'
  <1>1. /\ Typed' /\ Shaped' /\ rooms' = rooms /\ op' = op /\ outbox' = outbox /\ srv' = srv /\ down' = down
        /\ ui' = ui /\ listed' = listed /\ ui.status = "online"
        /\ \E f \in Ask : f.t = "chat" /\ up' = Append(up, f)
    BY SpeakMeans DEF FeedInv
  <1>2. PICK f \in Ask : f.t = "chat" /\ up' = Append(up, f)
    BY <1>1
  <1>3. ~Joins(f) /\ up \in Seq(Ask)
    BY <1>2 DEF Joins, FeedInv, Typed
  <1>4. Talking' = Talking
    BY <1>1 DEF Talking
  <1>5. Talking => /\ SideInUp' /\ (AsksLeft => AsksLeft')
                   /\ up' # <<>> /\ (up # <<>> => up'[1] = up[1])
    BY <1>1, <1>2, <1>3, MoreAsks DEF FeedInv, SideAsked
  <1>6. \A i \in DOMAIN up' : up'[i] = f \/ \E k \in DOMAIN up : up'[i] = up[k]
    <2>1. \A i \in DOMAIN up' : i = Len(up) + 1 \/ i \in DOMAIN up
      BY <1>2, <1>3, Longer
    <2>2. up'[Len(up) + 1] = f /\ \A i \in DOMAIN up : up'[i] = up[i]
      BY <1>2, <1>3, Longer
    <2> QED
      BY <2>1, <2>2
  <1>7. JoinFirst'
    BY <1>1, <1>4, <1>5 DEF FeedInv, JoinFirst
  <1>8. Talking => (Serving => Serving')
    BY <1>1, <1>5 DEF Serving
  <1>9. SideAsked'
    BY <1>1, <1>4, <1>5, <1>8 DEF FeedInv, SideAsked, SnapshotComes
  <1>10. RoomAgrees' /\ Welcomed'
    BY <1>1, <1>4 DEF FeedInv, RoomAgrees, Welcomed, SnapshotComes
  <1>11. Deletion' /\ (Past => Past')
    BY <1>1, SameDeletion DEF FeedInv
  <1>12. DeletionFollows'
    BY <1>1, <1>4 DEF FeedInv, DeletionFollows, RoomsAnnounced
  <1>13. SideUnasked => SideUnasked'
    BY <1>1, <1>3, <1>6 DEF SideUnasked
  <1>14. SideSeen'
    BY <1>1, <1>11, <1>13 DEF FeedInv, SideSeen
  <1>15. Answered'
    BY <1>1, <1>4, <1>8 DEF FeedInv, Answered, WillLeave, RoomsAnnounced, RoomsComes
  <1> QED
    BY <1>1, <1>7, <1>9, <1>10, <1>11, <1>12, <1>14, <1>15 DEF FeedInv

\* Asking for a room: the frame of it is the last, or it was asked for before.
LEMMA AsksKeeps ==
  ASSUME FeedInv, NEW k \in Rooms, Asks(k), rooms' = rooms, op' = op, outbox' = outbox, srv' = srv, down' = down
  PROVE  /\ JoinFirst' /\ SideAsked' /\ RoomAgrees' /\ Welcomed' /\ DeletionFollows'
         /\ Talking' = Talking
         /\ UNCHANGED <<ui, up>> \/ (Talking => AsksLeft')
         /\ k = "main" => (SideUnasked => SideUnasked')
         /\ ui'.rooms = ui.rooms
  <1>1. /\ ui'.status = ui.status /\ ui'.rooms = ui.rooms /\ ui'.desired = k
        /\ ui'.synced => ui.synced /\ ui'.active = ui.active
    BY DEF Asks
  <1>2. Talking' = Talking /\ SnapshotComes' = SnapshotComes /\ RoomsComes' = RoomsComes /\ RoomsAnnounced' = RoomsAnnounced
    BY <1>1 DEF Talking, SnapshotComes, RoomsComes, RoomsAnnounced
  <1>3. RoomAgrees'
    BY <1>1, <1>2 DEF FeedInv, RoomAgrees
  <1>4. Welcomed' /\ DeletionFollows'
    BY ZenonT(60), <1>1, <1>2 DEF FeedInv, Welcomed, DeletionFollows
  <1>5. CASE UNCHANGED <<ui, up>>
    <2>1. JoinFirst' /\ SideAsked'
      BY <1>2, <1>5 DEF FeedInv, JoinFirst, SideAsked, SideInUp, AsksLeft, Serving
    <2>2. SideUnasked => SideUnasked'
      BY <1>5 DEF SideUnasked
    <2> QED
      BY <1>1, <1>2, <1>3, <1>4, <1>5, <2>1, <2>2
  <1>6. CASE ui'.active = k /\ ui.status # "online" /\ UNCHANGED up
    <2>1. ~Talking'
      BY <1>1, <1>6 DEF Talking
    <2>2. JoinFirst' /\ SideAsked'
      BY <2>1 DEF JoinFirst, SideAsked
    <2>3. k = "main" => (SideUnasked => SideUnasked')
      BY <1>1, <1>6 DEF SideUnasked
    <2> QED
      BY <1>1, <1>2, <1>3, <1>4, <2>1, <2>2, <2>3
  <1>7. ASSUME ui'.active = k, NEW f \in Ask, f.t = "join room", f.room = k, up' = Append(up, f)
        PROVE  /\ JoinFirst' /\ SideAsked' /\ AsksLeft' /\ (k = "main" => (SideUnasked => SideUnasked'))
    <2>1. Joins(f) /\ up \in Seq(Ask)
      BY <1>7 DEF Joins, FeedInv, Typed
    <2>2. /\ SideInUp' /\ AsksLeft' /\ up' # <<>> /\ (up # <<>> => up'[1] = up[1])
          /\ \A i \in DOMAIN up' : up'[i] = f \/ \E l \in DOMAIN up : up'[i] = up[l]
      BY ZenonT(60), <1>1, <1>7, <2>1, MoreAsks
    <2>3. JoinFirst'
      BY <1>2, <2>2 DEF FeedInv, JoinFirst
    <2>4. SideAsked'
      BY <2>2 DEF SideAsked, Serving
    <2>5. k = "main" => (SideUnasked => SideUnasked')
      BY <1>1, <1>7, <2>2 DEF SideUnasked
    <2> QED
      BY <2>2, <2>3, <2>4, <2>5
  <1>8. \/ UNCHANGED <<ui, up>> \/ (ui'.active = k /\ ui.status # "online" /\ UNCHANGED up)
        \/ (ui'.active = k /\ \E f \in Ask : f.t = "join room" /\ f.room = k /\ up' = Append(up, f))
    BY DEF Asks
  <1> QED
    BY <1>1, <1>2, <1>3, <1>4, <1>5, <1>6, <1>7, <1>8

\* A click is on a room that is listed.
LEMMA ClickKeeps ==
  ASSUME FeedInv, NEW k \in Rooms, NEW code \in BOOLEAN, Click(k, code)
  PROVE  FeedInv'
  <1>1. /\ Typed' /\ Shaped' /\ Asks(k) /\ k \in listed /\ rooms' = rooms /\ op' = op /\ outbox' = outbox
        /\ srv' = srv /\ down' = down /\ listed' = listed
    BY ClickMeans DEF FeedInv
  <1>2. /\ JoinFirst' /\ SideAsked' /\ RoomAgrees' /\ Welcomed' /\ DeletionFollows'
        /\ Talking' = Talking /\ (UNCHANGED <<ui, up>> \/ (Talking => AsksLeft'))
        /\ k = "main" => (SideUnasked => SideUnasked')
        /\ ui'.rooms = ui.rooms
    BY <1>1, AsksKeeps
  <1>3. Deletion' /\ (Past => Past')
    BY <1>1, <1>2, SameDeletion DEF FeedInv
  <1>4. SideSeen'
    BY <1>1, <1>2, <1>3 DEF FeedInv, SideSeen, Rooms
  <1>5. Answered'
    <2>1. CASE UNCHANGED <<ui, up>>
      BY <1>1, <1>2, <2>1 DEF FeedInv, Answered, Serving, AsksLeft, WillLeave, RoomsAnnounced, RoomsComes
    <2>2. CASE Talking => AsksLeft'
      BY <1>2, <2>2 DEF Answered, Serving
    <2> QED
      BY <1>2, <2>1, <2>2
  <1> QED
    BY <1>1, <1>2, <1>3, <1>4, <1>5 DEF FeedInv

\* A room that is gone is left for the main one, unless that was asked for before.
LEMMA RenderKeeps ==
  ASSUME FeedInv, Render
  PROVE  FeedInv'
  <1>1. /\ Typed' /\ Shaped' /\ rooms' = rooms /\ op' = op /\ outbox' = outbox /\ srv' = srv /\ down' = down
        /\ listed' = ui.rooms
        /\ IF ui.active \in listed \ ui.rooms THEN Asks("main") ELSE UNCHANGED <<ui, up>>
    BY RenderMeans DEF FeedInv
  <1>2. /\ JoinFirst' /\ SideAsked' /\ RoomAgrees' /\ Welcomed' /\ DeletionFollows'
        /\ Talking' = Talking /\ (UNCHANGED <<ui, up>> \/ (Talking => AsksLeft'))
        /\ (SideUnasked => SideUnasked')
        /\ ui'.rooms = ui.rooms
    <2>1. CASE ui.active \in listed \ ui.rooms
      <3>1. Asks("main") /\ "main" \in Rooms
        BY <1>1, <2>1 DEF Rooms
      <3> QED
        BY <1>1, <3>1, AsksKeeps
    <2>2. CASE ui.active \notin listed \ ui.rooms
      <3>1. ui' = ui /\ up' = up
        BY <1>1, <2>2
      <3>2. JoinFirst' /\ SideAsked' /\ RoomAgrees' /\ Welcomed' /\ Talking' = Talking
        BY ZenonT(60), <1>1, <3>1
           DEF FeedInv, JoinFirst, SideAsked, SideInUp, RoomAgrees, Welcomed, Talking, AsksLeft, Serving, SnapshotComes
      <3>3. DeletionFollows'
        BY <1>1, <3>1 DEF FeedInv, DeletionFollows, Talking, RoomsAnnounced
      <3>4. SideUnasked => SideUnasked'
        BY <1>1, <3>1 DEF SideUnasked
      <3> QED
        BY <3>1, <3>2, <3>3, <3>4
    <2> QED
      BY <2>1, <2>2
  <1>3. Past => Past'
    BY <1>1 DEF Past
  <1>4. Deletion'
    <2>1. /\ op' = "told" => "side" \in rooms'
          /\ \A e \in outbox' : /\ e.t = "room deleted" => op' = "told"
                                /\ e.t = "rooms" => "side" \notin rooms' /\ "side" \notin e.rooms
      BY <1>1 DEF FeedInv, Deletion
    <2>2. \A i \in DOMAIN down' :
             /\ down'[i].t = "rooms" => "side" \notin rooms' /\ "side" \notin down'[i].rooms
             /\ down'[i].t \in {"rooms", "session joined"} /\ "side" \notin down'[i].rooms =>
                    /\ "side" \notin rooms' /\ op' = "idle"
                    /\ \A j \in DOMAIN down' : j > i => down'[j].t # "room deleted"
      <3>1. \A i \in DOMAIN down :
             /\ down[i].t = "rooms" => "side" \notin rooms /\ "side" \notin down[i].rooms
             /\ down[i].t \in {"rooms", "session joined"} /\ "side" \notin down[i].rooms =>
                    /\ "side" \notin rooms /\ op = "idle"
                    /\ \A j \in DOMAIN down : j > i => down[j].t # "room deleted"
        BY DEF FeedInv, Deletion
      <3> QED
        BY ZenonT(60), <1>1, <3>1
    <2>3. ~("side" \in listed' /\ "side" \notin ui'.rooms)
      BY <1>1, <1>2
    <2> QED
      BY <2>1, <2>2, <2>3 DEF Deletion
  <1>5. "side" \in listed => "side" \in listed' \/ Past
    BY <1>1 DEF FeedInv, Deletion
  <1>6. SideSeen'
    BY <1>2, <1>3, <1>5 DEF FeedInv, SideSeen
  <1>7. Answered'
    <2>1. CASE UNCHANGED <<ui, up>>
      <3>1. Serving' = Serving
        BY <1>1, <2>1 DEF Serving, AsksLeft
      <3>2. ASSUME Talking, WillLeave PROVE WillLeave' \/ Serving' \/ SnapshotComes
        <4>1. CASE "side" \in ui.rooms
          BY <1>1, <2>1, <3>2, <4>1 DEF WillLeave, RoomsAnnounced, RoomsComes
        <4>2. CASE "side" \notin ui.rooms
          <5>1. ui.active = "side" /\ ui.active \in listed \ ui.rooms
            BY <3>2, <4>2 DEF WillLeave
          <5>2. ui'.desired = "main"
            BY <1>1, <5>1 DEF Asks
          <5>3. ui.desired # "side"
            BY <2>1, <5>2
          <5>4. Serving \/ SnapshotComes
            BY <3>2, <5>1, <5>3 DEF FeedInv, SideAsked
          <5> QED
            BY <3>1, <5>4
        <4> QED
          BY <4>1, <4>2
      <3>3. SnapshotComes => \E i \in DOMAIN down' : down'[i].t \in {"snapshot", "error"}
        BY <1>1 DEF SnapshotComes
      <3>4. Talking' => ui.synced \/ ui.refused \/ Serving' \/ WillLeave
                        \/ \E i \in DOMAIN down' : down'[i].t \in {"snapshot", "error"}
        BY <1>1, <1>2, <3>1 DEF FeedInv, Answered
      <3> QED
        BY <1>2, <2>1, <3>2, <3>3, <3>4 DEF Answered
    <2>2. CASE Talking => AsksLeft'
      BY <1>2, <2>2 DEF Answered, Serving
    <2> QED
      BY <1>2, <2>1, <2>2
  <1> QED
    BY <1>1, <1>2, <1>4, <1>6, <1>7 DEF FeedInv

\* What is left when a frame is taken: what followed it.
LEMMA TakenIs ==
  ASSUME down \in Seq(Frame), down # <<>>, down' = Tail(down)
  PROVE  /\ 1 \in DOMAIN down
         /\ \A i \in DOMAIN down' : i + 1 \in DOMAIN down /\ down'[i] = down[i + 1] /\ i + 1 > 1
         /\ \A j \in DOMAIN down : j # 1 => j - 1 \in DOMAIN down' /\ down'[j - 1] = down[j]
         /\ \A i \in DOMAIN down' : \A j \in DOMAIN down : j > i + 1 => j # 1 /\ j - 1 > i
         /\ \A i, j \in DOMAIN down' : j > i => j + 1 > i + 1
         /\ \A j \in DOMAIN down : j > 1 => j # 1
  <1> DEFINE r == Tail(down)
  <1>1. /\ 1 \in DOMAIN down
        /\ \A i \in DOMAIN r : i + 1 \in DOMAIN down /\ r[i] = down[i + 1] /\ i + 1 > 1
        /\ \A j \in DOMAIN down : j # 1 => j - 1 \in DOMAIN r /\ r[j - 1] = down[j]
        /\ \A i \in DOMAIN r : \A j \in DOMAIN down : j > i + 1 => j # 1 /\ j - 1 > i
        /\ \A i, j \in DOMAIN r : j > i => j + 1 > i + 1
        /\ \A j \in DOMAIN down : j > 1 => j # 1
    BY Shorter
  <1> HIDE DEF r
  <1> QED
    BY <1>1 DEF r

\* The last of a kind stays one, and what follows the first is still to come.
LEMMA TakenKinds ==
  ASSUME down \in Seq(Frame), down # <<>>, down' = Tail(down), NEW kind
  PROVE  /\ \A i \in DOMAIN down' : (\E j \in DOMAIN down : j > i + 1 /\ down[j].t = kind) =>
                \E j \in DOMAIN down' : j > i /\ down'[j].t = kind
         /\ (\E j \in DOMAIN down : j > 1 /\ down[j].t = kind) => \E j \in DOMAIN down' : down'[j].t = kind
         /\ (\E j \in DOMAIN down : down[j].t = kind) => down[1].t = kind \/ \E j \in DOMAIN down' : down'[j].t = kind
         /\ (\A j \in DOMAIN down : down[j].t # kind) => \A j \in DOMAIN down' : down'[j].t # kind
  <1>1. ASSUME NEW i \in DOMAIN down', NEW j \in DOMAIN down, j > i + 1, down[j].t = kind
        PROVE  \E l \in DOMAIN down' : l > i /\ down'[l].t = kind
    <2>1. j # 1 /\ j - 1 > i /\ j - 1 \in DOMAIN down' /\ down'[j - 1] = down[j]
      BY <1>1, TakenIs
    <2> QED
      BY <1>1, <2>1
  <1>2. ASSUME NEW j \in DOMAIN down, j # 1, down[j].t = kind
        PROVE  \E l \in DOMAIN down' : down'[l].t = kind
    <2>1. j - 1 \in DOMAIN down' /\ down'[j - 1] = down[j]
      BY <1>2, TakenIs
    <2> QED
      BY <1>2, <2>1
  <1>3. \A j \in DOMAIN down : j > 1 => j # 1
    BY TakenIs
  <1>4. ASSUME \A j \in DOMAIN down : down[j].t # kind, NEW j \in DOMAIN down'
        PROVE  down'[j].t # kind
    <2>1. j + 1 \in DOMAIN down /\ down'[j] = down[j + 1]
      BY TakenIs
    <2> QED
      BY <1>4, <2>1
  <1> QED
    BY <1>1, <1>2, <1>3, <1>4

\* What the browser is told comes in the order it was sent in.
LEMMA ReceiveKeeps ==
  ASSUME FeedInv, Receive
  PROVE  FeedInv'
  <1> DEFINE e == down[1]
  <1>1. /\ Typed' /\ Shaped' /\ rooms' = rooms /\ op' = op /\ outbox' = outbox /\ srv' = srv /\ up' = up /\ listed' = listed
        /\ down # <<>> /\ down' = Tail(down) /\ ui.status = "online" /\ e \in Frame /\ Received(e) /\ down \in Seq(Frame)
    BY ReceiveMeans DEF FeedInv, Typed
  <1> HIDE DEF e
  <1>2. /\ 1 \in DOMAIN down
        /\ \A i \in DOMAIN down' : i + 1 \in DOMAIN down /\ down'[i] = down[i + 1] /\ i + 1 > 1
        /\ \A i, j \in DOMAIN down' : j > i => j + 1 > i + 1
    BY <1>1, TakenIs
  <1>3. /\ \A i \in DOMAIN down' : (\E j \in DOMAIN down : j > i + 1 /\ down[j].t = "snapshot") =>
               \E j \in DOMAIN down' : j > i /\ down'[j].t = "snapshot"
        /\ (\E j \in DOMAIN down : j > 1 /\ down[j].t = "snapshot") => SnapshotComes'
        /\ SnapshotComes => e.t = "snapshot" \/ SnapshotComes'
    BY <1>1, TakenKinds DEF SnapshotComes, e
  <1>4. /\ \A i \in DOMAIN down' : (\E j \in DOMAIN down : j > i + 1 /\ down[j].t = "rooms") =>
               \E j \in DOMAIN down' : j > i /\ down'[j].t = "rooms"
        /\ (\E j \in DOMAIN down : j > 1 /\ down[j].t = "rooms") => RoomsComes'
        /\ RoomsComes => e.t = "rooms" \/ RoomsComes'
    BY <1>1, TakenKinds DEF RoomsComes, e
  <1>5. (\E j \in DOMAIN down : down[j].t = "error") => e.t = "error" \/ \E j \in DOMAIN down' : down'[j].t = "error"
    BY <1>1, TakenKinds DEF e
  <1>6. Serving' = Serving /\ AsksLeft' = AsksLeft /\ RoomsAnnounced' = RoomsAnnounced
    BY <1>1 DEF Serving, AsksLeft, RoomsAnnounced
  <1>7. Talking' => Talking /\ e.t # "ended"
    <2> SUFFICES ASSUME Talking' PROVE Talking /\ e.t # "ended"
      OBVIOUS
    <2>1. e.t # "ended"
      BY <1>1 DEF Talking, Received
    <2>2. (\E j \in DOMAIN down : down[j].t = "ended") => e.t = "ended" \/ \E j \in DOMAIN down' : down'[j].t = "ended"
      BY <1>1, TakenKinds DEF e
    <2> QED
      BY <1>1, <2>1, <2>2 DEF Talking
  <1>8. JoinFirst'
    BY <1>1, <1>7 DEF FeedInv, JoinFirst
  <1>9. SideAsked'
    <2>1. SUFFICES ASSUME Talking' PROVE SideAsked'
      BY DEF SideAsked
    <2>2. /\ SideInUp
          /\ srv.at # "idle" /\ srv.room = "side" => ui.desired = "side" \/ AsksLeft
          /\ \A i \in DOMAIN down : down[i].t = "snapshot" /\ down[i].room = "side" =>
                 ui.desired = "side" \/ Serving \/ \E j \in DOMAIN down : j > i /\ down[j].t = "snapshot"
          /\ ui.active = "side" => ui.desired = "side" \/ Serving \/ SnapshotComes
      BY <1>7, <2>1 DEF FeedInv, SideAsked
    <2>3. ui.desired = "side" => ui'.desired = "side"
      BY <1>1, FeedAssumption DEF Received, Rooms
    <2>4. SideInUp'
      BY <1>1, <2>2, <2>3 DEF SideInUp
    <2>5. ASSUME NEW i \in DOMAIN down', down'[i].t = "snapshot", down'[i].room = "side"
          PROVE  ui'.desired = "side" \/ Serving' \/ \E j \in DOMAIN down' : j > i /\ down'[j].t = "snapshot"
      <3>1. i + 1 \in DOMAIN down /\ down'[i] = down[i + 1]
        BY <1>2
      <3>2. ui.desired = "side" \/ Serving \/ \E j \in DOMAIN down : j > i + 1 /\ down[j].t = "snapshot"
        BY <2>2, <2>5, <3>1
      <3> QED
        BY <1>3, <1>6, <2>3, <3>2
    <2>6. ASSUME ui'.active = "side" PROVE ui'.desired = "side" \/ Serving' \/ SnapshotComes'
      <3>1. CASE e.t = "snapshot"
        <4>1. e.room = "side"
          BY <1>1, <2>6, <3>1 DEF Received
        <4>2. ui.desired = "side" \/ Serving \/ \E j \in DOMAIN down : j > 1 /\ down[j].t = "snapshot"
          BY <1>2, <2>2, <3>1, <4>1 DEF e
        <4> QED
          BY <1>3, <1>6, <2>3, <4>2
      <3>2. CASE e.t # "snapshot"
        <4>1. ui.active = "side"
          BY <1>1, <2>6, <3>2 DEF Received
        <4> QED
          BY <1>3, <1>6, <2>2, <2>3, <3>2, <4>1
      <3> QED
        BY <3>1, <3>2
    <2> QED
      BY <1>1, <1>6, <2>2, <2>3, <2>4, <2>5, <2>6 DEF SideAsked
  <1>10. RoomAgrees'
    <2>1. SUFFICES ASSUME Talking' PROVE RoomAgrees'
      BY DEF RoomAgrees
    <2>2. /\ \A i \in DOMAIN down : down[i].t = "snapshot" =>
                 \/ down[i].room = srv.room \/ srv.at # "idle"
                 \/ \E j \in DOMAIN down : j > i /\ down[j].t = "snapshot"
          /\ ui.synced => ui.active = srv.room \/ srv.at # "idle" \/ SnapshotComes
      BY <1>7, <2>1 DEF FeedInv, RoomAgrees
    <2>3. ASSUME NEW i \in DOMAIN down', down'[i].t = "snapshot"
          PROVE  \/ down'[i].room = srv'.room \/ srv'.at # "idle"
                 \/ \E j \in DOMAIN down' : j > i /\ down'[j].t = "snapshot"
      <3>1. i + 1 \in DOMAIN down /\ down'[i] = down[i + 1]
        BY <1>2
      <3>2. down[i + 1].room = srv.room \/ srv.at # "idle" \/ \E j \in DOMAIN down : j > i + 1 /\ down[j].t = "snapshot"
        BY <2>2, <2>3, <3>1
      <3> QED
        BY <1>1, <1>3, <3>1, <3>2
    <2>4. ASSUME ui'.synced PROVE ui'.active = srv'.room \/ srv'.at # "idle" \/ SnapshotComes'
      <3>1. CASE e.t = "snapshot"
        <4>1. e.room = srv.room \/ srv.at # "idle" \/ \E j \in DOMAIN down : j > 1 /\ down[j].t = "snapshot"
          BY <1>2, <2>2, <3>1 DEF e
        <4>2. ui'.active = e.room
          BY <1>1, <3>1 DEF Received
        <4> QED
          BY <1>1, <1>3, <4>1, <4>2
      <3>2. CASE e.t # "snapshot"
        <4>1. ui.synced /\ ui'.active = ui.active
          BY <1>1, <2>4, <3>2 DEF Received
        <4> QED
          BY <1>1, <1>3, <2>2, <3>2, <4>1
      <3> QED
        BY <3>1, <3>2
    <2> QED
      BY <2>3, <2>4 DEF RoomAgrees
  <1>11. Welcomed'
    <2>1. ASSUME Talking', NEW i \in DOMAIN down', down'[i].t = "session joined"
          PROVE  srv'.at # "idle" \/ \E j \in DOMAIN down' : j > i /\ down'[j].t = "snapshot"
      <3>1. i + 1 \in DOMAIN down /\ down'[i] = down[i + 1]
        BY <1>2
      <3>2. srv.at # "idle" \/ \E j \in DOMAIN down : j > i + 1 /\ down[j].t = "snapshot"
        BY <1>7, <2>1, <3>1 DEF FeedInv, Welcomed
      <3> QED
        BY <1>1, <1>3, <3>2
    <2> QED
      BY <2>1 DEF Welcomed
  <1>12. Past => Past'
    <2>1. (\A j \in DOMAIN down : down[j].t # "room deleted") => \A j \in DOMAIN down' : down'[j].t # "room deleted"
      BY <1>1, TakenKinds
    <2> QED
      BY <1>1, <2>1 DEF Past
  <1>13. ASSUME e.t \in {"rooms", "session joined"}, "side" \notin e.rooms PROVE Past'
    <2>1. /\ "side" \notin rooms /\ op = "idle"
          /\ \A j \in DOMAIN down : j > 1 => down[j].t # "room deleted"
      BY <1>2, <1>13 DEF FeedInv, Deletion, e
    <2>2. ASSUME NEW j \in DOMAIN down' PROVE down'[j].t # "room deleted"
      <3>1. j + 1 \in DOMAIN down /\ down'[j] = down[j + 1] /\ j + 1 > 1
        BY <1>2
      <3> QED
        BY <2>1, <3>1
    <2> QED
      BY <1>1, <2>1, <2>2 DEF Past
  <1>14. Deletion'
    <2>1. /\ op' = "told" => "side" \in rooms'
          /\ \A x \in outbox' : /\ x.t = "room deleted" => op' = "told"
                                /\ x.t = "rooms" => "side" \notin rooms' /\ "side" \notin x.rooms
      BY <1>1 DEF FeedInv, Deletion
    <2>2. ASSUME NEW i \in DOMAIN down'
          PROVE  /\ down'[i].t = "rooms" => "side" \notin rooms' /\ "side" \notin down'[i].rooms
                 /\ down'[i].t \in {"rooms", "session joined"} /\ "side" \notin down'[i].rooms =>
                        /\ "side" \notin rooms' /\ op' = "idle"
                        /\ \A j \in DOMAIN down' : j > i => down'[j].t # "room deleted"
      <3>1. i + 1 \in DOMAIN down /\ down'[i] = down[i + 1]
        BY <1>2
      <3>2. /\ down[i + 1].t = "rooms" => "side" \notin rooms /\ "side" \notin down[i + 1].rooms
            /\ down[i + 1].t \in {"rooms", "session joined"} /\ "side" \notin down[i + 1].rooms =>
                   /\ "side" \notin rooms /\ op = "idle"
                   /\ \A j \in DOMAIN down : j > i + 1 => down[j].t # "room deleted"
        BY <3>1 DEF FeedInv, Deletion
      <3>3. ASSUME \A j \in DOMAIN down : j > i + 1 => down[j].t # "room deleted", NEW j \in DOMAIN down', j > i
            PROVE  down'[j].t # "room deleted"
        <4>1. j + 1 \in DOMAIN down /\ down'[j] = down[j + 1] /\ j + 1 > i + 1
          BY <1>2, <3>3
        <4> QED
          BY <3>3, <4>1
      <3> QED
        BY <1>1, <3>1, <3>2, <3>3
    <2>3. "side" \in listed' /\ "side" \notin ui'.rooms => Past'
      <3>1. CASE e.t \in {"rooms", "session joined"}
        BY <1>1, <1>13, <3>1 DEF Received
      <3>2. CASE e.t \notin {"rooms", "session joined"}
        BY <1>1, <1>12, <3>2 DEF FeedInv, Deletion, Received
      <3> QED
        BY <3>1, <3>2
    <2> QED
      BY <2>1, <2>2, <2>3 DEF Deletion
  <1>15. DeletionFollows'
    <2>1. ASSUME Talking', NEW i \in DOMAIN down', down'[i].t = "room deleted"
          PROVE  op' = "told" \/ RoomsAnnounced' \/ \E j \in DOMAIN down' : j > i /\ down'[j].t = "rooms"
      <3>1. i + 1 \in DOMAIN down /\ down'[i] = down[i + 1]
        BY <1>2
      <3>2. op = "told" \/ RoomsAnnounced \/ \E j \in DOMAIN down : j > i + 1 /\ down[j].t = "rooms"
        BY <1>7, <2>1, <3>1 DEF FeedInv, DeletionFollows
      <3> QED
        BY <1>1, <1>4, <1>6, <3>2
    <2> QED
      BY <2>1 DEF DeletionFollows
  <1>16. SideSeen'
    <2>1. SideUnasked => SideUnasked'
      <3> SUFFICES ASSUME SideUnasked PROVE SideUnasked'
        OBVIOUS
      <3>1. e.t = "snapshot" => e.room # "side"
        BY <1>2 DEF SideUnasked, e
      <3>2. ui'.active # "side" /\ ui'.desired # "side"
        BY <1>1, <3>1 DEF Received, SideUnasked
      <3>3. ASSUME NEW i \in DOMAIN down', down'[i].t = "snapshot" PROVE down'[i].room # "side"
        BY <1>2, <3>3 DEF SideUnasked
      <3> QED
        BY <1>1, <3>2, <3>3 DEF SideUnasked
    <2> QED
      BY <1>1, <1>12, <2>1 DEF FeedInv, SideSeen
  <1>17. Answered'
    <2>1. SUFFICES ASSUME Talking' PROVE Answered'
      BY DEF Answered
    <2>2. \/ ui.synced \/ ui.refused \/ Serving \/ WillLeave
          \/ \E i \in DOMAIN down : down[i].t \in {"snapshot", "error"}
      BY <1>7, <2>1 DEF FeedInv, Answered
    <2>3. SnapshotComes' => Answered'
      BY DEF SnapshotComes, Answered
    <2>4. CASE e.t \in {"snapshot", "error"}
      BY <1>1, <2>4 DEF Received, Answered
    <2>5. CASE e.t = "session joined"
      <3>1. srv.at # "idle" \/ \E j \in DOMAIN down : j > 1 /\ down[j].t = "snapshot"
        BY <1>2, <1>7, <2>1, <2>5 DEF FeedInv, Welcomed, e
      <3> QED
        BY <1>1, <1>3, <2>3, <3>1 DEF Answered, Serving
    <2>6. CASE e.t \notin {"snapshot", "error", "session joined"}
      <3>1. ui'.refused = ui.refused /\ ui'.active = ui.active
        BY <1>1, <2>6 DEF Received
      <3>2. (\E i \in DOMAIN down : down[i].t \in {"snapshot", "error"}) => Answered'
        <4>1. (\E i \in DOMAIN down : down[i].t \in {"snapshot", "error"}) =>
                  SnapshotComes \/ \E i \in DOMAIN down : down[i].t = "error"
          BY DEF SnapshotComes
        <4>2. (\E j \in DOMAIN down' : down'[j].t = "error") => Answered'
          BY DEF Answered
        <4> QED
          BY <1>3, <1>5, <2>3, <2>6, <4>1, <4>2
      <3>3. WillLeave => Answered'
        <4> SUFFICES ASSUME WillLeave PROVE WillLeave'
          BY DEF Answered
        <4>1. RoomsComes => RoomsComes' \/ "side" \notin ui'.rooms
          <5>1. e.t = "rooms" => ui'.rooms = e.rooms /\ "side" \notin e.rooms
            BY <1>1, <1>2 DEF Received, FeedInv, Deletion, e
          <5> QED
            BY <1>4, <5>1
        <4>2. "side" \notin ui.rooms => "side" \notin ui'.rooms
          <5>1. e.t = "rooms" => ui'.rooms = e.rooms /\ "side" \notin e.rooms
            BY <1>1, <1>2 DEF Received, FeedInv, Deletion, e
          <5>2. e.t # "rooms" => ui'.rooms = ui.rooms
            BY <1>1, <2>6 DEF Received
          <5> QED
            BY <5>1, <5>2
        <4> QED
          BY <1>1, <1>6, <3>1, <4>1, <4>2 DEF WillLeave
      <3>4. ui.synced => Answered'
        <4>1. CASE ui'.synced
          BY <4>1 DEF Answered
        <4>2. CASE ui.synced /\ ~ui'.synced
          <5>1. e.t = "room deleted" /\ ui.active = "side" /\ ui'.active = "side"
            BY <1>1, <2>6, <4>2 DEF Received
          <5>2. ~Past /\ ~SideUnasked
            BY <1>2, <5>1 DEF Past, SideUnasked, e
          <5>3. "side" \in listed
            BY <5>2 DEF FeedInv, SideSeen
          <5>4. op = "told" \/ RoomsAnnounced \/ \E j \in DOMAIN down : j > 1 /\ down[j].t = "rooms"
            BY <1>2, <1>7, <2>1, <5>1 DEF FeedInv, DeletionFollows, e
          <5>5. WillLeave'
            BY <1>1, <1>4, <1>6, <5>1, <5>3, <5>4 DEF WillLeave
          <5> QED
            BY <5>5 DEF Answered
        <4> QED
          BY <4>1, <4>2
      <3>5. ui.refused \/ Serving => Answered'
        BY <1>6, <3>1 DEF Answered
      <3> QED
        BY <2>2, <3>2, <3>3, <3>4, <3>5
    <2> QED
      BY <2>4, <2>5, <2>6
  <1> QED
    BY <1>1, <1>8, <1>9, <1>10, <1>11, <1>14, <1>15, <1>16, <1>17 DEF FeedInv

-----------------------------------------------------------------------------
(* The theorems.                                                           *)

\* A browser that has not been opened is asked nothing.
LEMMA FeedStarts ==
  ASSUME Init
  PROVE  FeedInv
  <1>1. /\ store = [chat |-> {}, said |-> {}, peer |-> None, job |-> NoJob]
        /\ rooms = Rooms /\ outbox = {} /\ jobs = {} /\ op = "idle"
        /\ srv = Gone /\ up = <<>> /\ down = <<>> /\ ui = NewUi
        /\ listed = {} /\ budget \in [Ops -> Nat]
    BY FeedAssumption DEF Init
  <1>2. /\ NewUi \in Ui /\ NewUi.status = "closed" /\ NewUi.attempt = 0 /\ NewUi.synced = FALSE /\ NewUi.active = None
        /\ NewUi.desired = None
    <2>1. Empty \in View
      BY DEF Empty, View, Job, NoJob, JobStates
    <2>2. <<>> \in Seq(Event)
      OBVIOUS
    <2> QED
      BY <2>1, <2>2 DEF NewUi, Ui
  <1>3. Gone \in Socket /\ Gone.joined = FALSE /\ Gone.at = "idle" /\ Gone.room = None
    BY DEF Gone, Socket
  <1>4. <<>> \in Seq(Ask) /\ <<>> \in Seq(Frame)
    OBVIOUS
  <1>5. store \in Store
    BY <1>1 DEF Store, NoJob, Job, JobStates
  <1>6. Typed
    BY <1>1, <1>2, <1>3, <1>4, <1>5 DEF Typed, Rooms
  <1>7. Shaped
    BY <1>1, <1>2, <1>3, FeedAssumption DEF Shaped
  <1>8. ~Talking
    BY <1>1, <1>2 DEF Talking
  <1>9. JoinFirst /\ SideAsked /\ RoomAgrees /\ Welcomed /\ DeletionFollows /\ Answered
    BY <1>8 DEF JoinFirst, SideAsked, RoomAgrees, Welcomed, DeletionFollows, Answered
  <1>10. Deletion
    BY <1>1, Nothing DEF Deletion
  <1>11. SideSeen
    BY <1>1, <1>2, <1>3, Nothing, FeedAssumption DEF SideSeen, SideUnasked, Rooms
  <1> QED
    BY <1>6, <1>7, <1>9, <1>10, <1>11 DEF FeedInv

\* Every step keeps it.
LEMMA FeedKeeps ==
  ASSUME FeedInv, [Next]_vars
  PROVE  FeedInv'
  <1>1. CASE Gateway
    BY <1>1, HandleJoinSessionKeeps, HandleJoinRoomKeeps, HandleChatKeeps, ReadSnapshotKeeps, SendSnapshotKeeps,
       PublishKeeps DEF Gateway
  <1>2. CASE Browser
    BY <1>2, ReceiveKeeps, OpenKeeps, LostKeeps, RenderKeeps, ClickKeeps, SpeakKeeps DEF Browser
  <1>3. CASE Others
    <2>1. CASE DeleteRoom \/ DeleteRows
      BY <2>1, DeleteRoomKeeps, DeleteRowsKeeps
    <2>2. CASE \/ \E m \in Msg : Write(m) \/ Erase(m)
               \/ \E k \in Rooms \cup {None} : PeerMoves(k)
               \/ Upload \/ Retry \/ Delete \/ \E e \in jobs : HandleJobEvent(e)
               \/ Lock \/ EndSession
      <3>1. Typed' /\ Shaped' /\ Quiet
        BY <2>2, WriteMeans, PeerMovesMeans, UploadMeans, HandleJobEventMeans, LockMeans DEF FeedInv
      <3> QED
        BY <3>1, QuietKeeps
    <2> QED
      BY <1>3, <2>1, <2>2 DEF Others
  <1>4. CASE UNCHANGED vars
    BY <1>4, StutterKeeps
  <1> QED
    BY <1>1, <1>2, <1>3, <1>4 DEF Next

\* Whatever the rooms, the messages and the bounds are: what the browser has asked
\* for is answered, its socket's room is the one of the last snapshot on its way,
\* and who shows the breakout room learns that it is gone (FeedInv).
THEOREM FeedCorrect == Spec => []FeedInv
  <1>1. Init => FeedInv
    BY FeedStarts
  <1>2. FeedInv /\ [Next]_vars => FeedInv'
    BY FeedKeeps
  <1> QED
    BY <1>1, <1>2, PTL DEF Spec

\* Nobody is left in limbo: when nothing is on its way a browser shows the room
\* that its socket is in, or was refused one.
THEOREM NeverInLimbo == Spec => []NotInLimbo
  <1>1. FeedInv => NotInLimbo
    <2> SUFFICES ASSUME FeedInv, AtRest PROVE (ui.synced => ui.active = srv.room) /\ (ui.synced \/ ui.refused)
      BY DEF NotInLimbo
    <2>1. /\ ui.status = "online" /\ DOMAIN up = {} /\ DOMAIN down = {} /\ outbox = {} /\ op = "idle"
          /\ srv.at = "idle" /\ listed = ui.rooms
      BY Nothing DEF AtRest
    <2>2. Talking /\ ~Serving /\ ~SnapshotComes /\ ~RoomsAnnounced /\ ~RoomsComes
      BY <2>1 DEF Talking, Serving, AsksLeft, SnapshotComes, RoomsAnnounced, RoomsComes
    <2>3. ~WillLeave
      BY <2>1, <2>2 DEF WillLeave
    <2>4. ui.synced => ui.active = srv.room
      BY <2>1, <2>2 DEF FeedInv, RoomAgrees
    <2>5. ui.synced \/ ui.refused
      BY <2>1, <2>2, <2>3 DEF FeedInv, Answered
    <2> QED
      BY <2>4, <2>5
  <1> QED
    BY <1>1, FeedCorrect, PTL

\* The types.
THEOREM FeedTyped == Spec => []TypeOK
  <1>1. FeedInv => TypeOK
    BY FeedAssumption DEF FeedInv, Typed, Shaped, TypeOK, Store, Socket, Ui
  <1> QED
    BY <1>1, FeedCorrect, PTL

-----------------------------------------------------------------------------
(* Nothing of another room is shown.                                       *)

OfRoom(v, k) == (\A m \in v.chat : RoomOf[m] = k) /\ (v.job # NoJob => k = "main")
Right(e) == e.t = "message" => RoomOf[e.msg] = e.room

\* What is on its way says rightly which room it is of, and so does what is shown.
RightRooms ==
    /\ \A e \in outbox : Right(e)
    /\ \A i \in DOMAIN up : up[i].t = "chat" => RoomOf[up[i].msg] = up[i].room
    /\ \A i \in DOMAIN down : Right(down[i]) /\ (down[i].t = "snapshot" => OfRoom(down[i].snap, down[i].room))
    /\ srv.at = "send" => OfRoom(srv.snap, srv.room)
    /\ \A i \in DOMAIN ui.held : Right(ui.held[i])
    /\ OfRoom(ui.shown, ui.active)

\* An event of a room keeps what is shown of that room,
LEMMA AppliedOfRoom ==
  ASSUME NEW v \in View, NEW e \in Event, OfRoom(v, e.room), Right(e)
  PROVE  OfRoom(Applied(v, e), e.room)
  <1> DEFINE r == Applied(v, e)
  <1>1. v.job \in Job /\ v.chat \subseteq Msg
    BY DEF View
  <1>2. CASE e.t = "message"
    <2>1. r = [v EXCEPT !.chat = v.chat \cup {e.msg}]
      BY <1>2 DEF Applied
    <2>2. r.chat = v.chat \cup {e.msg} /\ r.job = v.job
      BY <2>1 DEF View
    <2> HIDE DEF r
    <2> QED
      BY <1>2, <2>2 DEF OfRoom, Right, r
  <1>3. CASE e.t = "unsaid"
    <2>1. r = [v EXCEPT !.chat = v.chat \ {e.msg}]
      BY <1>3 DEF Applied
    <2>2. r.chat = v.chat \ {e.msg} /\ r.job = v.job
      BY <2>1 DEF View
    <2> HIDE DEF r
    <2> QED
      BY <2>2 DEF OfRoom, r
  <1>4. CASE e.t \in {"joined", "left"}
    <2>1. r.chat = v.chat /\ r.job = v.job
      BY <1>4 DEF Applied, View
    <2> HIDE DEF r
    <2> QED
      BY <2>1 DEF OfRoom, r
  <1>5. CASE e.t \in {"uploaded", "updated", "deleted", "status", "complete"}
    <2>1. r.chat = v.chat
      BY <1>5 DEF Applied, View
    <2>2. e.room = "main"
      BY <1>5, EventMeans
    <2> HIDE DEF r
    <2> QED
      BY <2>1, <2>2 DEF OfRoom, r
  <1> QED
    BY <1>2, <1>3, <1>4, <1>5, EventMeans

\* and so do those that were held for it.
LEMMA ReplayedOfRoom ==
  ASSUME NEW v \in View, NEW held \in Seq(Event), NEW k, OfRoom(v, k), \A i \in DOMAIN held : Right(held[i])
  PROVE  OfRoom(Replayed(v, held, k), k)
  <1>1. PICK f : Replays(f, v, held, k) /\ Replayed(v, held, k) = f[Len(held)]
    BY ReplayedIs
  <1> DEFINE T == {n \in Nat : n \in 0..Len(held) => f[n] \in View /\ OfRoom(f[n], k)}
  <1>2. 0 \in T
    BY <1>1 DEF Replays
  <1>3. ASSUME NEW n \in T PROVE n + 1 \in T
    <2> SUFFICES ASSUME n + 1 \in 0..Len(held) PROVE f[n + 1] \in View /\ OfRoom(f[n + 1], k)
      OBVIOUS
    <2>1. f[n] \in View /\ OfRoom(f[n], k) /\ held[n + 1] \in Event /\ Right(held[n + 1])
      OBVIOUS
    <2>2. f[n + 1] = IF held[n + 1].room = k THEN Applied(f[n], held[n + 1]) ELSE f[n]
      BY <1>1 DEF Replays
    <2> QED
      BY <2>1, <2>2, AppliedTyped, AppliedOfRoom
  <1>4. T = Nat
    BY <1>2, <1>3, EveryNumber
  <1> QED
    BY <1>1, <1>4

\* Asked for another room, it shows nothing yet.
LEMMA RequestedShows ==
  ASSUME NEW s \in Ui, NEW k \in Rooms
  PROVE  LET r == Requested(s, k)
         IN  /\ r.held = s.held \/ r.held = <<>>
             /\ (s.active = k /\ r.shown = s.shown) \/ r.shown = Empty
  <1>1. CASE s.active = k /\ s.synced
    BY <1>1 DEF Requested
  <1>2. CASE ~(s.active = k /\ s.synced)
    <2> DEFINE loaded == IF s.loaded = k THEN s.loaded ELSE None
               held == IF s.active = k THEN s.held ELSE <<>>
               odd == s.odd /\ s.active = k
               shown == IF s.active = k THEN s.shown ELSE Empty
    <2>1. Requested(s, k) = [s EXCEPT !.active = k, !.synced = FALSE, !.loaded = loaded, !.held = held,
                                      !.odd = odd, !.shown = shown]
      BY <1>2 DEF Requested
    <2>2. (held = s.held \/ held = <<>>) /\ ((s.active = k /\ shown = s.shown) \/ shown = Empty)
      OBVIOUS
    <2> HIDE DEF loaded, held, odd, shown
    <2>3. Requested(s, k).held = held /\ Requested(s, k).shown = shown
      BY <2>1 DEF Ui
    <2> QED
      BY <2>2, <2>3
  <1> QED
    BY <1>1, <1>2

\* The same of what it asks for itself,
LEMMA JoinShows ==
  ASSUME NEW s \in Ui, NEW k \in Rooms, NEW code \in BOOLEAN, OfRoom(s.shown, s.active)
  PROVE  LET r == Join(s, k, code)
         IN  (r.held = s.held \/ r.held = <<>>) /\ OfRoom(r.shown, r.active)
  <1>1. CASE s.desired = k /\ ~code
    BY <1>1 DEF Join
  <1>2. CASE ~(s.desired = k /\ ~code)
    <2> DEFINE q == Requested(s, k)
    <2>1. Join(s, k, code) = [q EXCEPT !.desired = k]
      BY <1>2 DEF Join
    <2>2. /\ q \in Ui /\ q.active = k /\ (q.held = s.held \/ q.held = <<>>)
          /\ (s.active = k /\ q.shown = s.shown) \/ q.shown = Empty
      BY RequestedMeans, RequestedShows
    <2> HIDE DEF q
    <2>3. Join(s, k, code).held = q.held /\ Join(s, k, code).shown = q.shown /\ Join(s, k, code).active = k
      BY <2>1, <2>2 DEF Ui
    <2>4. OfRoom(Empty, k)
      BY DEF OfRoom, Empty
    <2> QED
      BY <2>2, <2>3, <2>4
  <1> QED
    BY <1>1, <1>2

\* and of the first welcome.
LEMMA JoinedShows ==
  ASSUME NEW s \in Ui, NEW e \in Frame, e.t = "session joined", OfRoom(s.shown, s.active)
  PROVE  LET r == Joined(s, e)
         IN  (r.held = s.held \/ r.held = <<>>) /\ OfRoom(r.shown, r.active)
  <1> DEFINE t == [s EXCEPT !.rooms = e.rooms]
  <1>1. t \in Ui /\ t.held = s.held /\ t.shown = s.shown /\ t.active = s.active
    BY FrameMeans DEF Ui
  <1>2. CASE s.desired # None
    BY <1>1, <1>2 DEF Joined
  <1>3. CASE s.desired = None
    <2> DEFINE q == Requested(t, "main")
    <2>1. Joined(s, e) = [q EXCEPT !.desired = "main"]
      BY <1>3 DEF Joined
    <2> HIDE DEF t
    <2>2. /\ q \in Ui /\ q.active = "main" /\ (q.held = t.held \/ q.held = <<>>)
          /\ (t.active = "main" /\ q.shown = t.shown) \/ q.shown = Empty
      BY <1>1, RequestedMeans, RequestedShows DEF Rooms
    <2> HIDE DEF q
    <2>3. Joined(s, e).held = q.held /\ Joined(s, e).shown = q.shown /\ Joined(s, e).active = "main"
      BY <2>1, <2>2 DEF Ui
    <2>4. OfRoom(Empty, "main")
      BY DEF OfRoom, Empty
    <2> QED
      BY <1>1, <2>2, <2>3, <2>4
  <1> QED
    BY <1>2, <1>3

\* What is announced is of the room it happened in.
LEMMA AnnouncedRight ==
  ASSUME Typed, Shaped, RightRooms, [Next]_vars
  PROVE  \A e \in outbox' : Right(e)
  <1>1. \A e \in outbox : Right(e)
    BY DEF RightRooms
  <1>2. CASE outbox' \subseteq outbox
    BY <1>1, <1>2
  <1>3. ASSUME NEW new, outbox' \subseteq outbox \cup new, \A e \in new : Right(e)
        PROVE  \A e \in outbox' : Right(e)
    BY <1>1, <1>3
  <1>4. ASSUME NEW e, outbox' \subseteq outbox \cup {e}, Right(e)
         PROVE  \A x \in outbox' : Right(x)
    BY <1>1, <1>4
  <1>5. ASSUME NEW m \in Msg, Write(m) \/ Erase(m) PROVE \A e \in outbox' : Right(e)
    <2>1. PICK t \in {"message", "unsaid"} : outbox' = outbox \cup {[t |-> t, room |-> RoomOf[m], msg |-> m]}
      BY <1>5 DEF Write, Erase, Change
    <2> DEFINE e == [t |-> t, room |-> RoomOf[m], msg |-> m]
    <2>2. Right(e)
      BY DEF Right
    <2>3. outbox' \subseteq outbox \cup {e}
      BY <2>1
    <2> HIDE DEF e
    <2> QED
      BY <1>4, <2>2, <2>3
  <1>6. ASSUME NEW k, PeerMoves(k) PROVE \A e \in outbox' : Right(e)
    <2> DEFINE new == {[t |-> "left", room |-> r] : r \in {store.peer} \ {None}}
                      \cup {[t |-> "joined", room |-> r] : r \in {k} \ {None}}
    <2>1. outbox' = outbox \cup new
      BY <1>6 DEF PeerMoves
    <2>2. \A e \in new : e.t \in {"left", "joined"}
      OBVIOUS
    <2> HIDE DEF new
    <2>3. \A e \in new : Right(e)
      BY <2>2 DEF Right
    <2> QED
      BY <1>3, <2>1, <2>3
  <1>7. ASSUME Upload \/ Retry \/ Delete PROVE \A e \in outbox' : Right(e)
    <2>1. PICK e \in [t : {"uploaded", "updated"}, room : {"main"}, id : Nat] \cup [t : {"deleted"}, room : {"main"}] :
              outbox' = outbox \cup {e}
      <3>1. /\ [t |-> "uploaded", room |-> "main", id |-> 1] \in [t : {"uploaded", "updated"}, room : {"main"}, id : Nat]
            /\ [t |-> "updated", room |-> "main", id |-> 2] \in [t : {"uploaded", "updated"}, room : {"main"}, id : Nat]
            /\ [t |-> "deleted", room |-> "main"] \in [t : {"deleted"}, room : {"main"}]
        OBVIOUS
      <3> QED
        BY <1>7, <3>1 DEF Upload, Retry, Delete, Change
    <2>2. Right(e)
      BY DEF Right
    <2> QED
      BY <1>4, <2>1, <2>2
  <1>8. ASSUME NEW e \in jobs, HandleJobEvent(e) PROVE \A x \in outbox' : Right(x)
    <2>1. Right(e)
      BY DEF Typed, JobEvent, Right
    <2>2. outbox' \subseteq outbox \cup {e}
      BY <1>8 DEF HandleJobEvent, Change
    <2> QED
      BY <1>4, <2>1, <2>2
  <1>9. ASSUME DeleteRoom \/ DeleteRows \/ EndSession PROVE \A e \in outbox' : Right(e)
    <2>1. PICK e : outbox' = outbox \cup {e} /\ e.t \in {"room deleted", "rooms", "ended"}
      <3>1. CASE DeleteRoom
        <4>1. [t |-> "room deleted", room |-> "side"].t = "room deleted"
          OBVIOUS
        <4> QED
          BY <3>1, <4>1 DEF DeleteRoom
      <3>2. CASE DeleteRows
        <4>1. [t |-> "rooms", rooms |-> rooms'].t = "rooms"
          OBVIOUS
        <4> QED
          BY <3>2, <4>1 DEF DeleteRows
      <3>3. CASE EndSession
        <4>1. [t |-> "ended"].t = "ended"
          OBVIOUS
        <4> QED
          BY <3>3, <4>1 DEF EndSession
      <3> QED
        BY <1>9, <3>1, <3>2, <3>3
    <2>2. Right(e)
      BY <2>1 DEF Right
    <2> QED
      BY <1>4, <2>1, <2>2
  <1>10. ASSUME HandleChat PROVE \A e \in outbox' : Right(e)
    <2>1. up \in Seq(Ask) /\ up # <<>> /\ Head(up) = up[1] /\ up[1].t = "chat" /\ 1 \in DOMAIN up
      <3>1. up \in Seq(Ask) /\ up # <<>>
        BY <1>10 DEF Typed, HandleChat
      <3>2. Head(up) = up[1] /\ 1 \in DOMAIN up
        BY <3>1, Shorter
      <3> QED
        BY <1>10, <3>1, <3>2 DEF HandleChat
    <2> DEFINE e == [t |-> "message", room |-> up[1].room, msg |-> up[1].msg]
    <2>2. Right(e)
      BY <2>1 DEF RightRooms, Right
    <2>3. outbox' = outbox \/ outbox' = outbox \cup {e}
      BY <1>10, <2>1 DEF HandleChat
    <2> HIDE DEF e
    <2> QED
      BY <1>4, <2>2, <2>3
  <1>11. ASSUME Gateway PROVE \A e \in outbox' : Right(e)
    <2>1. CASE HandleJoinSession \/ HandleJoinRoom \/ ReadSnapshot \/ SendSnapshot \/ \E e \in outbox : Publish(e)
      <3>1. outbox' \subseteq outbox
        BY <2>1 DEF HandleJoinSession, HandleJoinRoom, ReadSnapshot, SendSnapshot, Publish, content
      <3> QED
        BY <1>2, <3>1
    <2> QED
      BY <1>10, <1>11, <2>1 DEF Gateway
  <1>12. ASSUME Browser PROVE \A e \in outbox' : Right(e)
    <2>1. outbox' = outbox
      BY <1>12 DEF Browser, Receive, Open, OpenFails, Lost, Render, Click, Speak, content
    <2> QED
      BY <1>2, <2>1
  <1>13. ASSUME Others PROVE \A e \in outbox' : Right(e)
    <2>1. CASE Lock
      BY <1>2, <2>1 DEF Lock
    <2> QED
      BY <1>5, <1>6, <1>7, <1>8, <1>9, <1>13, <2>1 DEF Others
  <1>14. CASE UNCHANGED vars
    BY <1>2, <1>14 DEF vars
  <1> QED
    BY <1>11, <1>12, <1>13, <1>14 DEF Next

\* What the browser says is of the room it is in, and is taken in turn.
LEMMA AskedRight ==
  ASSUME Typed, Shaped, RightRooms, [Next]_vars
  PROVE  \A i \in DOMAIN up' : up'[i].t = "chat" => RoomOf[up'[i].msg] = up'[i].room
  <1>1. up \in Seq(Ask) /\ \A i \in DOMAIN up : up[i].t = "chat" => RoomOf[up[i].msg] = up[i].room
    BY DEF Typed, RightRooms
  <1> DEFINE Goal == \A i \in DOMAIN up' : up'[i].t = "chat" => RoomOf[up'[i].msg] = up'[i].room
  <1>2. ASSUME up' = up PROVE Goal
    BY <1>1, <1>2
  <1>3. ASSUME up # <<>>, up' = Tail(up) PROVE Goal
    <2>1. \A i \in DOMAIN up' : i + 1 \in DOMAIN up /\ up'[i] = up[i + 1]
      BY <1>1, <1>3, Shorter
    <2> QED
      BY <1>1, <2>1
  <1>4. ASSUME NEW f \in Ask, up' = Append(up, f), f.t = "chat" => RoomOf[f.msg] = f.room PROVE Goal
    <2>1. \A i \in DOMAIN up' : i = Len(up) + 1 \/ i \in DOMAIN up
      BY <1>1, <1>4, Longer
    <2>2. up'[Len(up) + 1] = f /\ \A i \in DOMAIN up : up'[i] = up[i]
      BY <1>1, <1>4, Longer
    <2> QED
      BY <1>1, <1>4, <2>1, <2>2
  <1>5. ASSUME NEW k, Asks(k) PROVE Goal
    <2>1. up' = up \/ \E f \in Ask : f.t = "join room" /\ up' = Append(up, f)
      BY <1>5 DEF Asks
    <2> QED
      BY <1>2, <1>4, <2>1
  <1>6. ASSUME up' = <<>> PROVE Goal
    BY <1>6, Nothing
  <1>7. ASSUME Gateway PROVE Goal
    <2>1. CASE HandleJoinSession
      BY <1>3, <2>1, HandleJoinSessionMeans
    <2>2. CASE HandleJoinRoom
      BY <1>3, <2>2, HandleJoinRoomMeans
    <2>3. CASE HandleChat
      BY <1>3, <2>3, HandleChatMeans
    <2>4. CASE ReadSnapshot \/ SendSnapshot
      BY <1>2, <2>4 DEF ReadSnapshot, SendSnapshot
    <2>5. ASSUME NEW e \in outbox, Publish(e) PROVE Goal
      <3>1. up' = up \/ up' = <<>>
        BY <2>5 DEF Publish
      <3> QED
        BY <1>2, <1>6, <3>1
    <2> QED
      BY <1>7, <2>1, <2>2, <2>3, <2>4, <2>5 DEF Gateway
  <1>8. ASSUME Browser PROVE Goal
    <2>1. CASE Receive \/ OpenFails
      BY <1>2, <2>1 DEF Receive, OpenFails
    <2>2. CASE Lost
      BY <1>6, <2>2 DEF Lost
    <2>3. CASE Open
      <3>1. PICK f \in Ask : up' = <<f>> /\ f.t = "join session"
        BY <2>3, OpenMeans
      <3>2. \A i \in DOMAIN up' : up'[i] = f
        BY <3>1, Single
      <3> QED
        BY <3>1, <3>2
    <2>4. CASE Render
      BY <1>2, <1>5, <2>4, RenderMeans
    <2>5. ASSUME NEW k \in Rooms, NEW code \in BOOLEAN, Click(k, code) PROVE Goal
      BY <1>5, <2>5, ClickMeans
    <2>6. ASSUME NEW m \in Msg, Speak(m) PROVE Goal
      BY <1>4, <2>6, SpeakMeans
    <2> QED
      BY <1>8, <2>1, <2>2, <2>3, <2>4, <2>5, <2>6 DEF Browser
  <1>9. ASSUME Others PROVE Goal
    <2>1. up' = up
      BY <1>9 DEF Others, Write, Erase, PeerMoves, Upload, Retry, Delete, HandleJobEvent, DeleteRoom, DeleteRows, Lock,
                  EndSession, others
    <2> QED
      BY <1>2, <2>1
  <1>10. CASE UNCHANGED vars
    BY <1>2, <1>10 DEF vars
  <1> QED
    BY <1>7, <1>8, <1>9, <1>10 DEF Next

\* What the socket sends is of the room it says.
LEMMA SentRight ==
  ASSUME Typed, Shaped, RightRooms, [Next]_vars
  PROVE  /\ \A i \in DOMAIN down' : Right(down'[i]) /\ (down'[i].t = "snapshot" => OfRoom(down'[i].snap, down'[i].room))
         /\ srv'.at = "send" => OfRoom(srv'.snap, srv'.room)
  <1> DEFINE Fine(e) == Right(e) /\ (e.t = "snapshot" => OfRoom(e.snap, e.room))
             Down == \A i \in DOMAIN down' : Fine(down'[i])
             Srv == srv'.at = "send" => OfRoom(srv'.snap, srv'.room)
  <1>1. down \in Seq(Frame) /\ \A i \in DOMAIN down : Fine(down[i])
    BY DEF Typed, RightRooms
  <1> HIDE DEF Fine
  <1>2. ASSUME down' = down PROVE Down
    BY <1>1, <1>2
  <1>3. ASSUME down # <<>>, down' = Tail(down) PROVE Down
    <2>1. \A i \in DOMAIN down' : i + 1 \in DOMAIN down /\ down'[i] = down[i + 1]
      BY <1>1, <1>3, TakenIs
    <2> QED
      BY <1>1, <2>1
  <1>4. ASSUME NEW e \in Frame, down' = Append(down, e), Fine(e) PROVE Down
    <2>1. \A i \in DOMAIN down' : i = Len(down) + 1 \/ (i \in DOMAIN down /\ down'[i] = down[i])
      BY <1>1, <1>4, AddedIs
    <2>2. down'[Len(down) + 1] = e
      BY <1>1, <1>4, AddedIs
    <2> QED
      BY <1>1, <1>4, <2>1, <2>2
  <1>5. ASSUME down' = <<>> PROVE Down
    BY <1>5, Nothing
  <1>6. ASSUME NEW e, e.t \in {"session joined", "error"} PROVE Fine(e)
    BY <1>6 DEF Fine, Right
  <1>7. ASSUME srv' = srv \/ srv'.at # "send" PROVE Srv
    BY <1>7 DEF RightRooms
  <1>8. ASSUME HandleJoinSession PROVE Down /\ Srv
    <2>1. PICK e \in Frame : e.t = "session joined" /\ down' = Append(down, e) /\ srv'.at = "read"
      BY <1>8, HandleJoinSessionMeans
    <2>2. Fine(e)
      BY <2>1 DEF Fine, Right
    <2>3. Down
      BY <1>4, <2>1, <2>2
    <2>4. Srv
      BY <1>7, <2>1
    <2> QED
      BY <2>3, <2>4
  <1>9. ASSUME HandleJoinRoom \/ HandleChat PROVE Down /\ Srv
    <2>1. down' = down \/ \E e \in Frame : e.t = "error" /\ down' = Append(down, e)
      BY <1>9, HandleJoinRoomMeans, HandleChatMeans
    <2>2. srv' = srv \/ srv'.at = "read"
      BY <1>9, HandleJoinRoomMeans, HandleChatMeans
    <2>3. ASSUME NEW e \in Frame, e.t = "error", down' = Append(down, e) PROVE Down
      <3>1. Fine(e)
        BY <2>3 DEF Fine, Right
      <3> QED
        BY <1>4, <2>3, <3>1
    <2>4. Down
      BY <1>2, <2>1, <2>3
    <2>5. Srv
      BY <1>7, <2>2
    <2> QED
      BY <2>4, <2>5
  <1>10. ASSUME ReadSnapshot PROVE Down /\ Srv
    <2>1. srv' = [srv EXCEPT !.at = "send", !.snap = Contents(srv.room)] /\ srv \in Socket /\ down' = down
      BY <1>10 DEF ReadSnapshot, Typed
    <2>2. srv'.snap = Contents(srv.room) /\ srv'.room = srv.room
      BY <2>1 DEF Socket
    <2>3. OfRoom(Contents(srv.room), srv.room)
      BY DEF OfRoom, Contents
    <2> QED
      BY <1>2, <2>1, <2>2, <2>3
  <1>11. ASSUME SendSnapshot PROVE Down /\ Srv
    <2>1. /\ srv.at = "send" /\ srv'.at = "idle"
      BY <1>11, SendSnapshotMeans
    <2>2. PICK e \in Frame : e.t = "snapshot" /\ e.room = srv.room /\ e.snap = srv.snap /\ down' = Append(down, e)
      BY <1>11, SendSnapshotMeans
    <2>3. Fine(e)
      BY <2>1, <2>2 DEF RightRooms, Fine, Right
    <2> QED
      BY <1>4, <1>7, <2>1, <2>2, <2>3
  <1>12. ASSUME NEW e \in outbox, Publish(e) PROVE Down /\ Srv
    <2>1. /\ e \in Frame /\ e \in News
          /\ down' = down \/ down' = Append(down, e)
          /\ srv' = srv \/ srv' = Gone
      BY <1>12, PublishMeans
    <2>2. Fine(e)
      BY <2>1, FrameMeans DEF RightRooms, Fine
    <2>3. Gone.at # "send"
      BY DEF Gone
    <2> QED
      BY <1>2, <1>4, <1>7, <2>1, <2>2, <2>3
  <1>13. ASSUME Receive PROVE Down /\ Srv
    <2>1. down # <<>> /\ down' = Tail(down) /\ srv' = srv
      BY <1>13 DEF Receive
    <2> QED
      BY <1>3, <1>7, <2>1
  <1>14. ASSUME Lost PROVE Down /\ Srv
    <2>1. down' = <<>> /\ srv' = Gone /\ Gone.at # "send"
      BY <1>14 DEF Lost, Gone
    <2> QED
      BY <1>5, <1>7, <2>1
  <1>15. ASSUME \/ Open \/ OpenFails \/ Render \/ (\E k \in Rooms, code \in BOOLEAN : Click(k, code))
                \/ (\E m \in Msg : Speak(m)) \/ Others \/ UNCHANGED vars
         PROVE  Down /\ Srv
    <2>1. down' = down /\ srv' = srv
      BY <1>15 DEF Open, OpenFails, Render, Click, Speak, Others, Write, Erase, PeerMoves, Upload, Retry, Delete,
                   HandleJobEvent, DeleteRoom, DeleteRows, Lock, EndSession, others, vars
    <2> QED
      BY <1>2, <1>7, <2>1
  <1>16. Down /\ Srv
    <2>1. CASE Gateway
      BY <1>8, <1>9, <1>10, <1>11, <1>12, <2>1 DEF Gateway, Fine
    <2>2. CASE Browser
      BY <1>13, <1>14, <1>15, <2>2 DEF Browser
    <2> QED
      BY <1>15, <2>1, <2>2 DEF Next
  <1> QED
    BY <1>16 DEF Fine

\* What is shown is of the room that it says, with what was held for it.
LEMMA ShownRight ==
  ASSUME Typed, Shaped, RightRooms, [Next]_vars
  PROVE  /\ \A i \in DOMAIN ui'.held : Right(ui'.held[i])
         /\ OfRoom(ui'.shown, ui'.active)
  <1> DEFINE Goal == (\A i \in DOMAIN ui'.held : Right(ui'.held[i])) /\ OfRoom(ui'.shown, ui'.active)
  <1>1. /\ ui \in Ui /\ (\A i \in DOMAIN ui.held : Right(ui.held[i])) /\ OfRoom(ui.shown, ui.active)
        /\ ui.held \in Seq(Event) /\ ui.shown \in View
    BY DEF Typed, RightRooms, Ui
  <1>2. ASSUME ui'.held = ui.held \/ ui'.held = <<>>, OfRoom(ui'.shown, ui'.active) PROVE Goal
    BY <1>1, <1>2, Nothing
  <1>3. ASSUME ui'.held = ui.held, ui'.shown = ui.shown, ui'.active = ui.active PROVE Goal
    BY <1>1, <1>3
  <1>4. ASSUME NEW k \in Rooms, NEW code \in BOOLEAN, ui' = Join(ui, k, code) PROVE Goal
    BY <1>1, <1>2, <1>4, JoinShows
  <1>5. ASSUME Receive PROVE Goal
    <2> DEFINE e == down[1]
    <2>1. down # <<>> /\ down \in Seq(Frame) /\ Head(down) = e /\ e \in Frame /\ 1 \in DOMAIN down
      <3>1. down # <<>> /\ down \in Seq(Frame)
        BY <1>5 DEF Receive, Typed
      <3> QED
        BY <3>1, Shorter
    <2>2. ui' = CASE e.t = "session joined" -> Joined(ui, e)
                  [] e.t = "rooms" -> [ui EXCEPT !.rooms = e.rooms]
                  [] e.t = "snapshot" -> Snapshot(ui, e)
                  [] e.t = "error" -> [ui EXCEPT !.refused = TRUE]
                  [] e.t = "room deleted" -> RoomDeleted(ui, e)
                  [] e.t = "ended" -> [ui EXCEPT !.status = "offline"]
                  [] OTHER -> RoomEvent(ui, e)
      BY <1>5, <2>1 DEF Receive
    <2>3. Right(e) /\ (e.t = "snapshot" => OfRoom(e.snap, e.room))
      BY <2>1 DEF RightRooms
    <2> HIDE DEF e
    <2>4. CASE e.t = "session joined"
      <3>1. ui' = Joined(ui, e)
        BY <2>2, <2>4
      <3>2. (ui'.held = ui.held \/ ui'.held = <<>>) /\ OfRoom(ui'.shown, ui'.active)
        BY <1>1, <2>1, <2>4, <3>1, JoinedShows
      <3> QED
        BY <1>2, <3>2
    <2>5. CASE e.t = "snapshot"
      <3>1. ui' = Snapshot(ui, e)
        BY <2>2, <2>5
      <3>2. ui'.held = <<>> /\ ui'.active = e.room
        BY <1>1, <2>1, <2>5, <3>1, SnapshotMeans
      <3>3. ui'.shown = Replayed(e.snap, ui.held, e.room)
        BY <1>1, <2>1, <2>5, <3>1, SnapshotShows
      <3>4. e.snap \in View /\ OfRoom(e.snap, e.room)
        BY <2>1, <2>3, <2>5, FrameMeans
      <3>5. OfRoom(Replayed(e.snap, ui.held, e.room), e.room)
        BY <1>1, <3>4, ReplayedOfRoom
      <3> QED
        BY <1>2, <3>2, <3>3, <3>5
    <2>6. CASE e.t = "room deleted"
      <3>1. ui' = RoomDeleted(ui, e)
        BY <2>2, <2>6
      <3>2. /\ ui'.held = ui.held /\ ui'.active = ui.active
            /\ ui' = ui \/ ui'.shown = [ui.shown EXCEPT !.chat = {}, !.job = NoJob]
        BY <1>1, <2>1, <2>6, <3>1, RoomDeletedMeans
      <3>3. OfRoom([ui.shown EXCEPT !.chat = {}, !.job = NoJob], ui.active)
        BY <1>1 DEF OfRoom, View
      <3> QED
        BY <1>1, <1>2, <3>2, <3>3
    <2>7. CASE e.t \in {"rooms", "error", "ended"}
      <3>1. \/ ui' = [ui EXCEPT !.rooms = e.rooms] \/ ui' = [ui EXCEPT !.refused = TRUE]
            \/ ui' = [ui EXCEPT !.status = "offline"]
        BY <2>2, <2>7
      <3>2. ui'.held = ui.held /\ ui'.shown = ui.shown /\ ui'.active = ui.active
        BY <1>1, <3>1 DEF Ui
      <3> QED
        BY <1>3, <3>2
    <2>8. CASE e.t \notin {"session joined", "rooms", "snapshot", "error", "room deleted", "ended"}
      <3>1. ui' = RoomEvent(ui, e) /\ e \in Event
        BY <2>1, <2>2, <2>8, FrameMeans
      <3>2. \/ ui' = [ui EXCEPT !.held = Append(ui.held, e)]
            \/ Current(ui, e) /\ ui' = [ui EXCEPT !.shown = Applied(ui.shown, e)]
            \/ ui' = ui
        BY <1>1, <3>1, RoomEventMeans
      <3>3. ASSUME ui' = [ui EXCEPT !.held = Append(ui.held, e)] PROVE Goal
        <4>1. ui'.held = Append(ui.held, e) /\ ui'.shown = ui.shown /\ ui'.active = ui.active
          BY <1>1, <3>3 DEF Ui
        <4>2. \A i \in DOMAIN ui'.held : i = Len(ui.held) + 1 \/ (i \in DOMAIN ui.held /\ ui'.held[i] = ui.held[i])
          BY <1>1, <3>1, <4>1, Longer
        <4>3. ui'.held[Len(ui.held) + 1] = e
          BY <1>1, <3>1, <4>1, Longer
        <4> QED
          BY <1>1, <2>3, <4>1, <4>2, <4>3
      <3>4. ASSUME Current(ui, e), ui' = [ui EXCEPT !.shown = Applied(ui.shown, e)] PROVE Goal
        <4>1. ui'.held = ui.held /\ ui'.shown = Applied(ui.shown, e) /\ ui'.active = ui.active /\ e.room = ui.active
          BY <1>1, <3>4 DEF Ui, Current
        <4>2. OfRoom(Applied(ui.shown, e), e.room)
          BY <1>1, <2>3, <3>1, <4>1, AppliedOfRoom
        <4> QED
          BY <1>2, <4>1, <4>2
      <3> QED
        BY <1>3, <3>2, <3>3, <3>4
    <2> QED
      BY <2>4, <2>5, <2>6, <2>7, <2>8
  <1>6. ASSUME Open \/ OpenFails \/ Lost PROVE Goal
    <2>1. ui'.held = ui.held /\ ui'.shown = ui.shown /\ ui'.active = ui.active
      <3>1. CASE Open
        BY <1>1, <3>1 DEF Open, Ui
      <3>2. CASE OpenFails \/ Lost
        BY <3>2, OpenFailsMeans, LostMeans
      <3> QED
        BY <1>6, <3>1, <3>2
    <2> QED
      BY <1>3, <2>1
  <1>7. ASSUME Render PROVE Goal
    <2>1. ui' = ui \/ ui' = Join(ui, "main", FALSE)
      BY <1>7 DEF Render
    <2> QED
      BY <1>3, <1>4, <2>1 DEF Rooms
  <1>8. ASSUME NEW k \in Rooms, NEW code \in BOOLEAN, Click(k, code) PROVE Goal
    BY <1>4, <1>8 DEF Click
  <1>9. ASSUME (\E m \in Msg : Speak(m)) \/ Gateway \/ Others \/ UNCHANGED vars PROVE Goal
    <2>1. ui' = ui
      BY <1>9 DEF Speak, Gateway, HandleJoinSession, HandleJoinRoom, HandleChat, ReadSnapshot, SendSnapshot, Publish,
                  Others, Write, Erase, PeerMoves, Upload, Retry, Delete, HandleJobEvent, DeleteRoom, DeleteRows,
                  Lock, EndSession, others, vars
    <2> QED
      BY <1>3, <2>1
  <1>10. CASE Browser
    BY <1>5, <1>6, <1>7, <1>8, <1>9, <1>10 DEF Browser
  <1> QED
    BY <1>9, <1>10 DEF Next

\* Whatever happens, in whatever order, nothing of another room is shown.
THEOREM OnlyItsRoom == Spec => []OnlyOfThisRoom
  <1>1. Init => RightRooms
    <2> SUFFICES ASSUME Init PROVE RightRooms
      OBVIOUS
    <2>1. outbox = {} /\ up = <<>> /\ down = <<>> /\ srv = Gone /\ ui = NewUi
      BY DEF Init
    <2>2. Gone.at # "send" /\ NewUi.held = <<>> /\ NewUi.shown = Empty
      BY DEF Gone, NewUi
    <2>3. OfRoom(Empty, NewUi.active)
      BY DEF OfRoom, Empty
    <2> QED
      BY <2>1, <2>2, <2>3, Nothing DEF RightRooms
  <1>2. FeedInv /\ RightRooms /\ [Next]_vars => RightRooms'
    <2> SUFFICES ASSUME FeedInv, RightRooms, [Next]_vars PROVE RightRooms'
      OBVIOUS
    <2>1. Typed /\ Shaped
      BY DEF FeedInv
    <2> QED
      BY <2>1, AnnouncedRight, AskedRight, SentRight, ShownRight DEF RightRooms
  <1>3. RightRooms => OnlyOfThisRoom
    BY DEF RightRooms, OfRoom, OnlyOfThisRoom
  <1> QED
    BY <1>1, <1>2, <1>3, FeedCorrect, PTL DEF Spec

====
