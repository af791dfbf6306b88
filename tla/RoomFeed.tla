------------------------------ MODULE RoomFeed ------------------------------
(***************************************************************************)
(* One browser and what it shows of a session: its socket and reconnects   *)
(* (useRealtime.ts), the state the events are folded into (roomReducer.ts) *)
(* and the moves RoomView makes by itself; with the other end of its       *)
(* socket, where frames are handled in turn and a room is entered in       *)
(* steps (ws/server.ts), and the events the gateway's replicas publish     *)
(* about the rooms' messages, people, upload and its jobs.                 *)
(*                                                                         *)
(* A change is stored first and published later (outbox), in any order     *)
(* between requests and replicas; what is published reaches the socket in  *)
(* that order.  The main room holds the upload.                            *)
(***************************************************************************)
EXTENDS Naturals, Sequences, SequencesExt, FiniteSets

CONSTANTS
    Msg, RoomOf,     \* chat messages and the room each is written in
    None,
    MaxAttempts,     \* MAX_ATTEMPTS
    Budgets          \* bounds on what happens, one chosen in Init

Rooms == {"main", "side"}
Ops == {"chat", "upload", "peer", "retry", "delete", "deleteRoom", "click", "lost", "end", "lock"}

ASSUME FeedAssumption == /\ RoomOf \in [Msg -> Rooms] /\ MaxAttempts \in Nat \ {0}
                         /\ Budgets \subseteq [Ops -> Nat] /\ None \notin Rooms

VARIABLES
    store,       \* rows: messages (and those ever written), the peer's room, the upload's job
    rooms,       \* rooms that exist
    granted,     \* the breakout room lets this person in without its code
    outbox,      \* events not published yet
    jobs,        \* job events a worker has emitted and no replica has handled
    op,          \* a room deletion under way
    srv,         \* this socket's ConnectionState, and the join under way
    up, down,    \* frames on their way
    ui,          \* RoomState, the socket's status and the refs of useRealtime;
                 \* odd (history): its last snapshot was of another room than
                 \* it asked for, came on top of one of the same room, or met
                 \* events held on an earlier socket
    listed,      \* RoomView: the rooms it saw in its last render
    late,        \* history: a job's event was published before its announcement
    budget

vars == <<store, rooms, granted, outbox, jobs, op, srv, up, down, ui, listed, late, budget>>
content == <<store, rooms, granted, outbox, jobs, op, late>>

NoJob == [id |-> 0, st |-> "none"]
Gone == [joined |-> FALSE, room |-> None, at |-> "idle", snap |-> None]
Empty == [chat |-> {}, peer |-> FALSE, job |-> NoJob]
\* initialRoomState, before the first socket opens.
NewUi == [status |-> "closed", attempt |-> 0, desired |-> None, active |-> None, synced |-> FALSE,
          loaded |-> None, held |-> <<>>, shown |-> Empty, rooms |-> {}, refused |-> FALSE, odd |-> FALSE]

Init ==
    /\ store = [chat |-> {}, said |-> {}, peer |-> None, job |-> NoJob]
    /\ rooms = Rooms /\ granted = TRUE
    /\ outbox = {} /\ jobs = {} /\ op = "idle"
    /\ srv = Gone /\ up = <<>> /\ down = <<>> /\ ui = NewUi
    /\ listed = {} /\ late = FALSE /\ budget \in Budgets

Spend(what) == budget[what] > 0 /\ budget' = [budget EXCEPT ![what] = @ - 1]

\* What a room's snapshot holds.
Contents(k) == [chat |-> {m \in store.chat : RoomOf[m] = k}, peer |-> store.peer = k,
                job |-> IF k = "main" THEN store.job ELSE NoJob]

-----------------------------------------------------------------------------
(* The reducer.                                                            *)

Stage(st) == CASE st = "queued" -> 0 [] st = "processing" -> 1 [] OTHER -> 2

\* Mutant: an update is applied whatever is shown.
IsStaleNever(job, id, st) == FALSE
IsStale(job, id, st) == job.id = id /\ Stage(st) < Stage(job.st)

\* patchJob for a status update, and for an outcome.
Patched(job, e) ==
    IF job = NoJob \/ (e.t = "status" /\ IsStale(job, e.id, e.st)) THEN job
    ELSE [id |-> e.id, st |-> e.st]

\* What an event about the room makes of what is shown.
Applied(v, e) ==
    CASE e.t = "message" -> [v EXCEPT !.chat = @ \cup {e.msg}]
      [] e.t = "unsaid"  -> [v EXCEPT !.chat = @ \ {e.msg}]
      [] e.t = "joined"  -> [v EXCEPT !.peer = TRUE]
      [] e.t = "left"    -> [v EXCEPT !.peer = FALSE]
      [] e.t = "uploaded" -> [v EXCEPT !.job = IF @ = NoJob THEN [id |-> e.id, st |-> "queued"] ELSE @]
      [] e.t = "updated" -> [v EXCEPT !.job = IF @ = NoJob THEN @ ELSE [id |-> e.id, st |-> "queued"]]
      [] e.t = "deleted" -> [v EXCEPT !.job = NoJob]
      [] e.t \in {"status", "complete"} -> [v EXCEPT !.job = Patched(@, e)]

\* Events about a room: held until its snapshot, dropped for another room.
\* Mutant: nothing is held.
HoldNothing(s, e) == FALSE
\* Mutant: events are held on after the snapshot.
HoldAlways(s, e) == e.room = s.active
Hold(s, e) == ~s.synced /\ e.room = s.active
\* Mutant: another room's events are applied.
CurrentAny(s, e) == s.synced
Current(s, e) == s.synced /\ e.room = s.active

RoomEvent(s, e) ==
    IF Hold(s, e) THEN [s EXCEPT !.held = Append(@, e)]
    ELSE IF Current(s, e) THEN [s EXCEPT !.shown = Applied(@, e)]
    ELSE s

\* What was held for a room, applied in its order.
Replayed(v, held, k) ==
    LET after[n \in 0..Len(held)] ==
            IF n = 0 THEN v
            ELSE IF held[n].room = k THEN Applied(after[n - 1], held[n]) ELSE after[n - 1]
    IN  after[Len(held)]

\* room_state: replaces what is shown, then what was held for it is replayed.
Snapshot(s, e) ==
    [s EXCEPT !.active = e.room, !.synced = TRUE, !.loaded = e.room, !.refused = FALSE, !.held = <<>>,
              !.odd = @ \/ e.room # s.active \/ s.synced,
              !.shown = Replayed(e.snap, s.held, e.room)]

\* room_requested.
Requested(s, k) ==
    IF s.active = k /\ s.synced THEN s
    ELSE [s EXCEPT !.active = k, !.synced = FALSE, !.loaded = IF @ = k THEN @ ELSE None,
                   !.held = IF s.active = k THEN @ ELSE <<>>, !.odd = @ /\ s.active = k,
                   !.shown = IF s.active = k THEN @ ELSE Empty]

\* session_joined; the first of a session leads to the main room.
Joined(s, e) ==
    LET t == [s EXCEPT !.rooms = e.rooms]
    IN  IF s.desired # None THEN t ELSE [Requested(t, "main") EXCEPT !.desired = "main"]

RoomDeleted(s, e) ==
    IF Current(s, e) THEN [s EXCEPT !.shown.chat = {}, !.shown.job = NoJob, !.synced = FALSE, !.loaded = None]
    ELSE s

Receive ==
    /\ down # <<>> /\ ui.status = "online"
    /\ down' = Tail(down)
    /\ LET e == Head(down) IN
       ui' = CASE e.t = "session joined" -> Joined(ui, e)
               [] e.t = "rooms" -> [ui EXCEPT !.rooms = e.rooms]
               [] e.t = "snapshot" -> Snapshot(ui, e)
               [] e.t = "error" -> [ui EXCEPT !.refused = TRUE]
               [] e.t = "room deleted" -> RoomDeleted(ui, e)
               [] e.t = "ended" -> [ui EXCEPT !.status = "offline"]
               [] OTHER -> RoomEvent(ui, e)
    /\ UNCHANGED <<content, srv, up, listed, budget>>

-----------------------------------------------------------------------------
(* The socket, from the browser.                                           *)

\* open: the room to return to travels with the join.
Open ==
    /\ ui.status = "closed"
    /\ ui' = [ui EXCEPT !.status = "online", !.attempt = 0]
    /\ up' = <<[t |-> "join session", room |-> ui.desired, code |-> FALSE]>>
    /\ UNCHANGED <<content, srv, down, listed, budget>>

OpenFails ==
    /\ ui.status = "closed" /\ Spend("lost")
    /\ ui' = [ui EXCEPT !.attempt = @ + 1,
                        !.status = IF ui.attempt + 1 >= MaxAttempts THEN "offline" ELSE "closed"]
    /\ UNCHANGED <<content, srv, up, down, listed>>

\* onclose, and handleClose at the other end: what was on its way is lost.
Lost ==
    /\ ui.status = "online" /\ Spend("lost")
    /\ ui' = [ui EXCEPT !.status = "closed", !.synced = FALSE, !.odd = ui.held # <<>>]
    /\ srv' = Gone /\ up' = <<>> /\ down' = <<>>
    /\ UNCHANGED <<content, listed>>

Join(s, k, code) ==
    IF s.desired = k /\ ~code THEN s ELSE [Requested(s, k) EXCEPT !.desired = k]
JoinFrame(k, code) ==
    up' = IF (ui.desired = k /\ ~code) \/ ui.status # "online" THEN up
          ELSE Append(up, [t |-> "join room", room |-> k, code |-> code])

\* A click in RoomSwitcher, or the code typed at its prompt.
Click(k, code) ==
    /\ ui.loaded # None \/ ui.refused
    /\ k \in listed /\ (code => ui.refused /\ ui.active = k) /\ Spend("click")
    /\ ui' = Join(ui, k, code) /\ JoinFrame(k, code)
    /\ UNCHANGED <<content, srv, down, listed>>

\* Mutant: nobody leaves a room that is gone.
RenderStays ==
    /\ listed # ui.rooms /\ listed' = ui.rooms
    /\ UNCHANGED <<ui, up, content, srv, down, budget>>

\* RoomView renders: a room that was listed and is not any more is left.
Render ==
    /\ listed # ui.rooms
    /\ IF ui.active \in listed \ ui.rooms
       THEN ui' = Join(ui, "main", FALSE) /\ JoinFrame("main", FALSE)
       ELSE UNCHANGED <<ui, up>>
    /\ listed' = ui.rooms
    /\ UNCHANGED <<content, srv, down, budget>>

\* sendChat: to the room this browser asked for last.
Speak(m) ==
    /\ ui.status = "online" /\ ui.synced /\ RoomOf[m] = ui.desired
    /\ m \notin store.said /\ Spend("chat")
    /\ up' = Append(up, [t |-> "chat", room |-> ui.desired, msg |-> m])
    /\ store' = [store EXCEPT !.said = @ \cup {m}]
    /\ UNCHANGED <<rooms, granted, outbox, jobs, op, late, srv, down, ui, listed>>

-----------------------------------------------------------------------------
(* The socket, at the gateway.  One frame at a time.                       *)

Say(frame) == down' = Append(down, frame)
Enters(k) == srv' = [srv EXCEPT !.joined = TRUE, !.room = k, !.at = "read"]

HandleJoinSession ==
    LET f == Head(up)
    IN  /\ up # <<>> /\ srv.at = "idle" /\ f.t = "join session"
        /\ up' = Tail(up)
        /\ Say([t |-> "session joined", rooms |-> rooms])
        /\ Enters(IF f.room \in rooms /\ (f.room = "side" => granted) THEN f.room ELSE "main")
        /\ UNCHANGED <<content, ui, listed, budget>>

HandleJoinRoom ==
    LET f == Head(up)
    IN  /\ up # <<>> /\ srv.at = "idle" /\ f.t = "join room"
        /\ up' = Tail(up)
        /\ IF f.room \in rooms /\ (f.room = "side" => granted \/ f.code)
           THEN /\ Enters(f.room) /\ UNCHANGED down
                /\ granted' = (granted \/ f.room = "side")
           ELSE Say([t |-> "error"]) /\ UNCHANGED <<srv, granted>>
        /\ UNCHANGED <<store, rooms, outbox, jobs, op, late, ui, listed, budget>>

HandleChat ==
    LET f == Head(up)
    IN  /\ up # <<>> /\ srv.at = "idle" /\ f.t = "chat"
        /\ up' = Tail(up)
        /\ IF srv.room = f.room /\ f.room \in rooms
           THEN /\ store' = [store EXCEPT !.chat = @ \cup {f.msg}]
                /\ outbox' = outbox \cup {[t |-> "message", room |-> f.room, msg |-> f.msg]}
                /\ UNCHANGED down
           ELSE Say([t |-> "error"]) /\ UNCHANGED <<store, outbox>>
        /\ UNCHANGED <<rooms, granted, jobs, op, late, srv, ui, listed, budget>>

\* The snapshot's queries, and its frame.
ReadSnapshot ==
    /\ srv.at = "read"
    /\ srv' = [srv EXCEPT !.at = "send", !.snap = Contents(srv.room)]
    /\ UNCHANGED <<content, up, down, ui, listed, budget>>

SendSnapshot ==
    /\ srv.at = "send"
    /\ Say([t |-> "snapshot", room |-> srv.room, snap |-> srv.snap])
    /\ srv' = [srv EXCEPT !.at = "idle", !.snap = None]
    /\ UNCHANGED <<content, up, ui, listed, budget>>

\* onRoomEvent and onSessionEvent, for this socket.
Reaches(e) == IF e.t \in {"rooms", "ended"} THEN srv.joined ELSE srv.room = e.room
JobOf(e) == e.t \in {"status", "complete"}

Publish(e) ==
    /\ e \in outbox
    /\ outbox' = outbox \ {e}
    /\ late' = (late \/ (JobOf(e) /\ \E o \in outbox : o.t \in {"uploaded", "updated"} /\ o.id = e.id))
    /\ IF Reaches(e) THEN Say(e) ELSE UNCHANGED down
    /\ IF e.t = "ended" /\ srv.joined THEN srv' = Gone /\ up' = <<>> ELSE UNCHANGED <<srv, up>>
    /\ UNCHANGED <<store, rooms, granted, jobs, op, ui, listed, budget>>

-----------------------------------------------------------------------------
(* What others do.                                                         *)

Change(s, e) == store' = s /\ outbox' = outbox \cup {e}
others == <<rooms, granted, op, late, srv, up, down, ui, listed>>
\* Nobody changes what nobody was told of.
Told(kinds) == \A e \in outbox : e.t \notin kinds

Write(m) ==
    /\ m \notin store.said /\ RoomOf[m] \in rooms /\ Spend("chat")
    /\ Change([store EXCEPT !.chat = @ \cup {m}, !.said = @ \cup {m}], [t |-> "message", room |-> RoomOf[m], msg |-> m])
    /\ UNCHANGED <<others, jobs>>

Erase(m) ==
    /\ m \in store.chat /\ Told({"message"}) /\ Spend("delete")
    /\ Change([store EXCEPT !.chat = @ \ {m}], [t |-> "unsaid", room |-> RoomOf[m], msg |-> m])
    /\ UNCHANGED <<others, jobs>>

PeerMoves(k) ==
    /\ k \in rooms \cup {None} /\ k # store.peer /\ Told({"joined", "left"}) /\ Spend("peer")
    /\ store' = [store EXCEPT !.peer = k]
    /\ outbox' = outbox \cup {[t |-> "left", room |-> r] : r \in {store.peer} \ {None}}
                        \cup {[t |-> "joined", room |-> r] : r \in {k} \ {None}}
    /\ UNCHANGED <<others, jobs>>

\* The job's worker emits these; each is handled and published by some replica.
Emits(id) == {[t |-> "status", room |-> "main", id |-> id, st |-> "processing"]}
Ends(id, st) == [t |-> "complete", room |-> "main", id |-> id, st |-> st]

Upload ==
    /\ store.job = NoJob /\ Told({"deleted"}) /\ Spend("upload")
    /\ Change([store EXCEPT !.job = [id |-> 1, st |-> "queued"]],
              [t |-> "uploaded", room |-> "main", id |-> 1])
    /\ jobs' = jobs \cup Emits(1)
    /\ UNCHANGED others

Retry ==
    /\ store.job.st = "failed" /\ Told({"uploaded", "updated", "status", "complete"}) /\ Spend("retry")
    /\ Change([store EXCEPT !.job = [id |-> 2, st |-> "queued"]],
              [t |-> "updated", room |-> "main", id |-> 2])
    /\ jobs' = jobs \cup Emits(2)
    /\ UNCHANGED others

Delete ==
    /\ store.job # NoJob /\ Told({"uploaded", "updated", "status", "complete"}) /\ Spend("delete")
    /\ Change([store EXCEPT !.job = NoJob], [t |-> "deleted", room |-> "main"])
    /\ jobs' = {}
    /\ UNCHANGED <<others>>

\* handleEntry: updateJobFromEvent, then the event is to be published.
HandleJobEvent(e) ==
    /\ e \in jobs /\ UNCHANGED <<others, budget>>
    /\ IF store.job.id = e.id /\ store.job.st \notin {"done", "failed"}
       THEN Change([store EXCEPT !.job.st = e.st], e)
       ELSE UNCHANGED <<store, outbox>>
    /\ jobs' = (jobs \ {e}) \cup
               IF e.t = "status" THEN {Ends(e.id, IF e.id = 1 /\ budget["retry"] > 0 THEN "failed" ELSE "done")}
               ELSE {}

\* The breakout room is deleted: told, the rows, told again; or its code changes hands.
DeleteRoom ==
    /\ op = "idle" /\ "side" \in rooms /\ Spend("deleteRoom")
    /\ op' = "told" /\ outbox' = outbox \cup {[t |-> "room deleted", room |-> "side"]}
    /\ UNCHANGED <<store, rooms, granted, jobs, late, srv, up, down, ui, listed>>

DeleteRows ==
    /\ op = "told" /\ Told({"room deleted"})
    /\ op' = "idle" /\ rooms' = rooms \ {"side"}
    /\ store' = [store EXCEPT !.chat = {m \in @ : RoomOf[m] = "main"}, !.peer = IF @ = "side" THEN None ELSE @]
    /\ outbox' = outbox \cup {[t |-> "rooms", rooms |-> rooms']}
    /\ UNCHANGED <<granted, jobs, late, srv, up, down, ui, listed, budget>>

Lock ==
    /\ granted /\ srv.room # "side" /\ Spend("lock")
    /\ granted' = FALSE
    /\ UNCHANGED <<store, rooms, outbox, jobs, op, late, srv, up, down, ui, listed>>

EndSession ==
    /\ Spend("end") /\ outbox' = outbox \cup {[t |-> "ended"]}
    /\ UNCHANGED <<store, rooms, granted, jobs, op, late, srv, up, down, ui, listed>>

-----------------------------------------------------------------------------
Gateway == \/ HandleJoinSession \/ HandleJoinRoom \/ HandleChat \/ ReadSnapshot \/ SendSnapshot
           \/ \E e \in outbox : Publish(e)
Browser == \/ Receive \/ Open \/ OpenFails \/ Lost \/ Render
           \/ \E k \in Rooms, code \in BOOLEAN : Click(k, code)
           \/ \E m \in Msg : Speak(m)
Others == \/ \E m \in Msg : Write(m) \/ Erase(m)
          \/ \E k \in Rooms \cup {None} : PeerMoves(k)
          \/ Upload \/ Retry \/ Delete \/ \E e \in jobs : HandleJobEvent(e)
          \/ DeleteRoom \/ DeleteRows \/ Lock \/ EndSession

Next == Gateway \/ Browser \/ Others
Spec == Init /\ [][Next]_vars

-----------------------------------------------------------------------------
(* Properties.                                                             *)

TypeOK ==
    /\ store.chat \subseteq Msg /\ store.peer \in Rooms \cup {None}
    /\ rooms \subseteq Rooms /\ listed \subseteq Rooms
    /\ ui.status \in {"closed", "online", "offline"} /\ ui.attempt \in 0..MaxAttempts
    /\ ui.desired \in Rooms \cup {None} /\ ui.active \in Rooms \cup {None}
    /\ ui.synced => ui.loaded = ui.active /\ ui.held = <<>>
    /\ srv.at \in {"idle", "read", "send"} /\ srv.room \in Rooms \cup {None}

\* Nothing is on its way.
AtRest == /\ ui.status = "online" /\ up = <<>> /\ down = <<>> /\ outbox = {} /\ op = "idle"
          /\ srv.joined /\ srv.at = "idle" /\ listed = ui.rooms

\* At rest a synced browser shows its room as it is stored, whatever was
\* published before, during and after the snapshots it got, and however the
\* events of a job were reordered - unless a job's event overtook its
\* announcement, or the snapshot was an odd one.
SameAsStored == LET now == Contents(ui.active)
                IN  ui.shown.chat = now.chat /\ ui.shown.peer = now.peer /\ (ui.shown.job = now.job \/ late)
ShownIsStored == AtRest /\ ui.synced => SameAsStored \/ ui.odd

\* Nothing of another room is ever shown ("a mid-switch or mid-reconnect event
\* can never be applied to the wrong room").
OnlyOfThisRoom ==
    /\ \A m \in ui.shown.chat : RoomOf[m] = ui.active
    /\ ui.shown.job # NoJob => ui.active = "main"

\* At rest the browser shows the room that its socket is in, or was refused one
\* and shows that.
NotInLimbo == AtRest => (ui.synced => ui.active = srv.room) /\ (ui.synced \/ ui.refused)

\* What is shown of the latest run of a job never goes back, in whatever order the
\* replicas relay its updates and whatever was held for a snapshot; only the
\* announcement of the run, which brings its job along, puts it back.
Announced == \E e \in ToSet(down \o ui.held) : e.t \in {"uploaded", "updated"}
JobNeverBack ==
    [][LET was == ui.shown.job  now == ui'.shown.job
       IN  was.id = now.id /\ was # NoJob /\ store.job.id = was.id /\ ~Announced /\ ~ui'.odd
           => Stage(now.st) >= Stage(was.st)]_vars

\* What is shown is of the room one is in, never goes back, and comes to be
\* what is stored.
ShowsTheRoom == []TypeOK /\ []OnlyOfThisRoom /\ []ShownIsStored /\ JobNeverBack
=============================================================================
