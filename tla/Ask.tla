-------------------------------- MODULE Ask --------------------------------
(***************************************************************************)
(* "Ask the room": a question goes from a browser (useAsk.ts) over its     *)
(* socket to a gateway (ask/service.ts), which has a worker prepare it,    *)
(* ranks the room's passages, has a worker answer it (ask_tasks.py), and   *)
(* passes the pieces on.  Workers reply on a pub/sub channel per request.  *)
(* Each question is asked once, by a person of its own.  Time is left      *)
(* open: a wait may run out whenever nothing has come.                     *)
(***************************************************************************)
EXTENDS Naturals, SequencesExt

CONSTANTS Question,
          Pieces,     \* [Question -> Nat]: in how many pieces each answer is written
          MaxFaults

VARIABLES turns,     \* what the asker's browser shows of each question
          line,      \* events on their way to the asker's browser
          cut,       \* the socket a question was asked on has gone
          requests,  \* what the gateway is doing for each question
          mail,      \* per channel, replies its request has not taken
          tasks,     \* what a worker has to do, or is doing, for a question
          answers,   \* what the worker has written of each answer, and sent
          missed,    \* history: a reply to the question was lost on the way
          faults
vars == <<turns, line, cut, requests, mail, tasks, answers, missed, faults>>

Fallbacks == {"none", "rate_limited", "timeout", "failed", "no_evidence"}
Event(type, n, fallback) == [type |-> type, n |-> n, fallback |-> fallback]
Unasked == [status |-> "unasked", text |-> <<>>, fallback |-> "none"]
Cleared == [Unasked EXCEPT !.status = "cleared"]

TypeOK ==
    /\ \A q \in Question :
         /\ turns[q].status \in {"unasked", "searching", "answering", "done", "cleared"}
         /\ turns[q].fallback \in Fallbacks
         /\ Len(turns[q].text) <= Pieces[q]
         /\ tasks[q] \in {"none", "prepare", "answer"}
         /\ requests[q] \in {"none", "asked", "open", "preparing", "ranking", "answering", "ended"}
         /\ requests[q] \in {"none", "asked", "ended"} => mail[q] = <<>>
         /\ answers[q] \in 0..Pieces[q]
    /\ faults \in 0..MaxFaults

Init ==
    /\ turns = [q \in Question |-> Unasked]
    /\ line = [q \in Question |-> <<>>] /\ cut = [q \in Question |-> FALSE]
    /\ requests = [q \in Question |-> "none"]
    /\ mail = [q \in Question |-> <<>>]
    /\ tasks = [q \in Question |-> "none"] /\ answers = [q \in Question |-> 0]
    /\ missed = [q \in Question |-> FALSE] /\ faults = 0

-----------------------------------------------------------------------------
(* The browser.                                                              *)

AskIt(q) ==
    /\ turns[q] = Unasked
    /\ turns' = [turns EXCEPT ![q].status = "searching"]
    /\ requests' = [requests EXCEPT ![q] = "asked"]
    /\ UNCHANGED <<line, cut, mail, tasks, answers, missed, faults>>

(* What an event does to the turn; one that is not in the list any more      *)
(* (another room was opened) takes nothing.                                  *)
Took(turn, e) ==
    CASE turn = Cleared      -> turn
      [] e.type = "sources"  -> [turn EXCEPT !.status = "answering"]
      [] e.type = "delta"    -> [turn EXCEPT !.status = "answering", !.text = Append(@, e.n)]
      [] e.type = "done"     -> [turn EXCEPT !.status = "done", !.fallback = e.fallback]

Receive(q) ==
    /\ line[q] # <<>>
    /\ turns' = [turns EXCEPT ![q] = Took(@, Head(line[q]))]
    /\ line' = [line EXCEPT ![q] = Tail(@)]
    /\ UNCHANGED <<cut, requests, mail, tasks, answers, missed, faults>>

(* Mutant: only a question nothing has come for is given up on. *)
GivesUpSearching(turn) == turn.status = "searching"
GivesUp(turn) == turn.status \in {"searching", "answering"}
GiveUp(q) ==
    /\ GivesUp(turns[q])
    /\ turns' = [turns EXCEPT ![q].status = "done", ![q].fallback = "timeout"]
    /\ UNCHANGED <<line, cut, requests, mail, tasks, answers, missed, faults>>

(* Another room: its conversation starts empty.                              *)
LeaveRoom(q) ==
    /\ turns[q].status \notin {"unasked", "cleared"}
    /\ turns' = [turns EXCEPT ![q] = Cleared]
    /\ UNCHANGED <<line, cut, requests, mail, tasks, answers, missed, faults>>

-----------------------------------------------------------------------------
(* The gateway.  send() reaches the browser while the socket is the one the  *)
(* question came by.                                                         *)

Sent(q, e) == line' = IF cut[q] THEN line ELSE [line EXCEPT ![q] = Append(@, e)]
Step(q, s) == requests' = [requests EXCEPT ![q] = s]
(* The request ends, its channel is unsubscribed from, and this is the last  *)
(* that is sent for it.                                                      *)
(* Mutant: the channel is named by the id the browsers chose, which may be the same. *)
ChannelOfBrowser(q) == CHOOSE any \in Question : TRUE
Channel(q) == q
Done(q, fallback) ==
    /\ Step(q, "ended") /\ Sent(q, Event("done", 0, fallback))
    /\ mail' = [mail EXCEPT ![Channel(q)] = <<>>]

(* The socket has been moved to another room since: an error that says so,   *)
(* which no turn listens for.                                                *)
NotInRoom(q) ==
    /\ requests[q] = "asked" /\ Step(q, "ended")
    /\ UNCHANGED <<turns, line, cut, mail, tasks, answers, missed, faults>>

OverLimit(q) ==
    /\ requests[q] = "asked" /\ Done(q, "rate_limited")
    /\ UNCHANGED <<turns, cut, tasks, answers, missed, faults>>

(* Subscribed before any task is sent, so no reply can arrive unheard.       *)
Open(q) ==
    /\ requests[q] = "asked" /\ Step(q, "open")
    /\ UNCHANGED <<turns, line, cut, mail, tasks, answers, missed, faults>>

Prepare(q) ==
    /\ requests[q] = "open" /\ Step(q, "preparing")
    /\ tasks' = [tasks EXCEPT ![q] = "prepare"]
    /\ UNCHANGED <<turns, line, cut, mail, answers, missed, faults>>

Reply(q) == mail[Channel(q)][1]
Taken(q) == mail' = [mail EXCEPT ![Channel(q)] = Tail(@)]

Vectors(q) ==
    /\ requests[q] = "preparing" /\ mail[Channel(q)] # <<>>
    /\ IF Reply(q).type = "vectors" THEN Step(q, "ranking") /\ Taken(q) /\ UNCHANGED line
       ELSE Done(q, "failed")
    /\ UNCHANGED <<turns, cut, tasks, answers, missed, faults>>

NoEvidence(q) ==
    /\ requests[q] = "ranking" /\ Done(q, "no_evidence")
    /\ UNCHANGED <<turns, cut, tasks, answers, missed, faults>>

Sources(q) ==
    /\ requests[q] = "ranking" /\ Step(q, "answering")
    /\ Sent(q, Event("sources", 0, "none"))
    /\ tasks' = [tasks EXCEPT ![q] = "answer"]
    /\ UNCHANGED <<turns, cut, mail, answers, missed, faults>>

(* Mutant: the reply that ends an answer is passed on and the next one awaited. *)
OnReplyGoesOn(q) ==
    /\ requests[q] = "answering" /\ mail[Channel(q)] # <<>>
    /\ CASE Reply(q).type = "delta" -> Sent(q, Event("delta", Reply(q).n, "none"))
         [] Reply(q).type = "done"  -> Sent(q, Event("done", 0, "none"))
         [] Reply(q).type = "error" -> Sent(q, Event("done", 0, "failed"))
         [] OTHER -> UNCHANGED line
    /\ Taken(q) /\ UNCHANGED requests
    /\ UNCHANGED <<turns, cut, tasks, answers, missed, faults>>
OnReply(q) ==
    /\ requests[q] = "answering" /\ mail[Channel(q)] # <<>>
    /\ CASE Reply(q).type = "delta" -> Sent(q, Event("delta", Reply(q).n, "none")) /\ Taken(q) /\ UNCHANGED requests
         [] Reply(q).type = "done"  -> Done(q, "none")
         [] Reply(q).type = "error" -> Done(q, "failed")
         [] OTHER -> Taken(q) /\ UNCHANGED <<requests, line>>
    /\ UNCHANGED <<turns, cut, tasks, answers, missed, faults>>

(* The vectors, the first words, or the rest of the answer do not come in    *)
(* time.                                                                     *)
Timeout(q) ==
    /\ requests[q] \in {"preparing", "answering"} /\ mail[Channel(q)] = <<>>
    /\ Done(q, "timeout")
    /\ UNCHANGED <<turns, cut, tasks, answers, missed, faults>>

(* An await of the request throws: server.ts says so.                        *)
RequestFails(q) ==
    /\ requests[q] \in {"asked", "open", "ranking"} /\ faults < MaxFaults /\ faults' = faults + 1
    /\ Done(q, "failed")
    /\ UNCHANGED <<turns, cut, tasks, answers, missed>>

-----------------------------------------------------------------------------
(* The worker.  What it publishes is lost on whoever does not listen.        *)

Listening(q) == requests[q] \in {"open", "preparing", "ranking", "answering"}
Publish(q, type, n) ==
    mail' = IF Listening(q) THEN [mail EXCEPT ![Channel(q)] = Append(@, [type |-> type, n |-> n])] ELSE mail

DoPrepare(q, type) ==
    /\ tasks[q] = "prepare" /\ tasks' = [tasks EXCEPT ![q] = "none"]
    /\ Publish(q, type, 0)
    /\ UNCHANGED <<turns, line, cut, requests, answers, missed, faults>>

Write(q) ==
    /\ tasks[q] = "answer" /\ answers[q] < Pieces[q]
    /\ answers' = [answers EXCEPT ![q] = @ + 1]
    /\ Publish(q, "delta", answers[q] + 1)
    /\ UNCHANGED <<turns, line, cut, requests, tasks, missed, faults>>

(* Mutant: an answer that breaks off is reported as done. *)
EndsAnyhow(q, type) == answers[q] <= Pieces[q]
Ends(q, type) == type = "done" => answers[q] = Pieces[q]
EndAnswer(q, type) ==
    /\ tasks[q] = "answer" /\ Ends(q, type)
    /\ tasks' = [tasks EXCEPT ![q] = "none"]
    /\ Publish(q, type, 0)
    /\ UNCHANGED <<turns, line, cut, requests, answers, missed, faults>>

-----------------------------------------------------------------------------
(* Faults.                                                                   *)

(* A worker that dies takes its task with it: acks_late is off.              *)
WorkerDies(q) ==
    /\ tasks[q] # "none" /\ faults < MaxFaults /\ faults' = faults + 1
    /\ tasks' = [tasks EXCEPT ![q] = "none"]
    /\ UNCHANGED <<turns, line, cut, requests, mail, answers, missed>>

(* The browser's socket drops; the next one is not this question's.          *)
SocketDrops(q) ==
    /\ ~cut[q] /\ faults < MaxFaults /\ faults' = faults + 1
    /\ requests[q] # "none"
    /\ cut' = [cut EXCEPT ![q] = TRUE] /\ line' = [line EXCEPT ![q] = <<>>]
    /\ requests' = [requests EXCEPT ![q] = IF @ = "asked" THEN "ended" ELSE @]
    /\ UNCHANGED <<turns, mail, tasks, answers, missed>>

GatewayCrashes ==
    /\ faults < MaxFaults /\ faults' = faults + 1
    /\ requests' = [q \in Question |-> IF requests[q] = "none" THEN "none" ELSE "ended"]
    /\ cut' = [q \in Question |-> requests[q] # "none"]
    /\ line' = [q \in Question |-> <<>>] /\ mail' = [q \in Question |-> <<>>]
    /\ UNCHANGED <<turns, tasks, answers, missed>>

(* The gateway's subscriber reconnects: what was published meanwhile is gone. *)
ReplyLost(q) ==
    /\ mail[Channel(q)] # <<>> /\ faults < MaxFaults /\ faults' = faults + 1
    /\ mail' = [mail EXCEPT ![Channel(q)] = Front(@)]
    /\ missed' = [missed EXCEPT ![q] = TRUE]
    /\ UNCHANGED <<turns, line, cut, requests, tasks, answers>>

Browser(q) == Receive(q)
Gateway(q) == \/ NotInRoom(q) \/ OverLimit(q) \/ Open(q) \/ Prepare(q) \/ Vectors(q) \/ NoEvidence(q) \/ Sources(q)
              \/ OnReply(q) \/ Timeout(q)
Worker(q) == \/ \E type \in {"vectors", "error"} : DoPrepare(q, type)
             \/ Write(q) \/ \E type \in {"done", "error"} : EndAnswer(q, type)
Faults(q) == RequestFails(q) \/ WorkerDies(q) \/ SocketDrops(q) \/ ReplyLost(q)

Next == \/ GatewayCrashes
        \/ \E q \in Question : \/ AskIt(q) \/ LeaveRoom(q) \/ Browser(q) \/ GiveUp(q)
                               \/ Gateway(q) \/ Worker(q) \/ Faults(q)

(* The browser's interval runs, frames arrive, and every wait of the gateway *)
(* has a timeout.  Of the workers nothing is assumed.                        *)
Fairness == \A q \in Question : WF_vars(Browser(q)) /\ WF_vars(GiveUp(q)) /\ WF_vars(Gateway(q))
Spec == Init /\ [][Next]_vars /\ Fairness

-----------------------------------------------------------------------------
(* An answer shown as finished, with no note that it broke off, is the whole *)
(* answer to that question as its worker wrote it, in order, whatever the    *)
(* other questions' workers were sending; except where pub/sub lost a reply. *)
WholeAnswer ==
    \A q \in Question : turns[q].status = "done" /\ turns[q].fallback = "none" /\ ~missed[q] =>
                            turns[q].text = [i \in 1..Pieces[q] |-> i]

(* ask_done is the last word: a turn it ended without a note is not reopened *)
(* or marked as failed later (only leaving the room clears it).              *)
AnswerStays ==
    \A q \in Question : turns[q].status = "done" /\ turns[q].fallback = "none" => turns'[q] \in {turns[q], Cleared}

(* No question spins for ever, whatever happens to the socket, the gateway,  *)
(* the workers or their replies: in the end every turn is done, and stays.   *)
EndsForGood == <>[](\A q \in Question : turns[q].status \in {"unasked", "done", "cleared"})
=============================================================================
