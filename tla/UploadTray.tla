----------------------------- MODULE UploadTray -----------------------------
(***************************************************************************)
(* The tray of one person's browser in which files and texts wait to be    *)
(* added to a room (features/upload/AddMedia.tsx): each is identified, gets *)
(* a recommended strategy (lib/recommend.ts) from the list the workers      *)
(* advertise, and is uploaded once the person clicks.  All items here are   *)
(* of the kind "text": short or long, typed in or read from a file.         *)
(***************************************************************************)
EXTENDS Naturals, Sequences, FiniteSets, SequencesExt

CONSTANTS File, Text,     \* the items
          Strategy,       \* in the order the list has them
          Default, None,
          Lists,          \* the lists the gateway may answer with
          Concurrency, MaxLoads, MaxEdits, MaxFaults

VARIABLES items, strategies,
          loads,      \* requests for the list
          closures,   \* the list each file's detection was started with
          queue,      \* what was pending when the person clicked
          sending,    \* what each worker of that click is uploading
          busy, edits, faults
vars == <<items, strategies, loads, closures, queue, sending, busy, edits, faults>>

Item == File \cup Text
Names == Range(Strategy)
Lengths == {"empty", "short", "long"}
Sent == Range(sending) \ {None}
Absent == [there |-> FALSE, detected |-> None, choice |-> None, chosen |-> FALSE, status |-> "ready"]
NoList == [s \in Names |-> "absent"]

TypeOK ==
    /\ items \in [Item -> [there : BOOLEAN, detected : Lengths \cup {"problem", None},
                           choice : Names \cup {None}, chosen : BOOLEAN,
                           status : {"ready", "uploading", "added", "failed"}]]
    /\ \A i \in Item : items[i].there /\ items[i].choice # None => items[i].detected \in Lengths
    /\ strategies \in Lists \cup {NoList} /\ loads \in 0..MaxLoads
    /\ closures \in [File -> Lists \cup {NoList, None}]
    /\ queue # <<>> \/ Sent # {} => busy
    /\ busy \in BOOLEAN /\ edits \in 0..MaxEdits /\ faults \in 0..MaxFaults

Init ==
    /\ items = [i \in Item |-> Absent]
    /\ strategies = NoList /\ loads = 1
    /\ closures = [f \in File |-> None]
    /\ queue = <<>> /\ sending = [w \in 1..Concurrency |-> None] /\ busy = FALSE /\ edits = 0 /\ faults = 0

-----------------------------------------------------------------------------
\* recommend.ts: the length decides where it can, then the default, then the
\* first that runs; only strategies with a plain name are proposed.

Intents == {"summarise", "rewrite", "rulebased"}
Up(list) == SelectSeq(Strategy, LAMBDA s : list[s] = "up")
Fitting(detected) == IF detected = "long" THEN "summarise" ELSE "rewrite"
Preferred(detected, list) ==
    IF Contains(Up(list), Fitting(detected)) THEN Fitting(detected)
    ELSE IF Contains(Up(list), Default) THEN Default
    ELSE IF Up(list) # <<>> THEN Head(Up(list)) ELSE None
Recommended(detected, list) ==
    IF detected \in Lengths /\ Preferred(detected, list) \in Intents THEN Preferred(detected, list) ELSE None

-----------------------------------------------------------------------------
\* The list: asked for when the tray opens and when files are added.

(* Mutant: what the person chose follows the list as well. *)
FollowsAlways(i) == items[i].status = "ready"
Follows(i) == ~items[i].chosen /\ items[i].status = "ready"
Receive(list) ==
    /\ list \in Lists /\ loads > 0 /\ loads' = loads - 1
    /\ strategies' = list
    /\ items' = [i \in Item |-> IF items[i].there /\ Follows(i)
                                THEN [items[i] EXCEPT !.choice = Recommended(items[i].detected, list)] ELSE items[i]]
    /\ UNCHANGED <<closures, queue, sending, busy, edits, faults>>
LoadFails ==
    /\ loads > 0 /\ loads' = loads - 1
    /\ faults < MaxFaults /\ faults' = faults + 1
    /\ UNCHANGED <<items, strategies, closures, queue, sending, busy, edits>>

-----------------------------------------------------------------------------
\* The person adds, edits, chooses and removes; nothing that is on its way or
\* has arrived can be touched.

Waits == queue # <<>> /\ None \in Range(sending)
(* The first uploads start within the click itself.                          *)
Edits == ~Waits /\ edits < MaxEdits /\ edits' = edits + 1
New(i) == ~items[i].there /\ \A u \in Sent \cup Range(queue) : u.item # i
Unlocked(i) == items[i].there /\ items[i].status \notin {"uploading", "added"}
NewItem(detected) ==
    [there |-> TRUE, detected |-> detected, choice |-> Recommended(detected, strategies), chosen |-> FALSE, status |-> "ready"]

AddFile(f) ==
    /\ New(f) /\ closures[f] = None /\ Edits
    /\ items' = [items EXCEPT ![f] = NewItem(None)]
    /\ closures' = [closures EXCEPT ![f] = strategies]
    /\ loads' = IF loads < MaxLoads THEN loads + 1 ELSE loads
    /\ UNCHANGED <<strategies, queue, sending, busy, faults>>
(* The detection ends, with what was proposed when the file was added.       *)
Detected(f, found) ==
    /\ closures[f] # None
    /\ items' = IF items[f].there
                THEN [items EXCEPT ![f].detected = found, ![f].choice = Recommended(found, closures[f])] ELSE items
    /\ closures' = [closures EXCEPT ![f] = None]
    /\ UNCHANGED <<strategies, loads, queue, sending, busy, edits, faults>>

AddText(x, length) ==
    /\ New(x) /\ Edits
    /\ items' = [items EXCEPT ![x] = NewItem(length)]
    /\ UNCHANGED <<strategies, loads, closures, queue, sending, busy, faults>>
(* Mutant: a text keeps its recommendation while it is written. *)
RetypedAsFirst(x, length) == items[x].choice
Retyped(x, length) == IF items[x].chosen THEN items[x].choice ELSE Recommended(length, strategies)
SetText(x, length) ==
    /\ Unlocked(x) /\ length # items[x].detected /\ Edits
    /\ items' = [items EXCEPT ![x].detected = length, ![x].choice = Retyped(x, length)]
    /\ UNCHANGED <<strategies, loads, closures, queue, sending, busy, faults>>

Choose(i, s) ==
    /\ Unlocked(i) /\ items[i].detected \in Lengths /\ strategies[s] = "up" /\ Edits
    /\ items[i].choice # s
    /\ items' = [items EXCEPT ![i].choice = s, ![i].chosen = TRUE]
    /\ UNCHANGED <<strategies, loads, closures, queue, sending, busy, faults>>
TakeOut(i) ==
    /\ Unlocked(i) /\ Edits
    /\ items' = [items EXCEPT ![i] = Absent]
    /\ UNCHANGED <<strategies, loads, closures, queue, sending, busy, faults>>
Clear ==
    /\ ~busy /\ (\E i \in Item : items[i].there) /\ Edits
    /\ items' = [i \in Item |-> IF items[i].status = "uploading" THEN items[i] ELSE Absent]
    /\ UNCHANGED <<strategies, loads, closures, queue, sending, busy, faults>>

-----------------------------------------------------------------------------
\* One click uploads what was pending at that moment, two at a time.

Pending(i) ==
    /\ items[i].there /\ items[i].status # "added" /\ items[i].choice # None
    /\ items[i].detected \in Lengths /\ (i \in Text => items[i].detected # "empty")
Detecting == \E i \in Item : items[i].there /\ items[i].detected = None
(* Mutant: one can click again while uploads are going on. *)
CanSubmitAgain == ~Detecting /\ \E i \in Item : Pending(i)
CanSubmit == ~busy /\ ~Detecting /\ \E i \in Item : Pending(i)
Captured(i) == [item |-> i, text |-> items[i].detected, choice |-> items[i].choice]

Submit ==
    /\ CanSubmit /\ Edits
    /\ busy' = TRUE
    /\ queue' = queue \o SetToSeq({Captured(i) : i \in {j \in Item : Pending(j)}})
    /\ UNCHANGED <<items, strategies, loads, closures, sending, faults>>

(* update: an item that is no longer there stays away.                       *)
Updated(i, status) == items' = IF items[i].there THEN [items EXCEPT ![i].status = status] ELSE items
Take(w) ==
    /\ queue # <<>> /\ sending[w] = None
    /\ sending' = [sending EXCEPT ![w] = Head(queue)] /\ queue' = Tail(queue)
    /\ Updated(Head(queue).item, "uploading")
    /\ UNCHANGED <<strategies, loads, closures, busy, edits, faults>>

Ends(w, status) ==
    /\ sending[w] # None
    /\ sending' = [sending EXCEPT ![w] = None] /\ Updated(sending[w].item, status)
Arrives(w) ==
    /\ Ends(w, "added")
    /\ UNCHANGED <<strategies, loads, closures, queue, busy, edits, faults>>
Fails(w) ==
    /\ faults < MaxFaults /\ faults' = faults + 1
    /\ Ends(w, "failed")
    /\ UNCHANGED <<strategies, loads, closures, queue, busy, edits>>
(* Mutant: the wait ends with the first worker that finds the queue empty. *)
EveryWorkerFirst == queue = <<>>
(* Mutant: an upload that fails is not caught, and the wait never ends. *)
EveryWorkerUncaught == queue = <<>> /\ Sent = {} /\ \A i \in Item : items[i].status # "failed"
EveryWorker == queue = <<>> /\ Sent = {}
AllSent ==
    /\ busy /\ EveryWorker
    /\ busy' = FALSE
    /\ UNCHANGED <<items, strategies, loads, closures, queue, sending, edits, faults>>
(* An item that went up leaves after a moment.                               *)
Confirmed(i) ==
    /\ items[i].status = "added"
    /\ items' = [items EXCEPT ![i] = Absent]
    /\ UNCHANGED <<strategies, loads, closures, queue, sending, busy, edits, faults>>

Person ==
    \/ \E f \in File : AddFile(f)
    \/ \E x \in Text, length \in {"empty", "long"} : AddText(x, length)
    \/ \E x \in Text, length \in Lengths : SetText(x, length)
    \/ \E i \in Item : TakeOut(i) \/ (\E s \in Names : Choose(i, s))
    \/ Clear \/ Submit
Workers == (\E w \in 1..Concurrency : Take(w) \/ Arrives(w) \/ Fails(w)) \/ AllSent
Browser ==
    \/ (\E list \in Lists : Receive(list)) \/ LoadFails
    \/ \E f \in File, found \in {"short", "problem"} : Detected(f, found)
    \/ \E i \in Item : Confirmed(i)
Next == Person \/ Workers \/ Browser

(* Requests are answered, timers run; nobody has to click.                   *)
Fairness == WF_vars(Workers) /\ \A i \in Item : WF_vars(Confirmed(i))
Spec == Init /\ [][Next]_vars /\ Fairness

-----------------------------------------------------------------------------
(* Of a text nobody chose a strategy for, what is proposed is what the list  *)
(* as it is now recommends for the text as it is now: whichever changed last.*)
TextFollowsList ==
    \A x \in Text : items[x].there /\ Follows(x) => items[x].choice = Recommended(items[x].detected, strategies)

(* A strategy the person chose stays until they choose another: lists that   *)
(* arrive, texts that grow and detections that end leave it.                 *)
ChoiceStays ==
    \A i \in Item : items[i].chosen /\ items'[i].there => items'[i].chosen /\
       (items'[i].choice # items[i].choice => strategies[items'[i].choice] = "up" /\ edits' # edits
                                              /\ items'[i].detected = items[i].detected)

(* No item is uploaded twice by one click or two: not while it is going up   *)
(* or waiting to, and not once it was added.                                 *)
SentOnce ==
    /\ \A w \in 1..Concurrency, i \in Item :
          sending[w] # None /\ sending[w].item = i =>
             /\ \A v \in 1..Concurrency : sending[v] # None /\ sending[v].item = i => v = w
             /\ \A u \in Range(queue) : u.item # i
    /\ \A u \in Range(queue) : items[u.item].status # "added"

(* A click ends: whatever fails, the tray can be used again.                 *)
ClickEnds == busy ~> ~busy
=============================================================================
