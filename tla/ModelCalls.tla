----------------------------- MODULE ModelCalls -----------------------------
(***************************************************************************)
(* Calls to a language model for one task profile, whose daily budget all  *)
(* workers share through Redis (workers/common/budget.py), and the retries *)
(* of a call (complete and stream in llm.py).  The provider has a quota of *)
(* its own, counted in requests a day.  A day is a UTC day.                *)
(***************************************************************************)
EXTENDS Naturals, FiniteSets, FiniteSetsExt

CONSTANTS Call, Streamed,  \* the calls, and those made through stream()
          Cap,             \* limit(task)
          Retries,         \* LLM_MAX_RETRIES
          Quota,           \* requests a day the provider answers
          Days, MaxFaults

VARIABLES day,
          count,   \* the counter of each day in Redis
          calls,   \* where each call is, and its attempt
          sent,    \* requests the provider answered, a day
          let,     \* history: the calls counted and let through, a day
          marked,  \* history: the days a spent quota was noted on
          late,    \* history: the days that got the mark of the day before
          faults
vars == <<day, count, calls, sent, let, marked, late, faults>>

Steps == {"new", "sending", "quota", "done", "failed", "refused"}

TypeOK ==
    /\ day \in 1..Days
    /\ count \in [1..Days -> 0..(Cap + Cardinality(Call))]
    /\ calls \in [Call -> [step : Steps, attempt : 0..Retries, on : 1..Days]]
    /\ sent \in [1..Days -> 0..Quota]
    /\ let \in [1..Days -> SUBSET Call]
    /\ marked \subseteq 1..Days /\ late \subseteq 1..Days
    /\ faults \in 0..MaxFaults

Init ==
    /\ day = 1
    /\ count = [d \in 1..Days |-> 0]
    /\ calls = [c \in Call |-> [step |-> "new", attempt |-> 0, on |-> 1]]
    /\ sent = [d \in 1..Days |-> 0]
    /\ let = [d \in 1..Days |-> {}] /\ marked = {} /\ late = {} /\ faults = 0

-----------------------------------------------------------------------------
Goto(c, s) == calls' = [calls EXCEPT ![c].step = s, ![c].on = day]

(* spend: one INCR counts the call and says how many there were.             *)
(* Mutant: one call more than the budget is granted. *)
GrantedOneMore(n) == n <= Cap + 1
(* Mutant: the last call of the budget is refused. *)
GrantedOneLess(n) == n < Cap
Granted(n) == n <= Cap
Spend(c) ==
    /\ calls[c].step = "new"
    /\ count' = [count EXCEPT ![day] = @ + 1]
    /\ IF Granted(count'[day])
       THEN Goto(c, "sending") /\ let' = [let EXCEPT ![day] = @ \cup {c}]
       ELSE Goto(c, "refused") /\ UNCHANGED let
    /\ UNCHANGED <<day, sent, marked, late, faults>>

(* Redis does not answer: the call is not counted, and made all the same.    *)
SpendFails(c) ==
    /\ calls[c].step = "new" /\ faults < MaxFaults /\ faults' = faults + 1
    /\ Goto(c, "sending")
    /\ UNCHANGED <<day, count, sent, let, marked, late>>

(* The provider's answers.  What may go away is tried again, a spent quota   *)
(* is not; complete() notes it, stream() does not.                           *)
Answered(c) ==
    /\ calls[c].step = "sending" /\ sent[day] < Quota
    /\ sent' = [sent EXCEPT ![day] = @ + 1]
    /\ Goto(c, "done")
    /\ UNCHANGED <<day, count, let, marked, late, faults>>

(* Mutant: the last attempt is followed by another. *)
TriesAgainOnceMore(c) == calls[c].attempt <= Retries
TriesAgain(c) == calls[c].attempt < Retries
Overloaded(c) ==
    /\ calls[c].step = "sending"
    /\ calls' = IF TriesAgain(c) THEN [calls EXCEPT ![c].attempt = @ + 1] ELSE [calls EXCEPT ![c].step = "failed"]
    /\ UNCHANGED <<day, count, sent, let, marked, late, faults>>

QuotaSpent(c) ==
    /\ calls[c].step = "sending" /\ sent[day] = Quota
    /\ Goto(c, IF c \in Streamed THEN "failed" ELSE "quota")
    /\ UNCHANGED <<day, count, sent, let, marked, late, faults>>

(* mark_exhausted sets the counter of the day it is now.                     *)
(* Mutant: the mark only adds to the counter. *)
MarkedByOne == count[day] + 1
Marked == Cap
Note(c) ==
    /\ calls[c].step = "quota" /\ calls' = [calls EXCEPT ![c].step = "failed"]
    /\ count' = [count EXCEPT ![day] = Marked]
    /\ marked' = marked \cup {day}
    /\ late' = IF calls[c].on < day THEN late \cup {day} ELSE late
    /\ UNCHANGED <<day, sent, let, faults>>

NoteFails(c) ==
    /\ calls[c].step = "quota" /\ calls' = [calls EXCEPT ![c].step = "failed"]
    /\ faults < MaxFaults /\ faults' = faults + 1
    /\ UNCHANGED <<day, count, sent, let, marked, late>>

Midnight ==
    /\ day < Days /\ day' = day + 1
    /\ UNCHANGED <<count, calls, sent, let, marked, late, faults>>

Next ==
    \/ \E c \in Call : \/ Spend(c) \/ SpendFails(c) \/ Answered(c) \/ Overloaded(c)
                       \/ QuotaSpent(c) \/ Note(c) \/ NoteFails(c)
    \/ Midnight
Spec == Init /\ [][Next]_vars

-----------------------------------------------------------------------------
(* The counter a mark overwrites may be above or below what it is set to,    *)
(* and calls are counted while it is set: whatever the order, no day lets    *)
(* through more than its budget.                                             *)
WithinBudget == \A d \in 1..Days : Cardinality(let[d]) <= Cap

(* Once a spent quota is noted, no counted call goes through on that day.    *)
PauseHolds == \A d \in marked : let'[d] = let[d]

(* A call is refused only on a day that used its budget up or whose provider *)
(* said its quota was spent (the day before, for a mark made after midnight).*)
PausedForCause ==
    \A c \in Call : calls[c].step = "refused" =>
        LET d == calls[c].on IN Cardinality(let[d]) = Cap \/ sent[d] = Quota \/ d \in late
=============================================================================
