----------------------------- MODULE RateLimits -----------------------------
(***************************************************************************)
(* Counting limits in time: the sliding windows several replicas share     *)
(* through Redis (within in gateway/src/limits.ts, overLimit in            *)
(* ask/service.ts), the wrong session codes of an address, which are       *)
(* checked before and recorded after the session is looked up, and the     *)
(* token bucket of one socket (ws/rateLimit.ts).  Time is in seconds.      *)
(***************************************************************************)
EXTENDS Integers, FiniteSets, FiniteSetsExt, SequencesExt

CONSTANTS Caller,     \* requests that may be in one of two steps at a time
          Window, AtMost,
          Capacity, PerSecond,
          MaxTime, MaxEvents

VARIABLES now,
          events,    \* the sorted set of a window: the times of all attempts, refused ones too
          allowed,   \* history: the times of those let through
          asking,    \* callers that were refused and are about to read when to come back
          advice,    \* what the last one was told: the time to come back; and the attempts up to its own
          tries,     \* history: attempts made so far
          misses,    \* the sorted set of wrong codes
          looking,   \* callers past the check of a code, not yet recorded as a miss
          tokens, last, taken
vars == <<now, events, allowed, asking, advice, tries, misses, looking, tokens, last, taken>>
window == <<events, allowed, asking, advice, tries>>
codes == <<misses, looking>>
bucket == <<tokens, last, taken>>

Times == 0..MaxTime
NoAdvice == [at |-> 0, after |-> 0]

TypeOK ==
    /\ now \in Times
    /\ \A s \in {events, allowed, misses, taken} : \A i \in DOMAIN s : s[i] \in Times
    /\ \A c \in DOMAIN asking : c \in Caller /\ asking[c] \in [at : Times, count : 1..MaxEvents, tries : 1..MaxEvents]
    /\ advice \in [at : 0..(MaxTime + Window), after : 0..MaxEvents]
    /\ looking \subseteq Caller
    /\ tokens \in 0..Capacity /\ last \in Times /\ tries \in 0..MaxEvents

Init == /\ now = 0 /\ events = <<>> /\ allowed = <<>> /\ asking = <<>> /\ advice = NoAdvice /\ tries = 0
        /\ misses = <<>> /\ looking = {} /\ tokens = Capacity /\ last = 0 /\ taken = <<>>

Tick == now < MaxTime /\ now' = now + 1 /\ UNCHANGED <<window, codes, bucket>>

-----------------------------------------------------------------------------
(* One transaction drops what has left the window, adds the attempt, and     *)
(* counts; a refused one then reads the entry a retry has to wait for.       *)

(* Mutant: the window starts afresh every Window seconds. *)
KeptSinceTheHour(times) == SelectSeq(times, LAMBDA t : t >= now - (now % Window))
Kept(times) == SelectSeq(times, LAMBDA t : t > now - Window)

Attempt(c) ==
    /\ tries < MaxEvents /\ c \notin DOMAIN asking
    /\ events' = Append(Kept(events), now)
    /\ tries' = tries + 1
    /\ IF Len(events') <= AtMost
       THEN allowed' = Append(allowed, now) /\ UNCHANGED asking
       ELSE asking' = [d \in DOMAIN asking \cup {c} |-> IF d # c THEN asking[d]
                                                                ELSE [at |-> now, count |-> Len(events'), tries |-> tries']] /\ UNCHANGED allowed
    /\ UNCHANGED <<now, advice, codes, bucket>>

(* Mutant: the oldest attempt's leaving is waited for. *)
WaitsForOldest(count) == 1
WaitsFor(count) == count - AtMost + 1
(* The index was counted with the attempt; others may have been added and    *)
(* dropped by the time the entry at it is read.  The time told is at least a *)
(* second away.                                                              *)
Advise(c) ==
    /\ c \in DOMAIN asking
    /\ LET i == WaitsFor(asking[c].count)
           entry == IF i \in DOMAIN events THEN events[i] ELSE asking[c].at
       IN  advice' = [at |-> Max({asking[c].at + 1, entry + Window}), after |-> asking[c].tries]
    /\ asking' = [d \in DOMAIN asking \ {c} |-> asking[d]]
    /\ UNCHANGED <<now, events, allowed, tries, codes, bucket>>

-----------------------------------------------------------------------------
(* Session codes: the misses of the window are counted, the session is       *)
(* looked up, and if there is none the miss is recorded.                     *)
(* Mutant: what is being looked up is not stopped by the limit. *)
BlockedLater == Len(SelectSeq(misses, LAMBDA t : t >= now - Window)) > AtMost
Blocked == Len(SelectSeq(misses, LAMBDA t : t >= now - Window)) >= AtMost
Guess(c) ==
    /\ c \notin looking /\ ~Blocked
    /\ looking' = looking \cup {c}
    /\ UNCHANGED <<now, window, misses, bucket>>
Found(c) ==
    /\ c \in looking /\ looking' = looking \ {c}
    /\ UNCHANGED <<now, window, misses, bucket>>
Miss(c) ==
    /\ c \in looking /\ looking' = looking \ {c}
    /\ misses' = Append(Kept(misses), now)
    /\ UNCHANGED <<now, window, bucket>>

-----------------------------------------------------------------------------
(* A frame of cost 1.                                                        *)
(* Mutant: what a quiet socket saves up has no end. *)
RefilledWithoutEnd == tokens + (now - last) * PerSecond
Refilled == Min({Capacity, tokens + (now - last) * PerSecond})
Take ==
    /\ Len(taken) < MaxEvents
    /\ last' = now
    /\ IF Refilled < 1 THEN tokens' = Refilled /\ UNCHANGED taken
       ELSE tokens' = Refilled - 1 /\ taken' = Append(taken, now)
    /\ UNCHANGED <<now, window, codes>>

WindowNext == Tick \/ \E c \in Caller : Attempt(c) \/ Advise(c)
CodesNext == Tick \/ \E c \in Caller : Guess(c) \/ Found(c) \/ Miss(c)
BucketNext == Tick \/ Take

-----------------------------------------------------------------------------
In(times, from, to) == Cardinality({i \in DOMAIN times : times[i] \in from..to})

(* However attempts are spread, no stretch of the window's length sees more  *)
(* than the limit let through: not twice as many around an edge.             *)
NeverTwiceAtAnEdge == \A t \in Times : In(allowed, t, t + Window - 1) <= AtMost

(* Whoever was refused and comes back when told, nobody having tried in      *)
(* between, is let through.                                                  *)
RetryFits ==
    \A c \in Caller :
        /\ advice # NoAdvice /\ tries = advice.after /\ now >= advice.at
        /\ tries < tries'
        => Len(allowed') > Len(allowed)

(* An address gets no more wrong codes in a window than the limit, and those *)
(* that were being looked up when it was reached.                            *)
GuessesAreFew == \A t \in Times : In(misses, t, t + Window - 1) <= AtMost + Cardinality(Caller) - 1

(* A socket never gets through more than a full bucket and what dripped into *)
(* it since.                                                                 *)
BurstsAreBounded ==
    \A s, t \in Times : s <= t => In(taken, s, t) <= Capacity + (t - s) * PerSecond
=============================================================================
