---------------------------- MODULE MCFairQueue ----------------------------
(***************************************************************************)
(* FairQueue on small instances, and fair order defined a second way: one  *)
(* job after the other, each time of a session that has the fewest.        *)
(***************************************************************************)
EXTENDS FairQueue, TLC

Symmetry == Permutations(Sessions) \cup Permutations(Replicas)

\* The oldest waiting job of a session with the least in flight, of those the
\* session served longest ago, of those the oldest; then the rest, the session
\* having one more in flight.
RECURSIVE TurnByTurn(_, _)
TurnByTurn(waiting, flight) ==
  IF waiting = {} THEN <<>>
  ELSE LET has    == {s \in Sessions : \E j \in waiting : owner[j] = s}
           fewest == {s \in has : \A t \in has : flight[s] <= flight[t]}
           stale  == {s \in fewest : \A t \in fewest : LastServed[s] <= LastServed[t]}
           heads  == {j \in waiting : owner[j] \in stale}
           next   == CHOOSE j \in heads : \A k \in heads : j <= k
       IN <<next>> \o TurnByTurn(waiting \ {next}, [flight EXCEPT ![owner[next]] = @ + 1])

\* fair.ts:8-12: sorting by turn is the same as serving the sessions one job at
\* a time, for all the waiting jobs and histories a run reaches.
FairOrderTakesTurns ==
  FairOrder(Waiting, InFlight, LastServed) = TurnByTurn(Waiting, InFlight)
=============================================================================
