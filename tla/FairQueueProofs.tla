--------------------------- MODULE FairQueueProofs ---------------------------
(***************************************************************************)
(* Proofs about FairQueue, for any number of sessions, jobs and replicas   *)
(* and any clock: fair order is an order, sessions take turns, and while   *)
(* one replica dispatches nobody is passed twice by the same session.      *)
(***************************************************************************)
EXTENDS FairQueue, FiniteSetTheorems, SequenceTheorems, TLAPS

-----------------------------------------------------------------------------
(* Ranks.                                                                  *)

\* R is a strict total order on S.
Ordered(S, R) ==
  /\ \A a \in S : <<a, a>> \notin R
  /\ \A a, b, c \in S : <<a, b>> \in R /\ <<b, c>> \in R => <<a, c>> \in R
  /\ \A a, b \in S : a = b \/ <<a, b>> \in R \/ <<b, a>> \in R

Ranks(S, R) == [x \in S |-> Cardinality({y \in S : <<y, x>> \in R})]

\* The ranks grow along the order, and each up to the size of S is taken.
Numbered(S, R) ==
  /\ Cardinality(S) \in Nat
  /\ \A a \in S : Ranks(S, R)[a] \in 0 .. Cardinality(S) - 1
  /\ \A a, b \in S : Ranks(S, R)[a] < Ranks(S, R)[b] <=> <<a, b>> \in R
  /\ \A n \in 0 .. Cardinality(S) - 1 : \E a \in S : Ranks(S, R)[a] = n

\* Counting what comes before numbers the elements of a finite set in a strict
\* total order from 0.
LEMMA RanksInOrder ==
  ASSUME NEW S, IsFiniteSet(S), NEW R, Ordered(S, R)
  PROVE  Numbered(S, R)
  <1>a. PICK rank : rank = [x \in S |-> Cardinality({y \in S : <<y, x>> \in R})]
    OBVIOUS
  <1>b. PICK N : N = Cardinality(S)
    OBVIOUS
  <1>c. /\ \A a \in S : <<a, a>> \notin R
        /\ \A a, b, c \in S : <<a, b>> \in R /\ <<b, c>> \in R => <<a, c>> \in R
        /\ \A a, b \in S : a = b \/ <<a, b>> \in R \/ <<b, a>> \in R
    BY DEF Ordered
  <1> DEFINE below(x) == {y \in S : <<y, x>> \in R}
  <1>1. N \in Nat
    BY <1>b, FS_CardinalityType
  <1>2. \A a \in S : IsFiniteSet(below(a)) /\ rank[a] \in Nat /\ rank[a] = Cardinality(below(a))
    <2> SUFFICES ASSUME NEW a \in S
                 PROVE  IsFiniteSet(below(a)) /\ rank[a] \in Nat /\ rank[a] = Cardinality(below(a))
      OBVIOUS
    <2>1. IsFiniteSet(below(a))
      BY FS_Subset
    <2>2. rank[a] = Cardinality(below(a))
      BY <1>a
    <2> HIDE DEF below
    <2> QED
      BY <2>1, <2>2, FS_CardinalityType
  <1>3. \A a \in S : rank[a] < N
    <2> SUFFICES ASSUME NEW a \in S PROVE rank[a] < N
      OBVIOUS
    <2>1. below(a) \in SUBSET (S \ {a})
      BY <1>c
    <2> HIDE DEF below
    <2>2. IsFiniteSet(S \ {a}) /\ Cardinality(S \ {a}) = N - 1
      BY <1>b, FS_RemoveElement
    <2>3. Cardinality(below(a)) <= Cardinality(S \ {a})
      BY <2>1, <2>2, FS_Subset
    <2> QED
      BY <1>1, <1>2, <2>2, <2>3
  <1>4. ASSUME NEW a \in S, NEW b \in S, <<a, b>> \in R PROVE rank[a] < rank[b]
    <2>1. below(a) \in SUBSET (below(b) \ {a}) /\ a \in below(b)
      BY <1>4, <1>c
    <2> HIDE DEF below
    <2>2. IsFiniteSet(below(b) \ {a}) /\ Cardinality(below(b) \ {a}) = Cardinality(below(b)) - 1
      BY <1>2, <2>1, FS_RemoveElement
    <2>3. Cardinality(below(a)) <= Cardinality(below(b) \ {a})
      BY <2>1, <2>2, FS_Subset
    <2> QED
      BY <1>2, <2>2, <2>3
  <1> HIDE DEF below
  <1>5. \A a, b \in S : /\ rank[a] < rank[b] <=> <<a, b>> \in R
                        /\ rank[a] = rank[b] => a = b
    <2> SUFFICES ASSUME NEW a \in S, NEW b \in S
                 PROVE  /\ rank[a] < rank[b] <=> <<a, b>> \in R
                        /\ rank[a] = rank[b] => a = b
      OBVIOUS
    <2>1. rank[a] \in Nat /\ rank[b] \in Nat
      BY <1>2
    <2>2. a = b \/ <<a, b>> \in R \/ <<b, a>> \in R
      BY <1>c
    <2>3. (<<a, b>> \in R => rank[a] < rank[b]) /\ (<<b, a>> \in R => rank[b] < rank[a])
      BY <1>4
    <2> QED
      BY <2>1, <2>2, <2>3
  <1>6. \A a \in S : rank[a] \in 0 .. N - 1
    <2> SUFFICES ASSUME NEW a \in S PROVE rank[a] \in 0 .. N - 1
      OBVIOUS
    <2>1. rank[a] \in Nat /\ rank[a] < N
      BY <1>2, <1>3
    <2> QED
      BY <1>1, <2>1
  <1>7. \A n \in 0 .. N - 1 : \E a \in S : rank[a] = n
    <2>1. IsFiniteSet(0 .. N - 1) /\ Cardinality(0 .. N - 1) = N
      <3>0. 0 \in Int /\ N - 1 \in Int
        BY <1>1
      <3>1. IsFiniteSet(0 .. N - 1) /\ Cardinality(0 .. N - 1) = IF 0 > N - 1 THEN 0 ELSE N - 1 - 0 + 1
        BY <3>0, FS_Interval, Zenon
      <3> QED
        BY <1>1, <3>1
    <2>2. rank \in [S -> 0 .. N - 1]
      BY <1>a, <1>6
    <2>3. rank \in Injection(S, 0 .. N - 1)
      BY <1>5, <2>2 DEF Injection, IsInjective
    <2>4. rank \in Surjection(S, 0 .. N - 1)
      BY <1>b, <2>1, <2>3, FS_Injection
    <2> QED
      BY <2>4 DEF Surjection
  <1> QED
    BY <1>a, <1>b, <1>1, <1>5, <1>6, <1>7 DEF Ranks, Numbered

\* An order of a finite set that is not empty has a first element.
LEMMA FirstExists ==
  ASSUME NEW S, IsFiniteSet(S), S # {}, NEW R, Ordered(S, R)
  PROVE  \E a \in S : \A b \in S : b = a \/ <<a, b>> \in R
  <1>1. PICK rank : rank = Ranks(S, R)
    OBVIOUS
  <1>2. PICK N : N = Cardinality(S)
    OBVIOUS
  <1>3. Numbered(S, R)
    BY RanksInOrder
  <1>4. /\ N \in Nat
        /\ \A a \in S : rank[a] \in 0 .. N - 1
        /\ \A a, b \in S : rank[a] < rank[b] <=> <<a, b>> \in R
        /\ \A n \in 0 .. N - 1 : \E a \in S : rank[a] = n
    BY <1>1, <1>2, <1>3 DEF Numbered
  <1>5. PICK s \in S : TRUE
    OBVIOUS
  <1>6. 0 \in 0 .. N - 1
    BY <1>4, <1>5
  <1>7. PICK a \in S : rank[a] = 0
    BY <1>4, <1>6
  <1>8. ASSUME NEW b \in S PROVE b = a \/ <<a, b>> \in R
    <2>1. rank[b] \in 0 .. N - 1
      BY <1>4
    <2>2. ~(<<b, a>> \in R)
      BY <1>4, <1>7, <2>1
    <2> QED
      BY <2>2 DEF Ordered
  <1> QED
    BY <1>8

\* A finite set of numbers that is not empty has a least and a greatest one.
LEMMA LeastExists ==
  ASSUME NEW S \in SUBSET Nat, IsFiniteSet(S), S # {}
  PROVE  \E t \in S : \A u \in S : t <= u
  <1>1. PICK R : R = {p \in S \X S : p[1] < p[2]}
    OBVIOUS
  <1>2. \A a, b \in S : <<a, b>> \in R <=> a < b
    BY <1>1
  <1>3. Ordered(S, R)
    <2>1. \A a, b \in Nat : ~(a < a) /\ (a = b \/ a < b \/ b < a)
      OBVIOUS
    <2>2. \A a, b, c \in Nat : a < b /\ b < c => a < c
      OBVIOUS
    <2> QED
      BY <1>2, <2>1, <2>2 DEF Ordered
  <1>4. PICK t \in S : \A u \in S : u = t \/ <<t, u>> \in R
    BY <1>3, FirstExists
  <1>5. ASSUME NEW u \in S PROVE t <= u
    <2>1. u = t \/ t < u
      BY <1>2, <1>4
    <2>2. t \in Nat /\ u \in Nat
      OBVIOUS
    <2> QED
      BY <2>1, <2>2
  <1> QED
    BY <1>5

\* A finite set of numbers has a greatest element.
LEMMA GreatestExists ==
  ASSUME NEW S \in SUBSET Nat, IsFiniteSet(S), S # {}
  PROVE  \E t \in S : \A u \in S : u <= t
  <1>1. PICK R : R = {p \in S \X S : p[2] < p[1]}
    OBVIOUS
  <1>2. \A a, b \in S : <<a, b>> \in R <=> b < a
    BY <1>1
  <1>3. Ordered(S, R)
    <2>1. \A a, b \in Nat : ~(a < a) /\ (a = b \/ a < b \/ b < a)
      OBVIOUS
    <2>2. \A a, b, c \in Nat : b < a /\ c < b => c < a
      OBVIOUS
    <2> QED
      BY <1>2, <2>1, <2>2 DEF Ordered
  <1>4. PICK t \in S : \A u \in S : u = t \/ <<t, u>> \in R
    BY <1>3, FirstExists
  <1>5. ASSUME NEW u \in S PROVE u <= t
    <2>1. u = t \/ u < t
      BY <1>2, <1>4
    <2>2. t \in Nat /\ u \in Nat
      OBVIOUS
    <2> QED
      BY <2>1, <2>2
  <1> QED
    BY <1>5

-----------------------------------------------------------------------------
(* fairOrder.                                                              *)

\* The jobs and figures the dispatcher and the view sort by.
Sortable(waiting, flight, served) ==
  /\ waiting \in SUBSET Jobs
  /\ \A j \in waiting : owner[j] \in Sessions
  /\ flight \in [Sessions -> Nat]
  /\ served \in [Sessions -> Nat]

\* The turn a job is: what its session has in flight, and its place among the
\* session's own.
Turn(j, waiting, flight) ==
  flight[owner[j]] + Cardinality({k \in waiting : owner[k] = owner[j] /\ k <= j})

\* There are finitely many jobs.
LEMMA JobsFinite == IsFiniteSet(Jobs) /\ \A S \in SUBSET Jobs : IsFiniteSet(S) /\ Cardinality(S) \in Nat
  <1>1. IsFiniteSet(Jobs)
    <2>1. 1 \in Int /\ MaxJobs \in Int
      BY MaxJobsAssumption
    <2>2. IsFiniteSet(1 .. MaxJobs)
      BY <2>1, FS_Interval, Zenon
    <2> QED
      BY <2>2 DEF Jobs
  <1> QED
    BY <1>1, FS_Subset, FS_CardinalityType

\* Before spelt with turns.
LEMMA BeforeMeans ==
  ASSUME NEW waiting, NEW flight, NEW served, NEW a, NEW b
  PROVE  Before(a, b, waiting, flight, served) <=>
           \/ Turn(a, waiting, flight) < Turn(b, waiting, flight)
           \/ /\ Turn(a, waiting, flight) = Turn(b, waiting, flight)
              /\ served[owner[a]] < served[owner[b]]
           \/ /\ Turn(a, waiting, flight) = Turn(b, waiting, flight)
              /\ served[owner[a]] = served[owner[b]]
              /\ a < b
  BY DEF Before, Turn

\* A turn is a number.
LEMMA TurnIsNat ==
  ASSUME NEW waiting, NEW flight, NEW served, Sortable(waiting, flight, served), NEW j \in waiting
  PROVE  Turn(j, waiting, flight) \in Nat
  <1>1. PICK mine : mine = {k \in waiting : owner[k] = owner[j] /\ k <= j}
    OBVIOUS
  <1>2. mine \in SUBSET Jobs
    BY <1>1 DEF Sortable
  <1>3. Cardinality(mine) \in Nat
    BY <1>2, JobsFinite
  <1>4. flight[owner[j]] \in Nat
    BY DEF Sortable
  <1> QED
    BY <1>1, <1>3, <1>4 DEF Turn

\* The pairs in fair order.
FairPairs(waiting, flight, served) ==
  {p \in waiting \X waiting : Before(p[1], p[2], waiting, flight, served)}

\* Which pairs these are.
LEMMA FairPairsMean ==
  ASSUME NEW waiting, NEW flight, NEW served, NEW a \in waiting, NEW b \in waiting
  PROVE  <<a, b>> \in FairPairs(waiting, flight, served) <=> Before(a, b, waiting, flight, served)
  BY DEF FairPairs

\* Fair order is a strict total order.
LEMMA FairIsOrder ==
  ASSUME NEW waiting, NEW flight, NEW served, Sortable(waiting, flight, served)
  PROVE  Ordered(waiting, FairPairs(waiting, flight, served))
  <1>1. PICK turn : turn = [j \in waiting |-> Turn(j, waiting, flight)]
    OBVIOUS
  <1>2. PICK last : last = [j \in waiting |-> served[owner[j]]]
    OBVIOUS
  <1>3. \A j \in waiting : turn[j] \in Nat /\ last[j] \in Nat /\ j \in Nat
    <2> SUFFICES ASSUME NEW j \in waiting PROVE turn[j] \in Nat /\ last[j] \in Nat /\ j \in Nat
      OBVIOUS
    <2>1. turn[j] \in Nat
      BY <1>1, TurnIsNat
    <2>2. served[owner[j]] \in Nat /\ j \in Jobs
      BY DEF Sortable
    <2>3. j \in Nat
      BY <2>2, MaxJobsAssumption DEF Jobs
    <2> QED
      BY <1>2, <2>1, <2>2, <2>3
  <1>4. \A a, b \in waiting :
          <<a, b>> \in FairPairs(waiting, flight, served) <=>
            \/ turn[a] < turn[b]
            \/ turn[a] = turn[b] /\ last[a] < last[b]
            \/ turn[a] = turn[b] /\ last[a] = last[b] /\ a < b
    <2> SUFFICES ASSUME NEW a \in waiting, NEW b \in waiting
                 PROVE  <<a, b>> \in FairPairs(waiting, flight, served) <=>
                          \/ turn[a] < turn[b]
                          \/ turn[a] = turn[b] /\ last[a] < last[b]
                          \/ turn[a] = turn[b] /\ last[a] = last[b] /\ a < b
      OBVIOUS
    <2>1. <<a, b>> \in FairPairs(waiting, flight, served) <=> Before(a, b, waiting, flight, served)
      BY FairPairsMean
    <2> QED
      BY <1>1, <1>2, <2>1, BeforeMeans
  <1>5. PICK R : R = FairPairs(waiting, flight, served)
    OBVIOUS
  <1>6. \A a \in waiting : <<a, a>> \notin R
    BY <1>3, <1>4, <1>5
  <1>7. \A a, b \in waiting : a = b \/ <<a, b>> \in R \/ <<b, a>> \in R
    <2> SUFFICES ASSUME NEW a \in waiting, NEW b \in waiting
                 PROVE  a = b \/ <<a, b>> \in R \/ <<b, a>> \in R
      OBVIOUS
    <2> QED
      BY <1>3, <1>4, <1>5
  <1>8. \A a, b, c \in waiting : <<a, b>> \in R /\ <<b, c>> \in R => <<a, c>> \in R
    <2> SUFFICES ASSUME NEW a \in waiting, NEW b \in waiting, NEW c \in waiting,
                        <<a, b>> \in R, <<b, c>> \in R
                 PROVE  <<a, c>> \in R
      OBVIOUS
    <2> QED
      BY <1>3, <1>4, <1>5
  <1> QED
    BY <1>5, <1>6, <1>7, <1>8 DEF Ordered

\* fair.ts:18-60: fairOrder lists each waiting job once, in fair order.
LEMMA FairOrderLists ==
  ASSUME NEW waiting, NEW flight, NEW served, Sortable(waiting, flight, served),
         NEW order, order = FairOrder(waiting, flight, served)
  PROVE  /\ Cardinality(waiting) \in Nat
         /\ order \in Seq(waiting)
         /\ Len(order) = Cardinality(waiting)
         /\ \A m, n \in 1 .. Len(order) : m < n => Before(order[m], order[n], waiting, flight, served)
         /\ \A j \in waiting : \E n \in 1 .. Len(order) : order[n] = j
  <1>1. PICK R : R = FairPairs(waiting, flight, served)
    OBVIOUS
  <1>2. PICK rank : rank = Ranks(waiting, R)
    OBVIOUS
  <1>3. PICK N : N = Cardinality(waiting)
    OBVIOUS
  <1>4. Numbered(waiting, R)
    <2>1. IsFiniteSet(waiting)
      BY JobsFinite DEF Sortable
    <2>2. Ordered(waiting, R)
      BY <1>1, FairIsOrder
    <2> QED
      BY <2>1, <2>2, RanksInOrder
  <1>5. /\ N \in Nat
        /\ \A a \in waiting : rank[a] \in 0 .. N - 1
        /\ \A a, b \in waiting : rank[a] < rank[b] <=> <<a, b>> \in R
        /\ \A n \in 0 .. N - 1 : \E a \in waiting : rank[a] = n
    BY <1>2, <1>3, <1>4 DEF Numbered
  <1>6. ASSUME NEW j \in waiting PROVE Rank(j, waiting, flight, served) = rank[j]
    <2>1. {k \in waiting : Before(k, j, waiting, flight, served)} = {k \in waiting : <<k, j>> \in R}
      BY <1>1, FairPairsMean
    <2> QED
      BY <1>2, <2>1 DEF Rank, Ranks
  <1>7. order = [n \in 1 .. N |-> CHOOSE j \in waiting : Rank(j, waiting, flight, served) = n - 1]
    BY <1>3 DEF FairOrder
  <1>8. ASSUME NEW n \in 1 .. N PROVE order[n] \in waiting /\ rank[order[n]] = n - 1
    <2>1. n - 1 \in 0 .. N - 1
      BY <1>5
    <2>2. PICK j \in waiting : Rank(j, waiting, flight, served) = n - 1
      BY <1>5, <1>6, <2>1
    <2>3. order[n] = CHOOSE k \in waiting : Rank(k, waiting, flight, served) = n - 1
      BY <1>7
    <2>4. order[n] \in waiting /\ Rank(order[n], waiting, flight, served) = n - 1
      BY <2>2, <2>3
    <2> QED
      BY <1>6, <2>4
  <1>9. order \in Seq(waiting) /\ Len(order) = N /\ DOMAIN order = 1 .. N
    <2>1. order \in [1 .. N -> waiting]
      BY <1>7, <1>8
    <2> QED
      BY <1>5, <2>1
  <1>10. ASSUME NEW m \in 1 .. N, NEW n \in 1 .. N, m < n
         PROVE  Before(order[m], order[n], waiting, flight, served)
    <2>1. /\ order[m] \in waiting /\ rank[order[m]] = m - 1
          /\ order[n] \in waiting /\ rank[order[n]] = n - 1
      BY <1>8
    <2>2. rank[order[m]] < rank[order[n]]
      BY <1>10, <2>1, <1>5
    <2>3. <<order[m], order[n]>> \in R
      BY <1>5, <2>1, <2>2
    <2> QED
      BY <1>1, <2>1, <2>3, FairPairsMean
  <1>11. ASSUME NEW j \in waiting PROVE \E n \in 1 .. N : order[n] = j
    <2>1. rank[j] \in 0 .. N - 1
      BY <1>5
    <2>2. PICK n : n = rank[j] + 1
      OBVIOUS
    <2>3. n \in 1 .. N /\ rank[j] = n - 1
      BY <1>5, <2>1, <2>2
    <2>4. order[n] \in waiting /\ rank[order[n]] = rank[j]
      BY <1>8, <2>3
    <2>5. ~(<<order[n], j>> \in R) /\ ~(<<j, order[n]>> \in R)
      BY <1>5, <2>1, <2>4
    <2>6. order[n] = j
      BY <1>1, <2>4, <2>5, FairIsOrder DEF Ordered
    <2> QED
      BY <2>3, <2>6
  <1> QED
    BY <1>3, <1>5, <1>9, <1>10, <1>11

-----------------------------------------------------------------------------
(* What the dispatcher reads, and what it chooses.                         *)

\* A row has a session, and one that is not there yet has no stamp; the jobs a
\* worker took have rows.
Rows ==
  /\ \A j \in Jobs : \/ owner[j] \in Sessions /\ state[j] # "none"
                     \/ owner[j] = NoSession /\ state[j] = "none" /\ stamp[j] = 0
  /\ \A n \in 1 .. Len(taken) : state[taken[n]] # "none"

\* The last of the stamps of the jobs of a session, as LastServed has it.
Greatest(at, who, s) ==
  LET stamps == {0} \cup {at[j] : j \in {k \in Jobs : who[k] = s}}
  IN CHOOSE t \in stamps : \A u \in stamps : u <= t

\* The stamps of the jobs of a session have a greatest.
LEMMA GreatestStamp ==
  ASSUME NEW at \in [Jobs -> Nat], NEW who, NEW s
  PROVE  /\ Greatest(at, who, s) \in Nat
         /\ \A j \in Jobs : who[j] = s => at[j] <= Greatest(at, who, s)
         /\ Greatest(at, who, s) = 0 \/ \E j \in Jobs : who[j] = s /\ at[j] = Greatest(at, who, s)
  <1>1. PICK mine : mine = {k \in Jobs : who[k] = s}
    OBVIOUS
  <1>2. PICK image : image = {at[j] : j \in mine}
    OBVIOUS
  <1>3. PICK stamps : stamps = {0} \cup image
    OBVIOUS
  <1>4. IsFiniteSet(image)
    <2>1. IsFiniteSet(mine)
      BY <1>1, JobsFinite
    <2>2. PICK f : f = [j \in mine |-> at[j]]
      OBVIOUS
    <2>3. f \in Surjection(mine, image)
      BY <1>2, <2>2 DEF Surjection
    <2> QED
      BY <2>1, <2>3, FS_Surjection
  <1>5. IsFiniteSet(stamps)
    <2>1. IsFiniteSet(image \cup {0})
      BY <1>4, FS_AddElement
    <2>2. stamps = image \cup {0}
      BY <1>3
    <2> QED
      BY <2>1, <2>2
  <1>6. stamps \in SUBSET Nat /\ stamps # {}
    BY <1>1, <1>2, <1>3
  <1>7. \E t \in stamps : \A u \in stamps : u <= t
    BY <1>5, <1>6, GreatestExists
  <1>8. Greatest(at, who, s) = CHOOSE t \in stamps : \A u \in stamps : u <= t
    BY <1>1, <1>2, <1>3 DEF Greatest
  <1>9. Greatest(at, who, s) \in stamps /\ \A u \in stamps : u <= Greatest(at, who, s)
    BY <1>7, <1>8
  <1> QED
    BY <1>1, <1>2, <1>3, <1>6, <1>9

\* So lastServedBySession is defined, before and after a step.
LEMMA LastServedMeans ==
  ASSUME stamp \in [Jobs -> Nat], NEW s \in Sessions
  PROVE  /\ LastServed[s] \in Nat
         /\ \A j \in Jobs : owner[j] = s => stamp[j] <= LastServed[s]
         /\ LastServed[s] = 0 \/ \E j \in Jobs : owner[j] = s /\ stamp[j] = LastServed[s]
  <1>1. LastServed[s] = Greatest(stamp, owner, s)
    BY DEF LastServed, Greatest
  <1> QED
    BY <1>1, GreatestStamp

\* LastServed, in the state after a step.
LEMMA LastServedMeansNext ==
  ASSUME stamp' \in [Jobs -> Nat], NEW s \in Sessions
  PROVE  /\ LastServed[s]' \in Nat
         /\ \A j \in Jobs : owner'[j] = s => stamp'[j] <= LastServed[s]'
         /\ LastServed[s]' = 0 \/ \E j \in Jobs : owner'[j] = s /\ stamp'[j] = LastServed[s]'
  <1>1. LastServed[s]' = Greatest(stamp', owner', s)
    BY DEF LastServed, Greatest
  <1> QED
    BY <1>1, GreatestStamp

\* The figures the dispatcher sorts by are numbers, per session.
LEMMA FiguresAreSortable ==
  ASSUME TypeOK, Rows
  PROVE  Sortable(Waiting, InFlight, LastServed)
  <1>1. Waiting \in SUBSET Jobs /\ \A j \in Waiting : owner[j] \in Sessions
    BY DEF Waiting, Rows
  <1>2. InFlight \in [Sessions -> Nat]
    <2>1. ASSUME NEW s \in Sessions
          PROVE  Cardinality({j \in Jobs : owner[j] = s /\ stamp[j] # 0 /\ Active(j)}) \in Nat
      <3>1. PICK mine : mine = {j \in Jobs : owner[j] = s /\ stamp[j] # 0 /\ Active(j)}
        OBVIOUS
      <3>2. mine \in SUBSET Jobs
        BY <3>1
      <3> QED
        BY <3>1, <3>2, JobsFinite
    <2> QED
      BY <2>1 DEF InFlight
  <1>3. LastServed \in [Sessions -> Nat]
    <2>1. LastServed = [s \in Sessions |-> LastServed[s]]
      BY DEF LastServed
    <2>2. stamp \in [Jobs -> Nat]
      BY DEF TypeOK
    <2>3. \A s \in Sessions : LastServed[s] \in Nat
      BY <2>2, LastServedMeans
    <2> QED
      BY <2>1, <2>3
  <1> QED
    BY <1>1, <1>2, <1>3 DEF Sortable

\* dispatcher.ts:174-185: what is chosen fits the free places of the list, is
\* waiting, goes in fair order, and before all that is left.
LEMMA ChosenMeans ==
  ASSUME TypeOK, Rows, Len(pool) < DispatchAhead, NEW chosen, chosen = Chosen
  PROVE  /\ chosen \in Seq(Waiting)
         /\ Len(chosen) <= DispatchAhead - Len(pool)
         /\ Waiting # {} => Len(chosen) >= 1
         /\ \A m, n \in 1 .. Len(chosen) :
              m < n => Before(chosen[m], chosen[n], Waiting, InFlight, LastServed)
         /\ \A n \in 1 .. Len(chosen), k \in Waiting :
              (\A m \in 1 .. Len(chosen) : chosen[m] # k)
                 => Before(chosen[n], k, Waiting, InFlight, LastServed)
  <1>1. PICK order : order = FairOrder(Waiting, InFlight, LastServed)
    OBVIOUS
  <1>2. PICK free : free = DispatchAhead - Len(pool)
    OBVIOUS
  <1>3. free \in Nat /\ free >= 1
    BY <1>2, DispatchAssumption DEF TypeOK
  <1>4. PICK l : l = IF Len(order) < free THEN Len(order) ELSE free
    OBVIOUS
  <1>5. chosen = SubSeq(order, 1, l)
    BY <1>1, <1>2, <1>4 DEF Chosen
  <1>6. /\ order \in Seq(Waiting)
        /\ \A m, n \in 1 .. Len(order) :
             m < n => Before(order[m], order[n], Waiting, InFlight, LastServed)
        /\ \A j \in Waiting : \E n \in 1 .. Len(order) : order[n] = j
    BY <1>1, FiguresAreSortable, FairOrderLists
  <1>7. Len(order) \in Nat
    BY <1>6
  <1>8. l \in 0 .. Len(order) /\ l <= free /\ (Len(order) >= 1 => l >= 1)
    BY <1>3, <1>4, <1>7
  <1>9. /\ chosen \in Seq(Waiting) /\ Len(chosen) = l
        /\ \A n \in 1 .. l : chosen[n] = order[n] /\ n \in 1 .. Len(order)
    BY <1>5, <1>6, <1>7, <1>8
  <1>10. Waiting # {} => l >= 1
    BY <1>6, <1>7, <1>8
  <1>11. ASSUME NEW n \in 1 .. l, NEW k \in Waiting, \A m \in 1 .. l : chosen[m] # k
         PROVE  Before(chosen[n], k, Waiting, InFlight, LastServed)
    <2>1. PICK m \in 1 .. Len(order) : order[m] = k
      BY <1>6
    <2>2. ~(m \in 1 .. l)
      BY <1>9, <1>11, <2>1
    <2>3. n < m
      BY <1>7, <1>8, <2>1, <2>2
    <2> QED
      BY <1>6, <1>9, <2>1, <2>3
  <1> QED
    BY <1>2, <1>6, <1>8, <1>9, <1>10, <1>11

-----------------------------------------------------------------------------
(* Types.                                                                  *)

\* dispatcher.ts:107-118: a stamp is a number past those the replica gave.
LEMMA StampMeans ==
  ASSUME TypeOK, NEW r \in Replicas, NEW n \in Nat \ {0}
  PROVE  /\ DispatchStamp(r, n) \in Nat \ {0}
         /\ DispatchStamp(r, n) > lastStamp[r]
         /\ \A m \in Nat \ {0} : m <= n => DispatchStamp(r, m) <= DispatchStamp(r, n)
  <1>1. lastStamp[r] \in Nat /\ now \in Nat
    BY ClockAssumption DEF TypeOK
  <1>2. PICK first : first = IF now > lastStamp[r] + 1 THEN now ELSE lastStamp[r] + 1
    OBVIOUS
  <1>3. first \in Nat /\ first > lastStamp[r]
    BY <1>1, <1>2
  <1>4. \A m \in Nat \ {0} : DispatchStamp(r, m) = first + m - 1
    BY <1>2 DEF DispatchStamp
  <1> QED
    BY <1>1, <1>3, <1>4

\* What a dispatch does, job by job.
LEMMA DispatchMeans ==
  ASSUME TypeOK, Rows, NEW r \in Replicas, Dispatch(r)
  PROVE  \E sent \in SUBSET Waiting :
           /\ \E chosen \in Seq(Waiting) :
                /\ chosen = Chosen
                /\ Len(chosen) >= 1
                /\ sent = {chosen[n] : n \in 1 .. Len(chosen)}
                /\ pool' = pool \o chosen
                /\ lastStamp' = [lastStamp EXCEPT ![r] = DispatchStamp(r, Len(chosen))]
                /\ \A j \in sent : \E n \in 1 .. Len(chosen) : stamp'[j] = DispatchStamp(r, n)
           /\ \A j \in Jobs \ sent : stamp'[j] = stamp[j]
           /\ DOMAIN stamp' = Jobs
           /\ stamp' = [j \in Jobs |-> stamp'[j]]
           /\ \A j \in sent, k \in Waiting \ sent : Before(j, k, Waiting, InFlight, LastServed)
           /\ Overtakes(sent)
  <1>1. PICK chosen : chosen = Chosen
    OBVIOUS
  <1>2. PICK sent : sent = {chosen[n] : n \in 1 .. Len(chosen)}
    OBVIOUS
  <1>3. PICK at : at = [j \in Jobs |-> CHOOSE n \in 1 .. Len(chosen) : chosen[n] = j]
    OBVIOUS
  <1>4. Len(pool) < DispatchAhead /\ Waiting # {}
    BY DEF Dispatch
  <1>5. /\ pool' = pool \o chosen
        /\ stamp' = [j \in Jobs |-> IF j \in sent THEN DispatchStamp(r, at[j]) ELSE stamp[j]]
        /\ lastStamp' = [lastStamp EXCEPT ![r] = DispatchStamp(r, Len(chosen))]
        /\ Overtakes(sent)
    BY <1>1, <1>2, <1>3 DEF Dispatch
  <1>6. /\ chosen \in Seq(Waiting)
        /\ Len(chosen) >= 1
        /\ \A n \in 1 .. Len(chosen), k \in Waiting :
             (\A m \in 1 .. Len(chosen) : chosen[m] # k)
               => Before(chosen[n], k, Waiting, InFlight, LastServed)
    BY <1>1, <1>4, ChosenMeans
  <1>7. sent \in SUBSET Waiting
    BY <1>2, <1>6
  <1>8. \A j \in sent : \E n \in 1 .. Len(chosen) : stamp'[j] = DispatchStamp(r, n)
    <2> SUFFICES ASSUME NEW j \in sent
                 PROVE  \E n \in 1 .. Len(chosen) : stamp'[j] = DispatchStamp(r, n)
      OBVIOUS
    <2>1. j \in Jobs
      BY <1>7 DEF Waiting
    <2>2. \E n \in 1 .. Len(chosen) : chosen[n] = j
      BY <1>2
    <2>3. at[j] \in 1 .. Len(chosen)
      BY <1>3, <2>1, <2>2
    <2>4. stamp'[j] = DispatchStamp(r, at[j])
      BY <1>5, <2>1
    <2> QED
      BY <2>3, <2>4
  <1>9. \A j \in sent, k \in Waiting \ sent : Before(j, k, Waiting, InFlight, LastServed)
    BY <1>2, <1>6
  <1>10. /\ \A j \in Jobs \ sent : stamp'[j] = stamp[j]
         /\ DOMAIN stamp' = Jobs
         /\ stamp' = [j \in Jobs |-> stamp'[j]]
    BY <1>5
  <1>11. /\ chosen = Chosen
         /\ Len(chosen) >= 1
         /\ sent = {chosen[n] : n \in 1 .. Len(chosen)}
         /\ pool' = pool \o chosen
         /\ lastStamp' = [lastStamp EXCEPT ![r] = DispatchStamp(r, Len(chosen))]
         /\ \A j \in sent : \E n \in 1 .. Len(chosen) : stamp'[j] = DispatchStamp(r, n)
    BY <1>1, <1>2, <1>5, <1>6, <1>8
  <1> QED
    BY <1>5, <1>6, <1>7, <1>9, <1>10, <1>11

\* Initially the rows are in order.
LEMMA StartInOrder == Init => TypeOK /\ Rows
  <1> SUFFICES ASSUME Init PROVE TypeOK /\ Rows
    OBVIOUS
  <1>1. pool = <<>> /\ taken = <<>> /\ Len(pool) = 0 /\ Len(taken) = 0
    BY DEF Init
  <1>2. pool \in Seq(Jobs) /\ taken \in Seq(Jobs) /\ Len(pool) <= DispatchAhead
    BY <1>1, DispatchAssumption
  <1>3. TypeOK
    BY <1>2, MaxJobsAssumption, ClockAssumption, RollbacksAssumption DEF Init, TypeOK
  <1>4. Rows
    BY <1>1 DEF Init, Rows
  <1> QED
    BY <1>3, <1>4

\* A list of jobs without its n-th.
LEMMA WithoutNth ==
  ASSUME NEW s \in Seq(Jobs), NEW n \in 1 .. Len(s),
         NEW d, d = SubSeq(s, 1, n - 1) \o SubSeq(s, n + 1, Len(s))
  PROVE  /\ d \in Seq(Jobs)
         /\ Len(d) = Len(s) - 1
         /\ \A i \in 1 .. Len(s) - 1 : d[i] = IF i < n THEN s[i] ELSE s[i + 1]
  <1>0. Len(s) \in Nat
    OBVIOUS
  <1>1. PICK a : a = SubSeq(s, 1, n - 1)
    OBVIOUS
  <1>2. PICK b : b = SubSeq(s, n + 1, Len(s))
    OBVIOUS
  <1>3. /\ a \in Seq(Jobs) /\ Len(a) = n - 1
        /\ \A i \in 1 .. n - 1 : a[i] = s[i]
    BY <1>0, <1>1
  <1>4. /\ b \in Seq(Jobs) /\ Len(b) = Len(s) - n
        /\ \A i \in 1 .. Len(s) - n : b[i] = s[n + i]
    BY <1>0, <1>2
  <1>5. /\ d \in Seq(Jobs) /\ Len(d) = Len(a) + Len(b)
        /\ \A i \in 1 .. Len(a) + Len(b) : d[i] = IF i <= Len(a) THEN a[i] ELSE b[i - Len(a)]
    <2>1. d = a \o b
      BY <1>1, <1>2
    <2>2. a \o b \in Seq(Jobs) /\ Len(a \o b) = Len(a) + Len(b)
      BY <1>3, <1>4, ConcatProperties
    <2>3. \A i \in 1 .. Len(a) + Len(b) : (a \o b)[i] = IF i <= Len(a) THEN a[i] ELSE b[i - Len(a)]
      BY <1>3, <1>4, ConcatProperties
    <2> QED
      BY <2>1, <2>2, <2>3
  <1>6. Len(a) + Len(b) = Len(s) - 1
    BY <1>0, <1>3, <1>4
  <1>7. ASSUME NEW i \in 1 .. Len(s) - 1 PROVE d[i] = IF i < n THEN s[i] ELSE s[i + 1]
    <2>1. CASE i < n
      <3>0. Len(a) = n - 1 /\ Len(a) + Len(b) = Len(s) - 1
        BY <1>3, <1>6
      <3>1. i \in 1 .. n - 1 /\ i <= n - 1
        BY <1>0, <2>1
      <3>2. i <= Len(a) /\ i \in 1 .. Len(a) + Len(b)
        BY <3>0, <3>1
      <3> QED
        BY <1>3, <1>5, <2>1, <3>1, <3>2
    <2>2. CASE ~(i < n)
      <3>1. /\ i - (n - 1) \in 1 .. Len(s) - n /\ n + (i - (n - 1)) = i + 1
            /\ ~(i <= Len(a)) /\ i \in 1 .. Len(a) + Len(b)
        BY <1>0, <1>3, <1>6, <2>2
      <3>2. d[i] = b[i - (n - 1)]
        BY <1>3, <1>5, <3>1
      <3> QED
        BY <1>4, <2>2, <3>1, <3>2
    <2> QED
      BY <2>1, <2>2
  <1> QED
    BY <1>5, <1>6, <1>7

\* What hearing of a job does to the list of those taken.
LEMMA HeardMeans ==
  ASSUME TypeOK, NEW j \in Jobs, Heard(j)
  PROVE  /\ taken' \in Seq(Jobs)
         /\ \A n \in 1 .. Len(taken') : \E m \in 1 .. Len(taken) : taken'[n] = taken[m]
  <1>0. taken \in Seq(Jobs) /\ Len(taken) \in Nat
    BY DEF TypeOK
  <1>1. CASE taken' = taken
    BY <1>0, <1>1
  <1>2. ASSUME NEW n \in 1 .. Len(taken),
               taken' = SubSeq(taken, 1, n - 1) \o SubSeq(taken, n + 1, Len(taken))
        PROVE  /\ taken' \in Seq(Jobs)
               /\ \A i \in 1 .. Len(taken') : \E m \in 1 .. Len(taken) : taken'[i] = taken[m]
    <2>1. /\ taken' \in Seq(Jobs)
          /\ Len(taken') = Len(taken) - 1
          /\ \A i \in 1 .. Len(taken) - 1 : taken'[i] = IF i < n THEN taken[i] ELSE taken[i + 1]
      BY <1>0, <1>2, WithoutNth
    <2>2. ASSUME NEW i \in 1 .. Len(taken') PROVE \E m \in 1 .. Len(taken) : taken'[i] = taken[m]
      <3>1. i \in 1 .. Len(taken) /\ i + 1 \in 1 .. Len(taken) /\ i \in 1 .. Len(taken) - 1
        BY <1>0, <2>1
      <3> QED
        BY <2>1, <3>1
    <2> QED
      BY <2>1, <2>2
  <1> QED
    BY <1>1, <1>2 DEF Heard

\* The count of those that overtook a session starts anew.
StartsAnew(s, sent) ==
  \/ \E j \in sent : owner[j] = s
  \/ \A j \in Waiting : owner[j] # s
  \/ InFlight[s] > 0

\* What is counted as overtaken are numbers.
LEMMA OvertakesTyped ==
  ASSUME TypeOK, NEW sent \in SUBSET Waiting, Overtakes(sent)
  PROVE  /\ passed' \in [Sessions -> [Sessions -> Nat]]
         /\ \A s, t \in Sessions :
              passed'[s][t] = IF StartsAnew(s, sent) THEN 0
                              ELSE passed[s][t] + Cardinality({j \in sent : owner[j] = t})
  <1>1. ASSUME NEW t \in Sessions PROVE Cardinality({j \in sent : owner[j] = t}) \in Nat
    <2>1. PICK theirs : theirs = {j \in sent : owner[j] = t}
      OBVIOUS
    <2>2. theirs \in SUBSET Jobs
      BY <2>1 DEF Waiting
    <2> QED
      BY <2>1, <2>2, JobsFinite
  <1>2. PICK theirs : theirs = [t \in Sessions |-> Cardinality({j \in sent : owner[j] = t})]
    OBVIOUS
  <1>3. PICK anew : anew = [s \in Sessions |-> StartsAnew(s, sent)]
    OBVIOUS
  <1>4. passed' = [s \in Sessions |-> [t \in Sessions |->
                     IF anew[s] THEN 0 ELSE passed[s][t] + theirs[t]]]
    <2>1. \A s \in Sessions : anew[s] <=> \/ \E j \in sent : owner[j] = s
                                          \/ \A j \in Waiting : owner[j] # s
                                          \/ InFlight[s] > 0
      BY <1>3 DEF StartsAnew
    <2>2. \A t \in Sessions : theirs[t] = Cardinality({j \in sent : owner[j] = t})
      BY <1>2
    <2> QED
      BY <2>1, <2>2 DEF Overtakes
  <1>5. \A t \in Sessions : theirs[t] \in Nat
    BY <1>1, <1>2
  <1>6. passed \in [Sessions -> [Sessions -> Nat]]
    BY DEF TypeOK
  <1>7. passed' \in [Sessions -> [Sessions -> Nat]]
    <2>1. ASSUME NEW s \in Sessions
          PROVE  [t \in Sessions |-> IF anew[s] THEN 0 ELSE passed[s][t] + theirs[t]] \in [Sessions -> Nat]
      BY <1>5, <1>6
    <2> QED
      BY <1>4, <2>1
  <1>8. ASSUME NEW s \in Sessions, NEW t \in Sessions
        PROVE  passed'[s][t] = IF anew[s] THEN 0 ELSE passed[s][t] + theirs[t]
    BY <1>4
  <1> QED
    BY <1>2, <1>3, <1>7, <1>8

\* The steps that dispatch nothing keep the rows in order.
LEMMA TickTyped == TypeOK /\ Rows /\ Tick => TypeOK' /\ Rows'
  <1> SUFFICES ASSUME TypeOK, Rows, Tick PROVE TypeOK' /\ Rows'
    OBVIOUS
  <1>1. now' \in 1 .. MaxNow
    BY ClockAssumption DEF TypeOK, Tick
  <1> QED
    BY <1>1 DEF TypeOK, Rows, Tick

\* Insert keeps the types and the rows.
LEMMA InsertTyped ==
  ASSUME TypeOK, Rows, NEW s \in Sessions, Insert(s)
  PROVE  TypeOK' /\ Rows'
  <1>1. PICK j \in Jobs :
          /\ state[j] = "none"
          /\ owner' = [owner EXCEPT ![j] = s]
          /\ created' = [created EXCEPT ![j] = now]
          /\ state' = [state EXCEPT ![j] = "queued"]
          /\ UNCHANGED <<ready, stamp, pool, taken, lastStamp, now, rollbacks, passed>>
    BY DEF Insert
  <1>2. now \in 0 .. MaxNow
    BY ClockAssumption DEF TypeOK
  <1>3. TypeOK'
    BY <1>1, <1>2 DEF TypeOK
  <1>4. \A k \in Jobs : /\ owner'[k] = IF k = j THEN s ELSE owner[k]
                        /\ state'[k] = IF k = j THEN "queued" ELSE state[k]
                        /\ stamp'[k] = stamp[k]
    BY <1>1 DEF TypeOK
  <1>5. taken' = taken /\ \A n \in 1 .. Len(taken) : taken[n] \in Jobs
    BY <1>1 DEF TypeOK
  <1>6. Rows'
    <2>1. \A k \in Jobs : \/ owner'[k] \in Sessions /\ state'[k] # "none"
                          \/ owner'[k] = NoSession /\ state'[k] = "none" /\ stamp'[k] = 0
      BY <1>4 DEF Rows
    <2>2. \A n \in 1 .. Len(taken') : state'[taken'[n]] # "none"
      BY <1>4, <1>5 DEF Rows
    <2> QED
      BY <2>1, <2>2 DEF Rows
  <1> QED
    BY <1>3, <1>6

\* Submit keeps them.
LEMMA SubmitTyped ==
  ASSUME TypeOK, Rows, NEW j \in Jobs, Submit(j)
  PROVE  TypeOK' /\ Rows'
  BY DEF TypeOK, Rows, Submit

\* A worker that takes a job keeps them.
LEMMA TakeTyped == TypeOK /\ Rows /\ Take => TypeOK' /\ Rows'
  <1> SUFFICES ASSUME TypeOK, Rows, Take PROVE TypeOK' /\ Rows'
    OBVIOUS
  <1>1. pool \in Seq(Jobs) /\ pool # <<>> /\ taken \in Seq(Jobs) /\ Len(pool) <= DispatchAhead
    BY DEF TypeOK, Take
  <1>2. Head(pool) \in Jobs /\ pool' = Tail(pool) /\ Tail(pool) \in Seq(Jobs) /\ Len(Tail(pool)) = Len(pool) - 1
    BY <1>1, HeadTailProperties DEF Take
  <1>3. Len(pool') <= DispatchAhead
    BY <1>1, <1>2, DispatchAssumption
  <1>4. \/ taken' = taken
        \/ taken' = Append(taken, Head(pool)) /\ state[Head(pool)] = "queued"
    BY DEF Take
  <1>5. UNCHANGED <<owner, created, state, ready, stamp, lastStamp, now, rollbacks, passed>>
    BY DEF Take
  <1>6. taken' \in Seq(Jobs)
    <2>1. Append(taken, Head(pool)) \in Seq(Jobs)
      BY <1>1, <1>2, AppendProperties
    <2> QED
      BY <1>1, <1>4, <2>1
  <1>7. TypeOK'
    BY <1>2, <1>3, <1>5, <1>6 DEF TypeOK
  <1>8. \A n \in 1 .. Len(taken') : state'[taken'[n]] # "none"
    <2>1. CASE taken' = taken
      BY <1>5, <2>1 DEF Rows
    <2>2. CASE taken' = Append(taken, Head(pool)) /\ state[Head(pool)] = "queued"
      <3>1. \A n \in 1 .. Len(taken') : (n \in 1 .. Len(taken) /\ taken'[n] = taken[n]) \/ taken'[n] = Head(pool)
        BY <1>1, <1>2, <2>2
      <3> QED
        BY <1>5, <2>2, <3>1 DEF Rows
    <2> QED
      BY <1>4, <2>1, <2>2
  <1>9. Rows'
    BY <1>5, <1>8 DEF Rows
  <1> QED
    BY <1>7, <1>9

\* A worker's word keeps them.
LEMMA WordTyped ==
  ASSUME TypeOK, Rows, NEW j \in Jobs, Begin(j) \/ Settle(j)
  PROVE  TypeOK' /\ Rows'
  <1>1. Heard(j) /\ UNCHANGED <<owner, created, ready, stamp, pool, lastStamp, now, rollbacks, passed>>
    BY DEF Begin, Settle
  <1>2. state[j] # "none"
    BY DEF Begin, Settle, Rows
  <1>3. PICK next \in {"processing", "settled"} : state' = [state EXCEPT ![j] = next]
    BY DEF Begin, Settle
  <1>4. /\ taken' \in Seq(Jobs)
        /\ \A n \in 1 .. Len(taken') : \E m \in 1 .. Len(taken) : taken'[n] = taken[m]
    BY <1>1, HeardMeans
  <1>5. TypeOK'
    BY <1>1, <1>3, <1>4 DEF TypeOK
  <1>6. \A k \in Jobs : state'[k] = IF k = j THEN next ELSE state[k]
    BY <1>3 DEF TypeOK
  <1>7. \A m \in 1 .. Len(taken) : taken[m] \in Jobs
    BY DEF TypeOK
  <1>8. \A n \in 1 .. Len(taken') : state'[taken'[n]] # "none"
    BY <1>4, <1>6, <1>7 DEF Rows
  <1>9. \A k \in Jobs : \/ owner'[k] \in Sessions /\ state'[k] # "none"
                        \/ owner'[k] = NoSession /\ state'[k] = "none" /\ stamp'[k] = 0
    BY <1>1, <1>2, <1>6 DEF Rows
  <1> QED
    BY <1>5, <1>8, <1>9 DEF Rows

\* A dispatch keeps them in order, also one that is rolled back.
LEMMA DispatchTyped ==
  ASSUME TypeOK, Rows, NEW r \in Replicas, Dispatch(r)
  PROVE  TypeOK' /\ Rows'
  <1>1. PICK sent \in SUBSET Waiting :
          /\ \E chosen \in Seq(Waiting) :
               /\ chosen = Chosen
               /\ Len(chosen) >= 1
               /\ pool' = pool \o chosen
               /\ lastStamp' = [lastStamp EXCEPT ![r] = DispatchStamp(r, Len(chosen))]
               /\ \A j \in sent : \E n \in 1 .. Len(chosen) : stamp'[j] = DispatchStamp(r, n)
          /\ \A j \in Jobs \ sent : stamp'[j] = stamp[j]
          /\ stamp' = [j \in Jobs |-> stamp'[j]]
          /\ Overtakes(sent)
    BY DispatchMeans
  <1>2. PICK chosen \in Seq(Waiting) :
          /\ chosen = Chosen
          /\ Len(chosen) >= 1
          /\ pool' = pool \o chosen
          /\ lastStamp' = [lastStamp EXCEPT ![r] = DispatchStamp(r, Len(chosen))]
          /\ \A j \in sent : \E n \in 1 .. Len(chosen) : stamp'[j] = DispatchStamp(r, n)
    BY <1>1
  <1>3. UNCHANGED <<owner, created, state, ready, taken, now, rollbacks>> /\ Len(pool) < DispatchAhead
    BY DEF Dispatch
  <1>4. Len(chosen) \in Nat \ {0}
    BY <1>2
  <1>5. pool' \in Seq(Jobs) /\ Len(pool') <= DispatchAhead
    <2>1. Len(chosen) <= DispatchAhead - Len(pool)
      BY <1>2, <1>3, ChosenMeans
    <2>2. pool \in Seq(Jobs) /\ chosen \in Seq(Jobs)
      BY DEF TypeOK, Waiting
    <2>3. pool \o chosen \in Seq(Jobs) /\ Len(pool \o chosen) = Len(pool) + Len(chosen)
      BY <2>2, ConcatProperties
    <2> QED
      BY <1>2, <2>1, <2>2, <2>3, DispatchAssumption
  <1>6. stamp' \in [Jobs -> Nat]
    <2>1. ASSUME NEW j \in Jobs PROVE stamp'[j] \in Nat
      <3>1. CASE j \in sent
        <4>1. PICK n \in 1 .. Len(chosen) : stamp'[j] = DispatchStamp(r, n)
          BY <1>2, <3>1
        <4>2. n \in Nat \ {0}
          BY <1>4
        <4>3. DispatchStamp(r, n) \in Nat
          BY <4>2, StampMeans
        <4> QED
          BY <4>1, <4>3
      <3>2. CASE j \notin sent
        BY <1>1, <3>2 DEF TypeOK
      <3> QED
        BY <3>1, <3>2
    <2> QED
      BY <1>1, <2>1
  <1>7. lastStamp' \in [Replicas -> Nat]
    <2>1. DispatchStamp(r, Len(chosen)) \in Nat
      BY <1>4, StampMeans
    <2> QED
      BY <1>2, <2>1 DEF TypeOK
  <1>8. passed' \in [Sessions -> [Sessions -> Nat]]
    BY <1>1, OvertakesTyped
  <1>9. TypeOK'
    BY <1>3, <1>5, <1>6, <1>7, <1>8 DEF TypeOK
  <1>10. Rows'
    <2>1. \A j \in Jobs : state[j] = "none" => stamp'[j] = stamp[j]
      BY <1>1 DEF Waiting
    <2> QED
      BY <1>3, <2>1 DEF Rows
  <1> QED
    BY <1>9, <1>10

\* A dispatch that rolls back keeps them.
LEMMA RollBackTyped ==
  ASSUME TypeOK, Rows, NEW r \in Replicas, DispatchRollsBack(r)
  PROVE  TypeOK' /\ Rows'
  <1>1. PICK chosen : chosen = Chosen
    OBVIOUS
  <1>2. Len(pool) < DispatchAhead
    BY DEF DispatchRollsBack
  <1>3. chosen \in Seq(Waiting) /\ Len(chosen) <= DispatchAhead - Len(pool)
    BY <1>1, <1>2, ChosenMeans
  <1>4. PICK n \in 1 .. Len(chosen) :
          /\ pool' = pool \o SubSeq(chosen, 1, n)
          /\ lastStamp' = [lastStamp EXCEPT ![r] = DispatchStamp(r, n)]
    BY <1>1 DEF DispatchRollsBack
  <1>5. UNCHANGED <<owner, created, state, ready, stamp, taken, now, passed>>
    BY DEF DispatchRollsBack
  <1>6. pool' \in Seq(Jobs) /\ Len(pool') <= DispatchAhead
    <2>1. pool \in Seq(Jobs) /\ chosen \in Seq(Jobs)
      BY <1>3 DEF TypeOK, Waiting
    <2>2. PICK part : part = SubSeq(chosen, 1, n)
      OBVIOUS
    <2>3. part \in Seq(Jobs) /\ Len(part) = n
      BY <1>3, <2>1, <2>2
    <2>4. pool \o part \in Seq(Jobs) /\ Len(pool \o part) = Len(pool) + Len(part)
      BY <2>1, <2>3, ConcatProperties
    <2> QED
      BY <1>3, <1>4, <2>1, <2>2, <2>3, <2>4, DispatchAssumption
  <1>7. lastStamp' \in [Replicas -> Nat]
    <2>1. n \in Nat \ {0}
      BY <1>3
    <2>2. DispatchStamp(r, n) \in Nat
      BY <2>1, StampMeans
    <2> QED
      BY <1>4, <2>2 DEF TypeOK
  <1>8. rollbacks' \in 0 .. MaxRollbacks
    BY RollbacksAssumption DEF TypeOK, DispatchRollsBack
  <1>9. TypeOK'
    BY <1>5, <1>6, <1>7, <1>8 DEF TypeOK
  <1>10. Rows'
    BY <1>5 DEF Rows
  <1> QED
    BY <1>9, <1>10

\* Every step keeps the rows in order.
LEMMA StepTyped == TypeOK /\ Rows /\ [Next]_vars => TypeOK' /\ Rows'
  <1> SUFFICES ASSUME TypeOK, Rows, [Next]_vars PROVE TypeOK' /\ Rows'
    OBVIOUS
  <1>1. CASE Tick
    BY <1>1, TickTyped
  <1>2. CASE Take
    BY <1>2, TakeTyped
  <1>3. CASE \E s \in Sessions : Insert(s)
    BY <1>3, InsertTyped
  <1>4. CASE \E j \in Jobs : Submit(j) \/ Begin(j) \/ Settle(j)
    BY <1>4, SubmitTyped, WordTyped
  <1>5. CASE \E r \in Replicas : Dispatch(r) \/ DispatchRollsBack(r)
    BY <1>5, DispatchTyped, RollBackTyped
  <1>6. CASE UNCHANGED vars
    BY <1>6 DEF vars, TypeOK, Rows
  <1> QED
    BY <1>1, <1>2, <1>3, <1>4, <1>5, <1>6 DEF Next

\* The figures of the dispatcher have their types, the list holds no more than
\* dispatchAhead, and rows are in order.
LEMMA RowsCorrect == Spec => [](TypeOK /\ Rows)
  <1>1. Init => TypeOK /\ Rows
    BY StartInOrder
  <1>2. TypeOK /\ Rows /\ [Next]_vars => (TypeOK /\ Rows)'
    BY StepTyped
  <1> QED
    BY <1>1, <1>2, PTL DEF Spec

\* dispatcher.ts:152-186: the dispatcher's figures have their types, and the
\* list is never filled past dispatchAhead, whoever dispatches.
THEOREM TypeCorrect == Spec => []TypeOK
  BY RowsCorrect, PTL

-----------------------------------------------------------------------------
(* Sessions take turns.                                                    *)

\* What a dispatch adds to the jobs a session has in flight: those it sent.
LEMMA InFlightGrows ==
  ASSUME TypeOK, NEW sent \in SUBSET Waiting, NEW s \in Sessions,
         UNCHANGED <<owner, state>>,
         \A j \in Jobs : stamp'[j] # 0 <=> (j \in sent \/ stamp[j] # 0)
  PROVE  /\ InFlight[s] \in Nat
         /\ Cardinality({j \in sent : owner[j] = s}) \in Nat
         /\ InFlight[s]' = InFlight[s] + Cardinality({j \in sent : owner[j] = s})
  <1>1. PICK old : old = {j \in Jobs : owner[j] = s /\ stamp[j] # 0 /\ Active(j)}
    OBVIOUS
  <1>2. PICK new : new = {j \in sent : owner[j] = s}
    OBVIOUS
  <1>3. old \in SUBSET Jobs /\ new \in SUBSET Jobs /\ old \cap new = {}
    BY <1>1, <1>2 DEF Waiting
  <1>4. \A j \in Jobs : Active(j)' <=> Active(j)
    BY DEF Active
  <1>5. {j \in Jobs : owner'[j] = s /\ stamp'[j] # 0 /\ Active(j)'} = old \cup new
    <2>1. \A j \in new : j \in Jobs /\ Active(j) /\ owner[j] = s
      BY <1>2 DEF Waiting, Active
    <2>2. \A j \in Jobs : (owner'[j] = s /\ stamp'[j] # 0 /\ Active(j)') <=> (j \in old \/ j \in new)
      <3> SUFFICES ASSUME NEW j \in Jobs
                   PROVE  (owner'[j] = s /\ stamp'[j] # 0 /\ Active(j)') <=> (j \in old \/ j \in new)
        OBVIOUS
      <3>1. j \in new <=> j \in sent /\ owner[j] = s
        BY <1>2
      <3>2. j \in old <=> owner[j] = s /\ stamp[j] # 0 /\ Active(j)
        BY <1>1
      <3>3. stamp'[j] # 0 <=> (j \in sent \/ stamp[j] # 0)
        OBVIOUS
      <3>4. owner'[j] = owner[j] /\ (Active(j)' <=> Active(j))
        BY <1>4
      <3> QED
        BY <2>1, <3>1, <3>2, <3>3, <3>4
    <2> QED
      BY <1>3, <2>2
  <1>6. Cardinality(old) \in Nat /\ Cardinality(new) \in Nat /\ IsFiniteSet(old) /\ IsFiniteSet(new)
    BY <1>3, JobsFinite
  <1>7. Cardinality(old \cup new) = Cardinality(old) + Cardinality(new)
    <2>1. Cardinality(old \cup new) = Cardinality(old) + Cardinality(new) - Cardinality(old \cap new)
      BY <1>6, FS_Union
    <2>2. Cardinality(old \cap new) = 0
      BY <1>3, FS_EmptySet
    <2> QED
      BY <1>6, <2>1, <2>2
  <1>8. InFlight[s] = Cardinality(old)
    BY <1>1 DEF InFlight
  <1>9. InFlight[s]' = Cardinality(old \cup new)
    BY <1>5 DEF InFlight
  <1> QED
    BY <1>2, <1>6, <1>7, <1>8, <1>9

\* A dispatch stamps those it sends.
LEMMA StampsSent ==
  ASSUME TypeOK, Rows, NEW r \in Replicas, NEW sent \in SUBSET Waiting,
         \E chosen \in Seq(Waiting) : \A j \in sent : \E n \in 1 .. Len(chosen) : stamp'[j] = DispatchStamp(r, n),
         \A j \in Jobs \ sent : stamp'[j] = stamp[j]
  PROVE  /\ \A j \in Jobs : stamp'[j] # 0 <=> (j \in sent \/ stamp[j] # 0)
         /\ \A j \in sent : stamp'[j] \in Nat /\ stamp'[j] > lastStamp[r]
  <1>1. ASSUME NEW j \in sent PROVE stamp'[j] \in Nat /\ stamp'[j] > lastStamp[r] /\ stamp'[j] # 0
    <2>1. PICK chosen \in Seq(Waiting) : \E n \in 1 .. Len(chosen) : stamp'[j] = DispatchStamp(r, n)
      OBVIOUS
    <2>2. PICK n \in 1 .. Len(chosen) : stamp'[j] = DispatchStamp(r, n)
      BY <2>1
    <2>3. n \in Nat \ {0}
      BY <2>1
    <2>4. DispatchStamp(r, n) \in Nat \ {0} /\ DispatchStamp(r, n) > lastStamp[r]
      BY <2>3, StampMeans
    <2> QED
      BY <2>2, <2>4
  <1> QED
    BY <1>1

\* fair.ts:8-11: a session that is given its j-th turn has that many jobs in
\* flight at most, and the next job of another is at most one turn more than
\* what it has.
LEMMA TurnsBound ==
  ASSUME TypeOK, Rows, NEW r \in Replicas, Dispatch(r), NEW s \in Sessions, NEW t \in Sessions,
         {j \in Waiting : owner[j] = s /\ stamp'[j] # 0} # {},
         {j \in Waiting : owner[j] = t /\ stamp'[j] = 0} # {}
  PROVE  InFlight[s]' <= InFlight[t]' + 1
  <1>1. PICK sent \in SUBSET Waiting :
          /\ \E chosen \in Seq(Waiting) : \A j \in sent : \E n \in 1 .. Len(chosen) : stamp'[j] = DispatchStamp(r, n)
          /\ \A j \in Jobs \ sent : stamp'[j] = stamp[j]
          /\ \A j \in sent, k \in Waiting \ sent : Before(j, k, Waiting, InFlight, LastServed)
    <2>1. PICK sent \in SUBSET Waiting :
            /\ \E chosen \in Seq(Waiting) :
                 /\ chosen = Chosen
                 /\ Len(chosen) >= 1
                 /\ sent = {chosen[n] : n \in 1 .. Len(chosen)}
                 /\ pool' = pool \o chosen
                 /\ lastStamp' = [lastStamp EXCEPT ![r] = DispatchStamp(r, Len(chosen))]
                 /\ \A j \in sent : \E n \in 1 .. Len(chosen) : stamp'[j] = DispatchStamp(r, n)
            /\ \A j \in Jobs \ sent : stamp'[j] = stamp[j]
            /\ \A j \in sent, k \in Waiting \ sent : Before(j, k, Waiting, InFlight, LastServed)
      BY DispatchMeans
    <2>2. \E chosen \in Seq(Waiting) : \A j \in sent : \E n \in 1 .. Len(chosen) : stamp'[j] = DispatchStamp(r, n)
      BY <2>1
    <2> QED
      BY <2>1, <2>2
  <1>2. UNCHANGED <<owner, state>>
    BY DEF Dispatch
  <1>3. \A j \in Jobs : stamp'[j] # 0 <=> (j \in sent \/ stamp[j] # 0)
    BY <1>1, StampsSent
  <1>4. \A j \in Waiting : j \in Jobs /\ stamp[j] = 0
    BY DEF Waiting
  <1>5. PICK served : served = {j \in sent : owner[j] = s}
    OBVIOUS
  <1>6. PICK left : left = {j \in Waiting \ sent : owner[j] = t}
    OBVIOUS
  <1>7. PICK others : others = {j \in sent : owner[j] = t}
    OBVIOUS
  <1>8. served # {} /\ left # {}
    BY <1>3, <1>4, <1>5, <1>6
  <1>9. served \in SUBSET Jobs /\ left \in SUBSET Jobs /\ others \in SUBSET Jobs /\ Jobs \in SUBSET Nat
    <2>1. Jobs \in SUBSET Nat
      BY MaxJobsAssumption DEF Jobs
    <2>2. served \in SUBSET Jobs /\ left \in SUBSET Jobs /\ others \in SUBSET Jobs
      BY <1>4, <1>5, <1>6, <1>7
    <2> QED
      BY <2>1, <2>2
  <1>10. PICK j \in served : \A i \in served : i <= j
    BY <1>8, <1>9, JobsFinite, GreatestExists
  <1>11. PICK k \in left : \A i \in left : k <= i
    BY <1>8, <1>9, JobsFinite, LeastExists
  <1>12. /\ InFlight[s] \in Nat /\ Cardinality(served) \in Nat
         /\ InFlight[s]' = InFlight[s] + Cardinality(served)
    BY <1>2, <1>3, <1>5, InFlightGrows
  <1>13. /\ InFlight[t] \in Nat /\ Cardinality(others) \in Nat
         /\ InFlight[t]' = InFlight[t] + Cardinality(others)
    BY <1>2, <1>3, <1>7, InFlightGrows
  <1>14. Turn(j, Waiting, InFlight) \in Nat /\ Turn(j, Waiting, InFlight) >= InFlight[s] + Cardinality(served)
    <2>1. PICK upTo : upTo = {i \in Waiting : owner[i] = owner[j] /\ i <= j}
      OBVIOUS
    <2>2. owner[j] = s /\ j \in Waiting
      BY <1>5
    <2>3. upTo \in SUBSET Jobs /\ served \in SUBSET upTo
      BY <1>5, <1>10, <2>1, <2>2 DEF Waiting
    <2>4. IsFiniteSet(upTo) /\ Cardinality(upTo) \in Nat
      BY <2>3, JobsFinite
    <2>5. Cardinality(served) <= Cardinality(upTo)
      BY <2>3, <2>4, FS_Subset
    <2>6. Turn(j, Waiting, InFlight) = InFlight[s] + Cardinality(upTo)
      BY <2>1, <2>2 DEF Turn
    <2> QED
      BY <1>12, <2>4, <2>5, <2>6
  <1>15. Turn(k, Waiting, InFlight) \in Nat /\ Turn(k, Waiting, InFlight) <= InFlight[t] + Cardinality(others) + 1
    <2>1. PICK upTo : upTo = {i \in Waiting : owner[i] = owner[k] /\ i <= k}
      OBVIOUS
    <2>2. owner[k] = t /\ k \in Waiting
      BY <1>6
    <2>3. \A i \in upTo : i \in others \cup {k}
      <3> SUFFICES ASSUME NEW i \in upTo PROVE i \in others \cup {k}
        OBVIOUS
      <3>1. i \in Waiting /\ owner[i] = t /\ i <= k /\ i \in Nat /\ k \in Nat
        BY <1>4, <1>9, <2>1, <2>2
      <3>2. CASE i \in sent
        BY <1>7, <3>1, <3>2
      <3>3. CASE i \notin sent
        <4>1. i \in left
          BY <1>6, <3>1, <3>3
        <4>2. k <= i
          BY <1>11, <4>1
        <4> QED
          BY <3>1, <4>2
      <3> QED
        BY <3>2, <3>3
    <2>4. IsFiniteSet(others \cup {k}) /\ Cardinality(others \cup {k}) <= Cardinality(others) + 1
      <3>1. IsFiniteSet(others)
        BY <1>9, JobsFinite
      <3>2. /\ IsFiniteSet(others \cup {k})
            /\ Cardinality(others \cup {k}) = IF k \in others THEN Cardinality(others) ELSE Cardinality(others) + 1
        BY <3>1, FS_AddElement
      <3> QED
        BY <1>13, <3>2
    <2>5. upTo \in SUBSET (others \cup {k}) /\ upTo \in SUBSET Jobs
      BY <2>1, <2>3 DEF Waiting
    <2>6. Cardinality(upTo) <= Cardinality(others \cup {k})
      BY <2>4, <2>5, FS_Subset
    <2>7. Cardinality(upTo) \in Nat /\ Cardinality(others \cup {k}) \in Nat
      BY <2>4, <2>5, JobsFinite, FS_CardinalityType
    <2>8. Turn(k, Waiting, InFlight) = InFlight[t] + Cardinality(upTo)
      BY <2>1, <2>2 DEF Turn
    <2> QED
      BY <1>13, <2>4, <2>6, <2>7, <2>8
  <1>16. Turn(j, Waiting, InFlight) <= Turn(k, Waiting, InFlight)
    <2>1. j \in sent /\ k \in Waiting \ sent
      BY <1>5, <1>6
    <2>2. Before(j, k, Waiting, InFlight, LastServed)
      BY <1>1, <2>1
    <2>3. \/ Turn(j, Waiting, InFlight) < Turn(k, Waiting, InFlight)
          \/ Turn(j, Waiting, InFlight) = Turn(k, Waiting, InFlight)
      BY <2>2, BeforeMeans
    <2> QED
      BY <1>14, <1>15, <2>3
  <1> QED
    BY <1>12, <1>13, <1>14, <1>15, <1>16

\* Only a dispatch changes a stamp.
LEMMA OnlyDispatchStamps ==
  ASSUME [Next]_vars, stamp' # stamp
  PROVE  \E r \in Replicas : Dispatch(r)
  BY DEF Next, vars, Tick, Take, Insert, Submit, Begin, Settle, DispatchRollsBack

\* fair.ts:8-11: whatever waits and however many replicas dispatch, a dispatch
\* that takes a job of one session and leaves one of another has not given the
\* first more than one turn over the other.
THEOREM TurnsAreTaken == Spec => TakesTurns
  <1>1. TypeOK /\ Rows /\ [Next]_vars
          => [\A s, t \in Sessions :
               LET served == {j \in Waiting : owner[j] = s /\ stamp'[j] # 0}
                   left   == {j \in Waiting : owner[j] = t /\ stamp'[j] = 0}
               IN served # {} /\ left # {} => InFlight[s]' <= InFlight[t]' + 1]_stamp
    <2> SUFFICES ASSUME TypeOK, Rows, [Next]_vars, stamp' # stamp, NEW s \in Sessions, NEW t \in Sessions,
                        {j \in Waiting : owner[j] = s /\ stamp'[j] # 0} # {},
                        {j \in Waiting : owner[j] = t /\ stamp'[j] = 0} # {}
                 PROVE  InFlight[s]' <= InFlight[t]' + 1
      OBVIOUS
    <2>1. PICK r \in Replicas : Dispatch(r)
      BY OnlyDispatchStamps
    <2> QED
      BY <2>1, TurnsBound
  <1> QED
    BY <1>1, RowsCorrect, PTL DEF Spec, TakesTurns

-----------------------------------------------------------------------------
(* Nobody is passed twice.                                                 *)

\* The dispatcher runs in one replica.
OneReplica == \A r, q \in Replicas : r = q

\* A stamp is at most the last one the replica gave; and a session passed once
\* by another was served longer ago than it, so that it wins the next tie.
Passing ==
  /\ \A r \in Replicas, j \in Jobs : stamp[j] <= lastStamp[r]
  /\ \A s, t \in Sessions : /\ passed[s][t] <= 1
                            /\ passed[s][t] = 1 => LastServed[s] < LastServed[t]

\* When a session was last served changes by a new stamp of its jobs only.
LEMMA LastServedStays ==
  ASSUME TypeOK, TypeOK', NEW s \in Sessions,
         \A j \in Jobs : stamp[j] # 0 /\ owner[j] = s => stamp'[j] = stamp[j] /\ owner'[j] = s,
         \A j \in Jobs : stamp'[j] # 0 /\ owner'[j] = s => stamp'[j] = stamp[j] /\ owner[j] = s
  PROVE  LastServed[s]' = LastServed[s] /\ LastServed[s] \in Nat
  <1>1. stamp \in [Jobs -> Nat] /\ stamp' \in [Jobs -> Nat]
    BY DEF TypeOK
  <1>2. PICK a : a = LastServed[s]
    OBVIOUS
  <1>3. PICK b : b = LastServed[s]'
    OBVIOUS
  <1>4. /\ a \in Nat
        /\ \A j \in Jobs : owner[j] = s => stamp[j] <= a
        /\ a = 0 \/ \E j \in Jobs : owner[j] = s /\ stamp[j] = a
    BY <1>1, <1>2, LastServedMeans
  <1>5. /\ b \in Nat
        /\ \A j \in Jobs : owner'[j] = s => stamp'[j] <= b
        /\ b = 0 \/ \E j \in Jobs : owner'[j] = s /\ stamp'[j] = b
    BY <1>1, <1>3, LastServedMeansNext
  <1>6. a <= b
    <2>1. CASE a = 0
      BY <1>5, <2>1
    <2>2. CASE a # 0
      <3>1. PICK j \in Jobs : owner[j] = s /\ stamp[j] = a
        BY <1>4, <2>2
      <3>2. stamp'[j] = a /\ owner'[j] = s
        BY <2>2, <3>1
      <3> QED
        BY <1>5, <3>2
    <2> QED
      BY <2>1, <2>2
  <1>7. b <= a
    <2>1. CASE b = 0
      BY <1>4, <2>1
    <2>2. CASE b # 0
      <3>1. PICK j \in Jobs : owner'[j] = s /\ stamp'[j] = b
        BY <1>5, <2>2
      <3>2. stamp[j] = b /\ owner[j] = s
        BY <2>2, <3>1
      <3> QED
        BY <1>4, <3>2
    <2> QED
      BY <2>1, <2>2
  <1> QED
    BY <1>2, <1>3, <1>4, <1>5, <1>6, <1>7

\* A step that stamps nothing keeps the order of service.
LEMMA QuietSteps ==
  ASSUME TypeOK, TypeOK', Rows, Rows', Passing,
         stamp' = stamp, passed' = passed,
         \A r \in Replicas : lastStamp[r] <= lastStamp'[r],
         \A j \in Jobs : owner'[j] = owner[j] \/ stamp[j] = 0
  PROVE  Passing'
  <1>1. ASSUME NEW s \in Sessions PROVE LastServed[s]' = LastServed[s]
    BY LastServedStays
  <1>2. \A r \in Replicas, j \in Jobs : stamp'[j] <= lastStamp'[r]
    <2> SUFFICES ASSUME NEW r \in Replicas, NEW j \in Jobs PROVE stamp[j] <= lastStamp'[r]
      OBVIOUS
    <2>1. stamp[j] \in Nat /\ lastStamp[r] \in Nat /\ lastStamp'[r] \in Nat
      BY DEF TypeOK
    <2>2. stamp[j] <= lastStamp[r] /\ lastStamp[r] <= lastStamp'[r]
      BY DEF Passing
    <2> QED
      BY <2>1, <2>2
  <1>3. \A s, t \in Sessions : /\ passed'[s][t] <= 1
                               /\ passed'[s][t] = 1 => LastServed[s]' < LastServed[t]'
    BY <1>1 DEF Passing
  <1> QED
    BY <1>2, <1>3 DEF Passing

\* A session with nothing in flight is served next at the latest when each
\* other has had one job taken: of those before it, each has its first turn, and
\* was served longer ago.
LEMMA FirstTurns ==
  ASSUME TypeOK, Rows, NEW sent \in SUBSET Waiting,
         \A j \in sent, k \in Waiting \ sent : Before(j, k, Waiting, InFlight, LastServed),
         NEW s \in Sessions, NEW t \in Sessions,
         \A j \in sent : owner[j] # s,
         NEW w \in Waiting, owner[w] = s,
         InFlight[s] = 0,
         NEW a \in sent, owner[a] = t
  PROVE  /\ \A b \in sent : owner[b] = t => b = a
         /\ ~(LastServed[s] < LastServed[t])
  <1>1. Sortable(Waiting, InFlight, LastServed)
    BY FiguresAreSortable
  <1>2. Waiting \in SUBSET Jobs /\ Jobs \in SUBSET Nat
    BY MaxJobsAssumption DEF Waiting, Jobs
  <1>3. PICK theirs : theirs = {j \in Waiting : owner[j] = s}
    OBVIOUS
  <1>4. theirs \in SUBSET Jobs /\ theirs \in SUBSET Nat /\ theirs # {}
    BY <1>2, <1>3
  <1>5. PICK k \in theirs : \A i \in theirs : k <= i
    BY <1>4, JobsFinite, LeastExists
  <1>6. k \in Waiting \ sent /\ owner[k] = s /\ k \in Nat
    BY <1>3, <1>4, <1>5
  <1>7. Turn(k, Waiting, InFlight) = 1
    <2>1. \A i \in Waiting : (owner[i] = owner[k] /\ i <= k) <=> i = k
      <3> SUFFICES ASSUME NEW i \in Waiting PROVE (owner[i] = owner[k] /\ i <= k) <=> i = k
        OBVIOUS
      <3>1. i \in Nat
        BY <1>2
      <3>2. owner[i] = s => k <= i
        BY <1>3, <1>5
      <3> QED
        BY <1>6, <3>1, <3>2
    <2>2. {i \in Waiting : owner[i] = owner[k] /\ i <= k} = {k}
      BY <1>6, <2>1
    <2>3. Cardinality({k}) = 1
      BY FS_Singleton
    <2> QED
      BY <1>6, <2>2, <2>3 DEF Turn
  <1>8. InFlight[t] \in Nat
    BY <1>1 DEF Sortable
  <1>9. ASSUME NEW c \in sent, owner[c] = t
        PROVE  /\ Cardinality({i \in Waiting : owner[i] = t /\ i <= c}) \in Nat
               /\ IsFiniteSet({i \in Waiting : owner[i] = t /\ i <= c})
               /\ Cardinality({i \in Waiting : owner[i] = t /\ i <= c}) <= 1
               /\ ~(LastServed[s] < LastServed[t])
    <2>1. PICK upTo : upTo = {i \in Waiting : owner[i] = t /\ i <= c}
      OBVIOUS
    <2>2. c \in upTo /\ upTo \in SUBSET Jobs
      <3>1. c \in Waiting /\ c \in Nat
        BY <1>2
      <3>2. c <= c
        BY <3>1
      <3> QED
        BY <1>2, <1>9, <2>1, <3>1, <3>2
    <2>3. IsFiniteSet(upTo) /\ Cardinality(upTo) \in Nat /\ Cardinality(upTo) # 0
      BY <2>2, JobsFinite, FS_EmptySet
    <2>4. Turn(c, Waiting, InFlight) = InFlight[t] + Cardinality(upTo)
      BY <1>9, <2>1 DEF Turn
    <2>5. Before(c, k, Waiting, InFlight, LastServed)
      BY <1>6
    <2>6. \/ Turn(c, Waiting, InFlight) < 1
          \/ Turn(c, Waiting, InFlight) = 1 /\ (LastServed[t] < LastServed[s] \/ LastServed[t] = LastServed[s])
      BY <1>6, <1>7, <1>9, <2>5, BeforeMeans
    <2>7. LastServed[s] \in Nat /\ LastServed[t] \in Nat
      BY <1>1 DEF Sortable
    <2>8. Cardinality(upTo) <= 1 /\ Turn(c, Waiting, InFlight) >= 1
      BY <1>8, <2>3, <2>4, <2>6
    <2>9. ~(LastServed[s] < LastServed[t])
      BY <1>8, <2>3, <2>4, <2>6, <2>7
    <2> QED
      BY <2>1, <2>3, <2>8, <2>9
  <1>10. ASSUME NEW b \in sent, owner[b] = t, NEW c \in sent, owner[c] = t, b < c
         PROVE  FALSE
    <2>1. PICK upTo : upTo = {i \in Waiting : owner[i] = t /\ i <= c}
      OBVIOUS
    <2>2. b \in upTo /\ c \in upTo
      BY <1>2, <1>10, <2>1
    <2>3. IsFiniteSet(upTo) /\ Cardinality(upTo) \in Nat /\ Cardinality(upTo) <= 1
      BY <1>9, <1>10, <2>1
    <2>4. IsFiniteSet(upTo \ {c}) /\ Cardinality(upTo \ {c}) = Cardinality(upTo) - 1
      BY <2>2, <2>3, FS_RemoveElement
    <2>5. Cardinality(upTo \ {c}) \in Nat
      BY <2>4, FS_CardinalityType
    <2>6. Cardinality(upTo \ {c}) = 0
      BY <2>3, <2>4, <2>5
    <2>7. upTo \ {c} = {}
      BY <2>4, <2>6, FS_EmptySet
    <2>8. b # c
      <3>1. b \in Nat /\ c \in Nat
        BY <1>2
      <3> QED
        BY <1>10, <3>1
    <2> QED
      BY <2>2, <2>7, <2>8
  <1>11. ASSUME NEW b \in sent, owner[b] = t PROVE b = a
    <2>1. a \in Nat /\ b \in Nat
      BY <1>2
    <2>2. ~(a < b) /\ ~(b < a)
      BY <1>10, <1>11
    <2> QED
      BY <2>1, <2>2
  <1> QED
    BY <1>9, <1>11

\* A dispatch of the one replica keeps the order of service.
LEMMA DispatchPasses ==
  ASSUME OneReplica, TypeOK, Rows, TypeOK', Rows', Passing, NEW r \in Replicas, Dispatch(r)
  PROVE  Passing'
  <1>1. PICK sent \in SUBSET Waiting :
          /\ \E chosen \in Seq(Waiting) :
               /\ chosen = Chosen
               /\ Len(chosen) >= 1
               /\ sent = {chosen[n] : n \in 1 .. Len(chosen)}
               /\ pool' = pool \o chosen
               /\ lastStamp' = [lastStamp EXCEPT ![r] = DispatchStamp(r, Len(chosen))]
               /\ \A j \in sent : \E n \in 1 .. Len(chosen) : stamp'[j] = DispatchStamp(r, n)
          /\ \A j \in Jobs \ sent : stamp'[j] = stamp[j]
          /\ \A j \in sent, k \in Waiting \ sent : Before(j, k, Waiting, InFlight, LastServed)
          /\ Overtakes(sent)
    BY DispatchMeans
  <1>2. PICK chosen \in Seq(Waiting) :
          /\ Len(chosen) >= 1
          /\ lastStamp' = [lastStamp EXCEPT ![r] = DispatchStamp(r, Len(chosen))]
          /\ \A j \in sent : \E n \in 1 .. Len(chosen) : stamp'[j] = DispatchStamp(r, n)
    BY <1>1
  <1>3. owner' = owner
    BY DEF Dispatch
  <1>4. Len(chosen) \in Nat \ {0}
    BY <1>2
  <1>5. /\ \A j \in sent : stamp'[j] \in Nat /\ stamp'[j] > lastStamp[r]
        /\ \A j \in Jobs : stamp'[j] # 0 <=> (j \in sent \/ stamp[j] # 0)
    <2>1. \E c \in Seq(Waiting) : \A j \in sent : \E n \in 1 .. Len(c) : stamp'[j] = DispatchStamp(r, n)
      BY <1>2
    <2> QED
      BY <1>1, <2>1, StampsSent
  <1>6. lastStamp'[r] = DispatchStamp(r, Len(chosen)) /\ lastStamp'[r] \in Nat /\ lastStamp'[r] > lastStamp[r]
    <2>1. lastStamp'[r] = DispatchStamp(r, Len(chosen))
      BY <1>2 DEF TypeOK
    <2>2. DispatchStamp(r, Len(chosen)) \in Nat /\ DispatchStamp(r, Len(chosen)) > lastStamp[r]
      BY <1>4, StampMeans
    <2> QED
      BY <2>1, <2>2
  <1>7. lastStamp[r] \in Nat
    BY DEF TypeOK
  <1>8. ASSUME NEW q \in Replicas, NEW j \in Jobs PROVE stamp'[j] <= lastStamp'[q]
    <2>0. q = r
      BY DEF OneReplica
    <2>1. CASE j \in sent
      <3>1. PICK n \in 1 .. Len(chosen) : stamp'[j] = DispatchStamp(r, n)
        BY <1>2, <2>1
      <3>2. n \in Nat \ {0} /\ n <= Len(chosen)
        BY <1>4
      <3>3. DispatchStamp(r, n) <= DispatchStamp(r, Len(chosen))
        BY <1>4, <3>2, StampMeans
      <3> QED
        BY <1>6, <2>0, <3>1, <3>3
    <2>2. CASE j \notin sent
      <3>1. stamp'[j] = stamp[j] /\ stamp[j] \in Nat
        BY <1>1, <2>2 DEF TypeOK
      <3>2. stamp[j] <= lastStamp[r]
        BY DEF Passing
      <3> QED
        BY <1>6, <1>7, <2>0, <3>1, <3>2
    <2> QED
      BY <2>1, <2>2
  <1>9. \A j \in sent : j \in Jobs /\ j \in Waiting /\ stamp[j] = 0
    BY DEF Waiting
  <1>10. ASSUME NEW s \in Sessions, \A j \in sent : owner[j] # s
         PROVE  LastServed[s]' = LastServed[s] /\ LastServed[s] \in Nat
    <2>1. \A j \in Jobs : owner[j] = s => stamp'[j] = stamp[j]
      BY <1>1, <1>10
    <2>2. \A j \in Jobs : stamp[j] # 0 /\ owner[j] = s => stamp'[j] = stamp[j] /\ owner'[j] = s
      BY <1>3, <2>1
    <2>3. \A j \in Jobs : stamp'[j] # 0 /\ owner'[j] = s => stamp'[j] = stamp[j] /\ owner[j] = s
      BY <1>3, <2>1
    <2> QED
      BY <2>2, <2>3, LastServedStays
  <1>11. ASSUME NEW s \in Sessions, NEW t \in Sessions
         PROVE  /\ passed'[s][t] <= 1
                /\ passed'[s][t] = 1 => LastServed[s]' < LastServed[t]'
    <2>1. passed'[s][t] = IF StartsAnew(s, sent) THEN 0
                          ELSE passed[s][t] + Cardinality({j \in sent : owner[j] = t})
      <3>1. Overtakes(sent)
        BY <1>1
      <3> QED
        BY <3>1, OvertakesTyped
    <2>2. CASE StartsAnew(s, sent)
      BY <2>1, <2>2
    <2>3. CASE ~StartsAnew(s, sent)
      <3>1. /\ \A j \in sent : owner[j] # s
            /\ \E w \in Waiting : owner[w] = s
            /\ ~(InFlight[s] > 0)
        BY <2>3 DEF StartsAnew
      <3>2. PICK theirs : theirs = {j \in sent : owner[j] = t}
        OBVIOUS
      <3>3. passed'[s][t] = passed[s][t] + Cardinality(theirs)
        BY <2>1, <2>3, <3>2
      <3>4. LastServed[s]' = LastServed[s] /\ LastServed[s] \in Nat
        BY <1>10, <3>1
      <3>5. passed[s][t] \in Nat /\ passed[s][t] <= 1 /\ (passed[s][t] = 1 => LastServed[s] < LastServed[t])
        BY DEF TypeOK, Passing
      <3>6. CASE theirs = {}
        <4>1. Cardinality(theirs) = 0
          BY <3>6, FS_EmptySet
        <4>2. \A j \in sent : owner[j] # t
          BY <3>2, <3>6
        <4>3. LastServed[t]' = LastServed[t]
          BY <1>10, <4>2
        <4> QED
          BY <3>3, <3>4, <3>5, <4>1, <4>3
      <3>7. CASE theirs # {}
        <4>1. PICK a \in sent : owner[a] = t
          BY <3>2, <3>7
        <4>2. InFlight[s] = 0
          <5>1. InFlight[s] \in Nat
            BY FiguresAreSortable DEF Sortable
          <5> QED
            BY <3>1, <5>1
        <4>3. PICK w \in Waiting : owner[w] = s
          BY <3>1
        <4>4. /\ \A b \in sent : owner[b] = t => b = a
              /\ ~(LastServed[s] < LastServed[t])
          <5>1. \A j \in sent, k \in Waiting \ sent : Before(j, k, Waiting, InFlight, LastServed)
            BY <1>1
          <5>2. \A j \in sent : owner[j] # s
            BY <3>1
          <5> QED
            BY <4>1, <4>2, <4>3, <5>1, <5>2, FirstTurns
        <4>5. theirs = {a}
          BY <3>2, <4>1, <4>4
        <4>6. Cardinality(theirs) = 1
          BY <4>5, FS_Singleton
        <4>7. passed[s][t] = 0
          BY <3>5, <4>4
        <4>8. LastServed[s] <= lastStamp[r]
          <5>1. LastServed[s] = 0 \/ \E j \in Jobs : owner[j] = s /\ stamp[j] = LastServed[s]
            <6>1. stamp \in [Jobs -> Nat]
              BY DEF TypeOK
            <6> QED
              BY <6>1, LastServedMeans
          <5> QED
            BY <1>7, <5>1 DEF Passing
        <4>9. stamp'[a] \in Nat /\ stamp'[a] > lastStamp[r] /\ a \in Jobs /\ owner'[a] = t
          BY <1>3, <1>5, <1>9, <4>1
        <4>10. LastServed[t]' \in Nat /\ stamp'[a] <= LastServed[t]'
          <5>1. stamp' \in [Jobs -> Nat]
            BY DEF TypeOK
          <5> QED
            BY <4>9, <5>1, LastServedMeansNext
        <4>11. LastServed[s]' < LastServed[t]'
          BY <1>7, <3>4, <4>8, <4>9, <4>10
        <4> QED
          BY <3>3, <4>6, <4>7, <4>11
      <3> QED
        BY <3>6, <3>7
    <2> QED
      BY <2>2, <2>3
  <1> QED
    BY <1>8, <1>11 DEF Passing

\* Every step of one replica's keeps the order of service.
LEMMA StepPasses ==
  ASSUME OneReplica
  PROVE  TypeOK /\ Rows /\ TypeOK' /\ Rows' /\ Passing /\ [Next]_vars => Passing'
  <1> SUFFICES ASSUME TypeOK, Rows, TypeOK', Rows', Passing, [Next]_vars PROVE Passing'
    OBVIOUS
  <1>1. CASE \E r \in Replicas : Dispatch(r)
    BY <1>1, DispatchPasses
  <1>2. CASE \E r \in Replicas : DispatchRollsBack(r)
    <2>1. PICK r \in Replicas : DispatchRollsBack(r)
      BY <1>2
    <2>2. PICK n \in Nat \ {0} : lastStamp' = [lastStamp EXCEPT ![r] = DispatchStamp(r, n)]
      <3>1. PICK chosen : chosen = Chosen
        OBVIOUS
      <3>2. Len(pool) < DispatchAhead
        BY <2>1 DEF DispatchRollsBack
      <3>3. Len(chosen) \in Nat
        BY <3>1, <3>2, ChosenMeans
      <3>4. \E n \in 1 .. Len(chosen) : lastStamp' = [lastStamp EXCEPT ![r] = DispatchStamp(r, n)]
        BY <2>1, <3>1 DEF DispatchRollsBack
      <3>5. PICK n \in 1 .. Len(chosen) : lastStamp' = [lastStamp EXCEPT ![r] = DispatchStamp(r, n)]
        BY <3>4
      <3>6. n \in Nat \ {0}
        BY <3>3
      <3> QED
        BY <3>5, <3>6
    <2>3. \A q \in Replicas : lastStamp[q] <= lastStamp'[q]
      <3> SUFFICES ASSUME NEW q \in Replicas PROVE lastStamp[q] <= lastStamp'[q]
        OBVIOUS
      <3>1. lastStamp[q] \in Nat /\ q = r
        BY DEF TypeOK, OneReplica
      <3>2. lastStamp'[q] = DispatchStamp(r, n)
        BY <2>2, <3>1 DEF TypeOK
      <3>3. DispatchStamp(r, n) \in Nat /\ DispatchStamp(r, n) > lastStamp[r]
        BY <2>2, StampMeans
      <3> QED
        BY <3>1, <3>2, <3>3
    <2>4. stamp' = stamp /\ passed' = passed /\ owner' = owner
      BY <2>1 DEF DispatchRollsBack
    <2> QED
      BY <2>3, <2>4, QuietSteps
  <1>3. CASE ~(\E r \in Replicas : Dispatch(r) \/ DispatchRollsBack(r))
    <2>1. stamp' = stamp /\ passed' = passed /\ lastStamp' = lastStamp
      BY <1>3 DEF Next, vars, Tick, Take, Insert, Submit, Begin, Settle
    <2>2. \A r \in Replicas : lastStamp[r] <= lastStamp'[r]
      BY <2>1 DEF TypeOK
    <2>3. \A j \in Jobs : owner'[j] = owner[j] \/ stamp[j] = 0
      <3>1. CASE owner' = owner
        BY <3>1
      <3>2. CASE \E s \in Sessions : Insert(s)
        <4>1. PICK s \in Sessions : Insert(s)
          BY <3>2
        <4>2. PICK j \in Jobs : state[j] = "none" /\ owner' = [owner EXCEPT ![j] = s]
          BY <4>1 DEF Insert
        <4>3. \A k \in Jobs : k = j \/ owner'[k] = owner[k]
          BY <4>2 DEF TypeOK
        <4>4. stamp[j] = 0
          BY <4>2 DEF Rows
        <4> QED
          BY <4>3, <4>4
      <3>3. owner' = owner \/ \E s \in Sessions : Insert(s)
        BY <1>3 DEF Next, vars, Tick, Take, Submit, Begin, Settle
      <3> QED
        BY <3>1, <3>2, <3>3
    <2> QED
      BY <2>1, <2>2, <2>3, QuietSteps
  <1> QED
    BY <1>1, <1>2, <1>3

\* Initially nobody was served or passed.
LEMMA StartPasses == Init => Passing
  <1> SUFFICES ASSUME Init PROVE Passing
    OBVIOUS
  <1>1. \A r \in Replicas, j \in Jobs : stamp[j] <= lastStamp[r]
    BY DEF Init
  <1>2. \A s, t \in Sessions : passed[s][t] = 0
    BY DEF Init
  <1> QED
    BY <1>1, <1>2 DEF Passing

\* fair.ts:10-14: while a session waits with nothing in flight, no other has
\* two of its jobs taken, where one replica dispatches.  With two, their stamps
\* may tie within a millisecond and the order of service is lost.
THEOREM NobodyIsPassedTwice ==
  ASSUME OneReplica
  PROVE  Spec => []NobodyPassesTwice
  <1>1. Init => Passing
    BY StartPasses
  <1>2. TypeOK /\ Rows /\ TypeOK' /\ Rows' /\ Passing /\ [Next]_vars => Passing'
    BY StepPasses
  <1>3. Spec => [](TypeOK /\ Rows)
    BY RowsCorrect
  <1>4. Passing => NobodyPassesTwice
    BY DEF Passing, NobodyPassesTwice
  <1> QED
    BY <1>1, <1>2, <1>3, <1>4, PTL DEF Spec

-----------------------------------------------------------------------------
(* The queue view.                                                         *)

\* As many numbers as the last of them.
LEMMA UpTo == ASSUME NEW k \in Nat PROVE IsFiniteSet(1 .. k) /\ Cardinality(1 .. k) = k
  <1>1. 1 \in Int /\ k \in Int
    OBVIOUS
  <1>2. IsFiniteSet(1 .. k) /\ Cardinality(1 .. k) = IF 1 > k THEN 0 ELSE k - 1 + 1
    BY <1>1, FS_Interval
  <1> QED
    BY <1>2

\* Where a sequence lists each element of a finite set in a strict total order,
\* the n-th has n - 1 before it.
LEMMA PlaceIsRank ==
  ASSUME NEW S, IsFiniteSet(S), NEW R, Ordered(S, R), NEW q \in Seq(S),
         \A m, n \in 1 .. Len(q) : m < n => <<q[m], q[n]>> \in R,
         \A a \in S : \E n \in 1 .. Len(q) : q[n] = a
  PROVE  /\ Len(q) = Cardinality(S)
         /\ \A n \in 1 .. Len(q) : Cardinality({y \in S : <<y, q[n]>> \in R}) = n - 1
  <1>0. Len(q) \in Nat /\ \A n \in 1 .. Len(q) : q[n] \in S
    OBVIOUS
  <1>1. ASSUME NEW m \in 1 .. Len(q), NEW n \in 1 .. Len(q), <<q[m], q[n]>> \in R PROVE m < n
    <2>1. ~(<<q[n], q[m]>> \in R) /\ q[m] # q[n]
      BY <1>0, <1>1 DEF Ordered
    <2>2. m # n /\ ~(n < m)
      BY <2>1
    <2> QED
      BY <1>0, <2>2
  <1>2. \A m, n \in 1 .. Len(q) : q[m] = q[n] => m = n
    <2> SUFFICES ASSUME NEW m \in 1 .. Len(q), NEW n \in 1 .. Len(q), q[m] = q[n], m # n PROVE FALSE
      OBVIOUS
    <2>1. <<q[m], q[n]>> \in R \/ <<q[n], q[m]>> \in R
      <3>1. m < n \/ n < m
        BY <1>0
      <3> QED
        BY <3>1
    <2> QED
      BY <1>0, <2>1 DEF Ordered
  <1>3. Len(q) = Cardinality(S)
    <2>1. PICK f : f = [i \in 1 .. Len(q) |-> q[i]]
      OBVIOUS
    <2>2. f \in Bijection(1 .. Len(q), S)
      <3>1. f \in [1 .. Len(q) -> S]
        BY <1>0, <2>1
      <3>2. \A a \in S : \E n \in 1 .. Len(q) : f[n] = a
        BY <2>1
      <3>3. \A m, n \in 1 .. Len(q) : f[m] = f[n] => m = n
        BY <1>2, <2>1
      <3> QED
        BY <3>1, <3>2, <3>3 DEF Bijection, Injection, Surjection, IsInjective
    <2>3. ExistsBijection(1 .. Len(q), S)
      BY <2>2 DEF ExistsBijection
    <2>4. IsFiniteSet(1 .. Len(q)) /\ Cardinality(1 .. Len(q)) = Len(q)
      BY <1>0, UpTo
    <2> QED
      BY <2>3, <2>4, FS_Bijection
  <1>4. ASSUME NEW n \in 1 .. Len(q) PROVE Cardinality({y \in S : <<y, q[n]>> \in R}) = n - 1
    <2>0. n \in Nat /\ n - 1 \in Nat /\ 1 .. n - 1 \subseteq 1 .. Len(q)
      BY <1>0
    <2>1. PICK B : B = {y \in S : <<y, q[n]>> \in R}
      OBVIOUS
    <2>2. PICK f : f = [i \in 1 .. n - 1 |-> q[i]]
      OBVIOUS
    <2>3. f \in Bijection(1 .. n - 1, B)
      <3>1. ASSUME NEW i \in 1 .. n - 1 PROVE f[i] \in B
        <4>1. i \in 1 .. Len(q) /\ i < n
          BY <1>0, <2>0
        <4> QED
          BY <1>0, <2>1, <2>2, <4>1
      <3>2. f \in [1 .. n - 1 -> B]
        BY <2>2, <3>1
      <3>3. ASSUME NEW a \in B PROVE \E m \in 1 .. n - 1 : f[m] = a
        <4>1. a \in S /\ <<a, q[n]>> \in R
          BY <2>1
        <4>2. PICK m \in 1 .. Len(q) : q[m] = a
          BY <4>1
        <4>3. m < n
          BY <1>1, <4>1, <4>2
        <4>4. m \in 1 .. n - 1
          BY <1>0, <4>3
        <4> QED
          BY <2>2, <4>2, <4>4
      <3>4. \A k, m \in 1 .. n - 1 : f[k] = f[m] => k = m
        BY <1>2, <2>0, <2>2
      <3> QED
        BY <3>2, <3>3, <3>4 DEF Bijection, Injection, Surjection, IsInjective
    <2>4. ExistsBijection(1 .. n - 1, B)
      BY <2>3 DEF ExistsBijection
    <2>5. IsFiniteSet(1 .. n - 1) /\ Cardinality(1 .. n - 1) = n - 1
      BY <2>0, UpTo
    <2>6. Cardinality(B) = n - 1
      BY <2>4, <2>5, FS_Bijection
    <2> QED
      BY <2>1, <2>6
  <1> QED
    BY <1>3, <1>4

\* Those handed to the pool and not begun, as they were: each once, and in the
\* order of their stamps.
InLine(q) ==
  /\ \A n \in 1 .. Len(q) : state[q[n]] = "queued" /\ stamp[q[n]] # 0
  /\ \A m, n \in 1 .. Len(q) : m < n => stamp[q[m]] < stamp[q[n]]
  /\ \A j \in Jobs : state[j] = "queued" /\ stamp[j] # 0 => \E n \in 1 .. Len(q) : q[n] = j

\* Until a dispatch rolls back, the pool has what was stamped, in that order.
PoolInOrder == rollbacks = 0 => InLine(taken \o pool)

\* The pool's list after those taken.
LEMMA LineIs ==
  ASSUME NEW s \in Seq(Jobs), NEW t \in Seq(Jobs)
  PROVE  /\ s \o t \in Seq(Jobs) /\ Len(s) \in Nat /\ Len(t) \in Nat
         /\ Len(s \o t) = Len(s) + Len(t)
         /\ \A n \in 1 .. Len(s) : n \in 1 .. Len(s \o t) /\ (s \o t)[n] = s[n]
         /\ \A n \in 1 .. Len(t) : Len(s) + n \in 1 .. Len(s \o t) /\ (s \o t)[Len(s) + n] = t[n]
         /\ \A n \in 1 .. Len(s \o t) : \/ n \in 1 .. Len(s)
                                        \/ n - Len(s) \in 1 .. Len(t) /\ Len(s) + (n - Len(s)) = n
  <1>1. PICK q : q = s \o t
    OBVIOUS
  <1>2. PICK a \in Nat : a = Len(s)
    OBVIOUS
  <1>3. PICK b \in Nat : b = Len(t)
    OBVIOUS
  <1>4. /\ q \in Seq(Jobs) /\ Len(q) = a + b
        /\ \A i \in 1 .. a + b : q[i] = IF i <= a THEN s[i] ELSE t[i - a]
    BY <1>1, <1>2, <1>3, ConcatProperties
  <1>5. \A n \in 1 .. a : n \in 1 .. a + b /\ q[n] = s[n]
    BY <1>4
  <1>6. \A n \in 1 .. b : a + n \in 1 .. a + b /\ q[a + n] = t[n]
    <2> SUFFICES ASSUME NEW n \in 1 .. b PROVE a + n \in 1 .. a + b /\ q[a + n] = t[n]
      OBVIOUS
    <2>1. a + n \in 1 .. a + b /\ ~(a + n <= a) /\ a + n - a = n
      OBVIOUS
    <2> QED
      BY <1>4, <2>1
  <1>7. \A n \in 1 .. a + b : n \in 1 .. a \/ (n - a \in 1 .. b /\ a + (n - a) = n)
    OBVIOUS
  <1> QED
    BY <1>1, <1>2, <1>3, <1>4, <1>5, <1>6, <1>7

\* A step that takes no job from the pool, and keeps which are queued there.
LEMMA LineStays ==
  ASSUME NEW q \in Seq(Jobs), InLine(q), stamp' = stamp,
         \A j \in Jobs : stamp[j] # 0 => (state'[j] = "queued" <=> state[j] = "queued")
  PROVE  InLine(q)'
  <1>1. \A n \in 1 .. Len(q) : q[n] \in Jobs
    OBVIOUS
  <1> QED
    BY <1>1 DEF InLine

\* Stamps go up along what a dispatch chooses.
LEMMA StampsInOrder ==
  ASSUME TypeOK, Rows, NEW r \in Replicas, Dispatch(r)
  PROVE  \E chosen \in Seq(Waiting) :
           /\ pool' = pool \o chosen
           /\ \A n \in 1 .. Len(chosen) : stamp'[chosen[n]] = DispatchStamp(r, n)
           /\ \A j \in Jobs : (\A n \in 1 .. Len(chosen) : chosen[n] # j) => stamp'[j] = stamp[j]
  <1>1. PICK chosen : chosen = Chosen
    OBVIOUS
  <1>2. PICK sent : sent = {chosen[n] : n \in 1 .. Len(chosen)}
    OBVIOUS
  <1>3. PICK at : at = [j \in Jobs |-> CHOOSE n \in 1 .. Len(chosen) : chosen[n] = j]
    OBVIOUS
  <1>4. Len(pool) < DispatchAhead
    BY DEF Dispatch
  <1>5. /\ pool' = pool \o chosen
        /\ stamp' = [j \in Jobs |-> IF j \in sent THEN DispatchStamp(r, at[j]) ELSE stamp[j]]
    BY <1>1, <1>2, <1>3 DEF Dispatch
  <1>6. /\ chosen \in Seq(Waiting)
        /\ \A m, n \in 1 .. Len(chosen) :
             m < n => Before(chosen[m], chosen[n], Waiting, InFlight, LastServed)
    BY <1>1, <1>4, ChosenMeans
  <1>7. Len(chosen) \in Nat /\ \A n \in 1 .. Len(chosen) : chosen[n] \in Waiting /\ chosen[n] \in Jobs
    BY <1>6 DEF Waiting
  <1>8. ASSUME NEW m \in 1 .. Len(chosen), NEW n \in 1 .. Len(chosen), chosen[m] = chosen[n] PROVE m = n
    <2>1. PICK R : R = FairPairs(Waiting, InFlight, LastServed)
      OBVIOUS
    <2>2. \A a \in Waiting : <<a, a>> \notin R
      BY <2>1, FiguresAreSortable, FairIsOrder DEF Ordered
    <2>3. ~Before(chosen[n], chosen[n], Waiting, InFlight, LastServed)
      BY <1>7, <2>1, <2>2, FairPairsMean
    <2>4. ~(m < n) /\ ~(n < m)
      BY <1>6, <1>8, <2>3
    <2> QED
      BY <1>7, <2>4
  <1>9. ASSUME NEW n \in 1 .. Len(chosen) PROVE stamp'[chosen[n]] = DispatchStamp(r, n)
    <2>1. chosen[n] \in Jobs /\ chosen[n] \in sent
      BY <1>2, <1>7
    <2>2. at[chosen[n]] \in 1 .. Len(chosen) /\ chosen[at[chosen[n]]] = chosen[n]
      BY <1>3, <2>1
    <2>3. at[chosen[n]] = n
      BY <1>8, <2>2
    <2> QED
      BY <1>5, <2>1, <2>3
  <1>10. \A j \in Jobs : (\A n \in 1 .. Len(chosen) : chosen[n] # j) => stamp'[j] = stamp[j]
    BY <1>2, <1>5
  <1> QED
    BY <1>5, <1>6, <1>9, <1>10

\* A dispatch puts what it stamped at the end of the line.
LEMMA DispatchInLine ==
  ASSUME OneReplica, TypeOK, Rows, TypeOK', Passing, PoolInOrder, NEW r \in Replicas, Dispatch(r), rollbacks = 0
  PROVE  InLine(taken \o pool)'
  <1>1. PICK chosen \in Seq(Waiting) :
          /\ pool' = pool \o chosen
          /\ \A n \in 1 .. Len(chosen) : stamp'[chosen[n]] = DispatchStamp(r, n)
          /\ \A j \in Jobs : (\A n \in 1 .. Len(chosen) : chosen[n] # j) => stamp'[j] = stamp[j]
    BY StampsInOrder
  <1>2. PICK q : q = taken \o pool
    OBVIOUS
  <1>3. PICK l : l = q \o chosen
    OBVIOUS
  <1>4. taken \in Seq(Jobs) /\ pool \in Seq(Jobs) /\ chosen \in Seq(Jobs)
    BY DEF TypeOK, Waiting
  <1>5. q \in Seq(Jobs) /\ (taken \o pool)' = l /\ state' = state
    <2>1. taken' = taken /\ state' = state
      BY DEF Dispatch
    <2>2. taken \o (pool \o chosen) = (taken \o pool) \o chosen
      <3>1. \A s, t, u \in Seq(Jobs) : s \o (t \o u) = (s \o t) \o u
        BY ConcatAssociative
      <3> QED
        BY <1>4, <3>1
    <2>3. q \in Seq(Jobs)
      BY <1>2, <1>4, LineIs
    <2>4. (taken \o pool)' = taken \o (pool \o chosen)
      BY <1>1, <2>1
    <2> QED
      BY ZenonT(60), <1>2, <1>3, <2>1, <2>2, <2>3, <2>4
  <1>6. InLine(q)
    BY <1>2 DEF PoolInOrder
  <1>7. PICK a \in Nat : a = Len(q)
    BY <1>5
  <1>8. PICK b \in Nat : b = Len(chosen)
    BY <1>4
  <1>9. /\ Len(l) = a + b
        /\ \A n \in 1 .. a : n \in 1 .. a + b /\ l[n] = q[n] /\ q[n] \in Jobs
        /\ \A n \in 1 .. b : a + n \in 1 .. a + b /\ l[a + n] = chosen[n] /\ chosen[n] \in Waiting /\ chosen[n] \in Jobs
        /\ \A n \in 1 .. a + b : n \in 1 .. a \/ (n - a \in 1 .. b /\ a + (n - a) = n)
    <2>1. \A n \in 1 .. a : q[n] \in Jobs
      BY <1>5, <1>7
    <2>2. \A n \in 1 .. b : chosen[n] \in Waiting /\ chosen[n] \in Jobs
      BY <1>4, <1>8
    <2>3. /\ Len(q \o chosen) = Len(q) + Len(chosen)
          /\ \A n \in 1 .. Len(q) : n \in 1 .. Len(q \o chosen) /\ (q \o chosen)[n] = q[n]
          /\ \A n \in 1 .. Len(chosen) :
               Len(q) + n \in 1 .. Len(q \o chosen) /\ (q \o chosen)[Len(q) + n] = chosen[n]
          /\ \A n \in 1 .. Len(q \o chosen) :
               \/ n \in 1 .. Len(q)
               \/ n - Len(q) \in 1 .. Len(chosen) /\ Len(q) + (n - Len(q)) = n
      BY ZenonT(60), <1>4, <1>5, LineIs
    <2>4. /\ Len(l) = a + b
          /\ \A n \in 1 .. a : n \in 1 .. Len(l) /\ l[n] = q[n]
          /\ \A n \in 1 .. b : a + n \in 1 .. Len(l) /\ l[a + n] = chosen[n]
          /\ \A n \in 1 .. Len(l) : n \in 1 .. a \/ (n - a \in 1 .. b /\ a + (n - a) = n)
      BY ZenonT(60), <1>3, <1>7, <1>8, <2>3
    <2> QED
      BY ZenonT(60), <2>1, <2>2, <2>4
  <1>10. \A n \in 1 .. b : stamp'[chosen[n]] = DispatchStamp(r, n)
    BY <1>1, <1>8
  <1>11. \A n \in 1 .. a : stamp'[q[n]] = stamp[q[n]]
    <2> SUFFICES ASSUME NEW n \in 1 .. a PROVE stamp'[q[n]] = stamp[q[n]]
      OBVIOUS
    <2>1. stamp[q[n]] # 0
      BY <1>6, <1>7 DEF InLine
    <2>2. \A m \in 1 .. Len(chosen) : chosen[m] # q[n]
      BY <1>8, <1>9, <2>1 DEF Waiting
    <2> QED
      BY <1>1, <1>9, <2>2
  <1>12. \A n \in 1 .. b : DispatchStamp(r, n) \in Nat \ {0} /\ DispatchStamp(r, n) > lastStamp[r]
    BY StampMeans
  <1>13. \A m, n \in 1 .. b : m < n => DispatchStamp(r, m) < DispatchStamp(r, n)
    <2>1. PICK first : first = IF now > lastStamp[r] + 1 THEN now ELSE lastStamp[r] + 1
      OBVIOUS
    <2>2. first \in Nat
      BY <2>1, ClockAssumption DEF TypeOK
    <2>3. \A n \in 1 .. b : DispatchStamp(r, n) = first + n - 1
      BY <2>1 DEF DispatchStamp
    <2> QED
      BY <2>2, <2>3
  <1>14. \A n \in 1 .. Len(l) : state'[l[n]] = "queued" /\ stamp'[l[n]] # 0
    <2> SUFFICES ASSUME NEW n \in 1 .. a + b PROVE state'[l[n]] = "queued" /\ stamp'[l[n]] # 0
      BY <1>9
    <2>1. CASE n \in 1 .. a
      <3>1. state[q[n]] = "queued" /\ stamp[q[n]] # 0
        BY <1>6, <1>7, <2>1 DEF InLine
      <3> QED
        BY <1>5, <1>9, <1>11, <2>1, <3>1
    <2>2. ASSUME NEW i \in 1 .. b, n = a + i PROVE state'[l[n]] = "queued" /\ stamp'[l[n]] # 0
      <3>1. l[n] = chosen[i] /\ chosen[i] \in Waiting
        BY <1>9, <2>2
      <3>2. stamp'[chosen[i]] = DispatchStamp(r, i) /\ DispatchStamp(r, i) # 0
        BY <1>10, <1>12
      <3> QED
        BY <1>5, <3>1, <3>2 DEF Waiting
    <2> QED
      BY <1>9, <2>1, <2>2
  <1>15. \A m, n \in 1 .. Len(l) : m < n => stamp'[l[m]] < stamp'[l[n]]
    <2> SUFFICES ASSUME NEW m \in 1 .. a + b, NEW n \in 1 .. a + b, m < n PROVE stamp'[l[m]] < stamp'[l[n]]
      BY <1>9
    <2>1. CASE n \in 1 .. a
      <3>1. m \in 1 .. a
        BY <2>1
      <3>2. stamp[q[m]] < stamp[q[n]]
        BY <1>6, <1>7, <2>1, <3>1 DEF InLine
      <3> QED
        BY <1>9, <1>11, <2>1, <3>1, <3>2
    <2>2. ASSUME NEW i \in 1 .. b, n = a + i, m \in 1 .. a PROVE stamp'[l[m]] < stamp'[l[n]]
      <3>1. stamp'[l[m]] = stamp[q[m]] /\ stamp'[l[n]] = DispatchStamp(r, i)
        BY <1>9, <1>10, <1>11, <2>2
      <3>2. stamp[q[m]] <= lastStamp[r] /\ stamp[q[m]] \in Nat /\ lastStamp[r] \in Nat
        BY <1>9, <2>2 DEF Passing, TypeOK
      <3>3. DispatchStamp(r, i) \in Nat /\ DispatchStamp(r, i) > lastStamp[r]
        BY <1>12
      <3> QED
        BY <3>1, <3>2, <3>3
    <2>3. ASSUME NEW i \in 1 .. b, n = a + i, NEW k \in 1 .. b, m = a + k PROVE stamp'[l[m]] < stamp'[l[n]]
      <3>1. k < i
        BY <2>3
      <3>2. l[n] = chosen[i] /\ l[m] = chosen[k]
        BY <1>9, <2>3
      <3>3. stamp'[chosen[i]] = DispatchStamp(r, i) /\ stamp'[chosen[k]] = DispatchStamp(r, k)
        BY <1>10
      <3> QED
        BY <1>13, <3>1, <3>2, <3>3
    <2> QED
      BY <1>9, <2>1, <2>2, <2>3
  <1>16. ASSUME NEW j \in Jobs, state'[j] = "queued", stamp'[j] # 0 PROVE \E n \in 1 .. Len(l) : l[n] = j
    <2>1. CASE \E n \in 1 .. b : chosen[n] = j
      BY <1>9, <2>1
    <2>2. CASE \A n \in 1 .. b : chosen[n] # j
      <3>1. stamp[j] # 0 /\ state[j] = "queued"
        BY <1>1, <1>5, <1>8, <1>16, <2>2
      <3>2. PICK n \in 1 .. a : q[n] = j
        BY <1>6, <1>7, <3>1 DEF InLine
      <3> QED
        BY <1>9, <3>2
    <2> QED
      BY <2>1, <2>2
  <1> QED
    BY <1>5, <1>14, <1>15, <1>16 DEF InLine

\* A worker takes the first of the list, and it joins the end of those taken.
LEMMA TakeInLine ==
  ASSUME TypeOK, PoolInOrder, Take, rollbacks = 0
  PROVE  InLine(taken \o pool)'
  <1>1. taken \in Seq(Jobs) /\ pool \in Seq(Jobs) /\ pool # <<>>
    BY DEF TypeOK, Take
  <1>2. PICK h : h = Head(pool)
    OBVIOUS
  <1>3. PICK t : t = Tail(pool)
    OBVIOUS
  <1>4. PICK q : q = taken \o pool
    OBVIOUS
  <1>5. InLine(q)
    BY <1>4 DEF PoolInOrder
  <1>6. PICK a \in Nat : a = Len(taken)
    BY <1>1
  <1>7. PICK b \in Nat : b = Len(t)
    BY <1>1, <1>3, HeadTailProperties
  <1>8. /\ h \in Jobs /\ t \in Seq(Jobs) /\ Len(pool) = b + 1 /\ h = pool[1]
        /\ \A i \in 1 .. b : t[i] = pool[i + 1]
    BY <1>1, <1>2, <1>3, <1>7, HeadTailProperties
  <1>9. /\ q \in Seq(Jobs) /\ Len(q) = a + b + 1
        /\ \A n \in 1 .. a : q[n] = taken[n]
        /\ \A n \in 1 .. b + 1 : q[a + n] = pool[n]
    <2>1. q \in Seq(Jobs) /\ Len(q) = Len(taken) + Len(pool)
      BY <1>1, <1>4, LineIs
    <2>2. \A n \in 1 .. Len(taken) : q[n] = taken[n]
      BY <1>1, <1>4, LineIs
    <2>3. \A n \in 1 .. Len(pool) : q[Len(taken) + n] = pool[n]
      BY <1>1, <1>4, LineIs
    <2>4. Len(q) = a + b + 1
      BY <1>6, <1>7, <1>8, <2>1
    <2> QED
      BY <1>6, <1>8, <2>1, <2>2, <2>3, <2>4
  <1>10. q[a + 1] = h /\ a + 1 \in 1 .. Len(q)
    BY <1>8, <1>9
  <1>11. state[h] = "queued" /\ \A n \in 1 .. a : taken[n] # h
    <2>1. \A n \in 1 .. a : stamp[q[n]] < stamp[q[a + 1]]
      BY <1>5, <1>9, <1>10 DEF InLine
    <2>2. stamp[h] \in Nat
      BY <1>8 DEF TypeOK
    <2>3. \A n \in 1 .. a : taken[n] # h
      BY <1>9, <1>10, <2>1, <2>2
    <2> QED
      BY <1>5, <1>10, <2>3 DEF InLine
  <1>12. taken' = Append(taken, h) /\ pool' = t /\ state' = state /\ stamp' = stamp
    BY <1>2, <1>3, <1>6, <1>11 DEF Take
  <1>13. /\ taken' \in Seq(Jobs) /\ Len(taken') = a + 1
         /\ \A n \in 1 .. a : taken'[n] = taken[n]
         /\ taken'[a + 1] = h
    BY <1>1, <1>6, <1>8, <1>12
  <1>14. PICK l : l = taken' \o pool'
    OBVIOUS
  <1>15. /\ l \in Seq(Jobs) /\ Len(l) = a + b + 1
         /\ \A i \in 1 .. a + 1 + b : l[i] = IF i <= a + 1 THEN taken'[i] ELSE t[i - (a + 1)]
    <2>1. l = taken' \o t
      BY <1>12, <1>14
    <2>2. taken' \o t \in Seq(Jobs) /\ Len(taken' \o t) = Len(taken') + Len(t)
      BY <1>8, <1>13, ConcatProperties
    <2>3. \A i \in 1 .. Len(taken') + Len(t) :
            (taken' \o t)[i] = IF i <= Len(taken') THEN taken'[i] ELSE t[i - Len(taken')]
      BY <1>8, <1>13, ConcatProperties
    <2>4. Len(taken') = a + 1 /\ Len(t) = b /\ Len(taken') + Len(t) = a + 1 + b /\ a + 1 + b = a + b + 1
      BY <1>7, <1>13
    <2> QED
      BY <2>1, <2>2, <2>3, <2>4
  <1>16. ASSUME NEW i \in 1 .. Len(l) PROVE l[i] = q[i]
    <2>1. CASE i \in 1 .. a
      BY <1>9, <1>13, <1>15, <2>1
    <2>2. CASE i = a + 1
      BY <1>10, <1>13, <1>15, <2>2
    <2>3. CASE i > a + 1
      <3>1. PICK k \in 1 .. b : i = a + 1 + k
        <4>1. i - (a + 1) \in 1 .. b /\ i = a + 1 + (i - (a + 1))
          BY <1>15, <2>3
        <4> QED
          BY <4>1
      <3>2. l[i] = t[k]
        <4>1. i \in 1 .. a + 1 + b /\ ~(i <= a + 1) /\ i - (a + 1) = k
          BY <3>1
        <4> QED
          BY <1>15, <4>1
      <3>3. q[a + (k + 1)] = pool[k + 1] /\ a + (k + 1) = i
        BY <1>9, <3>1
      <3> QED
        BY <1>8, <3>2, <3>3
    <2> QED
      BY <1>15, <2>1, <2>2, <2>3
  <1>17. l = q
    BY <1>9, <1>15, <1>16, SeqEqual
  <1> QED
    BY <1>5, <1>12, <1>14, <1>17 DEF InLine

\* Who is heard of leaves the line.
LEMMA WordInLine ==
  ASSUME TypeOK, PoolInOrder, NEW j \in Jobs, Begin(j) \/ Settle(j), rollbacks = 0
  PROVE  InLine(taken \o pool)'
  <1>1. Heard(j) /\ UNCHANGED <<stamp, pool>>
    BY DEF Begin, Settle
  <1>2. \A k \in Jobs : state'[k] = "queued" <=> state[k] = "queued" /\ k # j
    BY DEF Begin, Settle, TypeOK
  <1>3. PICK q : q = taken \o pool
    OBVIOUS
  <1>4. taken \in Seq(Jobs) /\ pool \in Seq(Jobs)
    BY DEF TypeOK
  <1>5. InLine(q)
    BY <1>3 DEF PoolInOrder
  <1>6. CASE taken' = taken /\ \A n \in 1 .. Len(taken) : taken[n] # j
    <2>1. state[j] = "processing"
      BY <1>6 DEF Begin, Settle
    <2>2. \A k \in Jobs : state'[k] = "queued" <=> state[k] = "queued"
      BY <1>2, <2>1
    <2>3. q \in Seq(Jobs)
      BY <1>3, <1>4, LineIs
    <2>4. InLine(q)'
      BY <1>1, <1>5, <2>2, <2>3, LineStays
    <2> QED
      BY <1>1, <1>3, <1>6, <2>4 DEF InLine
  <1>7. ASSUME NEW n \in 1 .. Len(taken), taken[n] = j,
               taken' = SubSeq(taken, 1, n - 1) \o SubSeq(taken, n + 1, Len(taken))
        PROVE  InLine(taken \o pool)'
    <2>1. PICK a \in Nat : a = Len(taken)
      BY <1>4
    <2>2. PICK b \in Nat : b = Len(pool)
      BY <1>4
    <2>3. /\ taken' \in Seq(Jobs) /\ Len(taken') = a - 1 /\ n \in 1 .. a
          /\ \A i \in 1 .. a - 1 : taken'[i] = IF i < n THEN taken[i] ELSE taken[i + 1]
      BY <1>4, <1>7, <2>1, WithoutNth
    <2>4. PICK l : l = taken' \o pool
      OBVIOUS
    <2>5. /\ q \in Seq(Jobs) /\ Len(q) = a + b
          /\ \A i \in 1 .. a + b : q[i] = IF i <= a THEN taken[i] ELSE pool[i - a]
      BY <1>3, <1>4, <2>1, <2>2, ConcatProperties
    <2>6. /\ l \in Seq(Jobs) /\ Len(l) = a - 1 + b
          /\ \A i \in 1 .. a - 1 + b : l[i] = IF i <= a - 1 THEN taken'[i] ELSE pool[i - (a - 1)]
      <3>1. l = taken' \o pool
        BY <2>4
      <3>2. l \in Seq(Jobs) /\ Len(l) = Len(taken') + Len(pool)
        BY <1>4, <2>3, <3>1, ConcatProperties
      <3>3. \A i \in 1 .. Len(taken') + Len(pool) :
              l[i] = IF i <= Len(taken') THEN taken'[i] ELSE pool[i - Len(taken')]
        BY <1>4, <2>3, <3>1, ConcatProperties
      <3>4. Len(taken') = a - 1 /\ Len(pool) = b
        BY <2>2, <2>3
      <3> QED
        BY <3>2, <3>3, <3>4
    <2>7. ASSUME NEW i \in 1 .. a + b - 1 PROVE l[i] = IF i < n THEN q[i] ELSE q[i + 1]
      <3>1. CASE i <= a - 1
        <4>1. l[i] = taken'[i] /\ i \in 1 .. a - 1
          BY <2>3, <2>6, <3>1
        <4>2. q[i] = taken[i] /\ q[i + 1] = taken[i + 1]
          <5>1. i \in 1 .. a + b /\ i <= a /\ i + 1 \in 1 .. a + b /\ i + 1 <= a
            BY <3>1
          <5> QED
            BY <2>5, <5>1
        <4> QED
          BY <2>3, <4>1, <4>2
      <3>2. CASE ~(i <= a - 1)
        <4>1. /\ i + 1 \in 1 .. a + b /\ ~(i + 1 <= a) /\ i + 1 - a = i - (a - 1)
              /\ i \in 1 .. a - 1 + b /\ ~(i < n)
          BY <2>3, <3>2
        <4>2. l[i] = pool[i - (a - 1)]
          BY <2>6, <3>2, <4>1
        <4>3. q[i + 1] = pool[i + 1 - a]
          BY <2>5, <4>1
        <4> QED
          BY <4>1, <4>2, <4>3
      <3> QED
        BY <3>1, <3>2
    <2>8. q[n] = j /\ n \in 1 .. a + b
      <3>1. n \in 1 .. a + b /\ n <= a
        <4>1. n \in 1 .. a
          BY <2>3
        <4> QED
          BY <4>1
      <3>2. q[n] = taken[n]
        BY <2>5, <3>1
      <3>3. taken[n] = j
        BY <1>7
      <3> QED
        BY <3>1, <3>2, <3>3
    <2>9. PICK from : from = [i \in 1 .. a + b - 1 |-> IF i < n THEN i ELSE i + 1]
      OBVIOUS
    <2>10. /\ \A i \in 1 .. a + b - 1 : from[i] \in 1 .. a + b /\ from[i] # n /\ l[i] = q[from[i]]
           /\ \A m, i \in 1 .. a + b - 1 : m < i => from[m] < from[i]
           /\ \A i \in 1 .. a + b : i = n \/ \E m \in 1 .. a + b - 1 : from[m] = i
      <3>1. \A i \in 1 .. a + b - 1 : from[i] \in 1 .. a + b /\ from[i] # n
        BY <2>8, <2>9
      <3>2. \A i \in 1 .. a + b - 1 : l[i] = q[from[i]]
        BY <2>7, <2>9
      <3>3. \A m, i \in 1 .. a + b - 1 : m < i => from[m] < from[i]
        BY <2>8, <2>9
      <3>4. ASSUME NEW i \in 1 .. a + b, i # n PROVE \E m \in 1 .. a + b - 1 : from[m] = i
        <4>1. CASE i < n
          <5>1. i \in 1 .. a + b - 1 /\ from[i] = i
            BY <2>8, <2>9, <4>1
          <5> QED
            BY <5>1
        <4>2. CASE i > n
          <5>1. i - 1 \in 1 .. a + b - 1 /\ from[i - 1] = i
            BY <2>8, <2>9, <4>2
          <5> QED
            BY <5>1
        <4> QED
          BY <2>8, <3>4, <4>1, <4>2
      <3> QED
        BY <3>1, <3>2, <3>3, <3>4
    <2>11. /\ \A i \in 1 .. a + b : state[q[i]] = "queued" /\ stamp[q[i]] # 0 /\ q[i] \in Jobs
           /\ \A m, i \in 1 .. a + b : m < i => stamp[q[m]] < stamp[q[i]]
           /\ \A k \in Jobs : state[k] = "queued" /\ stamp[k] # 0 => \E i \in 1 .. a + b : q[i] = k
      <3>1. /\ \A i \in 1 .. Len(q) : state[q[i]] = "queued" /\ stamp[q[i]] # 0
            /\ \A m, i \in 1 .. Len(q) : m < i => stamp[q[m]] < stamp[q[i]]
            /\ \A k \in Jobs : state[k] = "queued" /\ stamp[k] # 0 => \E i \in 1 .. Len(q) : q[i] = k
        BY <1>5 DEF InLine
      <3>2. \A i \in 1 .. Len(q) : q[i] \in Jobs
        BY <2>5
      <3>3. Len(q) = a + b
        BY <2>5
      <3> QED
        BY ZenonT(60), <3>1, <3>2, <3>3
    <2>12. \A i \in 1 .. a + b : i # n => q[i] # j
      <3> SUFFICES ASSUME NEW i \in 1 .. a + b, i # n PROVE q[i] # q[n]
        BY <2>8
      <3>1. i < n \/ n < i
        BY <2>8
      <3>2. stamp[q[i]] < stamp[q[n]] \/ stamp[q[n]] < stamp[q[i]]
        BY <2>8, <2>11, <3>1
      <3>3. stamp[q[i]] \in Nat
        BY <2>11 DEF TypeOK
      <3> QED
        BY <3>2, <3>3
    <2>13. Len(l) = a + b - 1 /\ (taken \o pool)' = l /\ stamp' = stamp
      BY <1>1, <2>4, <2>6
    <2>14. \A i \in 1 .. Len(l) : state'[l[i]] = "queued" /\ stamp'[l[i]] # 0
      <3> SUFFICES ASSUME NEW i \in 1 .. a + b - 1 PROVE state'[l[i]] = "queued" /\ stamp'[l[i]] # 0
        BY <2>13
      <3>1. PICK k \in 1 .. a + b : k = from[i]
        BY <2>10
      <3>2. l[i] = q[k] /\ k # n
        BY <2>10, <3>1
      <3>3. q[k] \in Jobs /\ q[k] # j /\ state[q[k]] = "queued" /\ stamp[q[k]] # 0
        BY <2>11, <2>12, <3>2
      <3> QED
        BY <1>2, <2>13, <3>2, <3>3
    <2>15. \A m, i \in 1 .. Len(l) : m < i => stamp'[l[m]] < stamp'[l[i]]
      <3> SUFFICES ASSUME NEW m \in 1 .. a + b - 1, NEW i \in 1 .. a + b - 1, m < i
                   PROVE  stamp'[l[m]] < stamp'[l[i]]
        BY <2>13
      <3>1. PICK k \in 1 .. a + b : k = from[m]
        BY <2>10
      <3>2. PICK h \in 1 .. a + b : h = from[i]
        BY <2>10
      <3>3. l[m] = q[k] /\ l[i] = q[h] /\ k < h
        BY <2>10, <3>1, <3>2
      <3> QED
        BY <2>11, <2>13, <3>3
    <2>16. \A k \in Jobs : state'[k] = "queued" /\ stamp'[k] # 0 => \E i \in 1 .. Len(l) : l[i] = k
      <3> SUFFICES ASSUME NEW k \in Jobs, state'[k] = "queued", stamp'[k] # 0
                   PROVE  \E i \in 1 .. a + b - 1 : l[i] = k
        BY <2>13
      <3>1. PICK i \in 1 .. a + b : q[i] = k
        BY <1>2, <2>11, <2>13
      <3>2. i # n
        BY <1>2, <2>8, <3>1
      <3>3. PICK m \in 1 .. a + b - 1 : from[m] = i
        BY ZenonT(60), <2>10, <3>1, <3>2
      <3>4. l[m] = q[from[m]]
        BY ZenonT(60), <2>10
      <3> QED
        BY ZenonT(60), <3>1, <3>3, <3>4
    <2> QED
      BY <2>13, <2>14, <2>15, <2>16 DEF InLine
  <1> QED
    BY <1>1, <1>6, <1>7 DEF Heard

\* Every step of one replica's keeps the line in order.
LEMMA StepInLine ==
  ASSUME OneReplica
  PROVE  TypeOK /\ Rows /\ TypeOK' /\ Passing /\ PoolInOrder /\ [Next]_vars => PoolInOrder'
  <1> SUFFICES ASSUME TypeOK, Rows, TypeOK', Passing, PoolInOrder, [Next]_vars, rollbacks' = 0
               PROVE  InLine(taken \o pool)'
    BY DEF PoolInOrder
  <1>1. PICK q : q = taken \o pool
    OBVIOUS
  <1>2. q \in Seq(Jobs)
    BY <1>1, LineIs DEF TypeOK
  <1>3. CASE \E r \in Replicas : DispatchRollsBack(r)
    <2>1. rollbacks \in Nat /\ rollbacks' = rollbacks + 1
      BY <1>3, RollbacksAssumption DEF DispatchRollsBack, TypeOK
    <2> QED
      BY <2>1
  <1>4. CASE \E s \in Sessions : Insert(s)
    <2>1. PICK s \in Sessions : Insert(s)
      BY <1>4
    <2>2. PICK j \in Jobs : /\ state[j] = "none"
                            /\ state' = [state EXCEPT ![j] = "queued"]
                            /\ UNCHANGED <<stamp, pool, taken, rollbacks>>
      BY <2>1 DEF Insert
    <2>3. stamp[j] = 0
      BY <2>2 DEF Rows
    <2>4. \A k \in Jobs : stamp[k] # 0 => (state'[k] = "queued" <=> state[k] = "queued")
      BY <2>2, <2>3 DEF TypeOK
    <2>5. InLine(q)
      BY <1>1, <2>2 DEF PoolInOrder
    <2>6. InLine(q)'
      BY <1>2, <2>2, <2>4, <2>5, LineStays
    <2> QED
      BY ZenonT(60), <1>1, <2>2, <2>6 DEF InLine
  <1>5. CASE Tick \/ (\E j \in Jobs : Submit(j)) \/ UNCHANGED vars
    <2>1. UNCHANGED <<state, stamp, pool, taken, rollbacks>>
      BY <1>5 DEF Tick, Submit, vars
    <2>2. InLine(q)
      BY <1>1, <2>1 DEF PoolInOrder
    <2>3. InLine(q)'
      BY <1>2, <2>1, <2>2, LineStays
    <2> QED
      BY <1>1, <2>1, <2>3 DEF InLine
  <1>6. CASE \E r \in Replicas : Dispatch(r)
    <2>1. rollbacks = 0
      BY <1>6 DEF Dispatch
    <2> QED
      BY <1>6, <2>1, DispatchInLine
  <1>7. CASE Take
    <2>1. rollbacks = 0
      BY <1>7 DEF Take
    <2> QED
      BY <1>7, <2>1, TakeInLine
  <1>8. CASE \E j \in Jobs : Begin(j) \/ Settle(j)
    <2>1. rollbacks = 0
      BY <1>8 DEF Begin, Settle
    <2> QED
      BY <1>8, <2>1, WordInLine
  <1> QED
    BY <1>3, <1>4, <1>5, <1>6, <1>7, <1>8 DEF Next

\* Initially nobody is in line.
LEMMA StartInLine == Init => PoolInOrder
  <1> SUFFICES ASSUME Init PROVE InLine(taken \o pool)
    BY DEF PoolInOrder
  <1>1. taken \o pool = <<>> /\ Len(taken \o pool) = 0
    BY DEF Init
  <1>2. \A j \in Jobs : stamp[j] = 0
    BY DEF Init
  <1> QED
    BY <1>1, <1>2 DEF InLine

\* With regular rows, the view counts as waiting and in flight what the
\* dispatcher does.
LEMMA ViewAgrees ==
  ASSUME TypeOK, Rows, Regular
  PROVE  /\ ViewedWaiting = Waiting
         /\ ViewedInFlight = InFlight
         /\ ViewedSent = {j \in Jobs : state[j] = "queued" /\ stamp[j] # 0}
         /\ \A j \in ViewedSent : ViewedStamp(j) = stamp[j]
  <1>1. \A j \in Jobs : Active(j) => ViewedStamp(j) = stamp[j]
    BY DEF ViewedStamp, Regular
  <1>2. \A j \in Jobs : state[j] = "queued" => ViewedStamp(j) = stamp[j] /\ ready[j]
    BY <1>1 DEF Active, Regular
  <1>3. ViewedWaiting = Waiting
    BY <1>2 DEF ViewedWaiting, Waiting
  <1>4. ViewedSent = {j \in Jobs : state[j] = "queued" /\ stamp[j] # 0}
    BY <1>2 DEF ViewedSent
  <1>5. \A j \in Jobs : state[j] = "processing" \/ (state[j] = "queued" /\ ViewedStamp(j) # 0)
                          <=> stamp[j] # 0 /\ Active(j)
    BY <1>2 DEF Active, Regular
  <1>6. \A s \in Sessions : {j \in Jobs : owner[j] = s /\
                               (state[j] = "processing" \/ (state[j] = "queued" /\ ViewedStamp(j) # 0))}
                          = {j \in Jobs : owner[j] = s /\ stamp[j] # 0 /\ Active(j)}
    BY <1>5
  <1>7. ViewedInFlight = InFlight
    BY <1>6 DEF ViewedInFlight, InFlight
  <1>8. \A j \in ViewedSent : ViewedStamp(j) = stamp[j]
    BY <1>2, <1>4
  <1> QED
    BY <1>3, <1>4, <1>7, <1>8

\* The place of a job that was sent, and how many there are.
LEMMA SentPlace ==
  ASSUME TypeOK, Rows, Regular, NEW q \in Seq(Jobs), InLine(q)
  PROVE  /\ Cardinality(ViewedSent) = Len(q)
         /\ \A n \in 1 .. Len(q) : Position(q[n]) = n - 1
         /\ \A j \in ViewedSent : \E n \in 1 .. Len(q) : q[n] = j
  <1>1. PICK S : S = {j \in Jobs : state[j] = "queued" /\ stamp[j] # 0}
    OBVIOUS
  <1>2. ViewedSent = S /\ \A j \in S : ViewedStamp(j) = stamp[j]
    BY <1>1, ViewAgrees
  <1>3. PICK R : R = {p \in S \X S : stamp[p[1]] < stamp[p[2]]}
    OBVIOUS
  <1>4. \A a, b \in S : <<a, b>> \in R <=> stamp[a] < stamp[b]
    BY <1>3
  <1>5. \A j \in S : j \in Jobs /\ stamp[j] \in Nat
    BY <1>1 DEF TypeOK
  <1>6. /\ q \in Seq(S)
        /\ \A n \in 1 .. Len(q) : q[n] \in S
        /\ \A m, n \in 1 .. Len(q) : m < n => stamp[q[m]] < stamp[q[n]]
        /\ \A a \in S : \E n \in 1 .. Len(q) : q[n] = a
    <2>1. \A n \in 1 .. Len(q) : q[n] \in S
      BY <1>1 DEF InLine
    <2>2. q \in Seq(S)
      BY <2>1
    <2> QED
      BY <1>1, <2>1, <2>2 DEF InLine
  <1>7. \A a, b \in S : a = b \/ stamp[a] < stamp[b] \/ stamp[b] < stamp[a]
    <2> SUFFICES ASSUME NEW a \in S, NEW b \in S PROVE a = b \/ stamp[a] < stamp[b] \/ stamp[b] < stamp[a]
      OBVIOUS
    <2>1. PICK m \in 1 .. Len(q) : q[m] = a
      BY <1>6
    <2>2. PICK n \in 1 .. Len(q) : q[n] = b
      BY <1>6
    <2>3. m = n \/ m < n \/ n < m
      OBVIOUS
    <2> QED
      BY <1>6, <2>1, <2>2, <2>3
  <1>8. Ordered(S, R)
    <2>1. \A a \in S : <<a, a>> \notin R
      BY <1>4, <1>5
    <2>2. \A a, b, c \in S : <<a, b>> \in R /\ <<b, c>> \in R => <<a, c>> \in R
      BY <1>4, <1>5
    <2>3. \A a, b \in S : a = b \/ <<a, b>> \in R \/ <<b, a>> \in R
      BY <1>4, <1>7
    <2> QED
      BY <2>1, <2>2, <2>3 DEF Ordered
  <1>9. IsFiniteSet(S)
    BY <1>1, JobsFinite
  <1>10. /\ Len(q) = Cardinality(S)
         /\ \A n \in 1 .. Len(q) : Cardinality({y \in S : <<y, q[n]>> \in R}) = n - 1
    <2>1. \A m, n \in 1 .. Len(q) : m < n => <<q[m], q[n]>> \in R
      BY <1>4, <1>6
    <2> QED
      BY <1>6, <1>8, <1>9, <2>1, PlaceIsRank
  <1>11. ASSUME NEW j \in S PROVE Position(j) = Cardinality({y \in S : <<y, j>> \in R})
    <2>1. ASSUME NEW k \in S
          PROVE  \/ ViewedStamp(k) < ViewedStamp(j)
                 \/ ViewedStamp(k) = ViewedStamp(j) /\ created[k] < created[j]
                 \/ ViewedStamp(k) = ViewedStamp(j) /\ created[k] = created[j] /\ k < j
                 <=> <<k, j>> \in R
      <3>1. ViewedStamp(k) = stamp[k] /\ ViewedStamp(j) = stamp[j]
        BY <1>2
      <3>2. stamp[k] = stamp[j] => k = j
        BY <1>5, <1>7
      <3>3. ~(created[j] < created[j]) /\ ~(j < j)
        <4>1. created[j] \in Nat /\ j \in Nat
          BY <1>5, ClockAssumption, MaxJobsAssumption DEF TypeOK, Jobs
        <4> QED
          BY <4>1
      <3> QED
        BY <1>4, <3>1, <3>2, <3>3
    <2>2. {k \in S : \/ ViewedStamp(k) < ViewedStamp(j)
                     \/ ViewedStamp(k) = ViewedStamp(j) /\ created[k] < created[j]
                     \/ ViewedStamp(k) = ViewedStamp(j) /\ created[k] = created[j] /\ k < j}
            = {y \in S : <<y, j>> \in R}
      BY <2>1
    <2> QED
      BY <1>2, <2>2 DEF Position
  <1> QED
    BY <1>2, <1>6, <1>10, <1>11

\* The place of a job that waits, after those that were sent.
LEMMA WaitingPlace ==
  ASSUME TypeOK, Rows, NEW order, order = FairOrder(Waiting, InFlight, LastServed),
         NEW n \in 1 .. Len(order)
  PROVE  Rank(order[n], Waiting, InFlight, LastServed) = n - 1
  <1>1. PICK R : R = FairPairs(Waiting, InFlight, LastServed)
    OBVIOUS
  <1>2. Sortable(Waiting, InFlight, LastServed)
    BY FiguresAreSortable
  <1>3. /\ order \in Seq(Waiting)
        /\ \A m, k \in 1 .. Len(order) : m < k => Before(order[m], order[k], Waiting, InFlight, LastServed)
        /\ \A j \in Waiting : \E k \in 1 .. Len(order) : order[k] = j
    BY <1>2, FairOrderLists
  <1>4. \A k \in 1 .. Len(order) : order[k] \in Waiting
    BY <1>3
  <1>5. \A m, k \in 1 .. Len(order) : m < k => <<order[m], order[k]>> \in R
    BY <1>1, <1>3, <1>4, FairPairsMean
  <1>6. Ordered(Waiting, R) /\ IsFiniteSet(Waiting)
    BY <1>1, <1>2, FairIsOrder, JobsFinite DEF Waiting
  <1>7. Cardinality({y \in Waiting : <<y, order[n]>> \in R}) = n - 1
    <2>1. PICK S : S = Waiting
      OBVIOUS
    <2>2. /\ order \in Seq(S) /\ Ordered(S, R) /\ IsFiniteSet(S)
          /\ \A j \in S : \E k \in 1 .. Len(order) : order[k] = j
      BY <1>3, <1>6, <2>1
    <2>3. \A k \in 1 .. Len(order) : Cardinality({y \in S : <<y, order[k]>> \in R}) = k - 1
      <3>1. IsFiniteSet(S) /\ Ordered(S, R) /\ order \in Seq(S)
        BY <2>2
      <3>2. \A a \in S : \E k \in 1 .. Len(order) : order[k] = a
        BY <2>2
      <3> QED
        BY SMTT(60), <1>5, <3>1, <3>2, PlaceIsRank
    <2> QED
      BY <2>1, <2>3
  <1>8. {y \in Waiting : Before(y, order[n], Waiting, InFlight, LastServed)}
          = {y \in Waiting : <<y, order[n]>> \in R}
    BY <1>1, <1>4, FairPairsMean
  <1> QED
    BY <1>7, <1>8 DEF Rank

\* What the invariant says of the view.
LEMMA InLineMeans == TypeOK /\ Rows /\ PoolInOrder => RegularViewIsPoolOrder
  <1> SUFFICES ASSUME TypeOK, Rows, PoolInOrder, rollbacks = 0, Regular,
                      NEW j \in Jobs, state[j] = "queued", ready[j],
                      NEW line, line = taken \o pool \o FairOrder(Waiting, InFlight, LastServed)
               PROVE  Position(j) < Len(line) /\ line[Position(j) + 1] = j
    BY DEF RegularViewIsPoolOrder, ViewIsPoolOrder
  <1>1. PICK q : q = taken \o pool
    OBVIOUS
  <1>2. PICK order : order = FairOrder(Waiting, InFlight, LastServed)
    OBVIOUS
  <1>3. q \in Seq(Jobs) /\ InLine(q)
    BY <1>1, LineIs DEF TypeOK, PoolInOrder
  <1>4. order \in Seq(Waiting) /\ order \in Seq(Jobs) /\ \A k \in Waiting : \E n \in 1 .. Len(order) : order[n] = k
    <2>0. Sortable(Waiting, InFlight, LastServed)
      BY FiguresAreSortable
    <2>1. order \in Seq(Waiting)
      BY <1>2, <2>0, FairOrderLists
    <2>2. \A k \in Waiting : \E n \in 1 .. Len(order) : order[n] = k
      BY <1>2, <2>0, FairOrderLists
    <2> QED
      BY <2>1, <2>2 DEF Waiting
  <1>5. line = q \o order
    BY <1>1, <1>2
  <1>6. PICK a \in Nat : a = Len(q)
    BY <1>3
  <1>7. PICK b \in Nat : b = Len(order)
    BY <1>4
  <1>8. /\ Len(line) = a + b
        /\ \A n \in 1 .. a : line[n] = q[n]
        /\ \A n \in 1 .. b : line[a + n] = order[n]
    BY <1>3, <1>4, <1>5, <1>6, <1>7, LineIs
  <1>9. /\ Cardinality(ViewedSent) = a
        /\ \A n \in 1 .. a : Position(q[n]) = n - 1
        /\ \A k \in ViewedSent : \E n \in 1 .. a : q[n] = k
    BY <1>3, <1>6, SentPlace
  <1>10. /\ ViewedWaiting = Waiting /\ ViewedInFlight = InFlight
         /\ ViewedSent = {k \in Jobs : state[k] = "queued" /\ stamp[k] # 0}
    BY ViewAgrees
  <1>11. CASE j \in ViewedSent
    <2>1. PICK n \in 1 .. a : q[n] = j
      BY <1>9, <1>11
    <2>2. Position(j) = n - 1
      BY <1>9, <2>1
    <2>3. n - 1 < a + b /\ n - 1 + 1 = n
      OBVIOUS
    <2> QED
      BY <1>8, <2>1, <2>2, <2>3
  <1>12. CASE j \notin ViewedSent
    <2>1. j \in Waiting
      BY <1>10, <1>12 DEF Waiting
    <2>2. PICK n \in 1 .. b : order[n] = j
      BY <1>4, <1>7, <2>1
    <2>3. Rank(j, Waiting, InFlight, LastServed) = n - 1
      BY <1>2, <1>7, <2>2, WaitingPlace
    <2>4. Position(j) = a + (n - 1)
      BY <1>9, <1>10, <1>12, <2>3 DEF Position
    <2>5. a + (n - 1) < a + b /\ a + (n - 1) + 1 = a + n
      OBVIOUS
    <2> QED
      BY <1>8, <2>2, <2>4, <2>5
  <1> QED
    BY <1>11, <1>12

\* queue.ts:36-42: where every row has its payload, none that was not marked
\* runs and no dispatch rolled back, the number shown with a job is its place
\* among those the pool has in hand or in its list and those it gets next, where
\* one replica dispatches.  With two, stamps need not follow the list.
THEOREM ViewIsTheOrder ==
  ASSUME OneReplica
  PROVE  Spec => []RegularViewIsPoolOrder
  <1>1. Init => Passing /\ PoolInOrder
    BY StartPasses, StartInLine
  <1>2. TypeOK /\ Rows /\ TypeOK' /\ Rows' /\ Passing /\ [Next]_vars => Passing'
    BY StepPasses
  <1>3. TypeOK /\ Rows /\ TypeOK' /\ Passing /\ PoolInOrder /\ [Next]_vars => PoolInOrder'
    BY StepInLine
  <1>4. Spec => [](TypeOK /\ Rows)
    BY RowsCorrect
  <1>5. TypeOK /\ Rows /\ PoolInOrder => RegularViewIsPoolOrder
    BY InLineMeans
  <1> QED
    BY <1>1, <1>2, <1>3, <1>4, <1>5, PTL DEF Spec
=============================================================================
