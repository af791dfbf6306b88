--------------------------- MODULE WebhooksProofs ---------------------------
(***************************************************************************)
(* Proofs about Webhooks, for any replicas, events, endpoints, deliveries  *)
(* and faults: where a delivery is, how often its endpoint was called, and *)
(* that none that waits is lost.                                           *)
(***************************************************************************)
EXTENDS Webhooks, FiniteSetTheorems, TLAPS

-----------------------------------------------------------------------------
(* The inductive invariant.                                                *)

Held(r, d) == d \in DOMAIN attempts[r]

\* The session has gone, and its rows with it.
Gone == \A p \in Endpoint : endpoints[p] = "gone"

\* What the variables hold; how often endpoints were called is Counted.
Shaped ==
  /\ endpoints \in [Endpoint -> {"none", "active", "off", "gone"}]
  /\ rows \in [Delivery -> Rows \cup {None}]
  /\ backlog \subseteq Delivery /\ unread \subseteq Event
  /\ reader \in [Replica -> [left : Seq(Endpoint), event : Event \cup {None}, made : Delivery \cup {None}]]
  /\ \A r \in Replica : reader[r].made # None => reader[r].left # <<>>
  /\ DOMAIN attempts = Replica
  /\ attempts = [r \in Replica |-> attempts[r]]
  /\ \A r \in Replica : DOMAIN attempts[r] \subseteq Delivery
  /\ \A r \in Replica : \A d \in Delivery : Held(r, d) => attempts[r][d] \in Attempts
  /\ replaying \in Delivery \cup {None}
  /\ posted \in [Delivery -> Nat]
  /\ dropped \subseteq Delivery
  /\ replays \in 0 .. MaxReplays /\ faults \in 0 .. MaxFaults

\* A replica makes no more attempts at a time than it may.
Few == \A r \in Replica : IsFiniteSet(DOMAIN attempts[r]) /\ Cardinality(DOMAIN attempts[r]) <= Concurrency

\* A delivery is in one place: waiting, being attempted, about to be scheduled
\* by a stream loop or a replay, or dropped.
OnePlace ==
  /\ \A r, q \in Replica : \A d \in Delivery : Held(r, d) /\ Held(q, d) => r = q
  /\ \A r, q \in Replica : reader[r].made # None /\ reader[r].made = reader[q].made => r = q
  /\ \A r, q \in Replica : reader[r].made # None => ~Held(q, reader[r].made) /\ reader[r].made # replaying
  /\ \A r \in Replica : replaying # None => ~Held(r, replaying)
  /\ \A r \in Replica : \A d \in Delivery : Held(r, d) => d \notin backlog \cup dropped
  /\ \A r \in Replica : reader[r].made \notin backlog \cup dropped
  /\ replaying \notin backlog \cup dropped
  /\ backlog \cap dropped = {}

\* An id that was given a row has it until the session goes.
Rowed ==
  /\ \A d \in Delivery :
       \/ d \in backlog \cup dropped \/ replaying = d \/ posted[d] > 0
       \/ \E r \in Replica : Held(r, d) \/ reader[r].made = d
       => rows[d] # None \/ Gone
  /\ \A p \in Endpoint : endpoints[p] = "gone" => Gone /\ \A d \in Delivery : rows[d] = None

\* How often the endpoint was called, by what is known of the attempt.
Called(d, n) == posted[d] <= n /\ (rows[d] # None => rows[d].attempt = n /\ rows[d].state = "pending")
CalledBefore(d, n) == posted[d] <= n + 1 /\ (rows[d] # None => rows[d].attempt = n /\ rows[d].state = "pending")
Fits(a, d) ==
  /\ a.step = "read" => (rows[d] # None => posted[d] <= rows[d].attempt)
  /\ a.step = "send" => a.attempt >= 1 /\ Called(d, a.attempt - 1)
  /\ a.step = "record" => a.attempt >= 1 /\ CalledBefore(d, a.attempt - 1)
  /\ a.step = "schedule" => a.attempt < MaxAttempts /\ Called(d, a.attempt)
Counted ==
  /\ \A d \in Delivery : posted[d] <= MaxAttempts
  /\ \A d \in Delivery : rows[d] # None =>
       /\ rows[d].state = "pending" => rows[d].attempt < MaxAttempts
       /\ posted[d] <= rows[d].attempt \/ d \in dropped \/ \E r \in Replica : Held(r, d)
       /\ posted[d] <= rows[d].attempt + 1
  /\ \A r \in Replica : \A d \in Delivery : Held(r, d) => Fits(attempts[r][d], d)

HooksInv == Shaped /\ Few /\ OnePlace /\ Rowed /\ Counted /\ WaitingIsKept

\* What follows from what the variables hold, replica by replica.
LEMMA ReaderIs ==
  ASSUME Shaped, NEW r \in Replica
  PROVE  /\ reader[r].left \in Seq(Endpoint)
         /\ reader[r].event \in Event \cup {None}
         /\ reader[r].made \in Delivery \cup {None}
         /\ reader[r].made # None => Tail(reader[r].left) \in Seq(Endpoint)
  BY DEF Shaped

-----------------------------------------------------------------------------
(* Steps on attempts.                                                      *)

\* An attempt that ends leaves the others as they are.
LEMMA AttemptEnds ==
  ASSUME Shaped, NEW r \in Replica, NEW d \in Delivery, Ended(r, d)
  PROVE  /\ DOMAIN attempts' = Replica
         /\ attempts' = [q \in Replica |-> attempts'[q]]
         /\ \A q \in Replica : \A x : x \in DOMAIN attempts'[q] <=> x \in DOMAIN attempts[q] /\ ~(q = r /\ x = d)
         /\ \A q \in Replica : \A x \in DOMAIN attempts'[q] : attempts'[q][x] = attempts[q][x]
  <1>1. PICK f : f = [x \in DOMAIN attempts[r] \ {d} |-> attempts[r][x]]
    OBVIOUS
  <1>2. attempts' = [attempts EXCEPT ![r] = f]
    BY <1>1 DEF Ended
  <1>3. DOMAIN f = DOMAIN attempts[r] \ {d} /\ \A x \in DOMAIN f : f[x] = attempts[r][x]
    BY <1>1
  <1>4. \A q \in Replica : attempts'[q] = IF q = r THEN f ELSE attempts[q]
    BY <1>2 DEF Shaped
  <1>5. DOMAIN attempts' = Replica /\ attempts' = [q \in Replica |-> attempts'[q]]
    BY <1>2 DEF Shaped
  <1> QED
    BY <1>3, <1>4, <1>5

\* An attempt that goes on is where it was.
LEMMA AttemptMoves ==
  ASSUME Shaped, NEW r \in Replica, NEW d \in Delivery, Held(r, d), NEW a,
         attempts' = [attempts EXCEPT ![r][d] = a]
  PROVE  /\ DOMAIN attempts' = Replica
         /\ attempts' = [q \in Replica |-> attempts'[q]]
         /\ \A q \in Replica : DOMAIN attempts'[q] = DOMAIN attempts[q]
         /\ \A q \in Replica : \A x \in DOMAIN attempts'[q] :
              attempts'[q][x] = IF q = r /\ x = d THEN a ELSE attempts[q][x]
  <1>1. PICK f : f = [attempts[r] EXCEPT ![d] = a]
    OBVIOUS
  <1>2. attempts' = [attempts EXCEPT ![r] = f]
    BY <1>1
  <1>3. DOMAIN f = DOMAIN attempts[r] /\ \A x \in DOMAIN f : f[x] = IF x = d THEN a ELSE attempts[r][x]
    BY <1>1
  <1>4. \A q \in Replica : attempts'[q] = IF q = r THEN f ELSE attempts[q]
    BY <1>2 DEF Shaped
  <1>5. DOMAIN attempts' = Replica /\ attempts' = [q \in Replica |-> attempts'[q]]
    BY <1>2 DEF Shaped
  <1> QED
    BY <1>3, <1>4, <1>5

\* No more attempts than before are no more than may be.
LEMMA NoMore ==
  ASSUME HooksAssumption, Shaped, Few, \A q \in Replica : DOMAIN attempts'[q] \subseteq DOMAIN attempts[q]
  PROVE  Few'
  <1> SUFFICES ASSUME NEW q \in Replica
               PROVE  IsFiniteSet(DOMAIN attempts'[q]) /\ Cardinality(DOMAIN attempts'[q]) <= Concurrency
    BY DEF Few
  <1>1. PICK S : S = DOMAIN attempts[q]
    OBVIOUS
  <1>2. PICK T : T = DOMAIN attempts'[q]
    OBVIOUS
  <1>3. IsFiniteSet(S) /\ Cardinality(S) <= Concurrency /\ T \subseteq S
    BY <1>1, <1>2 DEF Few
  <1>4. IsFiniteSet(T) /\ Cardinality(T) <= Cardinality(S)
    BY <1>3, FS_Subset
  <1>5. Cardinality(S) \in Nat /\ Cardinality(T) \in Nat /\ Concurrency \in Nat
    BY <1>3, <1>4, FS_CardinalityType DEF HooksAssumption
  <1> QED
    BY <1>2, <1>3, <1>4, <1>5

\* The next row is of an id that is in no place.
LEMMA FreshIsFree ==
  ASSUME HooksAssumption, Shaped, Rowed, ~Gone, NEW d \in Fresh
  PROVE  /\ d \in Delivery /\ rows[d] = None /\ posted[d] = 0
         /\ d \notin backlog \cup dropped /\ replaying # d
         /\ \A r \in Replica : ~Held(r, d) /\ reader[r].made # d
  BY DEF Fresh, Rowed

-----------------------------------------------------------------------------
(* The owner's requests.                                                   *)

\* Initially there is nothing to deliver.
LEMMA HooksStart == HooksAssumption /\ Init => HooksInv
  <1> SUFFICES ASSUME HooksAssumption, Init PROVE HooksInv
    OBVIOUS
  <1>1. Idle \in [left : Seq(Endpoint), event : Event \cup {None}, made : Delivery \cup {None}] /\ Idle.made = None
    BY DEF Idle
  <1>2. \A r \in Replica : DOMAIN attempts[r] = {} /\ reader[r] = Idle
    BY DEF Init
  <1>3. IsFiniteSet({}) /\ Cardinality({}) = 0
    BY FS_EmptySet
  <1>4. Shaped
    BY <1>1, <1>2 DEF Init, HooksAssumption, Shaped, Held
  <1>5. Few
    BY <1>2, <1>3 DEF Few, HooksAssumption
  <1>6. None \notin Delivery
    BY DEF HooksAssumption
  <1>7. OnePlace
    BY <1>1, <1>2 DEF Init, OnePlace, Held
  <1>8. Rowed
    BY <1>1, <1>2, <1>6 DEF Init, Rowed, Held
  <1>9. Counted /\ WaitingIsKept
    BY <1>2 DEF Init, Counted, WaitingIsKept, Held, HooksAssumption
  <1> QED
    BY <1>4, <1>5, <1>7, <1>8, <1>9 DEF HooksInv

\* Registering, deactivating.
LEMMA EndpointSteps ==
  ASSUME HooksAssumption, HooksInv, NEW p \in Endpoint, Register(p) \/ Deactivate(p)
  PROVE  HooksInv'
  <1>1. /\ endpoints[p] # "gone"
        /\ \A q \in Endpoint : q # p => endpoints'[q] = endpoints[q]
        /\ endpoints'[p] \in {"active", "off"}
        /\ endpoints' \in [Endpoint -> {"none", "active", "off", "gone"}]
        /\ UNCHANGED <<rows, backlog, unread, reader, attempts, replaying, posted, dropped, replays, faults>>
    BY DEF Register, Deactivate, HooksInv, Shaped
  <1>2. Shaped' /\ Few'
    BY <1>1 DEF HooksInv, Shaped, Few, Held
  <1>3. OnePlace'
    BY <1>1 DEF HooksInv, OnePlace, Held
  <1>4. ~Gone /\ ~Gone'
    BY <1>1 DEF Gone
  <1>5. Rowed'
    BY <1>1, <1>4 DEF HooksInv, Rowed, Held
  <1>6. Counted'
    BY <1>1 DEF HooksInv, Counted, Held, Fits, Called, CalledBefore
  <1>7. WaitingIsKept'
    BY <1>1 DEF HooksInv, WaitingIsKept
  <1> QED
    BY <1>2, <1>3, <1>5, <1>6, <1>7 DEF HooksInv

\* The session goes.
LEMMA GoingKeeps ==
  ASSUME HooksAssumption, HooksInv, SessionGoes
  PROVE  HooksInv'
  <1>1. /\ \A p \in Endpoint : endpoints'[p] = "gone"
        /\ endpoints' \in [Endpoint -> {"none", "active", "off", "gone"}]
        /\ \A d \in Delivery : rows'[d] = None
        /\ rows' \in [Delivery -> Rows \cup {None}]
        /\ UNCHANGED <<backlog, unread, reader, attempts, replaying, posted, dropped, replays, faults>>
    BY DEF SessionGoes
  <1>2. Shaped' /\ Few'
    BY <1>1 DEF HooksInv, Shaped, Few, Held
  <1>3. OnePlace'
    BY <1>1 DEF HooksInv, OnePlace, Held
  <1>4. Gone'
    BY <1>1 DEF Gone
  <1>5. Rowed'
    BY <1>1, <1>4 DEF HooksInv, Rowed, Held
  <1>6. Counted'
    BY <1>1 DEF HooksInv, Counted, Held, Fits, Called, CalledBefore
  <1>7. WaitingIsKept'
    BY <1>1 DEF HooksInv, WaitingIsKept
  <1> QED
    BY <1>2, <1>3, <1>5, <1>6, <1>7 DEF HooksInv

\* A replay's row, and its place in the backlog.
LEMMA ReplayKeeps ==
  ASSUME HooksAssumption, HooksInv, NEW d \in Delivery, Replay(d)
  PROVE  HooksInv'
  <1>1. PICK clone \in Fresh :
          /\ rows' = [rows EXCEPT ![clone] = NewRow(rows[d].endpoint, rows[d].event)]
          /\ replaying' = clone
    BY DEF Replay
  <1>2. /\ replays < MaxReplays /\ replaying = None /\ rows[d] # None /\ replays' = replays + 1
        /\ UNCHANGED <<endpoints, backlog, unread, reader, attempts, posted, dropped, faults>>
    BY DEF Replay
  <1>3. PICK new : new = NewRow(rows[d].endpoint, rows[d].event)
    OBVIOUS
  <1>4. rows[d] \in Rows
    BY <1>2 DEF HooksInv, Shaped
  <1>5. ~Gone
    <2>1. rows[d].endpoint \in Endpoint
      BY <1>4 DEF Rows
    <2> QED
      BY <1>2, <2>1 DEF Gone, HooksInv, Rowed
  <1>6. /\ clone \in Delivery /\ rows[clone] = None /\ posted[clone] = 0
        /\ clone \notin backlog \cup dropped
        /\ \A r \in Replica : ~Held(r, clone) /\ reader[r].made # clone
    BY <1>5, FreshIsFree DEF HooksInv
  <1>7. new \in Rows /\ new # None /\ new.attempt = 0 /\ new.state = "pending"
    BY <1>3, <1>4 DEF NewRow, Rows, HooksAssumption
  <1>8. \A x \in Delivery : rows'[x] = IF x = clone THEN new ELSE rows[x]
    BY <1>1, <1>3 DEF HooksInv, Shaped
  <1>9. rows' \in [Delivery -> Rows \cup {None}]
    BY <1>1, <1>3, <1>7 DEF HooksInv, Shaped
  <1>10. Shaped' /\ Few'
    <2>1. replays' \in 0 .. MaxReplays
      BY <1>2 DEF HooksInv, Shaped, HooksAssumption
    <2> QED
      BY <1>1, <1>2, <1>6, <1>9, <2>1 DEF HooksInv, Shaped, Few, Held
  <1>11. OnePlace'
    BY <1>1, <1>2, <1>6 DEF HooksInv, OnePlace, Held
  <1>12. Rowed'
    BY <1>1, <1>2, <1>5, <1>7, <1>8 DEF HooksInv, Rowed, Held, Gone
  <1>13. Counted'
    BY <1>2, <1>6, <1>7, <1>8 DEF HooksInv, Counted, Held, Fits, Called, CalledBefore, HooksAssumption
  <1>14. WaitingIsKept'
    BY <1>1, <1>2, <1>6, <1>8 DEF HooksInv, WaitingIsKept, HooksAssumption
  <1> QED
    BY <1>10, <1>11, <1>12, <1>13, <1>14 DEF HooksInv

\* A replay's row is scheduled, or is not.
LEMMA ReplayEnds ==
  ASSUME HooksAssumption, HooksInv, ScheduleReplay \/ ReplayFails
  PROVE  HooksInv'
  <1>1. /\ replaying \in Delivery /\ replaying' = None
        /\ \/ backlog' = backlog \cup {replaying} /\ dropped' = dropped
           \/ backlog' = backlog /\ dropped' = dropped \cup {replaying}
        /\ UNCHANGED <<endpoints, rows, unread, reader, attempts, posted, replays>>
    BY DEF ScheduleReplay, ReplayFails, HooksInv, Shaped
  <1>2. faults' \in 0 .. MaxFaults
    BY DEF ScheduleReplay, ReplayFails, HooksInv, Shaped, HooksAssumption
  <1>3. Shaped' /\ Few'
    BY <1>1, <1>2 DEF HooksInv, Shaped, Few, Held
  <1>4. None \notin Delivery
    BY DEF HooksAssumption
  <1>5. OnePlace'
    BY <1>1, <1>4 DEF HooksInv, Shaped, OnePlace, Held
  <1>6. Rowed'
    BY <1>1, <1>4 DEF HooksInv, Rowed, Held, Gone
  <1>7. Counted'
    BY <1>1 DEF HooksInv, Counted, Held, Fits, Called, CalledBefore
  <1>8. WaitingIsKept'
    BY <1>1, <1>4 DEF HooksInv, WaitingIsKept
  <1> QED
    BY <1>3, <1>5, <1>6, <1>7, <1>8 DEF HooksInv

-----------------------------------------------------------------------------
(* The stream loop.                                                        *)

\* Finitely many elements make a sequence.
LEMMA ActiveAreListed ==
  ASSUME HooksAssumption, NEW S \in SUBSET Endpoint
  PROVE  SetToSeq(S) \in Seq(Endpoint)
  <1>1. IsFiniteSet(S)
    BY FS_Subset DEF HooksAssumption
  <1>2. PICK n \in Nat : n = Cardinality(S)
    BY <1>1, FS_CardinalityType
  <1>3. ExistsBijection(1 .. n, S)
    BY <1>1, <1>2, FS_CardinalityType
  <1>4. PICK f \in [1 .. n -> S] : \A a, b \in 1 .. n : f[a] = f[b] => a = b
    BY <1>3 DEF ExistsBijection, Bijection, Injection, IsInjective
  <1>5. IsInjective(f)
    BY <1>4 DEF IsInjective
  <1>6. SetToSeq(S) \in [1 .. n -> S]
    BY <1>2, <1>5 DEF SetToSeq
  <1> QED
    BY <1>6

\* A step of a reader that gives none a row: it starts, or ends.
LEMMA ReaderSteps ==
  ASSUME HooksAssumption, HooksInv, NEW r \in Replica,
         NEW next \in [left : Seq(Endpoint), event : Event \cup {None}, made : Delivery \cup {None}],
         reader[r].made = None, next.made = None,
         reader' = [reader EXCEPT ![r] = next], unread' \subseteq unread,
         UNCHANGED <<endpoints, rows, backlog, attempts, replaying, posted, dropped, replays, faults>>
  PROVE  HooksInv'
  <1>1. \A q \in Replica : reader'[q] = IF q = r THEN next ELSE reader[q]
    BY DEF HooksInv, Shaped
  <1>2. \A q \in Replica : reader'[q].made = reader[q].made
    BY <1>1
  <1>3. Shaped' /\ Few'
    BY DEF HooksInv, Shaped, Few, Held
  <1>4. OnePlace'
    BY <1>2 DEF HooksInv, OnePlace, Held
  <1>5. Rowed'
    BY <1>2 DEF HooksInv, Rowed, Held, Gone
  <1>6. Counted'
    BY DEF HooksInv, Counted, Held, Fits, Called, CalledBefore
  <1>7. WaitingIsKept'
    BY <1>2 DEF HooksInv, WaitingIsKept
  <1> QED
    BY <1>3, <1>4, <1>5, <1>6, <1>7 DEF HooksInv

\* An entry is read, or acknowledged.
LEMMA ReadKeeps ==
  ASSUME HooksAssumption, HooksInv, NEW r \in Replica, (\E e \in Event : Read(r, e)) \/ Acknowledge(r)
  PROVE  HooksInv'
  <1>0. Idle = [left |-> <<>>, event |-> None, made |-> None]
    BY DEF Idle
  <1>1. CASE Acknowledge(r)
    <2>1. Idle \in [left : Seq(Endpoint), event : Event \cup {None}, made : Delivery \cup {None}] /\ Idle.made = None
      BY <1>0
    <2>2. /\ reader[r].made = None /\ reader' = [reader EXCEPT ![r] = Idle] /\ unread' \subseteq unread
          /\ UNCHANGED <<endpoints, rows, backlog, attempts, replaying, posted, dropped, replays, faults>>
      BY <1>1 DEF Acknowledge
    <2> QED
      BY <2>1, <2>2, ReaderSteps
  <1>2. ASSUME NEW e \in Event, Read(r, e) PROVE HooksInv'
    <2>1. PICK S \in SUBSET Endpoint : S = {p \in Endpoint : endpoints[p] = "active"}
      OBVIOUS
    <2>2. PICK list \in Seq(Endpoint) : list = SetToSeq(S)
      BY ActiveAreListed
    <2>3. PICK next : next = [Idle EXCEPT !.event = e, !.left = list]
      OBVIOUS
    <2>4. next = [left |-> list, event |-> e, made |-> None]
      BY <1>0, <2>3
    <2>5. /\ next \in [left : Seq(Endpoint), event : Event \cup {None}, made : Delivery \cup {None}]
          /\ next.made = None
      BY <2>2, <2>4
    <2>6. reader' = [reader EXCEPT ![r] = [Idle EXCEPT !.event = e, !.left = SetToSeq(S)]]
      BY <1>2, <2>1, Zenon DEF Read
    <2>7. reader' = [reader EXCEPT ![r] = next]
      BY <2>2, <2>3, <2>6
    <2>8. reader[r] = Idle /\ unread' = unread \ {e}
      BY <1>2, Zenon DEF Read
    <2>9. reader[r].made = None /\ unread' \subseteq unread
      BY <1>0, <2>8
    <2>10. UNCHANGED <<endpoints, rows, backlog, attempts, replaying, posted, dropped, replays, faults>>
      BY <1>2, Zenon DEF Read
    <2> QED
      BY <2>5, <2>7, <2>9, <2>10, ReaderSteps
  <1> QED
    BY <1>1, <1>2

\* A row for the next endpoint, or none as the session has gone.
LEMMA InsertKeeps ==
  ASSUME HooksAssumption, HooksInv, NEW r \in Replica, Insert(r)
  PROVE  HooksInv'
  <1>0. Idle = [left |-> <<>>, event |-> None, made |-> None]
    BY DEF Idle
  <1>1. /\ reader[r].event \in Event /\ reader[r].made = None
        /\ reader[r].left \in Seq(Endpoint) /\ reader[r].left # <<>>
        /\ UNCHANGED <<endpoints, backlog, unread, attempts, replaying, posted, dropped, replays, faults>>
    BY ReaderIs DEF Insert, HooksInv
  <1>2. CASE reader' = [reader EXCEPT ![r] = Idle] /\ rows' = rows
    <2>1. Idle \in [left : Seq(Endpoint), event : Event \cup {None}, made : Delivery \cup {None}] /\ Idle.made = None
      BY <1>0
    <2>2. unread' \subseteq unread
      BY <1>1
    <2> QED
      BY <1>1, <1>2, <2>1, <2>2, ReaderSteps
  <1>3. ASSUME NEW d \in Fresh, endpoints[Head(reader[r].left)] # "gone",
               rows' = [rows EXCEPT ![d] = NewRow(Head(reader[r].left), reader[r].event)],
               reader' = [reader EXCEPT ![r].made = d]
        PROVE  HooksInv'
    <2>1. PICK p \in Endpoint : p = Head(reader[r].left)
      BY <1>1
    <2>2. ~Gone
      BY <1>3, <2>1 DEF Gone
    <2>3. /\ d \in Delivery /\ rows[d] = None /\ posted[d] = 0
          /\ d \notin backlog \cup dropped /\ replaying # d
          /\ \A q \in Replica : ~Held(q, d) /\ reader[q].made # d
      BY <2>2, FreshIsFree DEF HooksInv
    <2>4. PICK new : new = NewRow(p, reader[r].event)
      OBVIOUS
    <2>5. new \in Rows /\ new # None /\ new.attempt = 0 /\ new.state = "pending"
      BY <1>1, <2>4 DEF NewRow, Rows, HooksAssumption
    <2>6. \A x \in Delivery : rows'[x] = IF x = d THEN new ELSE rows[x]
      BY <1>3, <2>1, <2>4 DEF HooksInv, Shaped
    <2>7. rows' \in [Delivery -> Rows \cup {None}]
      BY <1>3, <2>1, <2>4, <2>5 DEF HooksInv, Shaped
    <2>8. /\ \A q \in Replica : reader'[q].made = IF q = r THEN d ELSE reader[q].made
          /\ \A q \in Replica : reader'[q].left = reader[q].left
      BY <1>3 DEF HooksInv, Shaped
    <2>9. reader' \in [Replica -> [left : Seq(Endpoint), event : Event \cup {None}, made : Delivery \cup {None}]]
      <3>1. PICK f : f = [reader[r] EXCEPT !.made = d]
        OBVIOUS
      <3>2. reader' = [reader EXCEPT ![r] = f]
        BY <1>3, <3>1
      <3>3. reader[r] \in [left : Seq(Endpoint), event : Event \cup {None}, made : Delivery \cup {None}]
        BY DEF HooksInv, Shaped
      <3>4. f \in [left : Seq(Endpoint), event : Event \cup {None}, made : Delivery \cup {None}]
        BY <2>3, <3>1, <3>3
      <3> QED
        BY <3>2, <3>4 DEF HooksInv, Shaped
    <2>10. Shaped' /\ Few'
      BY <1>1, <2>7, <2>8, <2>9 DEF HooksInv, Shaped, Few, Held
    <2>11. OnePlace'
      BY <1>1, <2>3, <2>8 DEF HooksInv, OnePlace, Held
    <2>12. Rowed'
      BY <1>1, <2>2, <2>5, <2>6, <2>8 DEF HooksInv, Rowed, Held, Gone
    <2>13. Counted'
      BY <1>1, <2>3, <2>5, <2>6 DEF HooksInv, Counted, Held, Fits, Called, CalledBefore, HooksAssumption
    <2>14. WaitingIsKept'
      BY <1>1, <2>3, <2>6, <2>8 DEF HooksInv, WaitingIsKept, HooksAssumption
    <2> QED
      BY <2>10, <2>11, <2>12, <2>13, <2>14 DEF HooksInv
  <1> QED
    BY <1>2, <1>3 DEF Insert

\* The row is scheduled.
LEMMA ScheduleKeeps ==
  ASSUME HooksAssumption, HooksInv, NEW r \in Replica, Schedule(r)
  PROVE  HooksInv'
  <1>1. PICK d \in Delivery : d = reader[r].made
    BY ReaderIs DEF Schedule, HooksInv
  <1>2. d # None
    BY DEF HooksAssumption
  <1>3. /\ backlog' = backlog \cup {d}
        /\ UNCHANGED <<endpoints, rows, unread, attempts, replaying, posted, dropped, replays, faults>>
    BY <1>1 DEF Schedule
  <1>4. \A q \in Replica : reader'[q].made = IF q = r THEN None ELSE reader[q].made
    BY DEF Schedule, HooksInv, Shaped
  <1>5. reader' \in [Replica -> [left : Seq(Endpoint), event : Event \cup {None}, made : Delivery \cup {None}]]
    <2>1. PICK rest : rest = Tail(reader[r].left)
      OBVIOUS
    <2>2. reader' = [reader EXCEPT ![r].made = None, ![r].left = rest]
      BY <2>1 DEF Schedule
    <2>3. rest \in Seq(Endpoint)
      BY <2>1, ReaderIs DEF HooksInv, Schedule
    <2>4. PICK f : f = [reader[r] EXCEPT !.made = None, !.left = rest]
      OBVIOUS
    <2>5. reader' = [reader EXCEPT ![r] = f]
      BY <2>2, <2>4
    <2>6. f \in [left : Seq(Endpoint), event : Event \cup {None}, made : Delivery \cup {None}]
      <3>1. reader[r] \in [left : Seq(Endpoint), event : Event \cup {None}, made : Delivery \cup {None}]
        BY DEF HooksInv, Shaped
      <3> QED
        BY <2>3, <2>4, <3>1
    <2> QED
      BY <2>5, <2>6 DEF HooksInv, Shaped
  <1>6. Shaped' /\ Few'
    <2>1. \A q \in Replica : q # r => reader'[q].left = reader[q].left
      BY DEF Schedule, HooksInv, Shaped
    <2> QED
      BY <1>3, <1>4, <1>5, <2>1 DEF HooksInv, Shaped, Few, Held
  <1>7. OnePlace'
    <2>1. /\ \A q \in Replica : reader[q].made = d => q = r
          /\ \A q \in Replica : ~Held(q, d)
          /\ d # replaying /\ d \notin dropped
      BY <1>1, <1>2 DEF HooksInv, OnePlace
    <2>2. \A q \in Replica : reader'[q].made \notin backlog' \cup dropped'
      <3>1. None \notin backlog \cup dropped
        BY DEF HooksInv, Shaped, HooksAssumption
      <3> QED
        BY <1>2, <1>3, <1>4, <2>1, <3>1 DEF HooksInv, OnePlace
    <2>3. \A p, q \in Replica : reader'[p].made # None /\ reader'[p].made = reader'[q].made => p = q
      BY <1>4 DEF HooksInv, OnePlace
    <2>4. \A p, q \in Replica : reader'[p].made # None => ~Held(q, reader'[p].made) /\ reader'[p].made # replaying
      BY <1>4 DEF HooksInv, OnePlace
    <2> QED
      BY <1>3, <2>1, <2>2, <2>3, <2>4 DEF HooksInv, OnePlace, Held
  <1>8. Rowed'
    BY <1>1, <1>2, <1>3, <1>4 DEF HooksInv, Rowed, Held, Gone, HooksAssumption
  <1>9. Counted'
    BY <1>3 DEF HooksInv, Counted, Held, Fits, Called, CalledBefore
  <1>10. WaitingIsKept'
    BY <1>1, <1>3, <1>4 DEF HooksInv, WaitingIsKept
  <1> QED
    BY <1>6, <1>7, <1>8, <1>9, <1>10 DEF HooksInv

-----------------------------------------------------------------------------
(* The attempts.                                                           *)

\* Due deliveries are claimed.
LEMMA ClaimKeeps ==
  ASSUME HooksAssumption, HooksInv, NEW r \in Replica, NEW due \in SUBSET backlog, Claim(r, due)
  PROVE  HooksInv'
  <1>1. PICK first : first = [step |-> "read", outcome |-> "none", attempt |-> 0]
    OBVIOUS
  <1>2. PICK f : f = [d \in DOMAIN attempts[r] \cup due |-> IF d \in due THEN first ELSE attempts[r][d]]
    OBVIOUS
  <1>3. /\ attempts' = [attempts EXCEPT ![r] = f]
        /\ backlog' = backlog \ due
        /\ Cardinality(due) + Cardinality(DOMAIN attempts[r]) <= Concurrency
        /\ UNCHANGED <<endpoints, rows, unread, reader, replaying, posted, dropped, replays, faults>>
    BY <1>1, <1>2 DEF Claim, Takes
  <1>4. /\ DOMAIN f = DOMAIN attempts[r] \cup due
        /\ \A d \in DOMAIN f : f[d] = IF d \in due THEN first ELSE attempts[r][d]
    BY <1>2
  <1>5. /\ DOMAIN attempts' = Replica /\ attempts' = [q \in Replica |-> attempts'[q]]
        /\ \A q \in Replica : attempts'[q] = IF q = r THEN f ELSE attempts[q]
    BY <1>3 DEF HooksInv, Shaped
  <1>6. /\ \A q \in Replica : \A x : x \in DOMAIN attempts'[q] <=> x \in DOMAIN attempts[q] \/ (q = r /\ x \in due)
        /\ \A q \in Replica : \A x \in DOMAIN attempts'[q] :
             attempts'[q][x] = IF q = r /\ x \in due THEN first ELSE attempts[q][x]
    BY <1>4, <1>5
  <1>7. first \in Attempts /\ first.step = "read"
    BY <1>1 DEF Attempts, HooksAssumption
  <1>8. due \subseteq Delivery
    BY DEF HooksInv, Shaped
  <1>9. Shaped'
    BY <1>3, <1>5, <1>6, <1>7, <1>8 DEF HooksInv, Shaped, Held
  <1>10. Few'
    <2>1. PICK S : S = DOMAIN attempts[r]
      OBVIOUS
    <2>2. IsFiniteSet(S) /\ IsFiniteSet(due)
      BY <1>8, <2>1, FS_Subset DEF HooksInv, Few, HooksAssumption
    <2>3. /\ IsFiniteSet(S \cup due)
          /\ Cardinality(S \cup due) = Cardinality(S) + Cardinality(due) - Cardinality(S \cap due)
      BY <2>2, FS_Union
    <2>4. IsFiniteSet(S \cap due)
      BY <2>2, FS_Subset
    <2>5. Cardinality(S) \in Nat /\ Cardinality(due) \in Nat /\ Cardinality(S \cap due) \in Nat
      BY <2>2, <2>4, FS_CardinalityType
    <2>6. Cardinality(S \cup due) <= Concurrency
      BY <1>3, <2>1, <2>3, <2>5 DEF HooksAssumption
    <2> QED
      BY <1>4, <1>5, <2>1, <2>3, <2>6 DEF HooksInv, Few
  <1>11. OnePlace'
    BY <1>3, <1>6, <1>8 DEF HooksInv, OnePlace, Held
  <1>12. Rowed'
    BY <1>3, <1>6, <1>8 DEF HooksInv, Rowed, Held, Gone
  <1>13. Counted'
    <2>1. ASSUME NEW d \in due, rows[d] # None PROVE posted[d] <= rows[d].attempt
      BY <1>8, <2>1 DEF HooksInv, Counted, OnePlace
    <2>2. \A d \in Delivery : posted'[d] <= MaxAttempts
      BY <1>3 DEF HooksInv, Counted
    <2>3. \A d \in Delivery : rows'[d] # None =>
            /\ rows'[d].state = "pending" => rows'[d].attempt < MaxAttempts
            /\ posted'[d] <= rows'[d].attempt \/ d \in dropped' \/ \E q \in Replica : Held(q, d)'
            /\ posted'[d] <= rows'[d].attempt + 1
      BY <1>3, <1>6 DEF HooksInv, Counted, Held
    <2>4. \A q \in Replica : \A d \in Delivery : Held(q, d)' => Fits(attempts[q][d], d)'
      BY <1>3, <1>6, <1>7, <2>1 DEF HooksInv, Counted, Held, Fits, Called, CalledBefore
    <2> QED
      BY <2>2, <2>3, <2>4 DEF Counted
  <1>14. WaitingIsKept'
    BY <1>3, <1>6 DEF HooksInv, WaitingIsKept
  <1> QED
    BY <1>9, <1>10, <1>11, <1>12, <1>13, <1>14 DEF HooksInv

\* A step of an attempt that goes on: what is to be seen of it.
LEMMA GoesOn ==
  ASSUME HooksAssumption, HooksInv, NEW r \in Replica, NEW d \in Delivery, Held(r, d), NEW a \in Attempts,
         attempts' = [attempts EXCEPT ![r][d] = a],
         rows' \in [Delivery -> Rows \cup {None}], rows'[d] = None <=> rows[d] = None,
         \A x \in Delivery : x # d => rows'[x] = rows[x] /\ posted'[x] = posted[x],
         posted' \in [Delivery -> Nat], posted'[d] <= MaxAttempts,
         rows'[d] # None => /\ rows'[d].state = "pending" => rows'[d].attempt < MaxAttempts
                            /\ posted'[d] <= rows'[d].attempt + 1,
         Fits(a, d)',
         UNCHANGED <<endpoints, backlog, unread, reader, replaying, dropped, replays, faults>>
  PROVE  HooksInv'
  <1>0. Shaped
    BY DEF HooksInv
  <1>1. /\ DOMAIN attempts' = Replica
        /\ attempts' = [q \in Replica |-> attempts'[q]]
        /\ \A q \in Replica : DOMAIN attempts'[q] = DOMAIN attempts[q]
        /\ \A q \in Replica : \A x \in DOMAIN attempts'[q] :
             attempts'[q][x] = IF q = r /\ x = d THEN a ELSE attempts[q][x]
    BY <1>0, AttemptMoves
  <1>2. \A q \in Replica : \A x : Held(q, x)' <=> Held(q, x)
    BY <1>1 DEF Held
  <1>3. Shaped'
    BY <1>1, <1>2 DEF HooksInv, Shaped, Held
  <1>4. Few'
    BY <1>1, NoMore DEF HooksInv
  <1>5. OnePlace'
    BY <1>2 DEF HooksInv, OnePlace
  <1>6. Rowed'
    BY <1>2 DEF HooksInv, Rowed, Gone
  <1>7. Counted'
    <2>1. \A x \in Delivery : posted'[x] <= MaxAttempts
      BY DEF HooksInv, Counted
    <2>2. \A x \in Delivery : rows'[x] # None =>
            /\ rows'[x].state = "pending" => rows'[x].attempt < MaxAttempts
            /\ posted'[x] <= rows'[x].attempt \/ x \in dropped' \/ \E q \in Replica : Held(q, x)'
            /\ posted'[x] <= rows'[x].attempt + 1
      BY <1>2 DEF HooksInv, Counted
    <2>3. ASSUME NEW q \in Replica, NEW x \in Delivery, Held(q, x)' PROVE Fits(attempts[q][x], x)'
      <3>1. CASE x = d
        <4>1. q = r
          BY <1>2, <2>3, <3>1 DEF HooksInv, OnePlace
        <4> QED
          BY <1>1, <2>3, <3>1, <4>1 DEF Held, Fits, Called, CalledBefore
      <3>2. CASE x # d
        <4>1. attempts'[q][x] = attempts[q][x] /\ Held(q, x)
          BY <1>1, <1>2, <2>3, <3>2 DEF Held
        <4>2. Fits(attempts[q][x], x)
          BY <4>1 DEF HooksInv, Counted
        <4> QED
          BY <3>2, <4>1, <4>2 DEF Fits, Called, CalledBefore
      <3> QED
        BY <3>1, <3>2
    <2> QED
      BY <2>1, <2>2, <2>3 DEF Counted
  <1>8. WaitingIsKept'
    BY <1>2 DEF HooksInv, WaitingIsKept, Held
  <1> QED
    BY <1>3, <1>4, <1>5, <1>6, <1>7, <1>8 DEF HooksInv

\* An attempt ends: settled, put back, or dropped.
LEMMA IsOver ==
  ASSUME HooksAssumption, HooksInv, NEW r \in Replica, NEW d \in Delivery, Held(r, d), Ended(r, d),
         rows' \in [Delivery -> Rows \cup {None}], rows'[d] = None <=> rows[d] = None,
         \A x \in Delivery : x # d => rows'[x] = rows[x],
         \/ backlog' = backlog /\ dropped' = dropped
         \/ backlog' = backlog \cup {d} /\ dropped' = dropped
         \/ backlog' = backlog /\ dropped' = dropped \cup {d},
         faults' \in 0 .. MaxFaults,
         rows'[d] # None => /\ rows'[d].state = "pending" => /\ rows'[d].attempt < MaxAttempts
                                                             /\ d \in backlog' \cup dropped'
                            /\ posted[d] <= rows'[d].attempt \/ d \in dropped'
                            /\ posted[d] <= rows'[d].attempt + 1,
         UNCHANGED <<endpoints, unread, reader, replaying, posted, replays>>
  PROVE  HooksInv'
  <1>0. Shaped
    BY DEF HooksInv
  <1>1. /\ DOMAIN attempts' = Replica
        /\ attempts' = [q \in Replica |-> attempts'[q]]
        /\ \A q \in Replica : \A x : x \in DOMAIN attempts'[q] <=> x \in DOMAIN attempts[q] /\ ~(q = r /\ x = d)
        /\ \A q \in Replica : \A x \in DOMAIN attempts'[q] : attempts'[q][x] = attempts[q][x]
    BY <1>0, AttemptEnds
  <1>2. \A q \in Replica : \A x : Held(q, x)' <=> Held(q, x) /\ x # d
    <2>1. \A q \in Replica : Held(q, d) => q = r
      BY DEF HooksInv, OnePlace
    <2> QED
      BY <1>1, <2>1 DEF Held
  <1>3. /\ \A x : x \in backlog' \cup dropped' => x \in backlog \cup dropped \/ x = d
        /\ backlog' \subseteq Delivery /\ dropped' \subseteq Delivery
        /\ backlog \subseteq backlog' /\ dropped \subseteq dropped'
    BY DEF HooksInv, Shaped
  <1>4. Shaped'
    BY <1>1, <1>2, <1>3 DEF HooksInv, Shaped, Held
  <1>5. Few'
    <2>1. \A q \in Replica : DOMAIN attempts'[q] \subseteq DOMAIN attempts[q]
      BY <1>1
    <2> QED
      BY <2>1, NoMore DEF HooksInv
  <1>6. OnePlace'
    <2>1. d \notin backlog \cup dropped /\ replaying # d /\ \A q \in Replica : reader[q].made # d
      BY DEF HooksInv, OnePlace, HooksAssumption
    <2>2. backlog' \cap dropped' = {}
      BY <2>1 DEF HooksInv, OnePlace
    <2>3. /\ \A q \in Replica : reader[q].made \notin backlog' \cup dropped'
          /\ replaying \notin backlog' \cup dropped'
      BY <1>3, <2>1 DEF HooksInv, OnePlace
    <2> QED
      BY <1>2, <1>3, <2>2, <2>3 DEF HooksInv, OnePlace
  <1>7. Rowed'
    BY <1>2, <1>3 DEF HooksInv, Rowed, Gone
  <1>8. Counted'
    <2>1. \A x \in Delivery : posted'[x] <= MaxAttempts
      BY DEF HooksInv, Counted
    <2>2. ASSUME NEW x \in Delivery, rows'[x] # None
          PROVE  /\ rows'[x].state = "pending" => rows'[x].attempt < MaxAttempts
                 /\ posted'[x] <= rows'[x].attempt \/ x \in dropped' \/ \E q \in Replica : Held(q, x)'
                 /\ posted'[x] <= rows'[x].attempt + 1
      <3>1. CASE x = d
        BY <2>2, <3>1
      <3>2. CASE x # d
        BY <1>2, <1>3, <2>2, <3>2 DEF HooksInv, Counted
      <3> QED
        BY <3>1, <3>2
    <2>3. ASSUME NEW q \in Replica, NEW x \in Delivery, Held(q, x)' PROVE Fits(attempts[q][x], x)'
      <3>1. attempts'[q][x] = attempts[q][x] /\ Held(q, x) /\ x # d
        BY <1>1, <1>2, <2>3 DEF Held
      <3>2. Fits(attempts[q][x], x)
        BY <3>1 DEF HooksInv, Counted
      <3> QED
        BY <3>1, <3>2 DEF Fits, Called, CalledBefore
    <2> QED
      BY <2>1, <2>2, <2>3 DEF Counted
  <1>9. WaitingIsKept'
    <2>1. ASSUME NEW x \in Delivery, rows'[x] # None, rows'[x].state = "pending"
          PROVE  \/ x \in backlog' \cup dropped' \cup {replaying'}
                 \/ \E q \in Replica : Held(q, x)' \/ reader'[q].made = x
      <3>1. CASE x = d
        BY <2>1, <3>1
      <3>2. CASE x # d
        BY <1>2, <1>3, <2>1, <3>2 DEF HooksInv, WaitingIsKept, Held
      <3> QED
        BY <3>1, <3>2
    <2> QED
      BY <2>1 DEF WaitingIsKept, Held
  <1> QED
    BY <1>4, <1>5, <1>6, <1>7, <1>8, <1>9 DEF HooksInv

\* The row is read: nothing is left to do, or the attempt is made, or recorded
\* as failed when the endpoint is off.
LEMMA LookKeeps ==
  ASSUME HooksAssumption, HooksInv, NEW r \in Replica, NEW d \in Delivery, Look(r, d)
  PROVE  HooksInv'
  <1>1. /\ Held(r, d) /\ attempts[r][d].step = "read"
        /\ UNCHANGED <<endpoints, rows, backlog, unread, reader, replaying, posted, dropped, replays, faults>>
    BY DEF Look, At, Held
  <1>2. Fits(attempts[r][d], d)
    BY <1>1 DEF HooksInv, Counted
  <1>3. /\ rows \in [Delivery -> Rows \cup {None}] /\ posted \in [Delivery -> Nat]
        /\ faults \in 0 .. MaxFaults
    BY DEF HooksInv, Shaped
  <1>4. rows[d] # None => posted[d] <= rows[d].attempt
    BY <1>1, <1>2 DEF Fits
  <1>5. rows[d] # None => rows[d].attempt \in 0 .. MaxAttempts /\ posted[d] \in Nat
    BY <1>3 DEF Rows
  <1>6. CASE Settled(d)
    <2>1. Ended(r, d)
      BY <1>6 DEF Look
    <2>2. rows[d] # None => rows[d].state # "pending" /\ posted[d] <= rows[d].attempt + 1
      BY <1>4, <1>5, <1>6 DEF Settled, HooksAssumption
    <2> QED
      BY <1>1, <1>3, <1>4, <2>1, <2>2, IsOver
  <1>7. CASE ~Settled(d)
    <2>1. PICK off \in BOOLEAN : off = (endpoints[rows[d].endpoint] = "off")
      OBVIOUS
    <2>2. PICK a : a = [step |-> IF off THEN "record" ELSE "send", outcome |-> IF off THEN "no" ELSE "none",
                        attempt |-> rows[d].attempt + 1]
      OBVIOUS
    <2>3. attempts' = [attempts EXCEPT ![r][d] = a]
      BY <1>7, <2>1, <2>2 DEF Look
    <2>4. rows[d] # None /\ rows[d].state = "pending"
      BY <1>7 DEF Settled
    <2>5. rows[d].attempt < MaxAttempts
      BY <2>4 DEF HooksInv, Counted
    <2>6. a \in Attempts
      BY <1>5, <2>2, <2>4, <2>5 DEF Attempts, HooksAssumption
    <2>7. Fits(a, d)
      BY <1>4, <1>5, <2>2, <2>4, <2>5 DEF Fits, Called, CalledBefore, HooksAssumption
    <2>8. Fits(a, d)'
      BY <1>1, <2>7 DEF Fits, Called, CalledBefore
    <2>9. posted[d] <= MaxAttempts /\ posted[d] <= rows[d].attempt + 1
      BY <2>4 DEF HooksInv, Counted
    <2>10. /\ rows' \in [Delivery -> Rows \cup {None}] /\ (rows'[d] = None <=> rows[d] = None)
           /\ \A x \in Delivery : x # d => rows'[x] = rows[x] /\ posted'[x] = posted[x]
           /\ posted' \in [Delivery -> Nat] /\ posted'[d] <= MaxAttempts
           /\ rows'[d] # None => /\ rows'[d].state = "pending" => rows'[d].attempt < MaxAttempts
                                 /\ posted'[d] <= rows'[d].attempt + 1
      BY <1>1, <1>3, <2>5, <2>9
    <2> QED
      BY <1>1, <2>3, <2>6, <2>8, <2>10, GoesOn
  <1> QED
    BY <1>6, <1>7

\* The endpoint is called, or its URL no longer stands.
LEMMA SentKeeps ==
  ASSUME HooksAssumption, HooksInv, NEW r \in Replica, NEW d \in Delivery,
         Reject(r, d) \/ \E outcome \in {"ok", "again", "no"} : Post(r, d, outcome)
  PROVE  HooksInv'
  <1>1. PICK outcome \in {"ok", "again", "no"} :
          attempts' = [attempts EXCEPT ![r][d].step = "record", ![r][d].outcome = outcome]
    BY DEF Reject, Post
  <1>2. /\ Held(r, d) /\ attempts[r][d].step = "send"
        /\ posted' = posted \/ posted' = [posted EXCEPT ![d] = @ + 1]
        /\ UNCHANGED <<endpoints, rows, backlog, unread, reader, replaying, dropped, replays, faults>>
    BY DEF Reject, Post, At, Held
  <1>3. PICK b \in Attempts : b = attempts[r][d]
    BY <1>2 DEF HooksInv, Shaped
  <1>4. Fits(b, d) /\ b.step = "send"
    BY <1>2, <1>3 DEF HooksInv, Counted
  <1>5. PICK a : a = [b EXCEPT !.step = "record", !.outcome = outcome]
    OBVIOUS
  <1>6. a \in Attempts /\ a.step = "record" /\ a.attempt = b.attempt
    BY <1>3, <1>5 DEF Attempts
  <1>7. attempts' = [attempts EXCEPT ![r][d] = a]
    BY ZenonT(60), <1>1, <1>2, <1>3, <1>5 DEF HooksInv, Shaped, Held
  <1>8. /\ rows \in [Delivery -> Rows \cup {None}] /\ posted \in [Delivery -> Nat]
    BY DEF HooksInv, Shaped
  <1>9. /\ posted' \in [Delivery -> Nat] /\ \A x \in Delivery : x # d => posted'[x] = posted[x]
        /\ posted'[d] <= posted[d] + 1
    BY <1>2, <1>8
  <1>10. b.attempt >= 1 /\ b.attempt <= MaxAttempts /\ b.attempt \in Nat /\ MaxAttempts \in Nat
    BY <1>3, <1>4 DEF Fits, Attempts, HooksAssumption
  <1>11. /\ posted[d] <= b.attempt - 1
         /\ rows[d] # None => rows[d].attempt = b.attempt - 1 /\ rows[d].state = "pending"
    BY <1>4 DEF Fits, Called
  <1>12. posted[d] \in Nat /\ posted'[d] \in Nat
    BY <1>8, <1>9
  <1>13. posted'[d] <= MaxAttempts /\ posted'[d] <= b.attempt
    BY <1>9, <1>10, <1>11, <1>12
  <1>14. Fits(a, d)'
    BY <1>2, <1>6, <1>10, <1>11, <1>12, <1>13 DEF Fits, CalledBefore
  <1>15. /\ rows' \in [Delivery -> Rows \cup {None}] /\ (rows'[d] = None <=> rows[d] = None)
         /\ \A x \in Delivery : x # d => rows'[x] = rows[x] /\ posted'[x] = posted[x]
         /\ rows'[d] # None => /\ rows'[d].state = "pending" => rows'[d].attempt < MaxAttempts
                               /\ posted'[d] <= rows'[d].attempt + 1
    BY <1>2, <1>8, <1>9, <1>10, <1>11, <1>13
  <1> QED
    BY <1>2, <1>6, <1>7, <1>9, <1>13, <1>14, <1>15, GoesOn

\* The attempt is recorded.
LEMMA RecordKeeps ==
  ASSUME HooksAssumption, HooksInv, NEW r \in Replica, NEW d \in Delivery, Record(r, d)
  PROVE  HooksInv'
  <1>1. /\ Held(r, d) /\ attempts[r][d].step = "record"
        /\ UNCHANGED <<endpoints, backlog, unread, reader, replaying, posted, dropped, replays, faults>>
    BY DEF Record, At, Held
  <1>2. PICK b \in Attempts : b = attempts[r][d]
    BY <1>1 DEF HooksInv, Shaped
  <1>3. Fits(b, d) /\ b.step = "record"
    BY <1>1, <1>2 DEF HooksInv, Counted
  <1>4. b.attempt >= 1 /\ b.attempt <= MaxAttempts /\ b.attempt \in Nat /\ MaxAttempts \in Nat
    BY <1>2, <1>3 DEF Fits, Attempts, HooksAssumption
  <1>5. posted[d] <= b.attempt
    <2>1. posted[d] <= (b.attempt - 1) + 1
      BY <1>3 DEF Fits, CalledBefore
    <2> QED
      BY <1>4, <2>1
  <1>6. PICK state \in {"pending", "delivered", "failed"} :
          /\ state = CASE b.outcome = "ok" -> "delivered" [] WillRetry(b) -> "pending" [] OTHER -> "failed"
          /\ state = "pending" <=> WillRetry(b)
    BY DEF WillRetry
  <1>7. rows' = IF rows[d] = None THEN rows ELSE [rows EXCEPT ![d].attempt = b.attempt, ![d].state = state]
    BY <1>2, <1>6 DEF Record
  <1>8. rows \in [Delivery -> Rows \cup {None}] /\ posted \in [Delivery -> Nat] /\ faults \in 0 .. MaxFaults
    BY DEF HooksInv, Shaped
  <1>9. ASSUME rows[d] # None
        PROVE  /\ rows' \in [Delivery -> Rows \cup {None}] /\ rows'[d] # None
               /\ rows'[d].attempt = b.attempt /\ rows'[d].state = state
    <2>1. PICK row \in Rows : row = rows[d]
      BY <1>8, <1>9
    <2>2. PICK new : new = [row EXCEPT !.attempt = b.attempt, !.state = state]
      OBVIOUS
    <2>3. new \in Rows /\ new.attempt = b.attempt /\ new.state = state
      <3>1. b.attempt \in 0 .. MaxAttempts
        BY <1>4
      <3>2. new = [endpoint |-> row.endpoint, event |-> row.event, attempt |-> b.attempt, state |-> state]
        BY <2>1, <2>2 DEF Rows
      <3> QED
        BY <1>6, <2>1, <3>1, <3>2 DEF Rows
    <2>4. rows' = [rows EXCEPT ![d] = new]
      BY <1>7, <1>9, <2>1, <2>2
    <2>5. new # None
      BY <2>3 DEF HooksAssumption
    <2> QED
      BY <1>8, <2>3, <2>4, <2>5
  <1>10. /\ rows' \in [Delivery -> Rows \cup {None}] /\ (rows'[d] = None <=> rows[d] = None)
         /\ \A x \in Delivery : x # d => rows'[x] = rows[x] /\ posted'[x] = posted[x]
         /\ posted' \in [Delivery -> Nat] /\ posted'[d] <= MaxAttempts
    <2>1. posted[d] <= MaxAttempts
      BY DEF HooksInv, Counted
    <2> QED
      BY <1>1, <1>7, <1>8, <1>9, <2>1
  <1>11. WillRetry(b) => b.attempt < MaxAttempts
    BY <1>4 DEF WillRetry
  <1>12. posted[d] \in Nat
    BY <1>8
  <1>13. rows'[d] # None => /\ rows'[d].attempt = b.attempt
                            /\ rows'[d].state = "pending" <=> WillRetry(b)
    BY <1>6, <1>9, <1>10
  <1>14. rows'[d] # None => /\ rows'[d].state = "pending" => rows'[d].attempt < MaxAttempts
                            /\ posted'[d] <= rows'[d].attempt + 1
    BY <1>1, <1>4, <1>5, <1>11, <1>12, <1>13
  <1>15. CASE WillRetry(b)
    <2>1. PICK a : a = [b EXCEPT !.step = "schedule"]
      OBVIOUS
    <2>2. a \in Attempts /\ a.step = "schedule" /\ a.attempt = b.attempt
      BY <1>2, <2>1 DEF Attempts
    <2>3. attempts' = [attempts EXCEPT ![r][d].step = "schedule"]
      BY <1>2, <1>15 DEF Record
    <2>4. attempts' = [attempts EXCEPT ![r][d] = a]
      BY <1>1, <1>2, <2>1, <2>3 DEF HooksInv, Shaped, Held
    <2>5. Fits(a, d)'
      BY <1>1, <1>5, <1>11, <1>13, <1>15, <2>2 DEF Fits, Called
    <2> QED
      BY <1>1, <1>10, <1>14, <2>2, <2>4, <2>5, GoesOn
  <1>16. CASE ~WillRetry(b)
    <2>1. Ended(r, d)
      BY <1>2, <1>16 DEF Record
    <2>2. rows'[d] # None => rows'[d].state # "pending" /\ posted[d] <= rows'[d].attempt
      BY <1>5, <1>13, <1>16
    <2> QED
      BY <1>1, <1>8, <1>10, <1>14, <2>1, <2>2, IsOver
  <1> QED
    BY <1>15, <1>16

\* The delivery is put back, or its attempt fails.
LEMMA EndKeeps ==
  ASSUME HooksAssumption, HooksInv, NEW r \in Replica, NEW d \in Delivery, PutBack(r, d) \/ AttemptFails(r, d)
  PROVE  HooksInv'
  <1>1. /\ Held(r, d) /\ Ended(r, d)
        /\ UNCHANGED <<endpoints, rows, unread, reader, replaying, posted, replays>>
    BY DEF PutBack, AttemptFails, At, Held
  <1>2. /\ rows \in [Delivery -> Rows \cup {None}] /\ posted \in [Delivery -> Nat]
    BY DEF HooksInv, Shaped
  <1>3. rows[d] # None => /\ rows[d].state = "pending" => rows[d].attempt < MaxAttempts
                          /\ posted[d] <= rows[d].attempt + 1
    BY DEF HooksInv, Counted
  <1>4. faults' \in 0 .. MaxFaults
    BY DEF PutBack, AttemptFails, HooksInv, Shaped, HooksAssumption
  <1>5. CASE AttemptFails(r, d)
    <2>1. backlog' = backlog /\ dropped' = dropped \cup {d}
      BY <1>5 DEF AttemptFails
    <2> QED
      BY <1>1, <1>2, <1>3, <1>4, <2>1, IsOver
  <1>6. CASE PutBack(r, d)
    <2>1. backlog' = backlog \cup {d} /\ dropped' = dropped /\ attempts[r][d].step = "schedule"
      BY <1>6 DEF PutBack, At
    <2>2. Fits(attempts[r][d], d)
      BY <1>1 DEF HooksInv, Counted
    <2>3. rows[d] # None => posted[d] <= rows[d].attempt
      BY <2>1, <2>2 DEF Fits, Called
    <2> QED
      BY <1>1, <1>2, <1>3, <1>4, <2>1, <2>3, IsOver
  <1> QED
    BY <1>5, <1>6

\* A replica stops and starts again.
LEMMA CrashKeeps ==
  ASSUME HooksAssumption, HooksInv, NEW r \in Replica, Crash(r)
  PROVE  HooksInv'
  <1>1. /\ dropped' = dropped \cup DOMAIN attempts[r] \cup ({reader[r].made} \ {None})
        /\ reader' = [reader EXCEPT ![r] = Idle] /\ attempts' = [attempts EXCEPT ![r] = <<>>]
        /\ UNCHANGED <<endpoints, rows, backlog, unread, replaying, posted, replays>>
    BY DEF Crash
  <1>2. faults' \in 0 .. MaxFaults
    BY DEF Crash, HooksInv, Shaped, HooksAssumption
  <1>3. /\ Idle \in [left : Seq(Endpoint), event : Event \cup {None}, made : Delivery \cup {None}]
        /\ Idle.made = None
    BY DEF Idle
  <1>4. DOMAIN <<>> = {}
    OBVIOUS
  <1>5. /\ DOMAIN attempts' = Replica /\ attempts' = [q \in Replica |-> attempts'[q]]
        /\ \A q \in Replica : DOMAIN attempts'[q] = IF q = r THEN {} ELSE DOMAIN attempts[q]
        /\ \A q \in Replica : q # r => attempts'[q] = attempts[q]
    BY <1>1, <1>4 DEF HooksInv, Shaped
  <1>6. \A q \in Replica : \A x : Held(q, x)' <=> Held(q, x) /\ q # r
    BY <1>5 DEF Held
  <1>7. /\ \A q \in Replica : reader'[q].made = IF q = r THEN None ELSE reader[q].made
        /\ \A q \in Replica : q # r => reader'[q] = reader[q]
        /\ reader' \in [Replica -> [left : Seq(Endpoint), event : Event \cup {None}, made : Delivery \cup {None}]]
    BY <1>1, <1>3 DEF HooksInv, Shaped
  <1>8. /\ \A x : x \in dropped' <=> x \in dropped \/ Held(r, x) \/ (x = reader[r].made /\ x # None)
        /\ dropped' \subseteq Delivery
    BY <1>1 DEF HooksInv, Shaped, Held
  <1>9. Shaped'
    BY <1>1, <1>2, <1>5, <1>6, <1>7, <1>8 DEF HooksInv, Shaped, Held
  <1>10. Few'
    <2>1. \A q \in Replica : DOMAIN attempts'[q] \subseteq DOMAIN attempts[q]
      BY <1>5
    <2> QED
      BY <2>1, NoMore DEF HooksInv
  <1>11. OnePlace'
    <2>1. backlog' \cap dropped' = {}
      BY <1>1, <1>8 DEF HooksInv, OnePlace, Shaped
    <2>2. None \notin dropped' \cup backlog'
      BY <1>1, <1>8 DEF HooksInv, Shaped, HooksAssumption
    <2>3. \A q \in Replica : reader'[q].made \notin backlog' \cup dropped'
      <3>1. ASSUME NEW q \in Replica, q # r PROVE reader[q].made \notin dropped'
        BY <1>8, <2>2, <3>1 DEF HooksInv, OnePlace
      <3> QED
        BY <1>1, <1>7, <2>2, <3>1 DEF HooksInv, OnePlace
    <2>4. replaying' \notin backlog' \cup dropped'
      <3>1. CASE replaying = None
        BY <1>1, <2>2, <3>1
      <3>2. CASE replaying # None
        BY <1>1, <1>8, <3>2 DEF HooksInv, OnePlace
      <3> QED
        BY <3>1, <3>2
    <2>5. \A q \in Replica : \A x \in Delivery : x \in DOMAIN attempts'[q] => x \notin backlog' \cup dropped'
      BY <1>1, <1>6, <1>8 DEF HooksInv, OnePlace, Held
    <2>6. /\ \A p, q \in Replica : \A x \in Delivery : x \in DOMAIN attempts'[p] /\ x \in DOMAIN attempts'[q] => p = q
          /\ \A p, q \in Replica : reader'[p].made # None /\ reader'[p].made = reader'[q].made => p = q
          /\ \A p, q \in Replica : reader'[p].made # None =>
               reader'[p].made \notin DOMAIN attempts'[q] /\ reader'[p].made # replaying'
          /\ \A q \in Replica : replaying' # None => replaying' \notin DOMAIN attempts'[q]
      BY <1>1, <1>5, <1>6, <1>7 DEF HooksInv, OnePlace, Held
    <2> QED
      BY <2>1, <2>3, <2>4, <2>5, <2>6 DEF OnePlace, Held
  <1>12. Rowed'
    BY <1>1, <1>6, <1>7, <1>8 DEF HooksInv, Rowed, Gone, HooksAssumption
  <1>13. Counted'
    <2>1. \A x \in Delivery : posted'[x] <= MaxAttempts
      BY <1>1 DEF HooksInv, Counted
    <2>2. \A x \in Delivery : rows'[x] # None =>
            /\ rows'[x].state = "pending" => rows'[x].attempt < MaxAttempts
            /\ posted'[x] <= rows'[x].attempt \/ x \in dropped' \/ \E q \in Replica : Held(q, x)'
            /\ posted'[x] <= rows'[x].attempt + 1
      BY <1>1, <1>6, <1>8 DEF HooksInv, Counted
    <2>3. \A q \in Replica : \A x \in Delivery : Held(q, x)' => Fits(attempts[q][x], x)'
      BY <1>1, <1>5, <1>6 DEF HooksInv, Counted, Fits, Called, CalledBefore
    <2> QED
      BY <2>1, <2>2, <2>3 DEF Counted
  <1>14. WaitingIsKept'
    BY <1>1, <1>6, <1>7, <1>8 DEF HooksInv, WaitingIsKept, Held, HooksAssumption
  <1> QED
    BY <1>9, <1>10, <1>11, <1>12, <1>13, <1>14 DEF HooksInv

-----------------------------------------------------------------------------
(* The theorems.                                                           *)

\* Every step keeps the invariant.
LEMMA HooksStep == HooksAssumption /\ HooksInv /\ [Next]_vars => HooksInv'
  <1> SUFFICES ASSUME HooksAssumption, HooksInv, [Next]_vars PROVE HooksInv'
    OBVIOUS
  <1>1. CASE UNCHANGED vars
    BY <1>1 DEF vars, HooksInv, Shaped, Few, OnePlace, Rowed, Gone, Counted, Fits, Called, CalledBefore,
                Held, WaitingIsKept
  <1>2. ASSUME NEW p \in Endpoint, Register(p) \/ Deactivate(p) PROVE HooksInv'
    BY <1>2, EndpointSteps
  <1>3. ASSUME NEW d \in Delivery, Replay(d) PROVE HooksInv'
    BY <1>3, ReplayKeeps
  <1>4. CASE ScheduleReplay \/ ReplayFails
    BY <1>4, ReplayEnds
  <1>5. CASE SessionGoes
    BY <1>5, GoingKeeps
  <1>6. ASSUME NEW r \in Replica, Progress(r) PROVE HooksInv'
    <2>1. CASE (\E e \in Event : Read(r, e)) \/ Acknowledge(r)
      BY <2>1, ReadKeeps
    <2>2. CASE Insert(r)
      BY <2>2, InsertKeeps
    <2>3. CASE Schedule(r)
      BY <2>3, ScheduleKeeps
    <2>4. ASSUME NEW due \in SUBSET backlog, Claim(r, due) PROVE HooksInv'
      BY <2>4, ClaimKeeps
    <2>5. ASSUME NEW d \in Delivery, Look(r, d) PROVE HooksInv'
      BY <2>5, LookKeeps
    <2>6. ASSUME NEW d \in Delivery, Reject(r, d) \/ \E outcome \in {"ok", "again", "no"} : Post(r, d, outcome)
          PROVE  HooksInv'
      BY <2>6, SentKeeps
    <2>7. ASSUME NEW d \in Delivery, Record(r, d) PROVE HooksInv'
      BY <2>7, RecordKeeps
    <2>8. ASSUME NEW d \in Delivery, PutBack(r, d) PROVE HooksInv'
      BY <2>8, EndKeeps
    <2> QED
      BY <1>6, <2>1, <2>2, <2>3, <2>4, <2>5, <2>6, <2>7, <2>8 DEF Progress
  <1>7. ASSUME NEW r \in Replica, Crash(r) PROVE HooksInv'
    BY <1>7, CrashKeeps
  <1>8. ASSUME NEW r \in Replica, NEW d \in Delivery, AttemptFails(r, d) PROVE HooksInv'
    BY <1>8, EndKeeps
  <1> QED
    BY <1>1, <1>2, <1>3, <1>4, <1>5, <1>6, <1>7, <1>8 DEF Next

\* The invariant the rest follows from.
THEOREM HooksCorrect == ASSUME HooksAssumption PROVE Spec => []HooksInv
  <1>1. Init => HooksInv
    BY HooksStart
  <1>2. HooksInv /\ [Next]_vars => HooksInv'
    BY HooksStep
  <1> QED
    BY <1>1, <1>2, PTL DEF Spec

\* The claim (ZREM) gives a delivery to one replica, and what is attempted is
\* not waiting in the backlog.
LEMMA OneAtATime == ASSUME HooksAssumption, HooksInv PROVE OneAttemptAtATime
  <1> SUFFICES ASSUME NEW d \in Delivery
               PROVE  /\ Cardinality({r \in Replica : d \in DOMAIN attempts[r]}) <= 1
                      /\ {r \in Replica : d \in DOMAIN attempts[r]} # {} => d \notin backlog
    BY DEF OneAttemptAtATime
  <1>1. PICK busy : busy = {r \in Replica : d \in DOMAIN attempts[r]}
    OBVIOUS
  <1>2. \A r, q \in busy : r = q
    BY <1>1 DEF HooksInv, OnePlace, Held
  <1>3. busy = {} \/ \E r \in Replica : busy = {r}
    BY <1>1, <1>2
  <1>4. Cardinality(busy) <= 1
    <2>1. CASE busy = {}
      <3>1. Cardinality(busy) = 0
        BY ZenonT(60), <2>1, FS_EmptySet
      <3> QED
        BY <3>1
    <2>2. ASSUME NEW r \in Replica, busy = {r} PROVE Cardinality(busy) <= 1
      <3>1. Cardinality(busy) = 1
        BY ZenonT(60), <2>2, FS_Singleton
      <3> QED
        BY <3>1
    <2> QED
      BY <1>3, <2>1, <2>2
  <1>5. busy # {} => d \notin backlog
    BY <1>1 DEF HooksInv, OnePlace, Held
  <1> QED
    BY <1>1, <1>4, <1>5

\* What the variables hold.
LEMMA HooksTyped == ASSUME HooksAssumption, HooksInv PROVE TypeOK
  <1>1. posted \in [Delivery -> 0 .. MaxAttempts]
    BY DEF HooksInv, Shaped, Counted, HooksAssumption
  <1>2. ASSUME NEW r \in Replica
        PROVE  /\ reader[r].event \in Event \cup {None} /\ reader[r].made \in Delivery \cup {None}
               /\ \A i \in DOMAIN reader[r].left : reader[r].left[i] \in Endpoint
               /\ DOMAIN attempts[r] \subseteq Delivery
               /\ \A d \in DOMAIN attempts[r] : attempts[r][d] \in Attempts
               /\ Cardinality(DOMAIN attempts[r]) <= Concurrency
    BY ReaderIs DEF HooksInv, Shaped, Few, Held
  <1> QED
    BY <1>1, <1>2 DEF TypeOK, HooksInv, Shaped

\* Calls are counted: what was called is what the row says, or one more while
\* it is being recorded.
LEMMA CallsAreCounted == ASSUME HooksAssumption, HooksInv PROVE PostsAreCounted
  <1> SUFFICES ASSUME NEW d \in Delivery, rows[d] # None
               PROVE  \/ posted[d] <= rows[d].attempt
                      \/ /\ posted[d] = rows[d].attempt + 1
                         /\ d \in dropped \/ \E r \in Replica : At(r, d, "record")
    BY DEF PostsAreCounted, HooksInv, Counted
  <1>1. rows[d].attempt \in Nat /\ posted[d] \in Nat /\ posted[d] <= rows[d].attempt + 1
    BY DEF HooksInv, Shaped, Counted, Rows
  <1>2. CASE posted[d] <= rows[d].attempt \/ d \in dropped
    BY <1>1, <1>2
  <1>3. ASSUME NEW r \in Replica, Held(r, d), ~(posted[d] <= rows[d].attempt) PROVE At(r, d, "record")
    <2>1. Fits(attempts[r][d], d)
      BY <1>3 DEF HooksInv, Counted
    <2>2. attempts[r][d].step \in {"read", "send", "record", "schedule"}
      BY <1>3 DEF HooksInv, Shaped, Attempts
    <2>3. attempts[r][d].step = "record"
      BY <1>3, <2>1, <2>2 DEF Fits, Called
    <2> QED
      BY <1>3, <2>3 DEF At, Held
  <1> QED
    BY <1>1, <1>2, <1>3 DEF HooksInv, Counted

\* webhooks/queue.ts, dispatcher.ts, delivery.ts: one replica at a time attempts
\* a delivery, its endpoint is called as often as its row counts and never more
\* than maxAttempts times, and none that waits is lost to a restart.
THEOREM DeliveriesKept ==
  ASSUME HooksAssumption PROVE Spec => [](TypeOK /\ OneAttemptAtATime /\ PostsAreCounted /\ WaitingIsKept)
  <1>1. HooksInv => TypeOK /\ OneAttemptAtATime /\ PostsAreCounted /\ WaitingIsKept
    BY HooksTyped, OneAtATime, CallsAreCounted DEF HooksInv
  <1> QED
    BY <1>1, HooksCorrect, PTL

\* A delivery that is settled is neither sent nor recorded.
LEMMA SettledIsDone ==
  ASSUME HooksAssumption, HooksInv, NEW d \in Delivery, rows[d] # None, rows[d].state # "pending", [Next]_vars
  PROVE  rows'[d] \in {rows[d], None} /\ posted'[d] = posted[d]
  <1>1. \A r \in Replica : Held(r, d) => attempts[r][d].step = "read"
    <2> SUFFICES ASSUME NEW r \in Replica, Held(r, d) PROVE attempts[r][d].step = "read"
      OBVIOUS
    <2>1. Fits(attempts[r][d], d)
      BY DEF HooksInv, Counted
    <2>2. attempts[r][d].step \in {"read", "send", "record", "schedule"}
      BY DEF HooksInv, Shaped, Attempts
    <2> QED
      BY <2>1, <2>2 DEF Fits, Called, CalledBefore
  <1>2. rows \in [Delivery -> Rows \cup {None}] /\ posted \in [Delivery -> Nat]
    BY DEF HooksInv, Shaped
  <1>3. CASE UNCHANGED <<rows, posted>>
    BY <1>3
  <1>4. ASSUME NEW x \in Delivery, Replay(x) PROVE rows'[d] = rows[d] /\ posted' = posted
    <2>1. PICK clone \in Fresh : rows' = [rows EXCEPT ![clone] = NewRow(rows[x].endpoint, rows[x].event)]
      BY <1>4 DEF Replay
    <2>2. clone # d
      BY DEF Fresh
    <2> QED
      BY <1>2, <1>4, <2>1, <2>2 DEF Replay
  <1>5. CASE SessionGoes
    BY <1>5 DEF SessionGoes
  <1>6. ASSUME NEW r \in Replica, Insert(r) PROVE rows'[d] = rows[d] /\ posted' = posted
    <2>1. ASSUME NEW new \in Fresh, rows' = [rows EXCEPT ![new] = NewRow(Head(reader[r].left), reader[r].event)]
          PROVE  rows'[d] = rows[d]
      <3>1. new # d
        BY DEF Fresh
      <3> QED
        BY <1>2, <2>1, <3>1
    <2> QED
      BY <1>6, <2>1 DEF Insert
  <1>7. ASSUME NEW r \in Replica, NEW x \in Delivery, NEW outcome \in {"ok", "again", "no"}, Post(r, x, outcome)
        PROVE  rows' = rows /\ posted'[d] = posted[d]
    <2>1. x # d
      BY <1>1, <1>7 DEF Post, At, Held
    <2> QED
      BY <1>2, <1>7, <2>1 DEF Post
  <1>8. ASSUME NEW r \in Replica, NEW x \in Delivery, Record(r, x) PROVE rows'[d] = rows[d] /\ posted' = posted
    <2>1. x # d
      BY <1>1, <1>8 DEF Record, At, Held
    <2>2. rows'[d] = rows[d]
      BY <1>2, <1>8, <2>1 DEF Record
    <2> QED
      BY <1>8, <2>2 DEF Record
  <1>9. ASSUME NEW r \in Replica, Progress(r) PROVE rows'[d] = rows[d] /\ posted'[d] = posted[d]
    <2>1. CASE UNCHANGED <<rows, posted>>
      BY <2>1
    <2>2. CASE Insert(r)
      BY <1>6, <2>2
    <2>3. ASSUME NEW x \in Delivery, NEW outcome \in {"ok", "again", "no"}, Post(r, x, outcome)
          PROVE  rows'[d] = rows[d] /\ posted'[d] = posted[d]
      BY <1>7, <2>3
    <2>4. ASSUME NEW x \in Delivery, Record(r, x) PROVE rows'[d] = rows[d] /\ posted'[d] = posted[d]
      BY <1>8, <2>4
    <2> QED
      BY <1>9, <2>1, <2>2, <2>3, <2>4 DEF Progress, Read, Schedule, Acknowledge, Claim, Look, Reject, PutBack
  <1> QED
    BY <1>3, <1>4, <1>5, <1>9
       DEF Next, vars, Register, Deactivate, ScheduleReplay, ReplayFails, Crash, AttemptFails

\* A delivery that was settled is never attempted or changed again: only its
\* session going removes it.
THEOREM SettledForGood == ASSUME HooksAssumption PROVE Spec => [][SettledStays]_vars
  <1>1. HooksInv /\ [Next]_vars => [SettledStays]_vars
    BY SettledIsDone DEF SettledStays, Settled
  <1> QED
    BY <1>1, HooksCorrect, PTL DEF Spec
=============================================================================
