------------------------ MODULE SummaryCoherenceProofs ------------------------
(***************************************************************************)
(* Proofs about SummaryCoherence: for any number of requests, viewers and  *)
(* writes, any TTL and any time that a request may take, no answer is      *)
(* older than the design allows and none has another viewer's rows.        *)
(***************************************************************************)
EXTENDS SummaryCoherence, WellFoundedInduction, TLAPS

----------------------------------------------------------------------------
(* The inductive invariant *)

\* Payload p has all writes whose handlers were done more than n ticks ago.
Known(p, n) == \A v \in 1..MaxVersion : p.version < v => ack[v] <= n

\* The answer so far, p, of a request in state s.  It has been loaded since the
\* lookup, except for what a query had read that was already in progress.
PayloadFact(s, p) ==
  /\ p.rows \subseteq {s.viewer}
  /\ p.version >= clean
  /\ p.version >= s.floor.old
  /\ Known(p, MaxLoad + s.wait)

\* What the floor was taken from goes on to hold.
FloorFact(floor) ==
  /\ floor.clean <= clean
  /\ floor.old # 0 => ack[floor.old] > Bound

\* A request in progress, in state s.
BusyFact(s) ==
  /\ s.at \in {"load", "wait"} => s.part < Len(Parts[s.kind])
  /\ FloorFact(s.floor)
  /\ PayloadFact(s, s.payload)

\* A request that was answered, in state s.
DoneFact(s) ==
  /\ s.payload.rows \subseteq {s.viewer}
  /\ s.payload.version >= s.floor.old
  /\ s.payload.version >= s.floor.clean

BusyOK == \A r \in Busy : BusyFact(reader[r])
DoneOK == \A r \in Answered : DoneFact(reader[r])

\* What is stored under key k.  It misses only what it missed when it was stored.
StoredFact(k, e) ==
  /\ e.data.rows \subseteq {k[2]}
  /\ e.data.version >= clean
  /\ Known(e.data, Bound - e.left)

StoredOK == \A k \in DOMAIN stored : StoredFact(k, stored[k])

\* A query selects what its key says, and the request that has started it has
\* waited for longer than any write is done that the query has not seen.
FlightFact(f) ==
  /\ flight[f].result.rows = IF f[1] \in PerViewer THEN f[2] ELSE {}
  /\ flight[f].result.version >= clean
  /\ \E r \in Waiters(f) : Known(flight[f].result, reader[r].wait)

FlightOK == \A f \in DOMAIN flight : FlightFact(f)

\* Only the handler of a write that was committed can be done.
WritesOK ==
  /\ clean <= version
  /\ \A v \in 1..MaxVersion : v \in pending \/ v > version => ack[v] = Never

IInv == TypeOK /\ BusyOK /\ DoneOK /\ StoredOK /\ FlightOK /\ WritesOK

----------------------------------------------------------------------------
(* The last write that is old *)

\* A set of natural numbers that is not empty has a least element.
LEMMA LeastElement ==
  ASSUME NEW T, T \subseteq Nat, T # {}
  PROVE  \E m \in T : \A n \in T : m <= n
<1>1. PICK R : IsWellFoundedOn(R, Nat) /\ \A m, n \in Nat : m < n => <<m, n>> \in R
  <2>1. \A m, n \in Nat : m < n => <<m, n>> \in OpToRel(<, Nat)
    BY DEF OpToRel
  <2>2. QED
    BY <2>1, NatLessThanWellFounded
<1>2. PICK m \in T : \A n \in T : ~(<<n, m>> \in R)
  BY <1>1, WFMin, ZenonT(60)
<1>3. \A n \in T : ~(n < m)
  <2>1. \A i, j \in Nat : i < j => <<i, j>> \in R
    BY <1>1
  <2>2. QED
    BY <1>2, <2>1, Zenon
<1>4. \A n \in T : m <= n
  BY <1>3
<1>5. QED
  BY <1>4

\* The last version of which something holds exists; it is 0 if there is none.
LEMMA LastExists ==
  ASSUME NEW S, S \subseteq 1..MaxVersion
  PROVE  \E v \in Versions : /\ v = 0 \/ v \in S
                             /\ \A w \in v + 1..MaxVersion : w \notin S
<1> DEFINE T == {v \in Versions : \A w \in v + 1..MaxVersion : w \notin S}
<1>1. T \subseteq Nat /\ MaxVersion \in T
  BY VersionAssumption DEF Versions
<1>2. PICK m \in T : \A n \in T : m <= n
  BY <1>1, LeastElement
<1>3. m = 0 \/ m \in S
  <2> SUFFICES ASSUME m # 0 PROVE m \in S
    OBVIOUS
  <2>1. m \in 1..MaxVersion /\ MaxVersion \in Nat
    BY VersionAssumption DEF Versions
  <2>2. m - 1 \in Versions /\ m - 1 \notin T
    BY <1>1, <1>2, <2>1 DEF Versions
  <2>3. PICK w \in (m - 1) + 1..MaxVersion : w \in S
    BY <2>2
  <2>4. QED
    BY <2>1, <2>3
<1>4. QED
  BY <1>2, <1>3

\* The floor is a version whose handler was done long before, or 0.
LEMMA FloorTypes ==
  ASSUME TypeOK
  PROVE  /\ Floor = [old |-> Floor.old, clean |-> clean]
         /\ Floor \in Floors
         /\ Floor.old # 0 => Floor.old \in 1..MaxVersion /\ ack[Floor.old] > Bound
<1> DEFINE S == {v \in 1..MaxVersion : ack[v] > Bound}
           Is(v) == /\ v = 0 \/ ack[v] > Bound
                    /\ \A w \in v + 1..MaxVersion : ~(ack[w] > Bound)
<1>1. \E v \in Versions : /\ v = 0 \/ v \in S
                          /\ \A w \in v + 1..MaxVersion : w \notin S
  BY LastExists
<1>2. \E v \in Versions : Is(v)
  BY <1>1, VersionAssumption DEF Versions
<1>3. Floor.old = CHOOSE v \in Versions : Is(v)
  BY DEF Floor, LastSuch
<1>4. Floor.old \in Versions /\ Is(Floor.old)
  BY <1>2, <1>3
<1>5. Floor = [old |-> Floor.old, clean |-> clean]
  BY DEF Floor
<1>6. QED
  BY <1>4, <1>5, VersionAssumption DEF Floors, TypeOK, Versions
----------------------------------------------------------------------------
(* Types *)

States == {Idle} \cup Working \cup Done

\* The numbers that bound times.
LEMMA Numbers ==
  /\ TTL \in Nat /\ MaxLoad \in Nat /\ MaxVersion \in Nat
  /\ Bound \in Nat /\ Bound = TTL + 2 * MaxLoad /\ Bound > MaxLoad
  /\ Versions \subseteq Nat /\ MaxVersion \in Versions
BY TimeAssumption, VersionAssumption DEF Bound, Versions

\* What is asked for.
LEMMA AskedTypes ==
  ASSUME TypeOK
  PROVE  asked.kinds \subseteq Kinds /\ asked.viewers \subseteq Viewers
BY DemandAssumption DEF TypeOK, Kinds

\* Every answer has at least one part and at most five.
LEMMA PartsTypes ==
  ASSUME NEW k \in Kinds
  PROVE  /\ k \in DOMAIN Parts
         /\ Len(Parts[k]) \in 1..5
         /\ \A n \in 1..Len(Parts[k]) : Parts[k][n] \in PartNames
<1>1. k \in DOMAIN Parts
  BY DemandAssumption DEF Kinds
<1>2. /\ Len(SummaryParts) = 5 /\ DOMAIN SummaryParts = 1..5
      /\ Len(TrendsParts) = 3 /\ DOMAIN TrendsParts = 1..3
      /\ Len(ResumeParts) = 2 /\ DOMAIN ResumeParts = 1..2
      /\ Len(AsideParts) = 1 /\ DOMAIN AsideParts = 1..1
  BY DEF SummaryParts, TrendsParts, ResumeParts, AsideParts
<1>3. Parts[k] \in {SummaryParts, TrendsParts, ResumeParts, AsideParts}
  BY <1>1 DEF Parts
<1>4. Len(Parts[k]) \in 1..5 /\ DOMAIN Parts[k] = 1..Len(Parts[k])
  BY <1>2, <1>3
<1>5. \A n \in 1..Len(Parts[k]) : Parts[k][n] \in PartNames
  BY <1>1, <1>4 DEF PartNames
<1>6. QED
  BY <1>1, <1>4, <1>5

\* The fields of a request's state, by where the request is.
LEMMA Fields ==
  ASSUME NEW s \in States
  PROVE  /\ s.at \in {"idle", "load", "wait", "store", "done"}
         /\ s.at \in {"load", "wait", "store"} <=> s \in Working
         /\ s.at = "done" <=> s \in Done
         /\ s \in Working => /\ s.kind \in Kinds /\ s.viewer \in Viewers /\ s.part \in 0..5
                             /\ s.wait \in 0..MaxLoad /\ s.payload \in Payloads /\ s.floor \in Floors
         /\ s \in Done => s.viewer \in Viewers /\ s.payload \in Payloads /\ s.floor \in Floors
BY DEF States, Idle, Working, Done

LEMMA PayloadFields ==
  ASSUME NEW p \in Payloads
  PROVE  p.version \in Versions /\ p.version \in Nat /\ p.rows \subseteq Viewers
BY Numbers DEF Payloads

LEMMA FloorFields ==
  ASSUME NEW x \in Floors
  PROVE  /\ x.old \in Versions /\ x.clean \in Versions /\ x.old \in Nat /\ x.clean \in Nat
         /\ x.old # 0 => x.old \in 1..MaxVersion
BY Numbers DEF Floors, Versions

\* Every request is in one of the states.
LEMMA ReaderType ==
  ASSUME TypeOK, NEW r \in Readers
  PROVE  reader[r] \in States
BY DEF TypeOK, States

LEMMA AckType ==
  ASSUME TypeOK, NEW v \in 1..MaxVersion
  PROVE  ack[v] \in Ages /\ ack[v] \in Int /\ ack[v] <= Bound + 1
BY Numbers DEF TypeOK, Ages, Never

\* A request that loads or waits has a part to load.
LEMMA KeyTypes ==
  ASSUME TypeOK, BusyOK, NEW r \in Readers, reader[r].at \in {"load", "wait"}
  PROVE  PartOf(r) \in PartNames /\ KeyOf(r) \in FlightKeys
<1>1. reader[r] \in Working /\ BusyFact(reader[r])
  BY ReaderType, Fields DEF BusyOK, Busy
<1>2. /\ reader[r].kind \in Kinds /\ reader[r].viewer \in Viewers /\ reader[r].part \in 0..5
      /\ reader[r].part < Len(Parts[reader[r].kind])
  BY <1>1, ReaderType, Fields DEF BusyFact
<1>3. reader[r].part + 1 \in 1..Len(Parts[reader[r].kind])
  BY <1>2, PartsTypes
<1>4. PartOf(r) \in PartNames
  BY <1>2, <1>3, PartsTypes DEF PartOf
<1>5. QED
  BY <1>2, <1>4 DEF KeyOf, FlightKeys

\* The rows that a key stands for are those of the viewers that share it.
LEMMA KeyRows ==
  ASSUME NEW part, NEW u, NEW r
  PROVE  LET f == FlightKey(part, u, r)
         IN  /\ f[1] = part
             /\ part \in PerViewer => f[2] = {u}
BY DEF FlightKey, PerViewer

----------------------------------------------------------------------------
(* Answers in the making *)

\* What is known stays known for longer.
LEMMA KnownLonger ==
  ASSUME TypeOK, NEW p, NEW m \in Int, NEW n \in Int, m <= n, Known(p, m)
  PROVE  Known(p, n)
BY AckType DEF Known

\* A query adds what its key selects and nothing older than the floor.
LEMMA MergedFact ==
  ASSUME TypeOK, NEW s \in Working, BusyFact(s), NEW q \in Payloads,
         q.rows \subseteq {s.viewer}, q.version >= clean,
         NEW n \in 0..MaxLoad, Known(q, n)
  PROVE  Merged(s.payload, q) \in Payloads /\ PayloadFact(s, Merged(s.payload, q))
<1> DEFINE p == s.payload
           m == Merged(p, q)
<1>1. /\ p \in Payloads /\ s.floor \in Floors /\ s.wait \in 0..MaxLoad /\ MaxLoad \in Nat
      /\ p.version \in Nat /\ q.version \in Nat /\ p.version \in Versions /\ q.version \in Versions
      /\ p.rows \subseteq Viewers /\ q.rows \subseteq Viewers
      /\ s.floor.old \in Nat /\ clean \in Nat
  BY Fields, PayloadFields, FloorFields, Numbers DEF States, TypeOK
<1>2. m.rows = p.rows \cup q.rows /\ m.version \in {p.version, q.version}
  BY DEF Merged, Least
<1>3. m \in Payloads
  BY <1>1, <1>2 DEF Merged, Payloads
<1>4. q.version >= s.floor.old
  <2> SUFFICES ASSUME q.version < s.floor.old PROVE FALSE
    BY <1>1
  <2>1. s.floor.old # 0 /\ s.floor.old \in 1..MaxVersion
    BY <1>1, FloorFields
  <2>2. ack[s.floor.old] <= n
    BY <2>1 DEF Known
  <2>3. ack[s.floor.old] > Bound
    BY <2>1 DEF BusyFact, FloorFact
  <2>4. QED
    BY <2>1, <2>2, <2>3, Numbers, AckType
<1>5. Known(q, MaxLoad + s.wait)
  BY <1>1, KnownLonger
<1>6. Known(p, MaxLoad + s.wait) /\ p.version >= clean /\ p.version >= s.floor.old /\ p.rows \subseteq {s.viewer}
  BY DEF BusyFact, PayloadFact
<1>7. Known(m, MaxLoad + s.wait)
  BY <1>2, <1>5, <1>6 DEF Known
<1>8. m.version >= clean /\ m.version >= s.floor.old /\ m.rows \subseteq {s.viewer}
  BY <1>2, <1>4, <1>6
<1>9. QED
  BY <1>3, <1>7, <1>8 DEF PayloadFact

\* After a part a request loads the next or is ready to store.
LEMMA AfterFact ==
  ASSUME NEW s \in Working, s.at \in {"load", "wait"}, BusyFact(s), NEW p \in Payloads, PayloadFact(s, p)
  PROVE  After(s, p) \in Working /\ BusyFact(After(s, p)) /\ After(s, p).at \in {"load", "store"}
<1> DEFINE a == After(s, p)
<1>1. /\ s.kind \in Kinds /\ s.part \in 0..5 /\ s.part < Len(Parts[s.kind])
      /\ Len(Parts[s.kind]) \in 1..5
  BY Fields, PartsTypes DEF States, BusyFact
<1>2. /\ a.at = (IF s.part + 1 = Len(Parts[s.kind]) THEN "store" ELSE "load")
      /\ a.part = s.part + 1 /\ a.payload = p
      /\ a.kind = s.kind /\ a.viewer = s.viewer /\ a.wait = s.wait /\ a.floor = s.floor
  BY DEF After, Working
<1>3. a \in Working
  <2> DEFINE b(x, n) == [s EXCEPT !.at = x, !.part = n, !.payload = p]
  <2>1. \A x \in {"load", "wait", "store"}, n \in 0..5 : b(x, n) \in Working
    BY DEF Working
  <2>2. s.part + 1 \in 0..5
    <3>1. \A n \in 0..5, l \in 1..5 : n < l => n + 1 \in 0..5
      OBVIOUS
    <3>2. QED
      BY <1>1, <3>1, Zenon
  <2>3. a = b(IF s.part + 1 = Len(Parts[s.kind]) THEN "store" ELSE "load", s.part + 1)
    BY DEF After
  <2> HIDE DEF a, b
  <2>4. QED
    BY <2>1, <2>2, <2>3
<1>4. a.at \in {"load", "wait"} => a.part < Len(Parts[a.kind])
  BY <1>1, <1>2
<1>5. QED
  BY <1>2, <1>3, <1>4 DEF BusyFact, PayloadFact

\* A request that starts has loaded nothing that is old.
LEMMA StartFact ==
  ASSUME TypeOK, NEW k \in Kinds, NEW u \in Viewers
  PROVE  LET s == [at |-> "load", kind |-> k, viewer |-> u, part |-> 0, wait |-> 0,
                   payload |-> Blank, floor |-> Floor]
         IN  s \in Working /\ BusyFact(s)
<1> DEFINE s == [at |-> "load", kind |-> k, viewer |-> u, part |-> 0, wait |-> 0,
                 payload |-> Blank, floor |-> Floor]
<1>1. Blank \in Payloads /\ Blank.version = MaxVersion /\ Blank.rows = {}
  BY Numbers DEF Blank, Payloads
<1>2. s \in Working
  BY <1>1, FloorTypes, Numbers DEF Working
<1>3. Known(Blank, MaxLoad + 0)
  BY <1>1, Numbers DEF Known
<1>4. Floor.clean = clean /\ clean \in Nat /\ clean <= MaxVersion /\ Floor.old \in Nat /\ Floor.old <= MaxVersion
  BY FloorTypes, FloorFields, Numbers DEF TypeOK, Versions
<1>5. FloorFact(Floor)
  BY <1>4, FloorTypes DEF FloorFact
<1>6. PayloadFact(s, Blank)
  BY <1>1, <1>3, <1>4, Numbers DEF PayloadFact
<1>7. 0 < Len(Parts[k])
  BY PartsTypes
<1>8. QED
  BY <1>2, <1>5, <1>6, <1>7 DEF BusyFact

\* A hit gives what is stored, which is not old as long as it has not expired.
LEMMA HitFact ==
  ASSUME TypeOK, StoredOK, NEW k \in Kinds, NEW u \in Viewers,
         <<k, u>> \in DOMAIN stored, stored[<<k, u>>].left >= 0
  PROVE  LET s == [at |-> "done", viewer |-> u, payload |-> stored[<<k, u>>].data, floor |-> Floor]
         IN  s \in Done /\ DoneFact(s)
<1> DEFINE e == stored[<<k, u>>]
           s == [at |-> "done", viewer |-> u, payload |-> e.data, floor |-> Floor]
<1>1. e.data \in Payloads /\ e.left \in 0..TTL
  BY Numbers DEF TypeOK
<1>2. e.data.rows \subseteq {u} /\ e.data.version >= clean /\ Known(e.data, Bound - e.left)
  BY DEF StoredOK, StoredFact
<1>3. e.data.version >= Floor.old
  <2> SUFFICES ASSUME e.data.version < Floor.old PROVE FALSE
    BY <1>1, PayloadFields, FloorTypes, FloorFields
  <2>1. Floor.old \in 1..MaxVersion /\ ack[Floor.old] > Bound
    BY <1>1, PayloadFields, FloorTypes, FloorFields
  <2>2. ack[Floor.old] <= Bound - e.left
    BY <1>2, <2>1 DEF Known
  <2>3. QED
    BY <1>1, <2>1, <2>2, AckType, Numbers
<1>4. s \in Done
  BY <1>1, FloorTypes DEF Done
<1>5. Floor.clean = clean
  BY FloorTypes
<1>6. QED
  BY <1>2, <1>3, <1>4, <1>5 DEF DoneFact

----------------------------------------------------------------------------
(* Steps that move requests and end queries *)

\* What the invariant says of the cache alone.
CacheOK ==
  /\ DOMAIN stored \subseteq CacheKeys
  /\ stored \in [DOMAIN stored -> [data : Payloads, left : -1..TTL, budgetID : {Budget}]]
  /\ StoredOK

\* What it says of the requests and the queries.
LoadsOK ==
  /\ DOMAIN flight \subseteq FlightKeys
  /\ flight \in [DOMAIN flight -> [read : BOOLEAN, result : Payloads]]
  /\ reader \in [Readers -> States]
  /\ \A r \in Readers : reader[r].at = "wait" => KeyOf(r) \in DOMAIN flight
  /\ BusyOK /\ DoneOK /\ FlightOK

\* And of the writes.
HistoryOK ==
  /\ asked \in Demands
  /\ version \in Versions
  /\ pending \subseteq 1..version
  /\ ack \in [1..MaxVersion -> Ages]
  /\ clean \in Versions
  /\ WritesOK

\* The invariant is those three.
LEMMA Pieces == IInv <=> CacheOK /\ LoadsOK /\ HistoryOK
<1>1. FlightOK => \A f \in DOMAIN flight : Waiters(f) # {}
  BY DEF FlightOK, FlightFact
<1>2. QED
  BY <1>1 DEF IInv, TypeOK, CacheOK, LoadsOK, HistoryOK, States

LEMMA PiecesNext == CacheOK' /\ LoadsOK' /\ HistoryOK' => IInv'
<1>1. FlightOK' => \A f \in DOMAIN flight' : Waiters(f)' # {}
  BY DEF FlightOK, FlightFact
<1>2. QED
  BY <1>1 DEF IInv, TypeOK, CacheOK, LoadsOK, HistoryOK, States

\* The requests in M go to a state in which they do not wait, and of the queries
\* those in G, which the requests in M do not wait for, go on.
LEMMA Moved ==
  ASSUME IInv, UNCHANGED <<ack, clean>>,
         NEW G \in SUBSET DOMAIN flight, flight' = [g \in G |-> flight[g]],
         NEW M \in SUBSET Readers, reader' \in [Readers -> States],
         \A r \in Readers \ M : reader'[r] = reader[r] /\ (reader[r].at = "wait" => KeyOf(r) \in G),
         \A r \in M : /\ reader[r].at = "wait" => KeyOf(r) \notin G
                      /\ reader'[r].at # "wait"
                      /\ reader'[r] \in Working => BusyFact(reader'[r])
                      /\ reader'[r] \in Done => DoneFact(reader'[r])
  PROVE  LoadsOK'
<1>1. LoadsOK /\ TypeOK
  BY Pieces DEF IInv
<1>2. DOMAIN flight' = G /\ \A g \in G : flight'[g] = flight[g]
  OBVIOUS
<1>3. DOMAIN flight' \subseteq FlightKeys
  BY <1>1, <1>2 DEF LoadsOK
<1>4. flight' \in [DOMAIN flight' -> [read : BOOLEAN, result : Payloads]]
  BY <1>1 DEF LoadsOK
<1>5. \A r \in Readers \ M : KeyOf(r)' = KeyOf(r)
  BY DEF KeyOf, PartOf
<1>6. \A r \in Readers : reader'[r].at = "wait" => KeyOf(r)' \in DOMAIN flight'
  BY <1>2, <1>5
<1>7. \A r \in Readers : reader'[r] \in States
  OBVIOUS
<1>8. BusyOK'
  <2> SUFFICES ASSUME NEW r \in Readers, reader'[r].at \in {"load", "wait", "store"}
               PROVE  BusyFact(reader[r])'
    BY DEF BusyOK, Busy
  <2>1. BusyFact(reader'[r])
    <3>1. CASE r \in M
      BY <1>7, <3>1, Fields
    <3>2. CASE r \notin M
      <4>1. reader'[r] = reader[r] /\ r \in Busy
        BY <3>2 DEF Busy
      <4>2. QED
        BY <1>1, <4>1 DEF LoadsOK, BusyOK
    <3>3. QED
      BY <3>1, <3>2
  <2>2. QED
    BY <2>1 DEF BusyFact, PayloadFact, FloorFact, Known
<1>9. DoneOK'
  <2> SUFFICES ASSUME NEW r \in Readers, reader'[r].at = "done"
               PROVE  DoneFact(reader[r])'
    BY DEF DoneOK, Answered
  <2>1. CASE r \in M
    BY <1>7, <2>1, Fields DEF DoneFact
  <2>2. CASE r \notin M
    BY <2>2, <1>1 DEF LoadsOK, DoneOK, Answered, DoneFact
  <2>3. QED
    BY <2>1, <2>2
<1>10. FlightOK'
  <2> SUFFICES ASSUME NEW g \in G PROVE FlightFact(g)'
    BY <1>2 DEF FlightOK
  <2>1. FlightFact(g)
    BY <1>1 DEF LoadsOK, FlightOK
  <2>2. PICK r \in Waiters(g) : Known(flight[g].result, reader[r].wait)
    BY <2>1 DEF FlightFact
  <2>3. r \in Readers \ M
    BY <2>2 DEF Waiters
  <2>4. r \in Waiters(g)' /\ reader'[r] = reader[r]
    BY <1>5, <2>2, <2>3 DEF Waiters
  <2>5. Known(flight[g].result, reader[r].wait)'
    BY <1>2, <2>2, <2>4 DEF Known
  <2>6. QED
    BY <1>2, <2>1, <2>4, <2>5 DEF FlightFact
<1>11. QED
  BY <1>3, <1>4, <1>6, <1>8, <1>9, <1>10 DEF LoadsOK

\* One request, which does not wait, moves.
LEMMA OneMoved ==
  ASSUME IInv, UNCHANGED <<ack, clean, flight>>, NEW r \in Readers, reader[r].at # "wait",
         NEW s \in States, reader' = [reader EXCEPT ![r] = s], s.at # "wait",
         s \in Working => BusyFact(s), s \in Done => DoneFact(s)
  PROVE  LoadsOK'
<1>1. flight = [g \in DOMAIN flight |-> flight[g]] /\ reader \in [Readers -> States]
  BY Pieces DEF LoadsOK
<1>2. flight' = [g \in DOMAIN flight |-> flight[g]] /\ reader' \in [Readers -> States]
  BY <1>1
<1>3. \A q \in Readers \ {r} : reader'[q] = reader[q] /\ (reader[q].at = "wait" => KeyOf(q) \in DOMAIN flight)
  BY <1>1, Pieces DEF LoadsOK
<1>4. reader'[r] = s
  BY <1>1
<1>5. \A q \in {r} : /\ reader[q].at = "wait" => KeyOf(q) \notin DOMAIN flight
                     /\ reader'[q].at # "wait"
                     /\ reader'[q] \in Working => BusyFact(reader'[q])
                     /\ reader'[q] \in Done => DoneFact(reader'[q])
  BY <1>4
<1>6. {r} \in SUBSET Readers /\ DOMAIN flight \in SUBSET DOMAIN flight
  OBVIOUS
<1>7. QED
  BY <1>2, <1>3, <1>5, <1>6, Moved

\* All that wait for query f go on without waiting, and it ends.
LEMMA Landed ==
  ASSUME IInv, UNCHANGED <<ack, clean>>, NEW f \in DOMAIN flight, flight' = Without(f),
         reader' \in [Readers -> States],
         \A r \in Readers : r \notin Waiters(f) => reader'[r] = reader[r],
         \A r \in Waiters(f) : /\ reader'[r] \in {Idle} \cup Working
                               /\ reader'[r].at # "wait"
                               /\ reader'[r] \in Working => BusyFact(reader'[r])
  PROVE  LoadsOK'
<1> DEFINE G == DOMAIN flight \ {f}
           M == Waiters(f)
<1>1. M \in SUBSET Readers /\ flight' = [g \in G |-> flight[g]] /\ G \in SUBSET DOMAIN flight
  BY DEF Waiters, Without
<1>2. \A r \in Readers \ M : reader'[r] = reader[r] /\ (reader[r].at = "wait" => KeyOf(r) \in G)
  BY Pieces DEF LoadsOK, Waiters
<1>3. \A r \in M : KeyOf(r) \notin G
  BY DEF Waiters
<1>4. \A r \in M : reader'[r] \notin Done
  BY Fields DEF Done, Working, Idle
<1> HIDE DEF G, M
<1>5. QED
  BY <1>1, <1>2, <1>3, <1>4, Moved DEF M

----------------------------------------------------------------------------
(* Steps of the cache *)

\* What stays in the cache stays true.
LEMMA CacheKept ==
  ASSUME IInv, UNCHANGED <<ack, clean>>, NEW S \in SUBSET DOMAIN stored, stored' = [k \in S |-> stored[k]]
  PROVE  CacheOK'
<1>1. CacheOK
  BY Pieces
<1>2. DOMAIN stored' = S /\ \A k \in S : stored'[k] = stored[k]
  OBVIOUS
<1>3. StoredOK'
  BY <1>1, <1>2 DEF CacheOK, StoredOK, StoredFact, Known
<1>4. QED
  BY <1>1, <1>2, <1>3 DEF CacheOK

LEMMA CacheSame ==
  ASSUME IInv, UNCHANGED <<ack, clean, stored>>
  PROVE  CacheOK'
<1>1. stored = [k \in DOMAIN stored |-> stored[k]]
  BY Pieces DEF CacheOK
<1>2. QED
  BY <1>1, CacheKept

\* The answer of a request is put into the cache, whatever that evicts.
LEMMA CachePut ==
  ASSUME IInv, UNCHANGED <<ack, clean>>, NEW k \in Kinds, NEW u \in Viewers, NEW p \in Payloads,
         C!Set(<<k, u>>, Budget, p, TTL),
         p.rows \subseteq {u}, p.version >= clean, Known(p, 2 * MaxLoad)
  PROVE  CacheOK'
<1> DEFINE x == <<k, u>>
           e == [data |-> p, left |-> TTL, budgetID |-> Budget]
<1>1. CacheOK /\ x \in CacheKeys
  BY Pieces DEF CacheKeys
<1>2. PICK S \in SUBSET (DOMAIN stored \ {x}) :
        stored' = [y \in S \cup {x} |-> IF y = x THEN e ELSE stored[y]]
  BY DEF C!Set
<1>3. e \in [data : Payloads, left : -1..TTL, budgetID : {Budget}]
  BY Numbers
<1>4. StoredFact(x, e)
  <2>1. Bound - e.left = 2 * MaxLoad
    BY Numbers
  <2>2. QED
    BY <2>1 DEF StoredFact
<1> HIDE DEF x, e
<1>5. DOMAIN stored' = S \cup {x} /\ stored'[x] = e /\ \A y \in S : stored'[y] = stored[y]
  BY <1>2
<1>6. DOMAIN stored' \subseteq CacheKeys
  BY <1>1, <1>5 DEF CacheOK
<1>7. stored' \in [DOMAIN stored' -> [data : Payloads, left : -1..TTL, budgetID : {Budget}]]
  <2>1. \A y \in DOMAIN stored : stored[y] \in [data : Payloads, left : -1..TTL, budgetID : {Budget}]
    BY <1>1 DEF CacheOK
  <2>2. \A y \in S \cup {x} : (IF y = x THEN e ELSE stored[y]) \in [data : Payloads, left : -1..TTL, budgetID : {Budget}]
    BY <1>3, <2>1
  <2>3. QED
    BY <1>2, <2>2
<1>8. StoredOK'
  <2> SUFFICES ASSUME NEW y \in S \cup {x} PROVE StoredFact(y, stored[y])'
    BY <1>5 DEF StoredOK
  <2>1. StoredFact(y, stored'[y])
    BY <1>1, <1>4, <1>5 DEF CacheOK, StoredOK
  <2>2. QED
    BY <2>1 DEF StoredFact, Known
<1>9. QED
  BY <1>6, <1>7, <1>8 DEF CacheOK

LEMMA HistorySame ==
  ASSUME IInv, UNCHANGED <<version, pending, ack, clean, asked>>
  PROVE  HistoryOK'
BY Pieces DEF HistoryOK, WritesOK

----------------------------------------------------------------------------
(* The steps of a request *)

\* A hit, or the first load.
LEMMA LookupKeeps ==
  ASSUME IInv, NEW r \in Readers, NEW k \in asked.kinds, NEW u \in asked.viewers, Lookup(r, k, u)
  PROVE  IInv'
<1>1. TypeOK /\ StoredOK /\ k \in Kinds /\ u \in Viewers /\ reader[r].at # "wait"
  BY AskedTypes DEF IInv, Lookup, Busy
<1>2. UNCHANGED <<version, pending, ack, clean, flight, asked>>
  BY DEF Lookup
<1>3. CASE /\ <<k, u>> \in DOMAIN stored /\ stored[<<k, u>>].left >= 0
           /\ reply' = C!Hit(<<k, u>>, stored[<<k, u>>].data)
           /\ UNCHANGED stored
  <2> DEFINE s == [at |-> "done", viewer |-> u, payload |-> stored[<<k, u>>].data, floor |-> Floor]
  <2>1. reader' = [reader EXCEPT ![r] = s]
    BY <1>3 DEF Lookup, Answer, C!Hit
  <2>2. s \in Done /\ DoneFact(s) /\ s.at = "done"
    BY <1>1, <1>3, HitFact
  <2>3. s \in States /\ s \notin Working
    BY <2>2 DEF States, Working
  <2> HIDE DEF s
  <2>4. LoadsOK'
    BY <1>1, <1>2, <2>1, <2>2, <2>3, OneMoved
  <2>5. QED
    BY <1>2, <1>3, <2>4, CacheSame, HistorySame, PiecesNext
<1>4. CASE /\ reply' = C!Miss(<<k, u>>)
           /\ stored' = [x \in DOMAIN stored \ {<<k, u>>} |-> stored[x]]
  <2> DEFINE s == [at |-> "load", kind |-> k, viewer |-> u, part |-> 0, wait |-> 0,
                   payload |-> Blank, floor |-> Floor]
  <2>1. reader' = [reader EXCEPT ![r] = s]
    BY <1>4 DEF Lookup, Start, C!Miss
  <2>2. s \in Working /\ BusyFact(s) /\ s.at = "load"
    BY <1>1, StartFact
  <2>3. s \in States /\ s \notin Done
    BY <2>2 DEF States, Done
  <2> HIDE DEF s
  <2>4. LoadsOK'
    BY <1>1, <1>2, <2>1, <2>2, <2>3, OneMoved
  <2>5. CacheOK'
    BY <1>2, <1>4, CacheKept
  <2>6. QED
    BY <1>2, <2>4, <2>5, HistorySame, PiecesNext
<1>5. QED
  BY <1>3, <1>4 DEF Lookup, C!Get, C!Kept

LEMMA LookupErrorKeeps ==
  ASSUME IInv, NEW r \in Readers, NEW k \in asked.kinds, NEW u \in asked.viewers, LookupError(r, k, u)
  PROVE  IInv'
<1>1. TypeOK /\ k \in Kinds /\ u \in Viewers /\ reader[r].at # "wait"
  BY AskedTypes DEF IInv, LookupError, Busy
<1>2. UNCHANGED <<stored, version, pending, ack, clean, flight, asked>>
  BY DEF LookupError
<1> DEFINE s == [at |-> "load", kind |-> k, viewer |-> u, part |-> 0, wait |-> 0,
                 payload |-> Blank, floor |-> Floor]
<1>3. reader' = [reader EXCEPT ![r] = s]
  BY DEF LookupError, Start
<1>4. s \in Working /\ BusyFact(s) /\ s.at = "load"
  BY <1>1, StartFact
<1>5. s \in States /\ s \notin Done
  BY <1>4 DEF States, Done
<1> HIDE DEF s
<1>6. LoadsOK'
  BY <1>1, <1>2, <1>3, <1>4, <1>5, OneMoved
<1>7. QED
  BY <1>2, <1>6, CacheSame, HistorySame, PiecesNext

\* A part that is not needed leaves the answer as it is.
LEMMA SkipKeeps ==
  ASSUME IInv, NEW r \in Readers, Skip(r)
  PROVE  IInv'
<1> DEFINE s == After(reader[r], reader[r].payload)
<1>1. /\ UNCHANGED <<stored, version, pending, ack, clean, flight, asked>>
      /\ reader' = [reader EXCEPT ![r] = s] /\ reader[r].at = "load"
  BY DEF Skip
<1>2. reader[r] \in Working /\ BusyFact(reader[r]) /\ reader[r].payload \in Payloads
  BY <1>1, ReaderType, Fields DEF IInv, BusyOK, Busy
<1>3. s \in Working /\ BusyFact(s) /\ s.at \in {"load", "store"}
  BY <1>1, <1>2, AfterFact DEF BusyFact
<1> HIDE DEF s
<1>4. s \in States /\ s \notin Done /\ s.at # "wait"
  BY <1>3 DEF States, Done
<1>5. LoadsOK'
  BY <1>1, <1>3, <1>4, OneMoved
<1>6. QED
  BY <1>1, <1>5, CacheSame, HistorySame, PiecesNext

\* What is stored and sent is what was loaded.
LEMMA AnswerKeeps ==
  ASSUME IInv, NEW r \in Readers, reader[r].at = "store",
         Answer(r, reader[r].viewer, reader[r].payload, reader[r].floor),
         UNCHANGED <<version, pending, ack, clean, flight, asked>>, CacheOK'
  PROVE  IInv'
<1> DEFINE s == [at |-> "done", viewer |-> reader[r].viewer, payload |-> reader[r].payload,
                 floor |-> reader[r].floor]
<1>1. TypeOK /\ reader[r] \in Working /\ BusyFact(reader[r])
  BY ReaderType, Fields DEF IInv, BusyOK, Busy
<1>2. /\ reader[r].viewer \in Viewers /\ reader[r].payload \in Payloads /\ reader[r].floor \in Floors
      /\ clean \in Nat
  BY <1>1, Fields, Numbers DEF States, TypeOK
<1>3. s \in Done
  BY <1>2 DEF Done
<1>4. reader[r].payload.version >= reader[r].floor.clean
  <2>1. reader[r].payload.version >= clean /\ reader[r].floor.clean <= clean
    BY <1>1 DEF BusyFact, FloorFact, PayloadFact
  <2>2. QED
    BY <1>2, <2>1, PayloadFields, FloorFields
<1>5. DoneFact(s)
  BY <1>1, <1>4 DEF DoneFact, BusyFact, PayloadFact
<1>6. reader' = [reader EXCEPT ![r] = s] /\ s.at = "done"
  BY DEF Answer
<1> HIDE DEF s
<1>7. s \in States /\ s \notin Working
  BY <1>3, <1>6 DEF States, Working
<1>8. LoadsOK'
  BY <1>3, <1>5, <1>6, <1>7, OneMoved
<1>9. QED
  BY <1>8, HistorySame, PiecesNext

LEMMA StoreKeeps ==
  ASSUME IInv, NEW r \in Readers, Store(r)
  PROVE  IInv'
<1>1. /\ TypeOK /\ reader[r] \in Working /\ BusyFact(reader[r]) /\ reader[r].at = "store"
      /\ UNCHANGED <<version, pending, ack, clean, flight, asked>>
  BY ReaderType, Fields DEF IInv, BusyOK, Busy, Store
<1>2. /\ reader[r].kind \in Kinds /\ reader[r].viewer \in Viewers /\ reader[r].payload \in Payloads
      /\ reader[r].wait \in 0..MaxLoad
  BY <1>1, Fields DEF States
<1>3. /\ reader[r].payload.rows \subseteq {reader[r].viewer} /\ reader[r].payload.version >= clean
      /\ Known(reader[r].payload, MaxLoad + reader[r].wait)
  BY <1>1 DEF BusyFact, PayloadFact
<1>4. Known(reader[r].payload, 2 * MaxLoad)
  <2>1. /\ MaxLoad + reader[r].wait \in Int /\ 2 * MaxLoad \in Int
        /\ MaxLoad + reader[r].wait <= 2 * MaxLoad
    BY <1>2, Numbers
  <2>2. QED
    BY <1>1, <1>3, <2>1, KnownLonger
<1>5. CacheOK'
  BY <1>1, <1>2, <1>3, <1>4, CachePut DEF Store
<1>6. QED
  BY <1>1, <1>5, AnswerKeeps DEF Store

LEMMA StoreErrorKeeps ==
  ASSUME IInv, NEW r \in Readers, StoreError(r)
  PROVE  IInv'
BY CacheSame, AnswerKeeps DEF StoreError

\* A request waits for the query that it joins or starts.
LEMMA AskKeeps ==
  ASSUME IInv, NEW r \in Readers, Ask(r)
  PROVE  IInv'
<1> DEFINE key == KeyOf(r)
           s == [reader[r] EXCEPT !.at = "wait"]
<1>1. /\ UNCHANGED <<stored, version, pending, ack, clean, asked>>
      /\ reader' = [reader EXCEPT ![r] = s] /\ reader[r].at = "load"
      /\ flight' = [f \in DOMAIN flight \cup {key} |->
                      IF f \in DOMAIN flight THEN flight[f] ELSE Query(r)]
  BY DEF Ask
<1>2. /\ LoadsOK /\ TypeOK /\ clean \in Nat /\ clean <= MaxVersion
      /\ reader[r] \in States /\ reader \in [Readers -> States]
  BY Pieces, ReaderType, Numbers DEF IInv, TypeOK, Versions, LoadsOK
<1>3. /\ reader[r] \in Working /\ BusyFact(reader[r]) /\ reader[r].viewer \in Viewers
      /\ reader[r].wait \in 0..MaxLoad /\ reader[r].floor \in Floors
  BY <1>1, <1>2, Fields DEF LoadsOK, BusyOK, Busy
<1>4. /\ s \in Working /\ s.at = "wait" /\ s.kind = reader[r].kind /\ s.viewer = reader[r].viewer
      /\ s.part = reader[r].part /\ s.wait = reader[r].wait /\ s.payload = reader[r].payload
      /\ s.floor = reader[r].floor
  BY <1>3 DEF Working
<1>5. BusyFact(s)
  BY <1>1, <1>3, <1>4 DEF BusyFact, PayloadFact
<1>6. key \in FlightKeys /\ key[1] = PartOf(r) /\ (PartOf(r) \in PerViewer => key[2] = {reader[r].viewer})
  BY <1>1, <1>2, KeyTypes, KeyRows DEF KeyOf, LoadsOK
<1>7. /\ Query(r) \in [read : BOOLEAN, result : Payloads]
      /\ Query(r).result.version = MaxVersion
      /\ Query(r).result.rows = IF key[1] \in PerViewer THEN key[2] ELSE {}
  <2> DEFINE rows == IF PartOf(r) \in PerViewer THEN {reader[r].viewer} ELSE {}
  <2>1. rows \subseteq Viewers
    BY <1>3
  <2>2. Query(r) = [read |-> FALSE, result |-> [version |-> MaxVersion, rows |-> rows]]
    <3>1. \A x : [Blank EXCEPT !.rows = x] = [version |-> MaxVersion, rows |-> x]
      BY DEF Blank
    <3>2. Query(r) = [read |-> FALSE, result |-> [Blank EXCEPT !.rows = rows]]
      BY DEF Query
    <3> HIDE DEF rows
    <3>3. QED
      BY <3>1, <3>2
  <2>3. Query(r).result = [version |-> MaxVersion, rows |-> rows] /\ Query(r).read = FALSE
    BY <2>2
  <2>4. rows = IF key[1] \in PerViewer THEN key[2] ELSE {}
    BY <1>6
  <2> HIDE DEF rows, key
  <2>5. [version |-> MaxVersion, rows |-> rows] \in Payloads
    BY <2>1, Numbers DEF Payloads
  <2>6. Query(r) \in [read : BOOLEAN, result : Payloads]
    BY <2>2, <2>5
  <2>7. QED
    BY <2>3, <2>4, <2>6
<1> HIDE DEF s, key
<1>8. reader' \in [Readers -> States] /\ reader'[r] = s /\ \A q \in Readers \ {r} : reader'[q] = reader[q]
  BY <1>1, <1>2, <1>4 DEF States
<1>9. KeyOf(r)' = key /\ \A q \in Readers \ {r} : KeyOf(q)' = KeyOf(q)
  BY <1>4, <1>8 DEF key, KeyOf, PartOf
<1>10. /\ DOMAIN flight' = DOMAIN flight \cup {key}
       /\ \A f \in DOMAIN flight : flight'[f] = flight[f]
       /\ key \notin DOMAIN flight => flight'[key] = Query(r)
  BY <1>1
<1>11. /\ DOMAIN flight' \subseteq FlightKeys
       /\ flight' \in [DOMAIN flight' -> [read : BOOLEAN, result : Payloads]]
  <2>1. \A f \in DOMAIN flight : flight[f] \in [read : BOOLEAN, result : Payloads]
    BY <1>2 DEF LoadsOK
  <2>2. \A f \in DOMAIN flight' : flight'[f] \in [read : BOOLEAN, result : Payloads]
    BY <1>7, <1>10, <2>1
  <2>3. QED
    BY <1>1, <1>2, <1>6, <1>10, <2>2 DEF LoadsOK
<1>12. \A q \in Readers : reader'[q].at = "wait" => KeyOf(q)' \in DOMAIN flight'
  BY <1>2, <1>8, <1>9, <1>10 DEF LoadsOK
<1>13. BusyOK'
  <2> SUFFICES ASSUME NEW q \in Readers, reader'[q].at \in {"load", "wait", "store"}
               PROVE  BusyFact(reader[q])'
    BY DEF BusyOK, Busy
  <2>1. BusyFact(reader'[q])
    BY <1>2, <1>5, <1>8 DEF LoadsOK, BusyOK, Busy
  <2>2. QED
    BY <1>1, <2>1 DEF BusyFact, PayloadFact, FloorFact, Known
<1>14. DoneOK'
  BY <1>2, <1>4, <1>8 DEF LoadsOK, DoneOK, Answered, DoneFact
<1>15. FlightOK'
  <2> SUFFICES ASSUME NEW f \in DOMAIN flight' PROVE FlightFact(f)'
    BY DEF FlightOK
  <2>1. CASE f \in DOMAIN flight
    <3>1. FlightFact(f) /\ flight'[f] = flight[f]
      BY <1>2, <1>10, <2>1 DEF LoadsOK, FlightOK
    <3>2. PICK q \in Waiters(f) : Known(flight[f].result, reader[q].wait)
      BY <3>1 DEF FlightFact
    <3>3. q \in Readers \ {r}
      BY <1>1, <3>2 DEF Waiters
    <3>4. q \in Waiters(f)' /\ reader'[q] = reader[q]
      BY <1>8, <1>9, <3>2, <3>3 DEF Waiters
    <3>5. Known(flight[f].result, reader[q].wait)'
      BY <1>1, <3>1, <3>2, <3>4 DEF Known
    <3>6. QED
      BY <1>1, <3>1, <3>4, <3>5 DEF FlightFact
  <2>2. CASE f \notin DOMAIN flight
    <3>1. f = key /\ flight'[f] = Query(r)
      BY <1>10, <2>2
    <3>2. r \in Waiters(f)'
      BY <1>4, <1>8, <1>9, <3>1 DEF Waiters
    <3>3. Known(flight[f].result, reader[r].wait)'
      BY <1>7, <3>1, Numbers DEF Known
    <3>4. QED
      BY <1>1, <1>2, <1>7, <3>1, <3>2, <3>3, Numbers DEF FlightFact
  <2>3. QED
    BY <2>1, <2>2
<1>16. LoadsOK'
  BY <1>8, <1>11, <1>12, <1>13, <1>14, <1>15 DEF LoadsOK
<1>17. QED
  BY <1>1, <1>16, CacheSame, HistorySame, PiecesNext

----------------------------------------------------------------------------
(* The steps of a query *)

\* A query sees all writes committed by then.
LEMMA ReadKeeps ==
  ASSUME IInv, NEW f \in FlightKeys, Read(f)
  PROVE  IInv'
<1> DEFINE w == IF f[1] = "profiles" THEN flight[f].result.version ELSE version
           q == [flight[f].result EXCEPT !.version = w]
<1>1. /\ UNCHANGED <<stored, version, pending, ack, clean, reader, asked>>
      /\ f \in DOMAIN flight
  BY DEF Read
<1>2. LoadsOK /\ TypeOK /\ WritesOK /\ flight[f] \in [read : BOOLEAN, result : Payloads] /\ clean \in Nat /\ version \in Versions
  BY <1>1, Pieces, Numbers DEF IInv, LoadsOK, TypeOK
<1>3. w \in Versions /\ flight[f].result \in Payloads
  BY <1>2 DEF Payloads
<1>4. q \in Payloads /\ q.version = w /\ q.rows = flight[f].result.rows
  BY <1>3 DEF Payloads
<1>5. flight' = [flight EXCEPT ![f] = [@ EXCEPT !.read = TRUE, !.result = q]]
  BY <1>1, <1>2 DEF Read
<1> HIDE DEF q, w
<1>6. /\ DOMAIN flight' = DOMAIN flight /\ flight'[f].result = q
      /\ flight' \in [DOMAIN flight' -> [read : BOOLEAN, result : Payloads]]
      /\ \A g \in DOMAIN flight \ {f} : flight'[g] = flight[g]
  BY <1>1, <1>2, <1>4, <1>5 DEF LoadsOK
<1>7. \A r \in Readers : KeyOf(r)' = KeyOf(r)
  BY <1>1 DEF KeyOf, PartOf
<1>8. \A g : Waiters(g)' = Waiters(g)
  BY <1>1, <1>7 DEF Waiters
<1>9. FlightOK'
  <2> SUFFICES ASSUME NEW g \in DOMAIN flight PROVE FlightFact(g)'
    BY <1>6 DEF FlightOK
  <2>1. FlightFact(g)
    BY <1>2 DEF LoadsOK, FlightOK
  <2>2. PICK r \in Waiters(g) : Known(flight[g].result, reader[r].wait)
    BY <2>1 DEF FlightFact
  <2>3. CASE g # f
    BY <1>1, <1>6, <1>8, <2>1, <2>3 DEF FlightFact, Known
  <2>4. CASE g = f
    <3>1. w >= clean
      BY <1>2, <1>3, <2>1, <2>4, Numbers DEF w, FlightFact, WritesOK
    <3>2. Known(q, reader[r].wait)
      <4>1. reader[r].wait \in 0..MaxLoad
        BY <1>2, <2>2, ReaderType, Fields DEF Waiters
      <4>2. CASE w = flight[f].result.version
        BY <1>4, <2>2, <2>4, <4>2 DEF Known
      <4>3. CASE w = version
        <5>1. \A v \in 1..MaxVersion : version < v => ack[v] = -1
          BY <1>2, Numbers DEF WritesOK, Never
        <5>2. QED
          BY <1>4, <4>1, <4>3, <5>1, Numbers DEF Known
      <4>4. QED
        BY <4>2, <4>3 DEF w
    <3>3. Known(flight[g].result, reader[r].wait)'
      BY <1>1, <1>6, <2>4, <3>2 DEF Known
    <3>4. QED
      BY <1>1, <1>4, <1>6, <1>8, <2>1, <2>2, <2>4, <3>1, <3>3 DEF FlightFact
  <2>5. QED
    BY <2>3, <2>4
<1>10. BusyOK' /\ DoneOK'
  BY <1>1, <1>2 DEF LoadsOK, BusyOK, Busy, DoneOK, Answered, BusyFact, PayloadFact, FloorFact, Known, DoneFact
<1>11. LoadsOK'
  BY <1>1, <1>2, <1>6, <1>7, <1>9, <1>10 DEF LoadsOK
<1>12. QED
  BY <1>1, <1>11, CacheSame, HistorySame, PiecesNext

\* Those that wait for a query, and what they know of it.
LEMMA WaiterFacts ==
  ASSUME IInv, NEW f \in DOMAIN flight, NEW r \in Waiters(f)
  PROVE  /\ r \in Readers /\ reader[r] \in Working /\ reader[r].at = "wait" /\ BusyFact(reader[r])
         /\ reader[r].payload \in Payloads /\ flight[f].result \in Payloads
         /\ flight[f].result.rows \subseteq {reader[r].viewer}
         /\ flight[f].result.version >= clean
         /\ \E n \in 0..MaxLoad : Known(flight[f].result, n)
<1>1. LoadsOK /\ TypeOK /\ FlightFact(f)
  BY Pieces DEF IInv, FlightOK
<1>2. r \in Readers /\ reader[r].at = "wait" /\ KeyOf(r) = f
  BY DEF Waiters
<1>3. reader[r] \in Working /\ BusyFact(reader[r]) /\ reader[r].payload \in Payloads
  BY <1>1, <1>2, ReaderType, Fields DEF LoadsOK, BusyOK, Busy
<1>4. flight[f].result \in Payloads
  BY <1>1 DEF LoadsOK
<1>5. flight[f].result.rows \subseteq {reader[r].viewer}
  BY <1>1, <1>2, KeyRows DEF FlightFact, KeyOf
<1>6. PICK q \in Waiters(f) : Known(flight[f].result, reader[q].wait)
  BY <1>1 DEF FlightFact
<1>7. reader[q].wait \in 0..MaxLoad
  BY <1>1, <1>6, ReaderType, Fields DEF Waiters
<1>8. QED
  BY <1>1, <1>2, <1>3, <1>4, <1>5, <1>6, <1>7 DEF FlightFact

LEMMA LandKeeps ==
  ASSUME IInv, NEW f \in FlightKeys, Land(f)
  PROVE  IInv'
<1> DEFINE next(r) == After(reader[r], Merged(reader[r].payload, flight[f].result))
<1>1. /\ UNCHANGED <<stored, version, pending, ack, clean, asked>> /\ f \in DOMAIN flight
      /\ flight' = Without(f)
      /\ reader' = [r \in Readers |-> IF r \in Waiters(f) THEN next(r) ELSE reader[r]]
  BY DEF Land
<1>2. ASSUME NEW r \in Waiters(f)
      PROVE  next(r) \in Working /\ BusyFact(next(r)) /\ next(r).at \in {"load", "store"}
  <2> DEFINE m == Merged(reader[r].payload, flight[f].result)
  <2>1. m \in Payloads /\ PayloadFact(reader[r], m)
    BY <1>1, WaiterFacts, MergedFact DEF IInv
  <2> HIDE DEF m
  <2>2. next(r) = After(reader[r], m)
    BY DEF m
  <2>3. QED
    BY <1>1, <2>1, <2>2, WaiterFacts, AfterFact
<1> HIDE DEF next
<1>3. \A r \in Readers : reader[r] \in States
  BY ReaderType DEF IInv
<1>4. \A r \in Readers : (r \in Waiters(f) => reader'[r] = next(r)) /\ (r \notin Waiters(f) => reader'[r] = reader[r])
  BY <1>1
<1>5. reader' \in [Readers -> States]
  BY <1>1, <1>2, <1>3 DEF States
<1>6. \A r \in Waiters(f) : reader'[r] = next(r)
  BY <1>4 DEF Waiters
<1>7. LoadsOK'
  BY <1>1, <1>2, <1>4, <1>5, <1>6, Landed
<1>8. QED
  BY <1>1, <1>7, CacheSame, HistorySame, PiecesNext

LEMMA FailKeeps ==
  ASSUME IInv, NEW f \in FlightKeys, Fail(f)
  PROVE  IInv'
<1> DEFINE next(r) == IF f[1] \in Optional THEN After(reader[r], reader[r].payload) ELSE Idle
<1>1. /\ UNCHANGED <<stored, version, pending, ack, clean, asked>> /\ f \in DOMAIN flight
      /\ flight' = Without(f)
      /\ reader' = [r \in Readers |-> IF r \in Waiters(f) THEN next(r) ELSE reader[r]]
  BY DEF Fail
<1>2. ASSUME NEW r \in Waiters(f)
      PROVE  /\ next(r) \in {Idle} \cup Working /\ (next(r) \in Working => BusyFact(next(r)))
             /\ next(r).at # "wait"
  <2>1. CASE f[1] \in Optional
    <3>1. PayloadFact(reader[r], reader[r].payload)
      BY <1>1, WaiterFacts DEF BusyFact
    <3>2. next(r) = After(reader[r], reader[r].payload)
      BY <2>1
    <3>3. QED
      BY <1>1, <3>1, <3>2, WaiterFacts, AfterFact
  <2>2. CASE f[1] \notin Optional
    <3>1. next(r) = Idle /\ Idle.at = "idle" /\ Idle \notin Working
      BY <2>2 DEF Idle, Working
    <3>2. QED
      BY <3>1
  <2>3. QED
    BY <2>1, <2>2
<1> HIDE DEF next
<1>3. \A r \in Readers : reader[r] \in States
  BY ReaderType DEF IInv
<1>4. \A r \in Readers : (r \in Waiters(f) => reader'[r] = next(r)) /\ (r \notin Waiters(f) => reader'[r] = reader[r])
  BY <1>1
<1>5. reader' \in [Readers -> States]
  BY <1>1, <1>2, <1>3 DEF States
<1>6. \A r \in Waiters(f) : reader'[r] = next(r)
  BY <1>4 DEF Waiters
<1>7. LoadsOK'
  BY <1>1, <1>2, <1>4, <1>5, <1>6, Landed
<1>8. QED
  BY <1>1, <1>7, CacheSame, HistorySame, PiecesNext

----------------------------------------------------------------------------
(* Writers and time *)

\* A write that commits is in no answer, and its handler is not done.
LEMMA WriteKeeps ==
  ASSUME IInv, Write
  PROVE  IInv'
<1>1. /\ UNCHANGED <<stored, ack, clean, flight, reader, asked>>
      /\ version < MaxVersion /\ version' = version + 1 /\ pending' = pending \cup {version + 1}
  BY DEF Write
<1>2. HistoryOK
  BY Pieces
<1>3. /\ version' \in Versions /\ pending' \subseteq 1..version'
  BY <1>1, <1>2, Numbers DEF HistoryOK, Versions
<1>4. WritesOK'
  <2>1. version \in Nat /\ clean \in Nat /\ clean <= version'
    BY <1>1, <1>2, Numbers DEF HistoryOK, WritesOK, Versions
  <2>2. ASSUME NEW v \in 1..MaxVersion, v \in pending' \/ v > version' PROVE ack[v] = Never
    <3>1. v \in pending \/ v > version
      BY <1>1, <2>1, <2>2
    <3>2. QED
      BY <1>2, <3>1 DEF HistoryOK, WritesOK
  <2>3. QED
    BY <1>1, <2>1, <2>2 DEF WritesOK
<1>5. HistoryOK'
  BY <1>1, <1>2, <1>3, <1>4 DEF HistoryOK
<1>6. LoadsOK'
  <2>1. LoadsOK /\ {} \in SUBSET Readers /\ DOMAIN flight \in SUBSET DOMAIN flight
    BY Pieces
  <2>2. flight' = [g \in DOMAIN flight |-> flight[g]] /\ reader' \in [Readers -> States]
    BY <1>1, <2>1 DEF LoadsOK
  <2>3. \A r \in Readers \ {} : reader'[r] = reader[r] /\ (reader[r].at = "wait" => KeyOf(r) \in DOMAIN flight)
    BY <1>1, <2>1 DEF LoadsOK
  <2>4. QED
    BY <1>1, <2>1, <2>2, <2>3, Moved
<1>7. QED
  BY <1>1, <1>5, <1>6, CacheSame, PiecesNext

\* The handler of write v is done: nothing becomes old by that, and if clean
\* grows, then to what all loads in progress have seen.
LEMMA AcknowledgeKeeps ==
  ASSUME IInv, NEW v \in pending, Acknowledge(v), UNCHANGED <<version, flight, reader, asked>>,
         clean' \in Versions, clean' >= clean, clean' <= version, ~Straddled(clean') \/ clean' = clean
  PROVE  LoadsOK' /\ HistoryOK'
<1>1. LoadsOK /\ HistoryOK /\ TypeOK /\ clean \in Nat /\ clean' \in Nat /\ version \in Nat /\ v \in 1..MaxVersion
  BY Pieces, Numbers DEF IInv, HistoryOK, Versions
<1>2. ack[v] = Never /\ ack'[v] = 0 /\ ack' \in [1..MaxVersion -> Ages]
      /\ \A w \in 1..MaxVersion : w # v => ack'[w] = ack[w]
  BY <1>1, Numbers DEF HistoryOK, WritesOK, Acknowledge, Ages, Never
<1>3. HistoryOK'
  <2>1. pending' = pending \ {v}
    BY DEF Acknowledge
  <2>2. \A w \in 1..MaxVersion : w \in pending' \/ w > version' => ack'[w] = Never
    BY <1>1, <1>2, <2>1 DEF HistoryOK, WritesOK
  <2>3. WritesOK'
    BY <1>1, <2>2 DEF WritesOK
  <2>4. QED
    BY <1>1, <1>2, <2>1, <2>3 DEF HistoryOK
<1>4. \A p, n : n \in Nat /\ Known(p, n) => \A w \in 1..MaxVersion : p.version < w => ack'[w] <= n
  BY <1>2 DEF Known
<1>5. \A r \in Readers : KeyOf(r)' = KeyOf(r)
  BY DEF KeyOf, PartOf
<1>6. BusyOK'
  <2> SUFFICES ASSUME NEW r \in Busy PROVE BusyFact(reader[r])'
    BY DEF BusyOK, Busy
  <2>1. /\ BusyFact(reader[r]) /\ reader[r].wait \in 0..MaxLoad /\ reader[r].payload \in Payloads
        /\ reader[r].floor \in Floors
    BY <1>1, ReaderType, Fields DEF LoadsOK, BusyOK, Busy
  <2>2. reader[r].payload.version \in Nat /\ reader[r].floor.clean \in Nat /\ MaxLoad + reader[r].wait \in Nat
    BY <2>1, PayloadFields, FloorFields, Numbers
  <2>3. reader[r].payload.version >= clean /\ reader[r].floor.clean <= clean
    BY <2>1 DEF BusyFact, PayloadFact, FloorFact
  <2>4. reader[r].payload.version >= clean'
    BY <1>1, <2>2, <2>3 DEF Straddled
  <2>5. FloorFact(reader[r].floor)'
    <3>1. reader[r].floor.clean <= clean'
      BY <1>1, <2>2, <2>3
    <3>2. reader[r].floor.old # 0 => ack'[reader[r].floor.old] > Bound
      <4> SUFFICES ASSUME reader[r].floor.old # 0 PROVE ack'[reader[r].floor.old] > Bound
        OBVIOUS
      <4>1. reader[r].floor.old \in 1..MaxVersion /\ ack[reader[r].floor.old] > Bound
        BY <2>1, FloorFields DEF BusyFact, FloorFact
      <4>2. reader[r].floor.old # v
        BY <1>2, <4>1, Numbers DEF Never
      <4>3. QED
        BY <1>2, <4>1, <4>2
    <3>3. QED
      BY <3>1, <3>2 DEF FloorFact, Bound
  <2>6. Known(reader[r].payload, MaxLoad + reader[r].wait)'
    <3>1. Known(reader[r].payload, MaxLoad + reader[r].wait)
      BY <2>1 DEF BusyFact, PayloadFact
    <3>2. QED
      BY <1>4, <2>2, <3>1 DEF Known
  <2>7. QED
    BY <2>1, <2>4, <2>5, <2>6 DEF BusyFact, PayloadFact
<1>7. DoneOK'
  BY <1>1 DEF LoadsOK, DoneOK, Answered, DoneFact
<1>8. FlightOK'
  <2> SUFFICES ASSUME NEW f \in DOMAIN flight PROVE FlightFact(f)'
    BY DEF FlightOK
  <2>1. FlightFact(f) /\ flight[f].result \in Payloads
    BY <1>1 DEF LoadsOK, FlightOK
  <2>2. PICK r \in Waiters(f) : Known(flight[f].result, reader[r].wait)
    BY <2>1 DEF FlightFact
  <2>3. r \in Waiters(f)' /\ reader[r].wait \in Nat
    <3>1. r \in Readers /\ reader[r].at = "wait"
      BY <2>2 DEF Waiters
    <3>2. reader[r].wait \in 0..MaxLoad
      BY <1>1, <3>1, ReaderType, Fields
    <3>3. QED
      BY <1>5, <2>2, <3>1, <3>2, Numbers DEF Waiters
  <2>4. Known(flight[f].result, reader[r].wait)'
    BY <1>4, <2>2, <2>3 DEF Known
  <2>5. flight[f].result.version >= clean'
    BY <1>1, <2>1, PayloadFields DEF Straddled, FlightFact
  <2>6. QED
    BY <2>1, <2>3, <2>4, <2>5 DEF FlightFact
<1>9. LoadsOK'
  BY <1>1, <1>5, <1>6, <1>7, <1>8 DEF LoadsOK
<1>10. QED
  BY <1>3, <1>9

LEMMA InvalidateKeeps ==
  ASSUME IInv, NEW v \in 1..MaxVersion, Invalidate(v)
  PROVE  IInv'
<1>1. HistoryOK /\ CacheOK /\ v \in pending /\ clean \in Nat /\ version \in Nat
  BY Pieces, Numbers DEF Invalidate, HistoryOK
<1>2. v <= version /\ v \in Versions /\ clean \in Versions /\ clean <= version
  BY <1>1, Numbers DEF HistoryOK, WritesOK, Versions
<1>3. /\ clean' \in Versions /\ clean' >= clean /\ clean' <= version
      /\ ~Straddled(clean') \/ clean' = clean
  BY <1>1, <1>2 DEF Invalidate, Most
<1>4. LoadsOK' /\ HistoryOK'
  BY <1>1, <1>3, AcknowledgeKeeps DEF Invalidate
<1>5. stored' = [k \in {} |-> stored[k]]
  BY <1>1 DEF Invalidate, C!InvalidateBudget, C!Kept, CacheOK
<1>6. CacheOK'
  BY <1>5 DEF CacheOK, StoredOK
<1>7. QED
  BY <1>4, <1>6, PiecesNext

LEMMA InvalidateErrorKeeps ==
  ASSUME IInv, NEW v \in 1..MaxVersion, InvalidateError(v)
  PROVE  IInv'
<1>1. HistoryOK /\ CacheOK /\ TypeOK /\ v \in pending /\ clean \in Nat /\ UNCHANGED <<stored, clean>>
  BY Pieces, Numbers DEF InvalidateError, HistoryOK, IInv
<1>2. LoadsOK' /\ HistoryOK'
  BY <1>1, AcknowledgeKeeps DEF InvalidateError, HistoryOK, WritesOK
<1>3. StoredOK'
  <2> SUFFICES ASSUME NEW k \in DOMAIN stored PROVE StoredFact(k, stored[k])'
    BY <1>1 DEF StoredOK
  <2>1. StoredFact(k, stored[k]) /\ stored[k].left \in -1..TTL
    BY <1>1 DEF CacheOK, StoredOK
  <2>2. Bound - stored[k].left \in Nat
    BY <2>1, Numbers
  <2>3. \A w \in 1..MaxVersion : w # v => ack'[w] = ack[w]
    BY <1>1 DEF InvalidateError, Acknowledge, TypeOK
  <2>4. ack'[v] = 0
    BY <1>1 DEF InvalidateError, Acknowledge, TypeOK
  <2>5. Known(stored[k].data, Bound - stored[k].left)'
    <3> SUFFICES ASSUME NEW w \in 1..MaxVersion, stored[k].data.version < w
                 PROVE  ack'[w] <= Bound - stored[k].left
      BY <1>1 DEF Known, Bound
    <3>1. CASE w = v
      BY <2>2, <2>4, <3>1
    <3>2. CASE w # v
      BY <2>1, <2>3, <3>2 DEF StoredFact, Known
    <3>3. QED
      BY <3>1, <3>2
  <2>6. QED
    BY <1>1, <2>1, <2>5 DEF StoredFact
<1>4. CacheOK'
  BY <1>1, <1>3 DEF CacheOK
<1>5. QED
  BY <1>2, <1>4, PiecesNext

\* A tick adds one to the age of a write that is done and to the time that a
\* request has taken, and takes one from the time that an entry has left.
LEMMA TickKeeps ==
  ASSUME IInv, Tick
  PROVE  IInv'
<1>1. /\ LoadsOK /\ HistoryOK /\ CacheOK /\ TypeOK
      /\ UNCHANGED <<version, pending, clean, flight, asked>>
  BY Pieces DEF IInv, Tick
<1>2. ack' = [v \in 1..MaxVersion |-> IF ack[v] \in {Never, Bound + 1} THEN ack[v] ELSE ack[v] + 1]
  BY DEF Tick
<1>3. ack' \in [1..MaxVersion -> Ages]
  <2>1. \A v \in 1..MaxVersion : ack[v] \in Ages
    BY <1>1, AckType
  <2>2. \A a \in Ages : (IF a \in {Never, Bound + 1} THEN a ELSE a + 1) \in Ages
    BY Numbers DEF Ages, Never
  <2>3. QED
    BY <1>2, <2>1, <2>2
<1>4. \A v \in 1..MaxVersion : /\ ack[v] \in Int /\ ack'[v] \in Int /\ ack'[v] <= ack[v] + 1
                               /\ ack'[v] <= Bound + 1
                               /\ ack[v] = Never => ack'[v] = Never
                               /\ ack[v] > Bound => ack'[v] > Bound
  BY <1>1, <1>2, AckType, Numbers, SMTT(30) DEF Never
<1>5. HistoryOK'
  <2>1. WritesOK'
    BY <1>1, <1>4 DEF HistoryOK, WritesOK
  <2>2. QED
    BY <1>1, <1>3, <2>1 DEF HistoryOK
<1>6. \A p, n : n \in Int /\ Known(p, n) => \A v \in 1..MaxVersion : p.version < v => ack'[v] <= n + 1
  BY <1>4 DEF Known
<1>7. ASSUME NEW r \in Busy
      PROVE  /\ r \in Readers /\ reader[r] \in Working /\ BusyFact(reader[r])
             /\ reader[r].wait \in 0..MaxLoad /\ reader[r].wait + 1 \in 0..MaxLoad
             /\ reader[r].floor \in Floors
             /\ reader'[r] = [reader[r] EXCEPT !.wait = reader[r].wait + 1]
  <2>1. r \in Readers /\ reader[r] \in Working /\ reader[r].wait \in 0..MaxLoad /\ reader[r].floor \in Floors
    BY <1>1, ReaderType, Fields DEF Busy
  <2>2. reader[r].wait < MaxLoad
    BY DEF Tick
  <2>3. QED
    BY <1>1, <2>1, <2>2, Numbers DEF Tick, LoadsOK, BusyOK
<1>8. ASSUME NEW r \in Busy
      PROVE  /\ reader'[r] \in Working /\ reader'[r].at = reader[r].at /\ reader'[r].kind = reader[r].kind
             /\ reader'[r].viewer = reader[r].viewer /\ reader'[r].part = reader[r].part
             /\ reader'[r].wait = reader[r].wait + 1 /\ reader'[r].payload = reader[r].payload
             /\ reader'[r].floor = reader[r].floor
  <2> DEFINE n == reader[r].wait + 1
             t == [reader[r] EXCEPT !.wait = n]
  <2>1. reader[r] \in Working /\ n \in 0..MaxLoad /\ reader'[r] = t
    BY <1>7
  <2> HIDE DEF n
  <2>2. /\ t \in Working /\ t.at = reader[r].at /\ t.kind = reader[r].kind /\ t.viewer = reader[r].viewer
        /\ t.part = reader[r].part /\ t.wait = n /\ t.payload = reader[r].payload /\ t.floor = reader[r].floor
    BY <2>1 DEF Working
  <2> HIDE DEF t
  <2>3. QED
    BY <2>1, <2>2 DEF n
<1>9. \A r \in Readers : r \notin Busy => reader'[r] = reader[r]
  BY DEF Tick
<1>10. reader' \in [Readers -> States] /\ \A r \in Readers : reader'[r].at = reader[r].at
  <2>1. \A r \in Readers : reader'[r] \in States
    BY <1>1, <1>8, <1>9, ReaderType DEF States
  <2>2. QED
    BY <1>8, <1>9, <2>1 DEF Tick
<1>11. Busy' = Busy /\ Answered' = Answered
  BY <1>10 DEF Busy, Answered
<1>12. \A r \in Readers : reader[r].at = "wait" => KeyOf(r)' = KeyOf(r)
  BY <1>8 DEF KeyOf, PartOf, Busy
<1>13. BusyOK'
  <2> SUFFICES ASSUME NEW r \in Busy PROVE BusyFact(reader[r])'
    BY <1>11 DEF BusyOK
  <2>1. FloorFact(reader[r].floor)'
    <3>1. reader[r].floor.old # 0 => reader[r].floor.old \in 1..MaxVersion /\ ack[reader[r].floor.old] > Bound
      BY <1>7, FloorFields DEF BusyFact, FloorFact
    <3>2. reader[r].floor.clean <= clean
      BY <1>7 DEF BusyFact, FloorFact
    <3>3. QED
      BY <1>1, <1>4, <1>8, <3>1, <3>2 DEF FloorFact, Bound
  <2>2. Known(reader[r].payload, MaxLoad + reader[r].wait)'
    <3>1. Known(reader[r].payload, MaxLoad + reader[r].wait)
      BY <1>7 DEF BusyFact, PayloadFact
    <3>2. MaxLoad + reader[r].wait \in Int /\ (MaxLoad + reader[r].wait) + 1 = MaxLoad + (reader[r].wait + 1)
      <4>1. reader[r].wait \in 0..MaxLoad /\ MaxLoad \in Nat
        BY <1>7, Numbers
      <4>2. QED
        BY <4>1
    <3>3. \A v \in 1..MaxVersion : reader[r].payload.version < v => ack'[v] <= MaxLoad + (reader[r].wait + 1)
      BY <1>6, <3>1, <3>2
    <3>4. QED
      BY <1>8, <3>3 DEF Known
  <2>3. QED
    BY <1>1, <1>7, <1>8, <2>1, <2>2 DEF BusyFact, PayloadFact
<1>14. DoneOK'
  <2> SUFFICES ASSUME NEW r \in Answered PROVE DoneFact(reader[r])'
    BY <1>11 DEF DoneOK
  <2>1. reader'[r] = reader[r] /\ DoneFact(reader[r])
    BY <1>1, <1>9 DEF LoadsOK, DoneOK, Answered, Busy
  <2>2. QED
    BY <2>1 DEF DoneFact
<1>15. FlightOK'
  <2> SUFFICES ASSUME NEW f \in DOMAIN flight PROVE FlightFact(f)'
    BY <1>1 DEF FlightOK
  <2>1. FlightFact(f)
    BY <1>1 DEF LoadsOK, FlightOK
  <2>2. PICK r \in Waiters(f) : Known(flight[f].result, reader[r].wait)
    BY <2>1 DEF FlightFact
  <2>3. r \in Readers /\ r \in Busy /\ reader[r].at = "wait"
    BY <2>2 DEF Waiters, Busy
  <2>4. r \in Waiters(f)'
    BY <1>10, <1>12, <2>2, <2>3 DEF Waiters
  <2>5. Known(flight[f].result, reader[r].wait)'
    <3>1. \A v \in 1..MaxVersion : flight[f].result.version < v => ack'[v] <= reader[r].wait + 1
      <4>1. reader[r].wait \in 0..MaxLoad
        BY <1>7, <2>3
      <4>2. reader[r].wait \in Int
        BY <4>1, Numbers
      <4>3. QED
        BY <1>6, <2>2, <4>2
    <3>2. QED
      BY <1>1, <1>8, <2>3, <3>1 DEF Known
  <2>6. QED
    BY <1>1, <2>1, <2>4, <2>5 DEF FlightFact
<1>16. LoadsOK'
  BY <1>1, <1>10, <1>12, <1>13, <1>14, <1>15 DEF LoadsOK
<1>17. CacheOK'
  <2> DEFINE E == [data : Payloads, left : -1..TTL, budgetID : {Budget}]
             F(e) == [e EXCEPT !.left = IF e.left < 0 THEN e.left ELSE e.left - 1]
  <2>1. \A e \in E : /\ F(e) \in E /\ F(e).data = e.data
                      /\ F(e).left = IF e.left < 0 THEN e.left ELSE e.left - 1
    BY Numbers
  <2>2. stored' = [k \in DOMAIN stored |-> F(stored[k])]
    BY DEF Tick, C!Tick
  <2>3. \A k \in DOMAIN stored : stored[k] \in E /\ stored[k].left \in -1..TTL
    BY <1>1 DEF CacheOK
  <2> HIDE DEF E, F
  <2>4. DOMAIN stored' = DOMAIN stored /\ stored' \in [DOMAIN stored -> E]
        /\ \A k \in DOMAIN stored : stored'[k] = F(stored[k])
    BY <2>1, <2>2, <2>3
  <2>5. StoredOK'
    <3> SUFFICES ASSUME NEW k \in DOMAIN stored PROVE StoredFact(k, stored[k])'
      BY <2>4 DEF StoredOK
    <3>1. /\ stored'[k].data = stored[k].data
          /\ stored'[k].left = IF stored[k].left < 0 THEN stored[k].left ELSE stored[k].left - 1
      BY <2>1, <2>3, <2>4
    <3>2. StoredFact(k, stored[k])
      BY <1>1 DEF CacheOK, StoredOK
    <3>3. Known(stored[k].data, Bound - stored[k].left)'
      <4> SUFFICES ASSUME NEW v \in 1..MaxVersion, stored[k].data.version < v
                   PROVE  ack'[v] <= Bound - stored'[k].left
        BY <3>1 DEF Known, Bound
      <4>1. ack[v] <= Bound - stored[k].left
        BY <3>2 DEF StoredFact, Known
      <4>2. stored[k].left \in -1..TTL /\ ack[v] \in Int /\ ack'[v] \in Int /\ ack'[v] <= ack[v] + 1 /\ ack'[v] <= Bound + 1
        BY <1>4, <2>3
      <4>3. QED
        BY <3>1, <4>1, <4>2, Numbers
    <3>4. QED
      BY <1>1, <3>1, <3>2, <3>3 DEF StoredFact
  <2>6. QED
    BY <1>1, <2>4, <2>5 DEF CacheOK, E
<1>18. QED
  BY <1>5, <1>16, <1>17, PiecesNext

----------------------------------------------------------------------------
(* The theorems *)

\* At the start nothing is cached, asked for or written.
LEMMA InitHolds == Init => IInv
<1> SUFFICES ASSUME Init PROVE IInv
  OBVIOUS
<1>1. \A r \in Readers : reader[r] = Idle /\ Idle.at = "idle"
  BY DEF Init, Idle
<1>2. Busy = {} /\ Answered = {}
  BY <1>1 DEF Busy, Answered
<1>3. DOMAIN flight = {} /\ flight \in [DOMAIN flight -> [read : BOOLEAN, result : Payloads]]
  BY DEF Init
<1>4. LoadsOK
  <2>1. reader \in [Readers -> States]
    BY DEF Init, States
  <2>2. BusyOK /\ DoneOK /\ FlightOK
    BY <1>2, <1>3 DEF BusyOK, DoneOK, FlightOK
  <2>3. QED
    BY <1>1, <1>3, <2>1, <2>2 DEF LoadsOK
<1>5. CacheOK
  BY DEF Init, C!Init, CacheOK, StoredOK
<1>6. HistoryOK
  BY Numbers DEF Init, HistoryOK, WritesOK, Versions, Ages, Never
<1>7. QED
  BY <1>4, <1>5, <1>6, Pieces

LEMMA StutterKeeps ==
  ASSUME IInv, UNCHANGED vars
  PROVE  IInv'
<1>1. UNCHANGED <<stored, version, pending, ack, clean, flight, reader, asked>>
  BY DEF vars
<1>2. LoadsOK'
  <2>1. LoadsOK /\ {} \in SUBSET Readers /\ DOMAIN flight \in SUBSET DOMAIN flight
    BY Pieces
  <2>2. flight' = [g \in DOMAIN flight |-> flight[g]] /\ reader' \in [Readers -> States]
    BY <1>1, <2>1 DEF LoadsOK
  <2>3. \A r \in Readers \ {} : reader'[r] = reader[r] /\ (reader[r].at = "wait" => KeyOf(r) \in DOMAIN flight)
    BY <1>1, <2>1 DEF LoadsOK
  <2>4. QED
    BY <1>1, <2>1, <2>2, <2>3, Moved
<1>3. QED
  BY <1>1, <1>2, CacheSame, HistorySame, PiecesNext

\* Every step keeps the invariant: requests, queries, writers and time.
LEMMA NextKeeps == IInv /\ [Next]_vars => IInv'
<1> SUFFICES ASSUME IInv, [Next]_vars PROVE IInv'
  OBVIOUS
<1>1. ASSUME NEW r \in Readers, ReaderNext(r) PROVE IInv'
  BY <1>1, LookupKeeps, LookupErrorKeeps, AskKeeps, SkipKeeps, StoreKeeps, StoreErrorKeeps DEF ReaderNext
<1>2. ASSUME NEW f \in FlightKeys, FlightNext(f) PROVE IInv'
  BY <1>2, ReadKeeps, LandKeeps, FailKeeps DEF FlightNext
<1>3. QED
  BY <1>1, <1>2, WriteKeeps, InvalidateKeeps, InvalidateErrorKeeps, TickKeeps, StutterKeeps DEF Next

\* The invariant holds in every state that is reached.
THEOREM Invariance == Spec => []IInv
BY InitHolds, NextKeeps, PTL DEF Spec

\* The variables keep their types, a request that waits has a query to wait for,
\* and a query in progress has a request that waits for it.
THEOREM TypeCorrect == Spec => []TypeOK
<1>1. IInv => TypeOK
  BY DEF IInv
<1>2. QED
  BY <1>1, Invariance, PTL

\* No answer lacks a write whose handler was done more than a TTL and two loads
\* before the request (the cache's TTL and the joins of summary_singleflight.go).
THEOREM StalenessBounded == Spec => []StaleBounded
<1>1. IInv => StaleBounded
  BY DEF IInv, DoneOK, DoneFact, StaleBounded
<1>2. QED
  BY <1>1, Invariance, PTL

\* No answer lacks a write whose invalidation no load straddled: stale entries
\* come from loads that overlapped a write (helpers.go) and from nothing else.
THEOREM CleanWritesAlwaysSeen == Spec => []CleanWritesSeen
<1>1. IInv => CleanWritesSeen
  BY DEF IInv, DoneOK, DoneFact, CleanWritesSeen
<1>2. QED
  BY <1>1, Invariance, PTL

\* Neither a shared query nor the cache gives a viewer the rows of another.
THEOREM NothingLeaks == Spec => []NoLeak
<1>1. IInv => NoLeak
  BY DEF IInv, DoneOK, DoneFact, NoLeak
<1>2. QED
  BY <1>1, Invariance, PTL

=============================================================================
