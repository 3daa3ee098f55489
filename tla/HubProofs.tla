----------------------------- MODULE HubProofs -----------------------------
(***************************************************************************)
(* The safety properties of Hub, for any set of connections, budgets and   *)
(* callers and any buffer sizes.                                           *)
(***************************************************************************)
EXTENDS Hub, TLAPS

\* What a connection looks like before Run has received it.
Untouched ==
  \A c \in Clients :
    handler[c] \in {"new", "rejected", "registering"} =>
      /\ send[c] = "nil"
      /\ sendQ[c] = <<>>
      /\ mu[c] = "free"
      /\ pump[c] = "off"
      /\ ping[c] = "off"

\* What the client of an unfinished register branch looks like: its channel is
\* open, nothing has been sent on it, and so writePump has nothing to write.
Registering ==
  run # Selecting =>
    /\ send[run.client] = "open"
    /\ sendQ[run.client] = <<>>
    /\ mu[run.client] # "pump"
    /\ pump[run.client] = "ranging"
    /\ handler[run.client] \notin {"new", "rejected", "registering"}

ClientsOpen == \A c \in clients : send[c] = "open"

EjectOnce == \A c \in Clients : ejectors[c] <= 1 /\ (~ejecting[c] => ejectors[c] = 0)

\* The inductive invariant.
Inv ==
  /\ TypeOK
  /\ NoPanic
  /\ IndexSound
  /\ ClientsOpen
  /\ EjectOnce
  /\ Untouched
  /\ Registering

\* Indexing a client under budgets yields a partial function from budgets to
\* sets of clients (hub.go:198-205).
LEMMA IndexedType ==
  ASSUME TypeOK, NEW c \in Clients, NEW bs, bs \subseteq Budgets
  PROVE  /\ DOMAIN Indexed(c, bs) = DOMAIN budgetBuckets \cup bs
         /\ Indexed(c, bs) \in [DOMAIN Indexed(c, bs) -> SUBSET Clients]
  BY DEF TypeOK, HubTypeOK, Indexed, Bucket

\* Indexing adds the client to the buckets named, and changes no other bucket
\* (hub.go:198-205, 320-325).
LEMMA IndexedMembers ==
  ASSUME TypeOK, NEW c \in Clients, NEW bs, bs \subseteq Budgets,
         NEW b \in DOMAIN Indexed(c, bs)
  PROVE  Indexed(c, bs)[b] = IF b \in bs THEN Bucket(b) \cup {c} ELSE budgetBuckets[b]
  BY DEF TypeOK, HubTypeOK, Indexed, Bucket

\* Taking a client out leaves no bucket larger, none empty, and the client in
\* none of the buckets named (hub.go:224-231, 349-354).
LEMMA RemovedType ==
  ASSUME TypeOK, NEW c \in Clients, NEW bs
  PROVE  /\ DOMAIN Removed(c, bs) \subseteq DOMAIN budgetBuckets
         /\ \A b \in DOMAIN Removed(c, bs) :
              /\ Removed(c, bs)[b] \subseteq budgetBuckets[b]
              /\ budgetBuckets[b] # {} => Removed(c, bs)[b] # {}
              /\ b \in bs => c \notin Removed(c, bs)[b]
         /\ Removed(c, bs) \in [DOMAIN Removed(c, bs) -> SUBSET Clients]
  BY DEF TypeOK, ClientTypeOK, HubTypeOK, Removed

\* The register branch names a connection, and what it copied are budgets.
LEMMA RunType ==
  ASSUME TypeOK
  PROVE  /\ run # Selecting => run.client \in Clients /\ run.at \in {"registered", "snapped"}
         /\ run.at = "snapped" => run.snap \in SUBSET Budgets
         /\ run.at \in {"registered", "snapped"} => run # Selecting
  BY DEF TypeOK, ClientTypeOK, HubTypeOK, HubStates, Selecting

\* A call in progress names a connection and a budget.
LEMMA CallType ==
  ASSUME TypeOK, NEW k \in Callers
  PROVE  call[k].at \in {"subscribe", "unsubscribe"} =>
           call[k].client \in Clients /\ call[k].budget \in Budgets
  BY DEF TypeOK, ClientTypeOK, HubTypeOK, CallStates, Idle

\* A hub made by NewHub satisfies the inductive invariant (hub.go:159-167).
LEMMA InitInv == Init => Inv
<1> SUFFICES ASSUME Init PROVE Inv
  OBVIOUS
<1>1. TypeOK
  <2>1. ClientTypeOK
    BY SendBufAssumption DEF Init, ClientTypeOK
  <2>2. run \in HubStates /\ call \in [Callers -> CallStates]
    BY DEF Init, HubStates, CallStates
  <2>3. /\ DOMAIN budgetBuckets \subseteq Budgets
        /\ budgetBuckets \in [DOMAIN budgetBuckets -> SUBSET Clients]
    BY DEF Init
  <2>4. broadcast \in Seq(Budgets) /\ Len(broadcast) <= BroadcastCap
    BY BroadcastCapAssumption DEF Init
  <2>5. clients \subseteq Clients /\ panicked \in BOOLEAN
    BY DEF Init
  <2> QED
    BY <2>1, <2>2, <2>3, <2>4, <2>5 DEF TypeOK, HubTypeOK
<1>2. NoPanic /\ IndexSound /\ ClientsOpen
  BY DEF Init, NoPanic, IndexSound, ClientsOpen
<1>3. EjectOnce
  BY DEF Init, EjectOnce
<1>4. Untouched /\ Registering
  BY DEF Init, Untouched, Registering
<1> QED
  BY <1>1, <1>2, <1>3, <1>4 DEF Inv

\* Taking the first message off a channel leaves a shorter one (hub.go:107, 244).
LEMMA TailType ==
  ASSUME NEW S, NEW q \in Seq(S), q # <<>>, NEW n \in Nat, Len(q) <= n
  PROVE  Tail(q) \in Seq(S) /\ Len(Tail(q)) <= n
  OBVIOUS

\* Every step keeps the types: in particular no buffer grows past its capacity
\* (hub.go:163, 180, 260-262).
LEMMA TypeStep == TypeOK /\ [Next]_vars => TypeOK'
<1> SUFFICES ASSUME TypeOK, [Next]_vars PROVE TypeOK'
  OBVIOUS
<1> USE DEF TypeOK
<1>1. ASSUME NEW c \in Clients, HandlerNext(c) \/ PumpNext(c) \/ PingNext(c)
      PROVE  TypeOK'
  <2> USE DEF HandlerNext, PumpNext, PingNext
  <2>1. UNCHANGED <<hubVars, call>>
    BY <1>1 DEF Reject, Connect, ReadError, PumpReceive, PumpLock, PumpWritten,
      PumpWriteError, PumpDrained, PingTick, PingLock, PingWritten, PingDone
  <2>2. HubTypeOK'
    BY <2>1 DEF HubTypeOK, hubVars
  <2>3. CASE HandlerNext(c)
    BY <2>2, <2>3 DEF ClientTypeOK, Reject, Connect, ReadError, queueVars, writeVars
  <2>4. CASE PingNext(c)
    BY <2>2, <2>4 DEF ClientTypeOK, PingTick, PingLock, PingWritten, PingDone, queueVars
  <2>5. CASE PumpReceive(c)
    <3>1. sendQ'[c] \in Seq(Budgets) /\ Len(sendQ'[c]) <= SendBufSize
      BY <2>5, TailType, SendBufAssumption DEF PumpReceive, ClientTypeOK
    <3> QED
      BY <2>2, <2>5, <3>1 DEF ClientTypeOK, PumpReceive
  <2>6. CASE PumpLock(c) \/ PumpWritten(c) \/ PumpWriteError(c) \/ PumpDrained(c)
    BY <2>2, <2>6 DEF ClientTypeOK, PumpLock, PumpWritten, PumpWriteError, PumpDrained,
      queueVars
  <2> QED
    BY <1>1, <2>3, <2>4, <2>5, <2>6
<1>2. ASSUME NEW c \in Clients, HubRegister(c) PROVE TypeOK'
  <2>1. ClientTypeOK'
    BY <1>2 DEF HubRegister, ClientTypeOK
  <2>2. run' \in HubStates
    BY <1>2 DEF HubRegister, HubStates
  <2> QED
    BY <1>2, <2>1, <2>2 DEF HubRegister, HubTypeOK
<1>3. ASSUME NEW c \in Clients, HubUnregister(c) \/ HubEject(c) PROVE TypeOK'
  <2>1. Unregistered(c)
    BY <1>3 DEF HubUnregister, HubEject
  <2>2. /\ clients' \subseteq Clients
        /\ DOMAIN budgetBuckets' \subseteq Budgets
        /\ budgetBuckets' \in [DOMAIN budgetBuckets' -> SUBSET Clients]
    BY <2>1, RemovedType DEF Unregistered, HubTypeOK
  <2>5. panicked' \in BOOLEAN
    BY <2>1 DEF Unregistered, HubTypeOK
  <2>3. /\ send' \in [Clients -> {"nil", "open", "closed"}]
        /\ connOpen' \in [Clients -> BOOLEAN]
    BY <2>1 DEF Unregistered, ClientTypeOK
  <2>4. handler' \in [Clients -> {"new", "rejected", "registering", "reading",
                                  "closing", "done"}]
    BY <1>3, ZenonT(60) DEF HubUnregister, HubEject, ClientTypeOK
  <2>6. ejectors' \in [Clients -> Nat]
    <3>1. ejectors \in [Clients -> Nat]
      BY DEF ClientTypeOK
    <3> QED
      BY <1>3, <3>1 DEF HubUnregister, HubEject
  <2> QED
    BY <1>3, <2>2, <2>3, <2>4, <2>5, <2>6
    DEF HubUnregister, HubEject, ClientTypeOK, HubTypeOK, writeVars
<1>4. CASE HubSnapshot
  <2>1. run' \in HubStates
    BY <1>4, RunType DEF HubSnapshot, HubStates, ClientTypeOK
  <2> QED
    BY <1>4, <2>1 DEF HubSnapshot, HubTypeOK, ClientTypeOK, clientVars, queueVars, writeVars
<1>5. CASE HubIndex
  <2>1. run.client \in Clients /\ run.snap \in SUBSET Budgets
    BY <1>5, RunType DEF HubIndex
  <2>2. run' \in HubStates
    BY <1>5 DEF HubIndex, HubStates
  <2>3. /\ DOMAIN budgetBuckets' \subseteq Budgets
        /\ budgetBuckets' \in [DOMAIN budgetBuckets' -> SUBSET Clients]
    <3>1. /\ DOMAIN Indexed(run.client, run.snap) = DOMAIN budgetBuckets \cup run.snap
          /\ Indexed(run.client, run.snap)
               \in [DOMAIN Indexed(run.client, run.snap) -> SUBSET Clients]
      BY <2>1, IndexedType
    <3> QED
      BY <1>5, <2>1, <3>1 DEF HubIndex, HubTypeOK
  <2> QED
    BY <1>5, <2>1, <2>2, <2>3
    DEF HubIndex, HubTypeOK, ClientTypeOK, clientVars, queueVars, writeVars
<1>6. CASE HubBroadcast
  <2>1. broadcast' \in Seq(Budgets) /\ Len(broadcast') <= BroadcastCap
    BY <1>6, TailType, BroadcastCapAssumption DEF HubBroadcast, HubTypeOK
  <2>2. Head(broadcast) \in Budgets
    BY <1>6 DEF HubBroadcast, HubTypeOK
  <2>3. sendQ' \in [Clients -> Seq(Budgets)] /\ \A c \in Clients : Len(sendQ'[c]) <= SendBufSize
    BY <1>6, <2>2, SendBufAssumption DEF HubBroadcast, ClientTypeOK, HasRoom
  <2>4. ejectors' \in [Clients -> Nat]
    BY <1>6 DEF HubBroadcast, ClientTypeOK
  <2>5. ejecting' \in [Clients -> BOOLEAN] /\ panicked' \in BOOLEAN
    BY <1>6 DEF HubBroadcast, ClientTypeOK, HubTypeOK
  <2> QED
    BY <1>6, <2>1, <2>3, <2>4, <2>5 DEF HubBroadcast, ClientTypeOK, HubTypeOK, writeVars
<1>7. CASE HubMarshalError
  BY <1>7, TailType, BroadcastCapAssumption
  DEF HubMarshalError, ClientTypeOK, HubTypeOK, clientVars, queueVars, writeVars
<1>8. ASSUME NEW b \in Budgets, BroadcastToBudget(b) PROVE TypeOK'
  BY <1>8, BroadcastCapAssumption
  DEF BroadcastToBudget, ClientTypeOK, HubTypeOK, clientVars, queueVars, writeVars
<1>9. ASSUME NEW k \in Callers, CallNext(k) PROVE TypeOK'
  <2>1. ASSUME NEW c \in Clients, NEW b \in Budgets, Subscribe(k, c, b) \/ Unsubscribe(k, c, b)
        PROVE  TypeOK'
    <3>1. call' \in [Callers -> CallStates]
      BY <2>1 DEF Subscribe, Unsubscribe, HubTypeOK, CallStates
    <3>2. budgetIDs' \in [Clients -> SUBSET Budgets]
      <4>1. budgetIDs \in [Clients -> SUBSET Budgets]
        BY DEF ClientTypeOK
      <4>2. CASE Subscribe(k, c, b)
        BY <4>1, <4>2 DEF Subscribe
      <4>3. CASE Unsubscribe(k, c, b)
        BY <4>1, <4>3 DEF Unsubscribe
      <4> QED
        BY <2>1, <4>2, <4>3
    <3> QED
      BY <2>1, <3>1, <3>2
      DEF Subscribe, Unsubscribe, HubTypeOK, ClientTypeOK, hubVars, queueVars, writeVars
  <2>2. CASE SubscribeIndex(k) \/ UnsubscribeIndex(k)
    <3>1. call[k].client \in Clients /\ call[k].budget \in Budgets
      BY <2>2, CallType DEF SubscribeIndex, UnsubscribeIndex
    <3>2. /\ DOMAIN budgetBuckets' \subseteq Budgets
          /\ budgetBuckets' \in [DOMAIN budgetBuckets' -> SUBSET Clients]
      <4>1. CASE SubscribeIndex(k)
        <5> DEFINE f == Indexed(call[k].client, {call[k].budget})
        <5>1. /\ DOMAIN f = DOMAIN budgetBuckets \cup {call[k].budget}
              /\ f \in [DOMAIN f -> SUBSET Clients]
          BY <3>1, IndexedType
        <5> QED
          BY <4>1, <3>1, <5>1 DEF SubscribeIndex, HubTypeOK
      <4>2. CASE UnsubscribeIndex(k)
        BY <4>2, <3>1, RemovedType DEF UnsubscribeIndex, HubTypeOK
      <4> QED
        BY <2>2, <4>1, <4>2
    <3>3. call' \in [Callers -> CallStates]
      BY <2>2 DEF SubscribeIndex, UnsubscribeIndex, HubTypeOK, CallStates
    <3>4. ClientTypeOK'
      BY <2>2 DEF SubscribeIndex, UnsubscribeIndex, ClientTypeOK, clientVars, queueVars, writeVars
    <3> QED
      BY <2>2, <3>2, <3>3, <3>4 DEF SubscribeIndex, UnsubscribeIndex, HubTypeOK
  <2> QED
    BY <1>9, <2>1, <2>2 DEF CallNext
<1>10. CASE UNCHANGED vars
  BY <1>10 DEF vars, hubVars, clientVars, queueVars, writeVars, ClientTypeOK, HubTypeOK
<1> QED
  BY <1>1, <1>2, <1>3, <1>4, <1>5, <1>6, <1>7, <1>8, <1>9, <1>10 DEF Next, RunNext

\* The conjuncts of Inv that relate only the hub's index and the channels.
Index == NoPanic /\ IndexSound /\ ClientsOpen /\ EjectOnce

\* Every step of Run, of a connection's goroutines and of a caller keeps it.
LEMMA InvStep == Inv /\ [Next]_vars => Inv'
<1> SUFFICES ASSUME Inv, [Next]_vars PROVE Index' /\ Untouched' /\ Registering'
  BY TypeStep DEF Inv, Index
<1> USE DEF Inv
<1>0. /\ run # Selecting => run.client \in Clients
      /\ run.at \in {"registered", "snapped"} => run # Selecting
  BY RunType
<1>1. ASSUME NEW c \in Clients, HandlerNext(c) \/ PumpNext(c) \/ PingNext(c)
      PROVE  Index' /\ Untouched' /\ Registering'
  <2> USE <1>0 DEF HandlerNext, PumpNext, PingNext
  <2>1. UNCHANGED <<hubVars, send, ejecting, ejectors>>
    BY <1>1 DEF Reject, Connect, ReadError, PumpReceive, PumpLock, PumpWritten,
      PumpWriteError, PumpDrained, PingTick, PingLock, PingWritten, PingDone, queueVars
  <2>2. Index'
    BY <2>1 DEF Index, NoPanic, IndexSound, ClientsOpen, EjectOnce, hubVars
  <2>3. CASE HandlerNext(c)
    BY <2>1, <2>2, <2>3 DEF TypeOK, ClientTypeOK, Untouched, Registering, Reject, Connect,
      ReadError, hubVars, queueVars, writeVars
  <2>4. CASE PumpNext(c)
    BY <2>1, <2>2, <2>4 DEF TypeOK, ClientTypeOK, Untouched, Registering, PumpReceive,
      PumpLock, PumpWritten, PumpWriteError, PumpDrained, hubVars, queueVars
  <2>5. CASE PingNext(c)
    BY <2>1, <2>2, <2>5 DEF TypeOK, ClientTypeOK, Untouched, Registering, PingTick,
      PingLock, PingWritten, PingDone, hubVars, queueVars
  <2> QED
    BY <1>1, <2>3, <2>4, <2>5
<1>2. ASSUME NEW c \in Clients, HubRegister(c)
      PROVE  Index' /\ Untouched' /\ Registering'
  <2>1. Index'
    BY <1>2 DEF Index, NoPanic, IndexSound, ClientsOpen, EjectOnce, HubRegister, TypeOK,
      ClientTypeOK, HubTypeOK
  <2>2. Untouched' /\ Registering'
    BY <1>2 DEF HubRegister, Untouched, Registering, TypeOK, ClientTypeOK, Selecting
  <2> QED
    BY <2>1, <2>2
<1>3. ASSUME NEW c \in Clients, HubUnregister(c) \/ HubEject(c)
      PROVE  Index' /\ Untouched' /\ Registering'
  <2>1. Unregistered(c) /\ run' = Selecting
    BY <1>3 DEF HubUnregister, HubEject
  <2>2. NoPanic' /\ ClientsOpen'
    BY <2>1 DEF Unregistered, IsClient, NoPanic, ClientsOpen, TypeOK, ClientTypeOK, HubTypeOK
  <2>3. IndexSound'
    <3>1. CASE IsClient(c)
      <4> DEFINE f == Removed(c, DOMAIN budgetBuckets)
      <4>1. budgetBuckets' = f /\ clients' = clients \ {c}
        BY <2>1, <3>1 DEF Unregistered
      <4>2. \A d \in clients : d # c => send'[d] = send[d]
        BY <2>1, <3>1 DEF Unregistered, TypeOK, ClientTypeOK, HubTypeOK
      <4>3. \A b \in DOMAIN f :
              /\ b \in DOMAIN budgetBuckets
              /\ f[b] \subseteq budgetBuckets[b]
              /\ budgetBuckets[b] # {} => f[b] # {}
              /\ c \notin f[b]
        BY RemovedType
      <4> HIDE DEF f
      <4> QED
        BY <4>1, <4>2, <4>3 DEF IndexSound
    <3>2. CASE ~IsClient(c)
      BY <2>1, <3>2 DEF Unregistered, IndexSound
    <3> QED
      BY <3>1, <3>2
  <2>4. EjectOnce'
    <3>1. ejectors \in [Clients -> Nat]
      BY DEF TypeOK, ClientTypeOK
    <3> QED
      BY <1>3, <3>1 DEF EjectOnce, HubUnregister, HubEject
  <2>5. Untouched'
    BY <1>3, <2>1 DEF HubUnregister, HubEject, Unregistered, IsClient, Untouched, ClientsOpen,
      TypeOK, ClientTypeOK, HubTypeOK, writeVars
  <2> QED
    BY <2>1, <2>2, <2>3, <2>4, <2>5 DEF Index, Registering
<1>4. CASE HubSnapshot
  BY <1>0, <1>4 DEF HubSnapshot, Index, NoPanic, IndexSound, ClientsOpen, EjectOnce, Untouched,
    Registering, clientVars, queueVars, writeVars
<1>5. CASE HubIndex
  <2>1. /\ run # Selecting
        /\ run.client \in Clients
        /\ run.snap \subseteq Budgets
    BY <1>0, <1>5, RunType DEF HubIndex
  <2>2. IndexSound'
    <3> DEFINE d == run.client
               bs == run.snap
               f == Indexed(d, bs)
    <3>1. /\ budgetBuckets' = f
          /\ clients' = clients \cup {d}
          /\ send' = send
      BY <1>5 DEF HubIndex, clientVars, queueVars
    <3>2. d \in Clients /\ bs \subseteq Budgets /\ send[d] = "open"
      BY <2>1 DEF Registering
    <3> HIDE DEF d, bs
    <3>3. DOMAIN f = DOMAIN budgetBuckets \cup bs
      BY <3>2, IndexedType
    <3>4. \A b \in DOMAIN f :
            f[b] = IF b \in bs THEN Bucket(b) \cup {d} ELSE budgetBuckets[b]
      BY <3>2, IndexedMembers
    <3> HIDE DEF f
    <3> QED
      BY <3>1, <3>2, <3>3, <3>4 DEF IndexSound, Bucket
  <2> QED
    BY <1>5, <2>1, <2>2 DEF HubIndex, Index, NoPanic, ClientsOpen, EjectOnce, Untouched,
      Registering, clientVars, queueVars, writeVars
<1>6. CASE HubBroadcast
  <2>1. \A b \in Budgets : \A c \in Bucket(b) : c \in clients /\ send[c] = "open"
    BY DEF IndexSound, Bucket
  <2>2. Head(broadcast) \in Budgets
    BY <1>6 DEF HubBroadcast, TypeOK, HubTypeOK
  <2>3. NoPanic'
    BY <1>6, <2>1, <2>2 DEF HubBroadcast, NoPanic
  <2>4. EjectOnce'
    <3>1. ejectors \in [Clients -> Nat]
      BY DEF TypeOK, ClientTypeOK
    <3>2. \A c \in Clients :
            \/ ejectors'[c] = ejectors[c] /\ (ejecting[c] => ejecting'[c])
            \/ ejectors'[c] = ejectors[c] + 1 /\ ~ejecting[c] /\ ejecting'[c]
      BY <1>6, <3>1 DEF HubBroadcast, NeedsEject
    <3> QED
      BY <3>1, <3>2 DEF EjectOnce
  <2>5. IndexSound' /\ ClientsOpen'
    BY <1>6 DEF HubBroadcast, IndexSound, ClientsOpen
  <2>6. Untouched' /\ Registering'
    BY <1>6 DEF HubBroadcast, HasRoom, Untouched, Registering, writeVars
  <2> QED
    BY <2>3, <2>4, <2>5, <2>6 DEF Index
<1>7. CASE HubMarshalError \/ \E b \in Budgets : BroadcastToBudget(b)
  BY <1>7 DEF HubMarshalError, BroadcastToBudget, Index, NoPanic, IndexSound, ClientsOpen,
    EjectOnce, Untouched, Registering, clientVars, queueVars, writeVars
<1>8. ASSUME NEW k \in Callers, CallNext(k)
      PROVE  Index' /\ Untouched' /\ Registering'
  <2>1. ASSUME NEW c \in Clients, NEW b \in Budgets, Subscribe(k, c, b) \/ Unsubscribe(k, c, b)
        PROVE  Index' /\ Untouched' /\ Registering'
    BY <2>1 DEF Subscribe, Unsubscribe, Index, NoPanic, IndexSound, ClientsOpen, EjectOnce,
      Untouched, Registering, hubVars, queueVars, writeVars
  <2>2. CASE SubscribeIndex(k) \/ UnsubscribeIndex(k)
    <3>1. call[k].client \in Clients /\ {call[k].budget} \subseteq Budgets
      BY <2>2, CallType DEF SubscribeIndex, UnsubscribeIndex
    <3>3. IndexSound'
      <4>1. CASE SubscribeIndex(k)
        <5> DEFINE bs == {call[k].budget}
                   f == Indexed(call[k].client, bs)
        <5>1. /\ budgetBuckets' = IF call[k].client \in clients THEN f ELSE budgetBuckets
              /\ clients' = clients /\ send' = send
          BY <4>1 DEF SubscribeIndex, clientVars, queueVars
        <5>2. DOMAIN f = DOMAIN budgetBuckets \cup bs
          BY <3>1, IndexedType
        <5>3. \A b \in DOMAIN f :
                f[b] = IF b \in bs THEN Bucket(b) \cup {call[k].client} ELSE budgetBuckets[b]
          BY <3>1, IndexedMembers
        <5> HIDE DEF f, bs
        <5> QED
          BY <5>1, <5>2, <5>3, ZenonT(60) DEF IndexSound, ClientsOpen, Bucket
      <4>2. CASE UnsubscribeIndex(k)
        BY <3>1, <4>2, RemovedType DEF UnsubscribeIndex, IndexSound, clientVars, queueVars
      <4> QED
        BY <2>2, <4>1, <4>2
    <3> QED
      BY <2>2, <3>3 DEF SubscribeIndex, UnsubscribeIndex, Index, NoPanic, ClientsOpen,
        EjectOnce, Untouched, Registering, clientVars, queueVars, writeVars
  <2> QED
    BY <1>8, <2>1, <2>2 DEF CallNext
<1>9. CASE UNCHANGED vars
  BY <1>9 DEF vars, hubVars, clientVars, queueVars, writeVars, Index, NoPanic, IndexSound,
    ClientsOpen, EjectOnce, Untouched, Registering
<1> QED
  BY <1>1, <1>2, <1>3, <1>4, <1>5, <1>6, <1>7, <1>8, <1>9 DEF Next, RunNext

\* Every state of the hub satisfies the inductive invariant.
THEOREM Invariance == Spec => []Inv
<1>1. Init => Inv
  BY InitInv
<1>2. Inv /\ [Next]_vars => Inv'
  BY InvStep
<1> QED
  BY <1>1, <1>2, PTL DEF Spec

\* The types hold, the capacities of the two kinds of channel included.
THEOREM TypeCorrect == Spec => []TypeOK
  BY Invariance, PTL DEF Inv

\* Run never sends on, and never closes, a closed channel (hub.go:232-239).
THEOREM NeverPanics == Spec => []NoPanic
  BY Invariance, PTL DEF Inv

\* The buckets hold registered clients with open channels only and no bucket
\* is empty, whatever Subscribe and Unsubscribe calls overlap with Run.
THEOREM IndexAlwaysSound == Spec => []IndexSound
  BY Invariance, PTL DEF Inv

\* A slow client has at most one pending drop (hub.go:254-256).
THEOREM OneEjector == Spec => []SingleEjector
<1>1. Inv => SingleEjector
  BY DEF Inv, EjectOnce, SingleEjector
<1> QED
  BY <1>1, Invariance, PTL

\* Run does not register a client whose mutex a stuck write holds.
THEOREM RegisterUnblocked == Spec => []RegisterNotBehindWrite
<1>1. Inv => RegisterNotBehindWrite
  BY RunType DEF Inv, Registering, RegisterNotBehindWrite
<1> QED
  BY <1>1, Invariance, PTL

----------------------------------------------------------------------------
(* The buckets and BudgetIDs, when there is one caller and it waits until Run *)
(* has indexed the client *)

\* A call in progress is about a client that is or was registered, and has left
\* its mark in BudgetIDs.
CallsKnown ==
  \A k \in Callers : call[k].at # "idle" =>
    /\ call[k].client \in clients \/ send[call[k].client] = "closed"
    /\ call[k].budget \in budgetIDs[call[k].client] <=> call[k].at = "subscribe"

\* Nobody has changed the BudgetIDs of the client that is being registered.
RegistersFresh ==
  run # Selecting =>
    /\ run.client \notin clients
    /\ run.at = "snapped" => run.snap = budgetIDs[run.client]

\* A call is between its two halves for client c and budget b.
Changing(c, b) == \E k \in Callers : call[k].at # "idle" /\ call[k].client = c /\ call[k].budget = b

BucketsMatch ==
  \A c \in clients, b \in Budgets : ~Changing(c, b) => (c \in Bucket(b) <=> b \in budgetIDs[c])

Settled == CallsKnown /\ RegistersFresh /\ BucketsMatch

\* Taking a client out of some buckets changes nothing for other clients and
\* other buckets.
LEMMA RemovedMembers ==
  ASSUME TypeOK, NEW c \in Clients, NEW bs, budgetBuckets' = Removed(c, bs)
  PROVE  \A d \in Clients, b \in Budgets : d \in Bucket(b)' <=> d \in Bucket(b) /\ ~(d = c /\ b \in bs)
BY DEF TypeOK, HubTypeOK, Removed, Bucket

LEMMA AddedMembers ==
  ASSUME TypeOK, NEW c \in Clients, NEW bs, bs \subseteq Budgets, budgetBuckets' = Indexed(c, bs)
  PROVE  \A d \in Clients, b \in Budgets : d \in Bucket(b)' <=> d \in Bucket(b) \/ (d = c /\ b \in bs)
BY DEF TypeOK, HubTypeOK, Indexed, Bucket

\* A call that is not idle names a connection and a budget.
LEMMA CallNames ==
  ASSUME TypeOK, NEW k \in Callers, call[k].at # "idle"
  PROVE  /\ call[k].at \in {"subscribe", "unsubscribe"}
         /\ call[k].client \in Clients /\ call[k].budget \in Budgets
BY DEF TypeOK, HubTypeOK, CallStates, Idle

\* A step that leaves the index, the calls and the BudgetIDs alone, but for those
\* of a connection that is not registered yet.
LEMMA SettledFrame ==
  ASSUME Inv, Settled, UNCHANGED <<clients, budgetBuckets, call, run, send>>,
         \A c \in Clients : budgetIDs'[c] = budgetIDs[c] \/ handler[c] = "new"
  PROVE  Settled'
<1>1. \A c \in Clients : c \in clients \/ send[c] = "closed" \/ (run # Selecting /\ run.client = c) =>
        budgetIDs'[c] = budgetIDs[c]
  BY DEF Inv, ClientsOpen, Untouched, Registering
<1>2. CallsKnown'
  BY <1>1, CallNames DEF Inv, Settled, CallsKnown
<1>3. RegistersFresh'
  BY <1>1, RunType DEF Inv, Settled, RegistersFresh
<1>4. BucketsMatch'
  BY <1>1 DEF Inv, Settled, BucketsMatch, Changing, Bucket, TypeOK, HubTypeOK
<1>5. QED
  BY <1>2, <1>3, <1>4 DEF Settled

LEMMA SettledInit == Init => Settled
BY DEF Init, Settled, CallsKnown, RegistersFresh, BucketsMatch, Idle, Selecting

\* The two halves of a call bring the buckets and BudgetIDs back together if no
\* other call comes between, and Run copies BudgetIDs that nobody changes.
LEMMA SettledStep ==
  ASSUME CallAfterIndexed, \A j, k \in Callers : j = k
  PROVE  Inv /\ Settled /\ [Next]_vars => Settled'
<1> SUFFICES ASSUME Inv, Settled, [Next]_vars PROVE Settled'
  OBVIOUS
<1> USE DEF Inv
<1>0. /\ run # Selecting => run.client \in Clients
      /\ run.at \in {"registered", "snapped"} => run # Selecting
      /\ TypeOK /\ clients \subseteq Clients
  BY RunType DEF TypeOK, HubTypeOK
<1>1. ASSUME NEW c \in Clients, HandlerNext(c) \/ PumpNext(c) \/ PingNext(c)
      PROVE  Settled'
  <2>1. UNCHANGED <<clients, budgetBuckets, call, run, send>>
    BY <1>1 DEF HandlerNext, PumpNext, PingNext, Reject, Connect, ReadError, PumpReceive, PumpLock,
      PumpWritten, PumpWriteError, PumpDrained, PingTick, PingLock, PingWritten, PingDone, hubVars,
      queueVars
  <2>2. \A d \in Clients : budgetIDs'[d] = budgetIDs[d] \/ handler[d] = "new"
    BY <1>1 DEF HandlerNext, PumpNext, PingNext, Reject, Connect, ReadError, PumpReceive, PumpLock,
      PumpWritten, PumpWriteError, PumpDrained, PingTick, PingLock, PingWritten, PingDone, TypeOK,
      ClientTypeOK
  <2>3. QED
    BY <2>1, <2>2, SettledFrame
<1>2. ASSUME NEW c \in Clients, HubRegister(c) PROVE Settled'
  <2>1. /\ UNCHANGED <<clients, budgetBuckets, call, budgetIDs>> /\ handler[c] = "registering"
        /\ run' = [at |-> "registered", client |-> c]
    BY <1>2 DEF HubRegister
  <2>2. c \notin clients /\ send[c] = "nil"
    BY <2>1 DEF ClientsOpen, Untouched
  <2>3. \A d \in Clients : send[d] = "closed" => send'[d] = "closed"
    BY <1>2, <2>2 DEF HubRegister, TypeOK, ClientTypeOK
  <2>4. CallsKnown'
    BY <2>1, <2>3, CallNames DEF Settled, CallsKnown
  <2>5. RegistersFresh'
    BY <2>1, <2>2 DEF RegistersFresh
  <2>6. BucketsMatch'
    BY <2>1 DEF Settled, BucketsMatch, Changing, Bucket
  <2>7. QED
    BY <2>4, <2>5, <2>6 DEF Settled
<1>3. ASSUME NEW c \in Clients, HubUnregister(c) \/ HubEject(c) PROVE Settled'
  <2>1. Unregistered(c) /\ run' = Selecting /\ UNCHANGED <<budgetIDs, call>>
    BY <1>3 DEF HubUnregister, HubEject
  <2>2. CASE ~IsClient(c)
    <3>1. UNCHANGED <<clients, budgetBuckets, send>>
      BY <2>1, <2>2 DEF Unregistered
    <3>2. run' = run
      BY <1>3 DEF HubUnregister, HubEject
    <3>3. QED
      BY <2>1, <3>1, <3>2, SettledFrame
  <2>3. CASE IsClient(c)
    <3>1. /\ clients' = clients \ {c} /\ budgetBuckets' = Removed(c, DOMAIN budgetBuckets)
          /\ \A d \in Clients : send'[d] = IF d = c THEN "closed" ELSE send[d]
      BY <2>1, <2>3 DEF Unregistered, TypeOK, ClientTypeOK
    <3>2. CallsKnown'
      <4> SUFFICES ASSUME NEW k \in Callers, call[k].at # "idle"
                   PROVE  /\ call[k].client \in clients' \/ send'[call[k].client] = "closed"
                          /\ call[k].budget \in budgetIDs[call[k].client] <=> call[k].at = "subscribe"
        BY <2>1 DEF CallsKnown
      <4>1. call[k].client \in Clients
        BY <1>0, CallNames
      <4>2. QED
        BY <3>1, <4>1 DEF Settled, CallsKnown
    <3>3. RegistersFresh'
      BY <2>1 DEF RegistersFresh
    <3>4. \A d \in Clients, b \in Budgets : d # c => (d \in Bucket(b)' <=> d \in Bucket(b))
      BY <1>0, <3>1, RemovedMembers
    <3>5. BucketsMatch'
      BY <1>0, <2>1, <3>1, <3>4 DEF Settled, BucketsMatch, Changing
    <3>6. QED
      BY <3>2, <3>3, <3>5 DEF Settled
  <2>4. QED
    BY <2>2, <2>3
<1>4. CASE HubSnapshot
  <2>1. /\ UNCHANGED <<clients, budgetBuckets, call, budgetIDs, send>> /\ run # Selecting
        /\ run' = [at |-> "snapped", client |-> run.client, snap |-> budgetIDs[run.client]]
    BY <1>0, <1>4 DEF HubSnapshot, clientVars, queueVars
  <2>2. RegistersFresh'
    BY <2>1 DEF Settled, RegistersFresh
  <2>3. CallsKnown' /\ BucketsMatch'
    BY <2>1 DEF Settled, CallsKnown, BucketsMatch, Changing, Bucket
  <2>4. QED
    BY <2>2, <2>3 DEF Settled
<1>5. CASE HubIndex
  <2> DEFINE c == run.client
  <2>1. /\ UNCHANGED <<call, budgetIDs, send>> /\ run # Selecting /\ c \in Clients
        /\ clients' = clients \cup {c} /\ budgetBuckets' = Indexed(c, run.snap) /\ run' = Selecting
        /\ run.snap = budgetIDs[c] /\ c \notin clients /\ send[c] = "open"
    BY <1>0, <1>5 DEF HubIndex, clientVars, queueVars, Settled, RegistersFresh, Registering
  <2>2. budgetIDs[c] \subseteq Budgets
    BY <2>1 DEF TypeOK, ClientTypeOK
  <2>3. \A b \in Budgets : c \notin Bucket(b)
    BY <2>1 DEF IndexSound, Bucket
  <2>4. \A d \in Clients, b \in Budgets : d \in Bucket(b)' <=> d \in Bucket(b) \/ (d = c /\ b \in budgetIDs[c])
    BY <1>0, <2>1, <2>2, AddedMembers
  <2> HIDE DEF c
  <2>5. CallsKnown'
    BY <2>1 DEF Settled, CallsKnown
  <2>6. RegistersFresh'
    BY <2>1 DEF RegistersFresh
  <2>7. BucketsMatch'
    BY <1>0, <2>1, <2>3, <2>4 DEF Settled, BucketsMatch, Changing
  <2>8. QED
    BY <2>5, <2>6, <2>7 DEF Settled
<1>6. CASE HubBroadcast \/ HubMarshalError \/ \E b \in Budgets : BroadcastToBudget(b)
  <2>1. UNCHANGED <<clients, budgetBuckets, call, run, send, budgetIDs>>
    BY <1>6 DEF HubBroadcast, HubMarshalError, BroadcastToBudget, clientVars, queueVars
  <2>2. QED
    BY <2>1, SettledFrame
<1>7. ASSUME NEW k \in Callers, NEW c \in Clients, NEW b \in Budgets,
             Subscribe(k, c, b) \/ Unsubscribe(k, c, b)
      PROVE  Settled'
  <2>1. UNCHANGED <<clients, budgetBuckets, run, send>> /\ c \in clients /\ call[k] = Idle
    BY <1>7 DEF Subscribe, Unsubscribe, Callable, hubVars, queueVars
  <2>2. /\ call'[k].at \in {"subscribe", "unsubscribe"} /\ call'[k].client = c /\ call'[k].budget = b
        /\ b \in budgetIDs'[c] <=> call'[k].at = "subscribe"
        /\ \A d \in Clients, e \in Budgets : ~(d = c /\ e = b) => (e \in budgetIDs'[d] <=> e \in budgetIDs[d])
        /\ \A d \in Clients : d # c => budgetIDs'[d] = budgetIDs[d]
    <3>1. CASE Subscribe(k, c, b)
      BY <3>1 DEF Subscribe, TypeOK, ClientTypeOK, HubTypeOK
    <3>2. CASE Unsubscribe(k, c, b)
      BY <3>2 DEF Unsubscribe, TypeOK, ClientTypeOK, HubTypeOK
    <3>3. QED
      BY <1>7, <3>1, <3>2
  <2>3. CallsKnown'
    BY <2>1, <2>2 DEF CallsKnown
  <2>4. RegistersFresh'
    BY <1>0, <2>1, <2>2 DEF Settled, RegistersFresh
  <2>5. BucketsMatch'
    <3> SUFFICES ASSUME NEW d \in clients, NEW e \in Budgets, ~Changing(d, e)'
                 PROVE  d \in Bucket(e) <=> e \in budgetIDs'[d]
      BY <2>1 DEF BucketsMatch, Bucket
    <3>1. ~(d = c /\ e = b)
      BY <2>2 DEF Changing
    <3>2. ~Changing(d, e)
      BY <2>1 DEF Changing, Idle
    <3>3. QED
      BY <1>0, <2>2, <3>1, <3>2 DEF Settled, BucketsMatch
  <2>6. QED
    BY <2>3, <2>4, <2>5 DEF Settled
<1>8. ASSUME NEW k \in Callers, SubscribeIndex(k) \/ UnsubscribeIndex(k) PROVE Settled'
  <2>0. PICK c \in Clients, b \in Budgets : c = call[k].client /\ b = call[k].budget
    BY <1>8, CallType DEF SubscribeIndex, UnsubscribeIndex
  <2>1. /\ UNCHANGED <<clients, run, send, budgetIDs>> /\ call'[k] = Idle
        /\ call[k].at \in {"subscribe", "unsubscribe"}
    BY <1>8 DEF SubscribeIndex, UnsubscribeIndex, clientVars, queueVars, TypeOK, HubTypeOK
  <2>2. b \in budgetIDs[c] <=> call[k].at = "subscribe"
    BY <2>0, <2>1 DEF Settled, CallsKnown
  <2>3. /\ \A d \in clients, e \in Budgets : ~(d = c /\ e = b) => (d \in Bucket(e)' <=> d \in Bucket(e))
        /\ c \in clients => (c \in Bucket(b)' <=> call[k].at = "subscribe")
    <3>1. CASE UnsubscribeIndex(k)
      <4>1. budgetBuckets' = Removed(c, {b}) /\ call[k].at = "unsubscribe"
        BY <2>0, <3>1 DEF UnsubscribeIndex
      <4>2. \A d \in Clients, e \in Budgets : d \in Bucket(e)' <=> d \in Bucket(e) /\ ~(d = c /\ e \in {b})
        BY <1>0, <2>1, <4>1, RemovedMembers
      <4>3. QED
        BY <1>0, <2>1, <4>1, <4>2
    <3>2. CASE SubscribeIndex(k) /\ c \in clients
      <4>1. budgetBuckets' = Indexed(c, {b}) /\ call[k].at = "subscribe" /\ {b} \subseteq Budgets
        BY <2>0, <2>1, <3>2 DEF SubscribeIndex
      <4>2. \A d \in Clients, e \in Budgets : d \in Bucket(e)' <=> d \in Bucket(e) \/ (d = c /\ e \in {b})
        BY <1>0, <2>1, <4>1, AddedMembers
      <4>3. QED
        BY <1>0, <2>1, <4>1, <4>2
    <3>3. CASE SubscribeIndex(k) /\ c \notin clients
      BY <2>0, <3>3 DEF SubscribeIndex, Bucket
    <3>4. QED
      BY <1>8, <3>1, <3>2, <3>3
  <2>4. CallsKnown'
    BY <2>1 DEF CallsKnown, Idle
  <2>5. RegistersFresh'
    BY <2>1 DEF Settled, RegistersFresh
  <2>6. BucketsMatch'
    <3> SUFFICES ASSUME NEW d \in clients, NEW e \in Budgets
                 PROVE  d \in Bucket(e)' <=> e \in budgetIDs[d]
      BY <2>1 DEF BucketsMatch
    <3>1. CASE d = c /\ e = b
      BY <2>2, <2>3, <3>1
    <3>2. CASE ~(d = c /\ e = b)
      <4>1. ~Changing(d, e)
        BY <2>0, <3>2 DEF Changing
      <4>2. QED
        BY <2>3, <3>2, <4>1 DEF Settled, BucketsMatch
    <3>3. QED
      BY <3>1, <3>2
  <2>7. QED
    BY <2>4, <2>5, <2>6 DEF Settled
<1>9. CASE UNCHANGED vars
  <2>1. UNCHANGED <<clients, budgetBuckets, call, run, send, budgetIDs>>
    BY <1>9 DEF vars, hubVars, clientVars, queueVars
  <2>2. QED
    BY <2>1, SettledFrame
<1>10. QED
  BY <1>1, <1>2, <1>3, <1>4, <1>5, <1>6, <1>7, <1>8, <1>9 DEF Next, RunNext, CallNext

\* One caller that waits until Run has indexed its client leaves the buckets
\* consistent with BudgetIDs (hub.go:306-307), whatever connects, disconnects and
\* is dropped meanwhile.
THEOREM AlwaysSettles ==
  ASSUME CallAfterIndexed, \A j, k \in Callers : j = k
  PROVE  Spec => []SettledConsistent
<1>1. TypeOK /\ Settled => SettledConsistent
  BY DEF Settled, BucketsMatch, Changing, SettledConsistent, Idle, TypeOK, ClientTypeOK, HubTypeOK
<1>2. Inv /\ Settled /\ [Next]_vars => Settled'
  BY SettledStep
<1>3. Inv => TypeOK
  BY DEF Inv
<1> QED
  BY <1>1, <1>2, <1>3, SettledInit, Invariance, PTL DEF Spec

============================================================================
