-------------------------------- MODULE Hub --------------------------------
(***************************************************************************)
(* The WebSocket hub: internal/ws/hub.go and the connection handler of     *)
(* internal/handlers/ws.go.                                                *)
(*                                                                         *)
(* Per connection three goroutines share one Client: the handler (its read *)
(* loop), the ping goroutine and writePump.  One goroutine, Run, owns the  *)
(* client set and the per-budget buckets; HTTP handlers hand it broadcasts *)
(* over a bounded channel.  Callers stand for goroutines that are inside   *)
(* SubscribeToBudget or UnsubscribeFromBudget.  A Client is used for one   *)
(* connection only, so Clients is the set of all connections ever made.    *)
(*                                                                         *)
(* A message is abstracted to the budget it is about.  A slow peer is a    *)
(* Conn.WriteMessage that need not return while the connection is open.    *)
(***************************************************************************)
EXTENDS Naturals, Sequences, FiniteSets

CONSTANTS Clients,        \* connections
          Budgets,        \* budget ids
          Callers,        \* goroutines calling Subscribe / Unsubscribe
          CallAfterIndexed, \* callers wait until Run has indexed their client
          SendBufSize,    \* sendBufSize (32 in the code)
          BroadcastCap    \* capacity of Hub.broadcast (256 in the code)

ASSUME CallAssumption == CallAfterIndexed \in BOOLEAN
ASSUME SendBufAssumption == SendBufSize \in Nat \ {0}
ASSUME BroadcastCapAssumption == BroadcastCap \in Nat \ {0}

VARIABLES
  handler,       \* where WebSocketHandler is, per connection
  budgetIDs,     \* Client.BudgetIDs
  send,          \* Client.send: not made yet, open or closed
  sendQ,         \* the messages buffered in Client.send
  ejecting,      \* Client.ejecting
  ejectors,      \* goroutines blocked in the `go h.Unregister(client)` of a drop
  connOpen,      \* Client.Conn has not been closed
  mu,            \* who holds Client.mu across a blocking Conn write
  pump,          \* the writePump goroutine
  ping,          \* the ping goroutine of the handler
  clients,       \* Hub.clients
  budgetBuckets, \* Hub.budgetBuckets: a partial function, as in the code
  broadcast,     \* Hub.broadcast
  run,           \* where Run is; inside the register branch, for whom
  call,          \* what each caller is in the middle of
  panicked       \* a send on, or a close of, a closed channel

hubVars    == <<clients, budgetBuckets, broadcast, run, panicked>>
queueVars  == <<send, sendQ, ejecting, ejectors>>
writeVars  == <<mu, pump, ping>>
clientVars == <<handler, budgetIDs, queueVars, connOpen, writeVars>>
vars       == <<hubVars, clientVars, call>>

----------------------------------------------------------------------------
(* State *)

Idle == [at |-> "idle"]
Selecting == [at |-> "select"]

HubStates ==
  {Selecting}
    \cup [at : {"registered"}, client : Clients]
    \cup [at : {"snapped"}, client : Clients, snap : SUBSET Budgets]

CallStates ==
  {Idle} \cup [at : {"subscribe", "unsubscribe"}, client : Clients, budget : Budgets]

ClientTypeOK ==
  /\ handler \in [Clients -> {"new", "rejected", "registering", "reading",
                              "closing", "done"}]
  /\ budgetIDs \in [Clients -> SUBSET Budgets]
  /\ send \in [Clients -> {"nil", "open", "closed"}]
  /\ sendQ \in [Clients -> Seq(Budgets)]
  /\ \A c \in Clients : Len(sendQ[c]) <= SendBufSize
  /\ ejecting \in [Clients -> BOOLEAN]
  /\ ejectors \in [Clients -> Nat]
  /\ connOpen \in [Clients -> BOOLEAN]
  /\ mu \in [Clients -> {"free", "pump", "ping"}]
  /\ pump \in [Clients -> {"off", "ranging", "locking", "writing", "stopped"}]
  /\ ping \in [Clients -> {"off", "idle", "locking", "writing", "stopped"}]

HubTypeOK ==
  /\ clients \subseteq Clients
  /\ DOMAIN budgetBuckets \subseteq Budgets
  /\ budgetBuckets \in [DOMAIN budgetBuckets -> SUBSET Clients]
  /\ broadcast \in Seq(Budgets)
  /\ Len(broadcast) <= BroadcastCap
  /\ run \in HubStates
  /\ call \in [Callers -> CallStates]
  /\ panicked \in BOOLEAN

TypeOK == ClientTypeOK /\ HubTypeOK

Init ==
  /\ handler = [c \in Clients |-> "new"]
  /\ budgetIDs = [c \in Clients |-> {}]
  /\ send = [c \in Clients |-> "nil"]
  /\ sendQ = [c \in Clients |-> <<>>]
  /\ ejecting = [c \in Clients |-> FALSE]
  /\ ejectors = [c \in Clients |-> 0]
  /\ connOpen = [c \in Clients |-> TRUE]
  /\ mu = [c \in Clients |-> "free"]
  /\ pump = [c \in Clients |-> "off"]
  /\ ping = [c \in Clients |-> "off"]
  /\ clients = {}
  /\ budgetBuckets = [b \in {} |-> {}]
  /\ broadcast = <<>>
  /\ run = Selecting
  /\ call = [k \in Callers |-> Idle]
  /\ panicked = FALSE

Bucket(b) == IF b \in DOMAIN budgetBuckets THEN budgetBuckets[b] ELSE {}

\* The buckets with c indexed under every budget of bs.
Indexed(c, bs) ==
  [b \in DOMAIN budgetBuckets \cup bs |->
     IF b \in bs THEN Bucket(b) \cup {c} ELSE Bucket(b)]

\* Mutant of Removed: the client leaves the buckets of its other budgets too.
RemovedEverywhere(c, bs) ==
  [b \in {b \in DOMAIN budgetBuckets : budgetBuckets[b] \ {c} # {}} |->
     budgetBuckets[b] \ {c}]

\* The buckets with c taken out of those of bs, and the emptied ones deleted.
Removed(c, bs) ==
  [b \in {b \in DOMAIN budgetBuckets : b \notin bs \/ budgetBuckets[b] \ {c} # {}} |->
     IF b \in bs THEN budgetBuckets[b] \ {c} ELSE budgetBuckets[b]]

----------------------------------------------------------------------------
(* WebSocketHandler, up to the point where it blocks in Register *)

\* The auth message is missing, malformed or carries a token that is invalid
\* or whose session is revoked.
Reject(c) ==
  /\ handler[c] = "new"
  /\ handler' = [handler EXCEPT ![c] = "rejected"]
  /\ connOpen' = [connOpen EXCEPT ![c] = FALSE]
  /\ UNCHANGED <<hubVars, budgetIDs, queueVars, writeVars, call>>

\* Any set of budgets: fetchUserBudgetIDs skips rows it cannot scan, and its
\* error leaves BudgetIDs nil.
Connect(c) ==
  /\ handler[c] = "new"
  /\ handler' = [handler EXCEPT ![c] = "registering"]
  /\ \E ids \in SUBSET Budgets : budgetIDs' = [budgetIDs EXCEPT ![c] = ids]
  /\ UNCHANGED <<hubVars, queueVars, connOpen, writeVars, call>>

\* ReadMessage fails: the peer went away or the connection was closed.  The
\* read loop ends, close(done), and the deferred Unregister blocks.
ReadError(c) ==
  /\ handler[c] = "reading"
  /\ handler' = [handler EXCEPT ![c] = "closing"]
  /\ UNCHANGED <<hubVars, budgetIDs, queueVars, connOpen, writeVars, call>>

\* No pong can have moved the read deadline: no ping goes out any more.
NoPongs(c) == ~connOpen[c] \/ mu[c] = "pump" \/ ping[c] = "stopped"

----------------------------------------------------------------------------
(* Run *)

\* register branch, first part: the channel is made and writePump started.
\* Register returns as soon as Run has received, so the handler goes on to
\* its read loop and its ping goroutine while Run is still in the branch.
HubRegister(c) ==
  /\ run = Selecting
  /\ handler[c] = "registering"
  /\ handler' = [handler EXCEPT ![c] = "reading"]
  /\ ping' = [ping EXCEPT ![c] = "idle"]
  /\ send' = [send EXCEPT ![c] = "open"]
  /\ pump' = [pump EXCEPT ![c] = "ranging"]
  /\ run' = [at |-> "registered", client |-> c]
  /\ UNCHANGED <<budgetIDs, sendQ, ejecting, ejectors, connOpen, mu, clients, budgetBuckets, broadcast, call, panicked>>

\* register branch, second part: BudgetIDs copied under client.mu.
HubSnapshot ==
  /\ run.at = "registered"
  /\ mu[run.client] = "free"
  /\ run' = [at |-> "snapped", client |-> run.client, snap |-> budgetIDs[run.client]]
  /\ UNCHANGED <<clientVars, clients, budgetBuckets, broadcast, call, panicked>>

\* register branch, third part: under h.mu.
HubIndex ==
  /\ run.at = "snapped"
  /\ clients' = clients \cup {run.client}
  /\ budgetBuckets' = Indexed(run.client, run.snap)
  /\ run' = Selecting
  /\ UNCHANGED <<clientVars, broadcast, call, panicked>>

\* Mutant of IsClient: the membership test is left out.
AnyClient(c) == TRUE

\* `_, ok := h.clients[client]; ok`
IsClient(c) == c \in clients

\* Mutant of Unregistered: client.send is not closed.
UnregisteredUnclosed(c) ==
  IF IsClient(c)
  THEN /\ clients' = clients \ {c}
       /\ budgetBuckets' = Removed(c, DOMAIN budgetBuckets)
       /\ connOpen' = [connOpen EXCEPT ![c] = FALSE]
       /\ UNCHANGED <<send, panicked>>
  ELSE UNCHANGED <<clients, budgetBuckets, send, panicked, connOpen>>

\* The body of the unregister branch.
Unregistered(c) ==
  IF IsClient(c)
  THEN /\ clients' = clients \ {c}
       /\ budgetBuckets' = Removed(c, DOMAIN budgetBuckets)
       /\ send' = [send EXCEPT ![c] = "closed"]
       /\ panicked' = (panicked \/ send[c] = "closed")
       /\ connOpen' = [connOpen EXCEPT ![c] = FALSE]
  ELSE UNCHANGED <<clients, budgetBuckets, send, panicked, connOpen>>

\* Mutant of HubUnregister: the branch takes client.mu.
HubUnregisterLocked(c) ==
  /\ run = Selecting
  /\ handler[c] = "closing"
  /\ mu[c] = "free"
  /\ handler' = [handler EXCEPT ![c] = "done"]
  /\ Unregistered(c)
  /\ UNCHANGED <<budgetIDs, sendQ, ejecting, ejectors, writeVars, broadcast, run, call>>

\* Mutant of HubUnregister: the Client is used again for a reconnection.
HubUnregisterReuse(c) ==
  /\ run = Selecting
  /\ handler[c] = "closing"
  /\ handler' = [handler EXCEPT ![c] = "registering"]
  /\ Unregistered(c)
  /\ UNCHANGED <<budgetIDs, sendQ, ejecting, ejectors, writeVars, broadcast, run, call>>

\* unregister branch, receiving from the handler's deferred Unregister.
HubUnregister(c) ==
  /\ run = Selecting
  /\ handler[c] = "closing"
  /\ handler' = [handler EXCEPT ![c] = "done"]
  /\ Unregistered(c)
  /\ UNCHANGED <<budgetIDs, sendQ, ejecting, ejectors, writeVars, broadcast, run, call>>

\* Mutant of HubEject: the request is lost because Run is not at its select.
HubEjectLost(c) ==
  /\ ejectors[c] > 0
  /\ ejectors' = [ejectors EXCEPT ![c] = @ - 1]
  /\ UNCHANGED <<hubVars, handler, budgetIDs, send, sendQ, ejecting, connOpen, writeVars, call>>

\* unregister branch, receiving from the goroutine of a slow-client drop.
HubEject(c) ==
  /\ run = Selecting
  /\ ejectors[c] > 0
  /\ ejectors' = [ejectors EXCEPT ![c] = @ - 1]
  /\ Unregistered(c)
  /\ UNCHANGED <<handler, budgetIDs, sendQ, ejecting, writeVars, broadcast, run, call>>

\* Mutant of NeedsEject: the ejecting flag is not looked at.
NeedsEjectAlways(c) == TRUE

\* `!client.ejecting`
NeedsEject(c) == ~ejecting[c]

\* The non-blocking `client.send <- data` goes through.
HasRoom(c) == send[c] = "open" /\ Len(sendQ[c]) < SendBufSize

\* broadcast branch.  The sends are non-blocking; a client whose buffer is
\* full gets an asynchronous Unregister, once.
HubBroadcast ==
  /\ run = Selecting
  /\ broadcast # <<>>
  /\ broadcast' = Tail(broadcast)
  /\ LET b == Head(broadcast)
         takes == {c \in Bucket(b) : HasRoom(c)}
         slow == {c \in Bucket(b) \ takes : NeedsEject(c)}
     IN  /\ sendQ' = [c \in Clients |->
                        IF c \in takes THEN Append(sendQ[c], b) ELSE sendQ[c]]
         /\ ejecting' = [c \in Clients |-> ejecting[c] \/ c \in slow]
         /\ ejectors' = [c \in Clients |->
                           IF c \in slow THEN ejectors[c] + 1 ELSE ejectors[c]]
         /\ panicked' = (panicked \/ \E c \in Bucket(b) : send[c] = "closed")
  /\ UNCHANGED <<handler, budgetIDs, send, connOpen, writeVars, clients, budgetBuckets, run, call>>

\* json.Marshal fails: the message is skipped.
HubMarshalError ==
  /\ run = Selecting
  /\ broadcast # <<>>
  /\ broadcast' = Tail(broadcast)
  /\ UNCHANGED <<clientVars, clients, budgetBuckets, run, call, panicked>>

\* An HTTP handler gets its message into the channel.
BroadcastToBudget(b) ==
  /\ Len(broadcast) < BroadcastCap
  /\ broadcast' = Append(broadcast, b)
  /\ UNCHANGED <<clientVars, clients, budgetBuckets, run, call, panicked>>

----------------------------------------------------------------------------
(* writePump *)

PumpReceive(c) ==
  /\ pump[c] = "ranging"
  /\ sendQ[c] # <<>>
  /\ sendQ' = [sendQ EXCEPT ![c] = Tail(@)]
  /\ pump' = [pump EXCEPT ![c] = "locking"]
  /\ UNCHANGED <<hubVars, handler, budgetIDs, send, ejecting, ejectors, connOpen, mu, ping, call>>

PumpLock(c) ==
  /\ pump[c] = "locking"
  /\ mu[c] = "free"
  /\ mu' = [mu EXCEPT ![c] = "pump"]
  /\ pump' = [pump EXCEPT ![c] = "writing"]
  /\ UNCHANGED <<hubVars, handler, budgetIDs, queueVars, connOpen, ping, call>>

\* Conn.WriteMessage succeeds; it may also stay blocked for as long as the
\* connection is open, for writePump sets no deadline.
PumpWritten(c) ==
  /\ pump[c] = "writing"
  /\ connOpen[c]
  /\ mu' = [mu EXCEPT ![c] = "free"]
  /\ pump' = [pump EXCEPT ![c] = "ranging"]
  /\ UNCHANGED <<hubVars, handler, budgetIDs, queueVars, connOpen, ping, call>>

PumpWriteError(c) ==
  /\ pump[c] = "writing"
  /\ mu' = [mu EXCEPT ![c] = "free"]
  /\ pump' = [pump EXCEPT ![c] = "stopped"]
  /\ UNCHANGED <<hubVars, handler, budgetIDs, queueVars, connOpen, ping, call>>

\* The range over a closed channel ends once its buffer is drained.
PumpDrained(c) ==
  /\ pump[c] = "ranging"
  /\ send[c] = "closed"
  /\ sendQ[c] = <<>>
  /\ pump' = [pump EXCEPT ![c] = "stopped"]
  /\ UNCHANGED <<hubVars, handler, budgetIDs, queueVars, connOpen, mu, ping, call>>

----------------------------------------------------------------------------
(* The ping goroutine *)

PingTick(c) ==
  /\ ping[c] = "idle"
  /\ ping' = [ping EXCEPT ![c] = "locking"]
  /\ UNCHANGED <<hubVars, handler, budgetIDs, queueVars, connOpen, mu, pump, call>>

PingLock(c) ==
  /\ ping[c] = "locking"
  /\ mu[c] = "free"
  /\ mu' = [mu EXCEPT ![c] = "ping"]
  /\ ping' = [ping EXCEPT ![c] = "writing"]
  /\ UNCHANGED <<hubVars, handler, budgetIDs, queueVars, connOpen, pump, call>>

\* WriteControl returns within its ten seconds; an error ends the goroutine.
PingWritten(c) ==
  /\ ping[c] = "writing"
  /\ mu' = [mu EXCEPT ![c] = "free"]
  /\ \/ connOpen[c] /\ ping' = [ping EXCEPT ![c] = "idle"]
     \/ ping' = [ping EXCEPT ![c] = "stopped"]
  /\ UNCHANGED <<hubVars, handler, budgetIDs, queueVars, connOpen, pump, call>>

\* `<-done`
PingDone(c) ==
  /\ ping[c] = "idle"
  /\ handler[c] \in {"closing", "done"}
  /\ ping' = [ping EXCEPT ![c] = "stopped"]
  /\ UNCHANGED <<hubVars, handler, budgetIDs, queueVars, connOpen, mu, pump, call>>

----------------------------------------------------------------------------
(* SubscribeToBudget and UnsubscribeFromBudget: client.mu, then h.mu *)

\* The handler has built the Client; a careful caller also waits for Run.
Callable(c) ==
  /\ handler[c] \notin {"new", "rejected"}
  /\ CallAfterIndexed => c \in clients

Subscribe(k, c, b) ==
  /\ call[k] = Idle /\ Callable(c)
  /\ mu[c] = "free"
  /\ budgetIDs' = [budgetIDs EXCEPT ![c] = @ \cup {b}]
  /\ call' = [call EXCEPT ![k] = [at |-> "subscribe", client |-> c, budget |-> b]]
  /\ UNCHANGED <<hubVars, handler, queueVars, connOpen, writeVars>>

\* Mutant of SubscribeIndex: the h.clients test is left out.
SubscribeIndexAlways(k) ==
  /\ call[k].at = "subscribe"
  /\ budgetBuckets' = Indexed(call[k].client, {call[k].budget})
  /\ call' = [call EXCEPT ![k] = Idle]
  /\ UNCHANGED <<clientVars, clients, broadcast, run, panicked>>

SubscribeIndex(k) ==
  /\ call[k].at = "subscribe"
  /\ budgetBuckets' = IF call[k].client \in clients
                      THEN Indexed(call[k].client, {call[k].budget})
                      ELSE budgetBuckets
  /\ call' = [call EXCEPT ![k] = Idle]
  /\ UNCHANGED <<clientVars, clients, broadcast, run, panicked>>

Unsubscribe(k, c, b) ==
  /\ call[k] = Idle /\ Callable(c)
  /\ mu[c] = "free"
  /\ budgetIDs' = [budgetIDs EXCEPT ![c] = @ \ {b}]
  /\ call' = [call EXCEPT ![k] = [at |-> "unsubscribe", client |-> c, budget |-> b]]
  /\ UNCHANGED <<hubVars, handler, queueVars, connOpen, writeVars>>

UnsubscribeIndex(k) ==
  /\ call[k].at = "unsubscribe"
  /\ budgetBuckets' = Removed(call[k].client, {call[k].budget})
  /\ call' = [call EXCEPT ![k] = Idle]
  /\ UNCHANGED <<clientVars, clients, broadcast, run, panicked>>

----------------------------------------------------------------------------
HandlerNext(c) == Reject(c) \/ Connect(c) \/ ReadError(c)
PumpNext(c) == \/ PumpReceive(c) \/ PumpLock(c) \/ PumpWritten(c)
               \/ PumpWriteError(c) \/ PumpDrained(c)
PingNext(c) == PingTick(c) \/ PingLock(c) \/ PingWritten(c) \/ PingDone(c)
RunNext == \/ \E c \in Clients : HubRegister(c) \/ HubUnregister(c) \/ HubEject(c)
           \/ HubSnapshot \/ HubIndex \/ HubBroadcast \/ HubMarshalError
CallNext(k) == \/ \E c \in Clients, b \in Budgets : Subscribe(k, c, b) \/ Unsubscribe(k, c, b)
               \/ SubscribeIndex(k) \/ UnsubscribeIndex(k)

Next ==
  \/ RunNext
  \/ \E c \in Clients : HandlerNext(c) \/ PumpNext(c) \/ PingNext(c)
  \/ \E b \in Budgets : BroadcastToBudget(b)
  \/ \E k \in Callers : CallNext(k)

Spec == Init /\ [][Next]_vars

(***************************************************************************)
(* What the scheduler and the network guarantee.  Goroutines that can run  *)
(* do run; Go's select picks at random among its ready cases and a channel *)
(* serves its blocked senders in order; a mutex is handed over to a waiter *)
(* that keeps losing it (starvation mode), hence SF for the one place      *)
(* where Run waits for client.mu.  A write returns once the connection is  *)
(* closed, a ping within its deadline, a read once the connection is       *)
(* closed or no pong comes.  NOT assumed: that a write to an open          *)
(* connection ever returns, that a peer ever goes away, that anyone ever   *)
(* broadcasts.                                                             *)
(***************************************************************************)
Fairness ==
  /\ \A c \in Clients :
       /\ WF_vars(HubRegister(c))
       /\ WF_vars(HubUnregister(c))
       /\ WF_vars(HubEject(c))
       /\ WF_vars(NoPongs(c) /\ ReadError(c))
       /\ WF_vars(PumpReceive(c) \/ PumpLock(c) \/ PumpDrained(c))
       /\ WF_vars(~connOpen[c] /\ PumpWriteError(c))
       /\ WF_vars(PingLock(c) \/ PingWritten(c))
       /\ WF_vars(PingDone(c))
  /\ SF_vars(HubSnapshot)
  /\ WF_vars(HubIndex)
  /\ WF_vars(HubBroadcast \/ HubMarshalError)

FairSpec == Spec /\ Fairness

----------------------------------------------------------------------------
(* Properties *)

\* Run never sends on a closed channel and never closes one twice, although a
\* slow client is unregistered both by its drop and by its own handler, in
\* either order (hub.go:232-239, 260-268).
NoPanic == ~panicked

\* A budget has a bucket only while it has a subscriber, and every subscriber
\* is a registered client whose channel is open: no goroutine in the middle of
\* Subscribe, Register or Unregister leaves a dead client (or an empty bucket)
\* behind for the broadcast path to walk (hub.go:224-231, 319-326, 349-354).
IndexSound ==
  \A b \in DOMAIN budgetBuckets :
    /\ budgetBuckets[b] # {}
    /\ \A c \in budgetBuckets[b] : c \in clients /\ send[c] = "open"

\* However many broadcasts a stalled client misses, at most one goroutine is
\* waiting to unregister it (hub.go:254-256, "dedupes repeated drops").
SingleEjector == \A c \in Clients : ejectors[c] <= 1

\* Run never waits for the client.mu of the client it is registering while
\* writePump holds it in a write to a slow peer (hub.go:182-186): that wait
\* would stop every client's broadcasts.  It rests on a Client being used for
\* one connection only (hub.go:70).
RegisterNotBehindWrite == run.at = "registered" => mu[run.client] # "pump"

\* With nobody inside Subscribe or Unsubscribe and Run back at its select, a
\* registered client is in exactly the buckets of its BudgetIDs
\* (hub.go:306-307, "leaves the bucket consistent with BudgetIDs once both
\* operations have settled").  TRUE for one caller that waits until Run has
\* indexed the client, FALSE for one that may call as soon as Register returns.
SettledConsistent ==
  (run = Selecting /\ \A k \in Callers : call[k] = Idle) =>
    \A c \in clients : {b \in Budgets : c \in Bucket(b)} = budgetIDs[c]

\* A client scheduled for a drop is dropped (hub.go:263-267).
EjectedLeaves == \A c \in Clients : ejecting[c] ~> c \notin clients

\* A handler whose read loop has ended gets out of its deferred Unregister,
\* and its connection is closed by then, also when writePump is stuck in a
\* write that holds client.mu: Run itself never gets stuck ("keep the hub loop
\* responsive", hub.go:210-214; ws.go:104).
HandlerLeaves ==
  \A c \in Clients : handler[c] = "closing" ~> (handler[c] = "done" /\ ~connOpen[c])

\* Neither writePump nor the ping goroutine outlives its connection for ever
\* (hub.go:93-95, "so the goroutine does not leak"), and a write that hangs on
\* an open connection is ended by the missing pongs.
NoGoroutineLeak ==
  \A c \in Clients :
    /\ pump[c] = "writing" ~> pump[c] # "writing"
    /\ handler[c] = "closing" ~> (pump[c] = "stopped" /\ ping[c] = "stopped")

============================================================================
