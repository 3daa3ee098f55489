--------------------------- MODULE CacheContract ---------------------------
(***************************************************************************)
(* What internal/cache promises its callers, with no list, no index and no *)
(* cap: a set of stored values with a remaining time to live, of which the *)
(* cache may forget any when something is stored.                          *)
(***************************************************************************)
EXTENDS Integers

CONSTANTS Keys, Budgets, Data, MaxTTL

VARIABLES stored,   \* key -> [data, left, budgetID], a partial function
          reply    \* the last call and what it returned

Done(call, arg) == [call |-> call, arg |-> arg]
Miss(k) == [call |-> "get", arg |-> k, hit |-> FALSE]
Hit(k, d) == [call |-> "get", arg |-> k, hit |-> TRUE, data |-> d]

Kept(S) == [k \in S |-> stored[k]]

Init == stored = [k \in {} |-> {}] /\ reply = [call |-> "new"]

\* A hit is the value last stored under k, not expired and not dropped since.
Get(k) ==
  \/ /\ k \in DOMAIN stored /\ stored[k].left >= 0
     /\ reply' = Hit(k, stored[k].data)
     /\ UNCHANGED stored
  \/ /\ k \in DOMAIN stored => stored[k].left < 0
     /\ reply' = Miss(k)
     /\ stored' = Kept(DOMAIN stored \ {k})

\* The new value is there afterwards; the cache may forget others.
Set(k, b, d, ttl) ==
  /\ \E S \in SUBSET (DOMAIN stored \ {k}) :
       stored' = [x \in S \cup {k} |->
                    IF x = k THEN [data |-> d, left |-> ttl, budgetID |-> b] ELSE stored[x]]
  /\ reply' = Done("set", k)

\* All of the budget goes, and nothing else.
InvalidateBudget(b) ==
  /\ stored' = Kept({k \in DOMAIN stored : stored[k].budgetID # b})
  /\ reply' = Done("invalidate", b)

Delete(k) == stored' = Kept(DOMAIN stored \ {k}) /\ reply' = Done("delete", k)

Sweep == stored' = Kept({k \in DOMAIN stored : stored[k].left >= 0}) /\ reply' = Done("sweep", {})

Clear == stored' = Kept({}) /\ reply' = Done("clear", {})

\* A TTL that is not positive.
SetDisabled(k) == UNCHANGED stored /\ reply' = Done("set", k)

Tick ==
  /\ stored' = [k \in DOMAIN stored |->
                  [stored[k] EXCEPT !.left = IF @ < 0 THEN @ ELSE @ - 1]]
  /\ UNCHANGED reply

Next ==
  \/ \E k \in Keys : Get(k) \/ Delete(k) \/ SetDisabled(k)
  \/ \E k \in Keys, b \in Budgets, d \in Data, ttl \in 1..MaxTTL : Set(k, b, d, ttl)
  \/ \E b \in Budgets : InvalidateBudget(b)
  \/ Sweep \/ Clear \/ Tick

Spec == Init /\ [][Next]_<<stored, reply>>

============================================================================
