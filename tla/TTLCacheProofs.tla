--------------------------- MODULE TTLCacheProofs ---------------------------
(***************************************************************************)
(* The invariants of TTLCache, and that it implements CacheContract, for   *)
(* any keys, budgets and values, any cap and any sweep interval.           *)
(***************************************************************************)
EXTENDS TTLCache, FiniteSetTheorems, TLAPS

\* A cache whose structures agree: the inductive part of the invariant.
Good(c) ==
  /\ DOMAIN c = {"entries", "listed", "older", "index"}
  /\ c.entries = [k \in DOMAIN c.entries |-> c.entries[k]]
  /\ DOMAIN c.entries \subseteq Keys
  /\ \A k \in DOMAIN c.entries : c.entries[k] \in Entry
  /\ ListOK(c)
  /\ IndexOK(c)

\* removeElement, for any set of keys, keeps map, list and index in step
\* (cache.go:256-268).
LEMMA WithoutGood ==
  ASSUME NEW c, Good(c), NEW S
  PROVE  Good(Without(c, S))
<1> DEFINE d == Without(c, S)
<1>1. /\ d.entries = [k \in DOMAIN c.entries \ S |-> c.entries[k]]
      /\ d.listed = c.listed \ S
      /\ d.older = {p \in c.older : p[1] \notin S /\ p[2] \notin S}
      /\ d.index = IndexWithout(c, S)
  BY DEF Without
<1>5. DOMAIN d = {"entries", "listed", "older", "index"}
  BY DEF Without
<1> HIDE DEF d
<1>2. /\ d.entries = [k \in DOMAIN d.entries |-> d.entries[k]]
      /\ DOMAIN d.entries = DOMAIN c.entries \ S
      /\ \A k \in DOMAIN d.entries : d.entries[k] = c.entries[k]
  BY <1>1
<1>3. ListOK(d)
  BY <1>1, <1>2 DEF Good, ListOK
<1>4. IndexOK(d)
  <2> DEFINE remaining(b) == c.index[b] \ {k \in S \cap DOMAIN c.entries : c.entries[k].budgetID = b}
  <2>1. /\ DOMAIN d.index = {b \in DOMAIN c.index : remaining(b) # {}}
        /\ \A b \in DOMAIN d.index : d.index[b] = remaining(b)
    BY <1>1 DEF IndexWithout
  <2>2. \A b \in DOMAIN c.index :
          remaining(b) = {k \in DOMAIN d.entries : d.entries[k].budgetID = b}
    BY <1>2 DEF Good, IndexOK
  <2>3. DOMAIN d.index = {d.entries[k].budgetID : k \in DOMAIN d.entries}
    BY <1>2, <2>1, <2>2 DEF Good, IndexOK
  <2> QED
    BY <2>1, <2>2, <2>3 DEF IndexOK
<1> QED
  BY <1>2, <1>3, <1>4, <1>5 DEF Good, d

\* Inserting a key that is not there keeps them in step (cache.go:193-202).
LEMMA PushedGood ==
  ASSUME NEW c, Good(c), NEW k \in Keys, k \notin DOMAIN c.entries, NEW e \in Entry
  PROVE  Good(Pushed(c, k, e))
<1> DEFINE d == Pushed(c, k, e)
<1>1. /\ d.entries = [x \in DOMAIN c.entries \cup {k} |-> IF x = k THEN e ELSE c.entries[x]]
      /\ d.listed = c.listed \cup {k}
      /\ d.older = c.older \cup (c.listed \X {k})
      /\ d.index = [b \in DOMAIN c.index \cup {e.budgetID} |->
                      (IF b \in DOMAIN c.index THEN c.index[b] ELSE {})
                        \cup (IF b = e.budgetID THEN {k} ELSE {})]
  BY DEF Pushed
<1>6. DOMAIN d = {"entries", "listed", "older", "index"}
  BY DEF Pushed
<1> HIDE DEF d
<1>2. /\ d.entries = [x \in DOMAIN d.entries |-> d.entries[x]]
      /\ DOMAIN d.entries = DOMAIN c.entries \cup {k}
      /\ \A x \in DOMAIN c.entries : d.entries[x] = c.entries[x]
      /\ d.entries[k] = e
  BY <1>1
<1>3. ListOK(d)
  BY <1>1, <1>2 DEF Good, ListOK
<1>4. IndexOK(d)
  <2>1. DOMAIN d.index = {d.entries[x].budgetID : x \in DOMAIN d.entries}
    BY <1>1, <1>2 DEF Good, IndexOK
  <2>2. \A b \in DOMAIN d.index : d.index[b] = {x \in DOMAIN d.entries : d.entries[x].budgetID = b}
    BY <1>1, <1>2 DEF Good, IndexOK
  <2> QED
    BY <2>1, <2>2 DEF IndexOK
<1>5. \A x \in DOMAIN d.entries : d.entries[x] \in Entry /\ x \in Keys
  BY <1>2 DEF Good
<1> QED
  BY <1>2, <1>3, <1>4, <1>5, <1>6 DEF Good, d

\* A hit keeps them in step, and its key is then the newest (cache.go:173).
LEMMA TouchedGood ==
  ASSUME NEW c, Good(c), NEW k \in DOMAIN c.entries
  PROVE  Good(Touched(c, k)) /\ Touched(c, k).entries = c.entries
<1> DEFINE d == Touched(c, k)
<1>1. /\ d.entries = c.entries
      /\ d.listed = c.listed
      /\ d.index = c.index
      /\ d.older = {p \in c.older : p[1] # k} \cup ((c.listed \ {k}) \X {k})
      /\ DOMAIN d = DOMAIN c
  BY DEF Touched, Good
<1> HIDE DEF d
<1>2. ListOK(d)
  BY <1>1 DEF Good, ListOK
<1> QED
  BY <1>1, <1>2 DEF Good, IndexOK, d

\* What is left after the eviction loop fits the cap: the number of newer
\* elements tells the elements of a list apart (cache.go:216-222).
LEMMA EvictedFits ==
  ASSUME NEW c, Good(c), IsFiniteSet(c.listed)
  PROVE  /\ IsFiniteSet(Evicted(c).listed)
         /\ Cardinality(Evicted(c).listed) <= MaxEntries
<1> DEFINE K == {k \in c.listed : Cardinality(Newer(c, k)) < MaxEntries}
           f == [k \in K |-> Cardinality(Newer(c, k))]
<1>1. \A k \in c.listed : Newer(c, k) \subseteq c.listed
  BY DEF Newer
<1>2. \A k \in c.listed : IsFiniteSet(Newer(c, k)) /\ Cardinality(Newer(c, k)) \in Nat
  BY <1>1, FS_Subset, FS_CardinalityType
<1>3. Evicted(c).listed = K
  BY <1>2, MaxEntriesAssumption DEF Evicted, Without
<1>4. K \in SUBSET c.listed
  OBVIOUS
<1>5. IsFiniteSet(K) /\ Cardinality(K) \in Nat
  BY <1>4, FS_Subset, FS_CardinalityType
<1>6. ASSUME NEW j \in c.listed, NEW k \in c.listed, <<j, k>> \in c.older
      PROVE  Cardinality(Newer(c, k)) # Cardinality(Newer(c, j))
  <2>1. Newer(c, k) \in SUBSET Newer(c, j)
    BY <1>6 DEF Newer, Good, ListOK
  <2>2. k \in Newer(c, j) /\ k \notin Newer(c, k)
    BY <1>6 DEF Newer, Good, ListOK
  <2> QED
    BY <1>2, <2>1, <2>2, FS_Subset
<1>7. \A j, k \in K : j # k => f[j] # f[k]
  <2> SUFFICES ASSUME NEW j \in K, NEW k \in K, j # k PROVE f[j] # f[k]
    OBVIOUS
  <2>1. <<j, k>> \in c.older \/ <<k, j>> \in c.older
    BY DEF Good, ListOK
  <2> QED
    BY <1>6, <2>1
<1>8. f \in [K -> 0..(MaxEntries - 1)]
  BY <1>2, MaxEntriesAssumption
<1>9. IsFiniteSet(0..(MaxEntries - 1)) /\ Cardinality(0..(MaxEntries - 1)) = MaxEntries
  <2> DEFINE m == MaxEntries - 1
  <2>1. 0 \in Int /\ m \in Int /\ ~(0 > m) /\ m - 0 + 1 = MaxEntries
    BY MaxEntriesAssumption
  <2> HIDE DEF m
  <2>2. IsFiniteSet(0..m) /\ Cardinality(0..m) = IF 0 > m THEN 0 ELSE m - 0 + 1
    BY <2>1, FS_Interval
  <2> QED
    BY <2>1, <2>2 DEF m
<1>10. Cardinality(K) <= MaxEntries
  <2> SUFFICES ASSUME Cardinality(K) > MaxEntries PROVE FALSE
    BY <1>5, MaxEntriesAssumption
  <2> HIDE DEF f, K
  <2>1. \E j, k \in K : j # k /\ f[j] = f[k]
    BY <1>5, <1>8, <1>9, FS_PigeonHole
  <2> QED
    BY <1>7, <2>1
<1> QED
  BY <1>3, <1>5, <1>10

\* The newest element of a list is not evicted.
LEMMA NewestStays ==
  ASSUME NEW c, NEW k, Newer(c, k) = {}, k \in DOMAIN c.entries
  PROVE  k \in DOMAIN Evicted(c).entries
<1>1. Cardinality(Newer(c, k)) = 0
  BY FS_EmptySet
<1>2. k \notin {x \in c.listed : Cardinality(Newer(c, x)) >= MaxEntries}
  BY <1>1, MaxEntriesAssumption
<1> QED
  BY <1>2 DEF Evicted, Without

\* The insertion of setLocked: the structures agree, the new key is the newest
\* and the others are what they were (cache.go:181-202).
LEMMA StoredGood ==
  ASSUME Good(cache), IsFiniteSet(cache.listed), NEW k \in Keys, NEW e \in Entry
  PROVE  /\ Good(Stored(k, e))
         /\ IsFiniteSet(Stored(k, e).listed)
         /\ Newer(Stored(k, e), k) = {}
         /\ Stored(k, e).entries = [x \in DOMAIN cache.entries \cup {k} |->
                                      IF x = k THEN e ELSE cache.entries[x]]
         /\ \A p \in Stored(k, e).older : p[2] # k => p \in cache.older
<1> DEFINE c == IF k \in DOMAIN cache.entries THEN Without(cache, {k}) ELSE cache
<1>1. Good(c)
  BY WithoutGood
<1>2. /\ k \notin DOMAIN c.entries
      /\ DOMAIN c.entries = DOMAIN cache.entries \ {k}
      /\ \A x \in DOMAIN c.entries : c.entries[x] = cache.entries[x]
      /\ c.listed = cache.listed \ {k}
      /\ \A p \in c.older : p \in cache.older /\ p[1] # k
  BY DEF Without, Good, ListOK
<1>3. Stored(k, e) = Pushed(c, k, e)
  BY DEF Stored
<1> HIDE DEF c
<1>4. Good(Pushed(c, k, e))
  BY <1>1, <1>2, PushedGood
<1>5. IsFiniteSet(Pushed(c, k, e).listed)
  <2>1. Pushed(c, k, e).listed = (cache.listed \ {k}) \cup {k}
    BY <1>2 DEF Pushed
  <2> QED
    BY <2>1, FS_RemoveElement, FS_AddElement
<1>6. Newer(Pushed(c, k, e), k) = {}
  BY <1>2 DEF Newer, Pushed, Good, ListOK
<1>7. Pushed(c, k, e).entries = [x \in DOMAIN cache.entries \cup {k} |->
                                   IF x = k THEN e ELSE cache.entries[x]]
  BY <1>2 DEF Pushed
<1>8. \A p \in Pushed(c, k, e).older : p[2] # k => p \in cache.older
  BY <1>2 DEF Pushed
<1> QED
  BY <1>3, <1>4, <1>5, <1>6, <1>7, <1>8

\* The inductive invariant.
Inv ==
  /\ Good(cache)
  /\ IsFiniteSet(cache.listed)
  /\ Cardinality(cache.listed) <= MaxEntries
  /\ setsSinceSweep \in 0..(SweepInterval - 1)

\* A cache made by New() satisfies the invariant (cache.go:115-121).
LEMMA InitInv == Init => Inv
<1> SUFFICES ASSUME Init PROVE Inv
  OBVIOUS
<1>1. Good(cache)
  BY DEF Init, EmptyCache, Good, ListOK, IndexOK
<1>2. cache.listed = {}
  BY DEF Init, EmptyCache
<1>3. IsFiniteSet(cache.listed) /\ Cardinality(cache.listed) <= MaxEntries
  BY <1>2, FS_EmptySet, MaxEntriesAssumption
<1> QED
  BY <1>1, <1>3, SweepAssumption DEF Init, Inv

\* Taking elements out keeps the list within the cap.
LEMMA WithoutFits ==
  ASSUME NEW c, NEW S, IsFiniteSet(c.listed), Cardinality(c.listed) <= MaxEntries
  PROVE  /\ IsFiniteSet(Without(c, S).listed)
         /\ Cardinality(Without(c, S).listed) <= MaxEntries
<1>1. Without(c, S).listed = c.listed \ S
  BY DEF Without
<1>2. c.listed \ S \in SUBSET c.listed
  OBVIOUS
<1>3. /\ IsFiniteSet(c.listed \ S)
      /\ Cardinality(c.listed \ S) <= Cardinality(c.listed)
      /\ Cardinality(c.listed) \in Nat
      /\ Cardinality(c.listed \ S) \in Nat
  BY <1>2, FS_Subset, FS_CardinalityType
<1> QED
  BY <1>1, <1>3, MaxEntriesAssumption

\* The entries are what they were, some forgotten, with e under k.
Replaced(k, e) ==
  \E S \in SUBSET (DOMAIN cache.entries \ {k}) :
    cache'.entries = [x \in S \cup {k} |-> IF x = k THEN e ELSE cache.entries[x]]

\* The cache of setLocked when its eviction loop starts.
Full(k, e) == IF SweepDue THEN Swept(Stored(k, e)) ELSE Stored(k, e)

\* Before the eviction loop the structures agree, the new entry is the newest,
\* one element at most is too many, and an entry is missing only if it has
\* expired (cache.go:181-212).
LEMMA FullGood ==
  ASSUME Inv, NEW k \in Keys, NEW e \in Entry, ~Expired(e)
  PROVE  /\ Good(Full(k, e))
         /\ IsFiniteSet(Full(k, e).listed)
         /\ Newer(Full(k, e), k) = {}
         /\ k \in DOMAIN Full(k, e).entries
         /\ DOMAIN Full(k, e).entries \subseteq DOMAIN cache.entries \cup {k}
         /\ \A x \in DOMAIN Full(k, e).entries :
              Full(k, e).entries[x] = IF x = k THEN e ELSE cache.entries[x]
         /\ \A x \in DOMAIN cache.entries : x \notin DOMAIN Full(k, e).entries =>
              Expired(cache.entries[x])
         /\ \A p \in Full(k, e).older : p[2] # k => p \in cache.older
<1> DEFINE new == Stored(k, e)
           full == Full(k, e)
<1>2. /\ Good(new)
      /\ IsFiniteSet(new.listed)
      /\ Newer(new, k) = {}
      /\ new.entries = [x \in DOMAIN cache.entries \cup {k} |->
                          IF x = k THEN e ELSE cache.entries[x]]
      /\ \A p \in new.older : p[2] # k => p \in cache.older
  BY StoredGood DEF Inv
<1> HIDE DEF new
<1>3. CASE SweepDue
  <2> DEFINE T == {x \in DOMAIN new.entries : Expired(new.entries[x])}
  <2>1. full = Without(new, T)
    BY <1>3 DEF Swept, Full, new
  <2>2. k \in DOMAIN new.entries \ T
    BY <1>2
  <2>3. \A x \in T : x # k /\ Expired(cache.entries[x])
    BY <1>2
  <2> HIDE DEF T
  <2>4. Good(Without(new, T))
    BY <1>2, WithoutGood
  <2>5. new.listed \ T \in SUBSET new.listed
    OBVIOUS
  <2>6. IsFiniteSet(Without(new, T).listed)
    BY <1>2, <2>5, FS_Subset DEF Without
  <2>7. Newer(Without(new, T), k) = {}
    BY <1>2 DEF Newer, Without
  <2>8. /\ DOMAIN Without(new, T).entries = DOMAIN new.entries \ T
        /\ \A x \in DOMAIN new.entries \ T : Without(new, T).entries[x] = new.entries[x]
        /\ Without(new, T).older \subseteq new.older
    BY DEF Without
  <2> HIDE DEF full
  <2>9. /\ DOMAIN full.entries = (DOMAIN cache.entries \cup {k}) \ T
        /\ \A x \in DOMAIN full.entries : full.entries[x] = IF x = k THEN e ELSE cache.entries[x]
        /\ \A p \in full.older : p[2] # k => p \in cache.older
    BY <1>2, <2>1, <2>8
  <2>10. Good(full) /\ IsFiniteSet(full.listed) /\ Newer(full, k) = {}
    BY <2>1, <2>4, <2>6, <2>7
  <2> QED
    BY <2>2, <2>3, <2>9, <2>10 DEF full
<1>4. CASE ~SweepDue
  <2>1. full = new
    BY <1>4 DEF Full, new
  <2> HIDE DEF full
  <2>2. /\ DOMAIN full.entries = DOMAIN cache.entries \cup {k}
        /\ \A x \in DOMAIN full.entries : full.entries[x] = IF x = k THEN e ELSE cache.entries[x]
    BY <1>2, <2>1
  <2> QED
    BY <1>2, <2>1, <2>2 DEF full
<1> QED
  BY <1>3, <1>4

\* What Set leaves behind: a good cache within the cap that holds the new entry
\* and, of the others, only some, unchanged (cache.go:181-223).
LEMMA SetEffect ==
  ASSUME Inv, NEW k \in Keys, NEW b \in Budgets, NEW d \in Data, NEW ttl \in 1..MaxTTL,
         Set(k, b, d, ttl)
  PROVE  /\ Good(cache')
         /\ IsFiniteSet(cache'.listed)
         /\ Cardinality(cache'.listed) <= MaxEntries
         /\ Replaced(k, [data |-> d, left |-> ttl, budgetID |-> b])
<1> DEFINE e == [data |-> d, left |-> ttl, budgetID |-> b]
           full == Full(k, e)
<1>1. e \in Entry /\ ~Expired(e)
  BY MaxTTLAssumption DEF Entry, Expired
<1>3. cache' = Evicted(full)
  BY DEF Set, Full
<1> HIDE DEF e
<1>4. /\ Good(full)
      /\ IsFiniteSet(full.listed)
      /\ Newer(full, k) = {}
      /\ DOMAIN full.entries \subseteq DOMAIN cache.entries \cup {k}
      /\ k \in DOMAIN full.entries
      /\ \A x \in DOMAIN full.entries : full.entries[x] = IF x = k THEN e ELSE cache.entries[x]
  BY <1>1, FullGood
<1> HIDE DEF full
<1>5. Good(Evicted(full))
  BY <1>4, WithoutGood DEF Evicted
<1>6. k \in DOMAIN Evicted(full).entries
  BY <1>4, NewestStays
<1>7. /\ DOMAIN Evicted(full).entries \subseteq DOMAIN full.entries
      /\ \A x \in DOMAIN Evicted(full).entries : Evicted(full).entries[x] = full.entries[x]
      /\ Evicted(full).entries
           = [x \in DOMAIN Evicted(full).entries |-> Evicted(full).entries[x]]
  BY DEF Evicted, Without
<1>8. Replaced(k, e)
  <2> DEFINE g == Evicted(full).entries
             S == DOMAIN g \ {k}
  <2> HIDE DEF g
  <2>1. /\ k \in DOMAIN g
        /\ DOMAIN g \subseteq DOMAIN cache.entries \cup {k}
        /\ \A x \in DOMAIN g : g[x] = IF x = k THEN e ELSE cache.entries[x]
        /\ g = [x \in DOMAIN g |-> g[x]]
    BY <1>4, <1>6, <1>7 DEF g
  <2>2. S \in SUBSET (DOMAIN cache.entries \ {k}) /\ S \cup {k} = DOMAIN g
    BY <2>1
  <2>3. g = [x \in S \cup {k} |-> IF x = k THEN e ELSE cache.entries[x]]
    BY <2>1, <2>2
  <2>4. cache'.entries = g
    BY <1>3 DEF g
  <2> HIDE DEF S
  <2> QED
    BY <2>2, <2>3, <2>4 DEF Replaced
<1> QED
  BY <1>3, <1>4, <1>5, <1>8, EvictedFits DEF e

\* InvalidateBudget, reading the keys off the index, drops exactly the budget's
\* entries and keeps the structures in step (cache.go:307-326).
LEMMA InvalidateEffect ==
  ASSUME Inv, NEW b \in Budgets, InvalidateBudget(b)
  PROVE  /\ Good(cache')
         /\ IsFiniteSet(cache'.listed)
         /\ Cardinality(cache'.listed) <= MaxEntries
         /\ cache'.entries = [k \in {k \in DOMAIN cache.entries : cache.entries[k].budgetID # b}
                                |-> cache.entries[k]]
<1> USE DEF Inv
<1>1. CASE b \notin DOMAIN cache.index
  <2>1. cache' = cache
    BY <1>1 DEF InvalidateBudget
  <2>2. {k \in DOMAIN cache.entries : cache.entries[k].budgetID # b} = DOMAIN cache.entries
    BY <1>1 DEF Good, IndexOK
  <2> QED
    BY <2>1, <2>2 DEF Good
<1>2. CASE b \in DOMAIN cache.index
  <2> DEFINE S == cache.index[b]
             w == Without(cache, S)
             rest == [x \in DOMAIN cache.index \ {b} |-> cache.index[x]]
  <2>1. S = {k \in DOMAIN cache.entries : cache.entries[k].budgetID = b}
    BY <1>2 DEF Good, IndexOK
  <2>2. cache' = [w EXCEPT !.index = rest]
    BY <1>2 DEF InvalidateBudget
  <2> HIDE DEF S
  <2>3. /\ w.entries = [k \in DOMAIN cache.entries \ S |-> cache.entries[k]]
        /\ w.listed = cache.listed \ S
        /\ DOMAIN w = {"entries", "listed", "older", "index"}
    BY DEF Without
  <2>4. Good(w)
    BY WithoutGood
  <2>5. IsFiniteSet(w.listed) /\ Cardinality(w.listed) <= MaxEntries
    BY WithoutFits
  <2> HIDE DEF w, rest
  <2>6. /\ cache'.entries = w.entries
        /\ cache'.listed = w.listed
        /\ cache'.older = w.older
        /\ cache'.index = rest
        /\ DOMAIN cache' = DOMAIN w
    BY <2>2, <2>3
  <2>7. ListOK(cache')
    BY <2>4, <2>6 DEF Good, ListOK
  <2>8. IndexOK(cache')
    <3>1. DOMAIN rest = DOMAIN cache.index \ {b} /\ \A x \in DOMAIN rest : rest[x] = cache.index[x]
      BY DEF rest
    <3>2. /\ DOMAIN w.entries = {k \in DOMAIN cache.entries : cache.entries[k].budgetID # b}
          /\ \A k \in DOMAIN w.entries : w.entries[k] = cache.entries[k]
      BY <2>1, <2>3
    <3>3. DOMAIN rest = {w.entries[k].budgetID : k \in DOMAIN w.entries}
      BY <3>1, <3>2 DEF Good, IndexOK
    <3>4. \A x \in DOMAIN rest : rest[x] = {k \in DOMAIN w.entries : w.entries[k].budgetID = x}
      BY <3>1, <3>2 DEF Good, IndexOK
    <3> QED
      BY <2>6, <3>3, <3>4 DEF IndexOK
  <2>9. Good(cache')
    BY <2>3, <2>4, <2>6, <2>7, <2>8 DEF Good
  <2>10. DOMAIN cache.entries \ S = {k \in DOMAIN cache.entries : cache.entries[k].budgetID # b}
    BY <2>1
  <2> QED
    BY <2>3, <2>5, <2>6, <2>9, <2>10
<1> QED
  BY <1>1, <1>2

\* A tick changes no more than the TTLs left.
LEMMA TickEffect ==
  ASSUME Inv, Tick
  PROVE  /\ Good(cache') /\ cache'.listed = cache.listed
         /\ cache'.entries = Aged(cache.entries)
<1> DEFINE f == Aged(cache.entries)
<1>1. /\ cache'.entries = f
      /\ cache'.listed = cache.listed
      /\ cache'.older = cache.older
      /\ cache'.index = cache.index
      /\ DOMAIN cache' = DOMAIN cache
  BY DEF Tick, Inv, Good
<1>2. \A k \in DOMAIN cache.entries : f[k] \in Entry /\ f[k].budgetID = cache.entries[k].budgetID
  BY MaxTTLAssumption DEF Inv, Good, Entry, Aged
<1>3. DOMAIN f = DOMAIN cache.entries /\ f = [k \in DOMAIN f |-> f[k]]
  BY DEF Aged
<1> HIDE DEF f
<1>4. ListOK(cache')
  BY <1>1, <1>3 DEF Inv, Good, ListOK
<1>5. IndexOK(cache')
  BY <1>1, <1>2, <1>3 DEF Inv, Good, IndexOK
<1>6. Good(cache')
  BY <1>1, <1>2, <1>3, <1>4, <1>5 DEF Inv, Good
<1> QED
  BY <1>1, <1>6 DEF f

\* Every operation keeps the invariant.
LEMMA InvStep == Inv /\ [Next]_vars => Inv'
<1> SUFFICES ASSUME Inv, [Next]_vars PROVE Inv'
  OBVIOUS
<1>1. ASSUME NEW k \in Keys, Get(k) PROVE Inv'
  <2>1. CASE k \notin DOMAIN cache.entries
    BY <1>1, <2>1 DEF Get, Inv
  <2>2. CASE k \in DOMAIN cache.entries /\ Expired(cache.entries[k])
    <3>1. cache' = Without(cache, {k}) /\ setsSinceSweep' = setsSinceSweep
      BY <1>1, <2>2 DEF Get
    <3> QED
      BY <3>1, WithoutGood, WithoutFits DEF Inv
  <2>3. CASE k \in DOMAIN cache.entries /\ ~Expired(cache.entries[k])
    <3>1. cache' = Touched(cache, k) /\ setsSinceSweep' = setsSinceSweep
      BY <1>1, <2>3 DEF Get
    <3>2. Good(cache')
      BY <2>3, <3>1, TouchedGood DEF Inv
    <3>3. cache'.listed = cache.listed
      BY <3>1 DEF Touched, Inv, Good
    <3> QED
      BY <3>1, <3>2, <3>3 DEF Inv
  <2> QED
    BY <2>1, <2>2, <2>3
<1>2. ASSUME NEW k \in Keys, Delete(k) PROVE Inv'
  BY <1>2, WithoutGood, WithoutFits DEF Delete, Inv
<1>3. ASSUME NEW k \in Keys, SetDisabled(k) PROVE Inv'
  BY <1>3 DEF SetDisabled, Inv
<1>4. ASSUME NEW k \in Keys, NEW b \in Budgets, NEW d \in Data, NEW ttl \in 1..MaxTTL,
             Set(k, b, d, ttl)
      PROVE  Inv'
  <2>1. /\ Good(cache')
        /\ IsFiniteSet(cache'.listed)
        /\ Cardinality(cache'.listed) <= MaxEntries
    BY <1>4, SetEffect
  <2>2. setsSinceSweep' \in 0..(SweepInterval - 1)
    BY <1>4, SweepAssumption DEF Set, SweepDue, Inv
  <2> QED
    BY <2>1, <2>2 DEF Inv
<1>5. ASSUME NEW b \in Budgets, InvalidateBudget(b) PROVE Inv'
  <2>1. /\ Good(cache')
        /\ IsFiniteSet(cache'.listed)
        /\ Cardinality(cache'.listed) <= MaxEntries
    BY <1>5, InvalidateEffect
  <2> QED
    BY <1>5, <2>1 DEF InvalidateBudget, Inv
<1>6. CASE Sweep
  <2>1. cache' = Without(cache, {k \in DOMAIN cache.entries : Expired(cache.entries[k])})
    BY <1>6 DEF Sweep, Swept
  <2> QED
    BY <1>6, <2>1, WithoutGood, WithoutFits, SweepAssumption DEF Sweep, Inv
<1>7. CASE Clear
  <2>2. Good(EmptyCache) /\ IsFiniteSet(EmptyCache.listed)
          /\ Cardinality(EmptyCache.listed) <= MaxEntries
    <3>1. Good(EmptyCache)
      BY DEF EmptyCache, Good, ListOK, IndexOK
    <3>2. EmptyCache.listed = {}
      BY DEF EmptyCache
    <3> QED
      BY <3>1, <3>2, FS_EmptySet, MaxEntriesAssumption
  <2> QED
    BY <1>7, <2>2, SweepAssumption DEF Clear, Inv
<1>8. CASE Tick
  BY <1>8, TickEffect DEF Tick, Inv
<1>9. CASE UNCHANGED vars
  BY <1>9 DEF vars, Inv
<1> QED
  BY <1>1, <1>2, <1>3, <1>4, <1>5, <1>6, <1>7, <1>8, <1>9 DEF Next

\* Every reachable cache satisfies the invariant.
THEOREM Invariance == Spec => []Inv
<1>1. Init => Inv
  BY InitInv
<1>2. Inv /\ [Next]_vars => Inv'
  BY InvStep
<1> QED
  BY <1>1, <1>2, PTL DEF Spec

\* The types hold.
THEOREM TypeCorrect == Spec => []TypeOK
<1>1. Inv => TypeOK
  BY DEF Inv, Good, TypeOK
<1> QED
  BY <1>1, Invariance, PTL

\* The list always is a list of the keys of the map (cache.go:82-86).
THEOREM ListAlwaysExact == Spec => []ListExact
<1>1. Inv => ListExact
  BY DEF Inv, Good, ListExact
<1> QED
  BY <1>1, Invariance, PTL

\* The index always is the entries grouped by budget (cache.go:93-97).
THEOREM IndexAlwaysExact == Spec => []IndexExact
<1>1. Inv => IndexExact
  BY DEF Inv, Good, IndexExact
<1> QED
  BY <1>1, Invariance, PTL

\* The cap holds after every operation (cache.go:213-222).
THEOREM AlwaysWithinCap == Spec => []WithinCap
<1>1. Inv => WithinCap
  BY DEF Inv, WithinCap
<1> QED
  BY <1>1, Invariance, PTL

\* Every operation of the cache is a step of its contract.
LEMMA ContractStep == Inv /\ [Next]_vars => [Contract!Next]_<<cache.entries, reply>>
<1> SUFFICES ASSUME Inv, [Next]_vars
             PROVE  Contract!Next \/ UNCHANGED <<cache.entries, reply>>
  OBVIOUS
<1> DEFINE stored == cache.entries
<1>0. stored = [k \in DOMAIN stored |-> stored[k]]
  BY DEF Inv, Good
<1>1. ASSUME NEW k \in Keys, Get(k) PROVE Contract!Get(k)
  <2>1. CASE k \notin DOMAIN stored
    BY <1>0, <1>1, <2>1 DEF Get, Contract!Get, Contract!Kept, Contract!Miss, Miss
  <2>2. CASE k \in DOMAIN stored /\ Expired(stored[k])
    BY <1>1, <2>2 DEF Get, Without, Expired, Contract!Get, Contract!Kept, Contract!Miss, Miss,
      Inv, Good, Entry
  <2>3. CASE k \in DOMAIN stored /\ ~Expired(stored[k])
    <3>1. cache'.entries = stored
      BY <1>1, <2>3, TouchedGood DEF Get, Inv
    <3>2. stored[k].left >= 0
      BY <2>3 DEF Expired, Inv, Good, Entry
    <3> QED
      BY <1>1, <2>3, <3>1, <3>2 DEF Get, Contract!Get, Contract!Hit, Hit
  <2> QED
    BY <2>1, <2>2, <2>3
<1>2. ASSUME NEW k \in Keys, Delete(k) PROVE Contract!Delete(k)
  <2>1. CASE k \in DOMAIN stored
    BY <1>2, <2>1 DEF Delete, Without, Contract!Delete, Contract!Kept, Contract!Done, Done
  <2>2. CASE k \notin DOMAIN stored
    BY <1>0, <1>2, <2>2 DEF Delete, Contract!Delete, Contract!Kept, Contract!Done, Done
  <2> QED
    BY <2>1, <2>2
<1>3. ASSUME NEW k \in Keys, SetDisabled(k) PROVE Contract!SetDisabled(k)
  BY <1>3 DEF SetDisabled, Contract!SetDisabled, Contract!Done, Done
<1>4. ASSUME NEW k \in Keys, NEW b \in Budgets, NEW d \in Data, NEW ttl \in 1..MaxTTL,
             Set(k, b, d, ttl)
      PROVE  Contract!Set(k, b, d, ttl)
  <2>1. Replaced(k, [data |-> d, left |-> ttl, budgetID |-> b])
    BY <1>4, SetEffect
  <2>2. reply' = Contract!Done("set", k)
    BY <1>4 DEF Set, Done, Contract!Done
  <2> QED
    BY <2>1, <2>2 DEF Replaced, Contract!Set
<1>5. ASSUME NEW b \in Budgets, InvalidateBudget(b) PROVE Contract!InvalidateBudget(b)
  BY <1>5, InvalidateEffect
  DEF InvalidateBudget, Done, Contract!InvalidateBudget, Contract!Kept, Contract!Done
<1>6. CASE Sweep
  <2>1. \A k \in DOMAIN stored : Expired(stored[k]) <=> ~(stored[k].left >= 0)
    BY DEF Expired, Inv, Good, Entry
  <2>2. DOMAIN stored \ {k \in DOMAIN stored : Expired(stored[k])}
          = {k \in DOMAIN stored : stored[k].left >= 0}
    BY <2>1
  <2>3. cache'.entries = Contract!Kept({k \in DOMAIN stored : stored[k].left >= 0})
    BY <1>6, <2>2 DEF Sweep, Swept, Without, Contract!Kept
  <2> QED
    BY <1>6, <2>3 DEF Sweep, Done, Contract!Sweep, Contract!Done, Contract!Next
<1>7. CASE Clear
  BY <1>7 DEF Clear, EmptyCache, Done, Contract!Clear, Contract!Kept, Contract!Done, Contract!Next
<1>8. CASE Tick
  BY <1>8, TickEffect DEF Tick, Aged, Contract!Tick, Contract!Next
<1>9. CASE UNCHANGED vars
  BY <1>9 DEF vars
<1> QED
  BY <1>1, <1>2, <1>3, <1>4, <1>5, <1>6, <1>7, <1>8, <1>9 DEF Next, Contract!Next

\* The cache with its list, index, sweeps and evictions implements the plain
\* contract its callers rely on.
THEOREM Refinement == Spec => KeepsContract
<1>1. Init => Contract!Init
  BY DEF Init, EmptyCache, NoReply, Contract!Init
<1>2. Inv /\ [Next]_vars => [Contract!Next]_<<cache.entries, reply>>
  BY ContractStep
<1> QED
  BY <1>1, <1>2, Invariance, PTL DEF Spec, KeepsContract, Contract!Spec


----------------------------------------------------------------------------
(* What Set evicts *)

\* In a list that is one element too long only the back goes, and it leaves the
\* list exactly full (cache.go:216-222).
LEMMA EvictsBack ==
  ASSUME NEW c, Good(c), IsFiniteSet(c.listed), Cardinality(c.listed) <= MaxEntries + 1,
         NEW j \in c.listed, j \notin Evicted(c).listed
  PROVE  /\ Newer(c, j) = c.listed \ {j}
         /\ Evicted(c).listed = c.listed \ {j}
         /\ Cardinality(c.listed \ {j}) = MaxEntries
         /\ Cardinality(c.listed) = MaxEntries + 1
<1> DEFINE rest == c.listed \ {j}
<1>1. /\ IsFiniteSet(rest)
      /\ Cardinality(rest) = Cardinality(c.listed) - 1
      /\ Cardinality(rest) \in Nat /\ Cardinality(c.listed) \in Nat
  BY FS_RemoveElement, FS_CardinalityType
<1>2. Newer(c, j) \in SUBSET rest
  BY DEF Newer, Good, ListOK
<1>3. Evicted(c).listed = c.listed \ {k \in c.listed : Cardinality(Newer(c, k)) >= MaxEntries}
  BY DEF Evicted, Without
<1>4. Cardinality(Newer(c, j)) >= MaxEntries
  BY <1>3
<1>5. /\ IsFiniteSet(Newer(c, j)) /\ Cardinality(Newer(c, j)) \in Nat
      /\ Cardinality(Newer(c, j)) <= Cardinality(rest)
      /\ Cardinality(Newer(c, j)) = Cardinality(rest) => Newer(c, j) = rest
  <2> HIDE DEF rest
  <2> QED
    BY <1>1, <1>2, FS_Subset, FS_CardinalityType
<1>6. Newer(c, j) = rest /\ Cardinality(rest) = MaxEntries
  BY <1>1, <1>4, <1>5, MaxEntriesAssumption
<1>7. ASSUME NEW i \in rest PROVE ~(Cardinality(Newer(c, i)) >= MaxEntries)
  <2>1. <<j, i>> \in c.older
    BY <1>6 DEF Newer
  <2>2. Newer(c, i) \in SUBSET rest /\ i \notin Newer(c, i)
    BY <2>1 DEF Newer, Good, ListOK
  <2>3. Newer(c, i) # rest
    BY <2>2
  <2> HIDE DEF rest
  <2>4. /\ Cardinality(Newer(c, i)) \in Nat
        /\ Cardinality(Newer(c, i)) <= Cardinality(rest)
        /\ Cardinality(Newer(c, i)) # Cardinality(rest)
    BY <1>1, <2>2, <2>3, FS_Subset, FS_CardinalityType
  <2> QED
    BY <1>1, <1>6, <2>4, MaxEntriesAssumption
<1>8. Evicted(c).listed = rest
  BY <1>3, <1>4, <1>7
<1> QED
  BY <1>1, <1>6, <1>8, MaxEntriesAssumption

\* The key of the last hit, while it is cached, is the front of the list
\* (cache.go:173).
LastHitNewest ==
  reply.call = "get" /\ reply.arg \in DOMAIN cache.entries =>
    \A i \in cache.listed \ {reply.arg} : <<i, reply.arg>> \in cache.older

\* Every operation keeps the last hit in front.
LEMMA LastHitStep == Inv /\ LastHitNewest /\ [Next]_vars => LastHitNewest'
<1> SUFFICES ASSUME Inv, LastHitNewest, [Next]_vars, reply'.call = "get"
             PROVE  LastHitNewest'
  BY DEF LastHitNewest
<1>1. ASSUME NEW k \in Keys, Get(k) PROVE LastHitNewest'
  <2>1. reply'.arg = k
    BY <1>1 DEF Get, Miss, Hit
  <2>2. CASE k \notin DOMAIN cache.entries
    BY <1>1, <2>1, <2>2 DEF Get, LastHitNewest
  <2>3. CASE k \in DOMAIN cache.entries /\ Expired(cache.entries[k])
    <3>1. cache' = Without(cache, {k})
      BY <1>1, <2>3 DEF Get
    <3>2. k \notin DOMAIN cache'.entries
      BY <3>1 DEF Without
    <3> QED
      BY <2>1, <3>2 DEF LastHitNewest
  <2>4. CASE k \in DOMAIN cache.entries /\ ~Expired(cache.entries[k])
    <3>1. cache' = Touched(cache, k)
      BY <1>1, <2>4 DEF Get
    <3>2. /\ cache'.listed = cache.listed
          /\ cache'.older = {p \in cache.older : p[1] # k} \cup ((cache.listed \ {k}) \X {k})
      BY <3>1 DEF Touched, Inv, Good
    <3> QED
      BY <2>1, <3>2 DEF LastHitNewest
  <2> QED
    BY <2>2, <2>3, <2>4
<1>2. CASE Tick
  <2>1. /\ cache'.listed = cache.listed /\ cache'.older = cache.older
        /\ DOMAIN cache'.entries = DOMAIN cache.entries /\ reply' = reply
    BY <1>2 DEF Tick, Aged, Inv, Good
  <2> QED
    BY <2>1 DEF LastHitNewest
<1>3. CASE UNCHANGED vars
  BY <1>3 DEF vars, LastHitNewest
<1>4. ASSUME NEW k \in Keys PROVE ~Delete(k) /\ ~SetDisabled(k)
  BY DEF Delete, SetDisabled, Done
<1>5. ASSUME NEW k \in Keys, NEW b \in Budgets, NEW d \in Data, NEW ttl \in 1..MaxTTL
      PROVE  ~Set(k, b, d, ttl)
  BY DEF Set, Done
<1>6. ASSUME NEW b \in Budgets PROVE ~InvalidateBudget(b)
  BY DEF InvalidateBudget, Done
<1>7. ~Sweep /\ ~Clear
  BY DEF Sweep, Clear, Done
<1> QED
  BY <1>1, <1>2, <1>3, <1>4, <1>5, <1>6, <1>7 DEF Next

\* A Set loses a live entry of another key only from the back of a full list,
\* and never the entry of the last hit if there is room for two.
LEMMA SetEvicts ==
  ASSUME Inv, LastHitNewest, NEW k \in Keys, NEW b \in Budgets, NEW d \in Data,
         NEW ttl \in 1..MaxTTL, Set(k, b, d, ttl),
         NEW j \in DOMAIN cache.entries \ DOMAIN cache'.entries, ~Expired(cache.entries[j])
  PROVE  /\ Cardinality(cache'.listed) = MaxEntries
         /\ \A i \in DOMAIN cache.entries \cap DOMAIN cache'.entries : <<j, i>> \in cache.older
         /\ MaxEntries > 1 => ~(reply.call = "get" /\ reply.arg = j)
<1> DEFINE e == [data |-> d, left |-> ttl, budgetID |-> b]
           full == Full(k, e)
<1>1. e \in Entry /\ ~Expired(e)
  BY MaxTTLAssumption DEF Entry, Expired
<1>2. cache' = Evicted(full)
  BY DEF Set, Full
<1> HIDE DEF e
<1>3. /\ Good(full)
      /\ IsFiniteSet(full.listed)
      /\ Newer(full, k) = {}
      /\ k \in DOMAIN full.entries
      /\ DOMAIN full.entries \subseteq DOMAIN cache.entries \cup {k}
      /\ \A x \in DOMAIN cache.entries : x \notin DOMAIN full.entries => Expired(cache.entries[x])
      /\ \A p \in full.older : p[2] # k => p \in cache.older
  BY <1>1, FullGood
<1> HIDE DEF full
<1>4. full.listed = DOMAIN full.entries /\ cache.listed = DOMAIN cache.entries
  BY <1>3 DEF Inv, Good, ListOK
<1>5. /\ k \in DOMAIN cache'.entries
      /\ cache'.listed = DOMAIN cache'.entries
      /\ DOMAIN cache'.entries \subseteq DOMAIN full.entries
  <2>1. k \in DOMAIN Evicted(full).entries
    BY <1>3, NewestStays
  <2>2. Good(Evicted(full))
    BY <1>3, WithoutGood DEF Evicted
  <2>3. DOMAIN Evicted(full).entries \subseteq DOMAIN full.entries
    BY DEF Evicted, Without
  <2> QED
    BY <1>2, <2>1, <2>2, <2>3 DEF Good, ListOK
<1>6. j # k /\ j \in full.listed /\ j \notin Evicted(full).listed
  BY <1>2, <1>3, <1>4, <1>5
<1>7. /\ Cardinality(cache.listed) \in Nat
      /\ IsFiniteSet(cache.listed \cup {k})
      /\ Cardinality(cache.listed \cup {k})
           = IF k \in cache.listed THEN Cardinality(cache.listed) ELSE Cardinality(cache.listed) + 1
      /\ Cardinality(full.listed) \in Nat
      /\ Cardinality(full.listed) <= Cardinality(cache.listed \cup {k})
  <2>1. full.listed \in SUBSET (cache.listed \cup {k})
    BY <1>3, <1>4
  <2>2. /\ IsFiniteSet(cache.listed \cup {k})
        /\ Cardinality(cache.listed \cup {k})
             = IF k \in cache.listed THEN Cardinality(cache.listed) ELSE Cardinality(cache.listed) + 1
    BY FS_AddElement DEF Inv
  <2>3. Cardinality(full.listed) <= Cardinality(cache.listed \cup {k})
    BY <2>1, <2>2, FS_Subset
  <2> QED
    BY <1>3, <2>2, <2>3, FS_CardinalityType DEF Inv
<1>8. Cardinality(full.listed) <= MaxEntries + 1
  BY <1>7, MaxEntriesAssumption DEF Inv
<1>9. /\ Newer(full, j) = full.listed \ {j}
      /\ cache'.listed = full.listed \ {j}
      /\ Cardinality(cache'.listed) = MaxEntries
      /\ Cardinality(full.listed) = MaxEntries + 1
  BY <1>2, <1>3, <1>6, <1>8, EvictsBack
<1>10. k \notin cache.listed
  BY <1>7, <1>9, MaxEntriesAssumption DEF Inv
<1>11. \A i \in full.listed \ {j, k} : <<j, i>> \in cache.older
  BY <1>3, <1>9 DEF Newer
<1>12. \A i \in DOMAIN cache.entries \cap DOMAIN cache'.entries : <<j, i>> \in cache.older
  BY <1>4, <1>5, <1>9, <1>10, <1>11
<1>13. ASSUME MaxEntries > 1, reply.call = "get", reply.arg = j PROVE FALSE
  <2>1. PICK i \in full.listed : i # j /\ i # k
    <3> SUFFICES ASSUME full.listed \ {j} = {k} PROVE FALSE
      BY <1>3, <1>4, <1>6
    <3>1. Cardinality({k}) = 1
      BY FS_Singleton
    <3> QED
      BY <1>9, <1>13, <3>1, MaxEntriesAssumption
  <2>2. i \in cache.listed /\ <<j, i>> \in cache.older
    BY <1>3, <1>4, <1>11, <2>1
  <2>3. <<i, j>> \in cache.older
    BY <1>13, <2>1, <2>2 DEF LastHitNewest
  <2> QED
    BY <1>4, <2>2, <2>3 DEF Inv, Good, ListOK
<1> QED
  BY <1>9, <1>12, <1>13

\* For every cap, a value is lost to another key's Set only when the cache is
\* full, and then it is the least recently used one (cache.go:170-173, 213-222).
THEOREM AlwaysEvictsLeastRecent == Spec => EvictsLeastRecent
<1>1. Init => LastHitNewest
  BY DEF Init, NoReply, LastHitNewest
<1>2. Inv /\ LastHitNewest /\ [Next]_vars =>
        [(\E k \in Keys, b \in Budgets, d \in Data, ttl \in 1..MaxTTL : Set(k, b, d, ttl)) =>
           \A j \in DOMAIN cache.entries \ DOMAIN cache'.entries :
             ~Expired(cache.entries[j]) =>
               /\ Cardinality(cache'.listed) = MaxEntries
               /\ \A i \in DOMAIN cache.entries \cap DOMAIN cache'.entries :
                    <<j, i>> \in cache.older
               /\ MaxEntries > 1 => ~(reply.call = "get" /\ reply.arg = j)]_vars
  BY SetEvicts
<1> QED
  BY <1>1, <1>2, LastHitStep, Invariance, PTL DEF Spec, EvictsLeastRecent

============================================================================
