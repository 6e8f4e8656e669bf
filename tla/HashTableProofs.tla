-------------------------- MODULE HashTableProofs --------------------------
(***************************************************************************)
(* Theorems about HashTable, for every set of keys and values, every hash  *)
(* function and every initial capacity.                                    *)
(***************************************************************************)
EXTENDS HashTable, FiniteSetTheorems, TLAPS

(* The first table has at least one bucket (hash_table.h:57).              *)
LEMMA CapacityIsPositive == InitialCapacity \in Nat /\ InitialCapacity > 0
BY CapacityAssumption

(* hash & (allocated - 1) is a bucket of the table.                        *)
LEMMA HomeInTable ==
    ASSUME NEW k \in Keys, NEW n \in Nat, n > 0
    PROVE  Home(k, n) \in Nat /\ Home(k, n) < n
BY HashAssumption DEF Home

(* So is the slot after a slot, wrapped around at the end.                 *)
LEMMA NextInTable ==
    ASSUME NEW n \in Nat, NEW h \in Nat, h < n
    PROVE  NextSlot(h, n) \in Nat /\ NextSlot(h, n) < n
BY DEF NextSlot

(* Writing an entry leaves a table of the same size.                       *)
LEMMA StoreInTables ==
    ASSUME NEW n \in Nat, NEW t \in Tables(n), NEW h \in Nat,
           NEW k \in Keys, NEW v \in Values
    PROVE  Store(t, h, k, v) \in Tables(n)
BY DEF Store, Tables, Entry

(* The running add carries a key and a value.                              *)
LEMMA OpFields ==
    ASSUME op \in Ops
    PROVE  /\ op.kind = "find" => op.key \in Keys
           /\ op # Idle /\ op.kind # "find" => op.key \in Keys /\ op.value \in Values
BY DEF Ops, Idle

(* A bucket that is not empty holds a key and a value.                     *)
LEMMA EntryFields ==
    ASSUME NEW n \in Nat, NEW t \in Tables(n), NEW s \in Nat, s < n, t[s] # Empty
    PROVE  t[s] \in Entry /\ t[s].key \in Keys /\ t[s].value \in Values
BY DEF Tables, Entry

(* The zeroed buckets that grow allocates are a table.                     *)
LEMMA FreshInTables ==
    ASSUME NEW n \in Nat
    PROVE  Fresh(n) \in Tables(n)
BY DEF Fresh, Tables

-----------------------------------------------------------------------------
TypeInv == TypeOK /\ CountsOrdered

(* The constructor leaves an empty table of the right types.               *)
LEMMA TypeInit == Init => TypeInv
<1> SUFFICES ASSUME Init PROVE TypeInv
  OBVIOUS
<1>1. buckets \in Tables(0) /\ new_buckets \in Tables(0)
  BY FreshInTables DEF Init
<1>2. op \in Ops /\ op = Idle /\ op.kind # "find"
  BY DEF Init, Ops, Idle
<1> QED
  BY <1>1, <1>2 DEF Init, TypeInv, TypeOK, CountsOrdered, Rehashing

(* Every step keeps the types and the order of the counts.                 *)
LEMMA TypeStep == TypeInv /\ [Next]_vars => TypeInv'
<1> SUFFICES ASSUME TypeInv, [Next]_vars PROVE TypeInv'
  OBVIOUS
<1> USE DEF TypeInv, TypeOK, CountsOrdered, Rehashing, table, newTable
<1>1. ASSUME NEW k \in Keys, NEW v \in Values, CallAdd(k, v) PROVE TypeInv'
  BY <1>1, HomeInTable DEF CallAdd, NeedsGrow, Ops, Idle
<1>2. ASSUME NEW k \in Keys, CallFind(k) PROVE TypeInv'
  BY <1>2, HomeInTable DEF CallFind, Ops, Idle
<1>3. CASE Deallocate
  BY <1>3, FreshInTables DEF Deallocate
<1>4. CASE GrowFirst
  BY <1>4, FreshInTables, CapacityIsPositive, HomeInTable, OpFields DEF GrowFirst
<1>5. CASE GrowDouble
  BY <1>5, FreshInTables DEF GrowDouble
<1>6. CASE RehashNext
  BY <1>6, HomeInTable, EntryFields DEF RehashNext
<1>7. CASE RehashProbe
  BY <1>7, NextInTable DEF RehashProbe
<1>8. CASE RehashPlace
  BY <1>8, StoreInTables, EntryFields DEF RehashPlace
<1>9. CASE RehashDone
  BY <1>9, FreshInTables, HomeInTable, OpFields DEF RehashDone
<1>10. CASE AddProbe
  BY <1>10, NextInTable DEF AddProbe
<1>i. Idle \in Ops /\ Idle.kind # "find"
  BY DEF Ops, Idle
<1>11. CASE AddPlace
  <2>1. buckets' \in Tables(allocated)
    BY <1>11, StoreInTables, OpFields DEF AddPlace
  <2> QED
    BY <1>11, <1>i, <2>1 DEF AddPlace
<1>12. CASE FindProbe
  BY <1>12, NextInTable DEF FindProbe, FindContinues
<1>13. CASE FindReturn
  <2>1. result' \in Values \cup {NULL}
    BY <1>13, EntryFields DEF FindReturn
  <2> QED
    BY <1>13, <1>i, <2>1 DEF FindReturn
<1>14. CASE UNCHANGED vars
  BY <1>14 DEF vars
<1> QED
  BY <1>1, <1>2, <1>3, <1>4, <1>5, <1>6, <1>7, <1>8, <1>9, <1>10, <1>11,
     <1>12, <1>13, <1>14 DEF Next, Step

(* The variables keep their types, the cursor of a running probe loop is a *)
(* slot of the table it reads (hash_table.h:91-108), and count stays       *)
(* within allocated, for every capacity and every hash function.           *)
THEOREM TypeCorrect == Spec => []TypeOK
<1>1. TypeInv => TypeOK
  BY DEF TypeInv
<1> QED
  BY <1>1, TypeInit, TypeStep, PTL DEF Spec

-----------------------------------------------------------------------------
(* Facts about one table t of n buckets and a probe for key k.             *)

(* The occupied slots are slots of the table.                              *)
LEMMA TableDomain ==
    ASSUME NEW n \in Nat, NEW t \in Tables(n)
    PROVE  /\ DOMAIN t = 0..n-1
           /\ \A s \in Occupied(t) : s \in Nat /\ s < n /\ t[s] # Empty
                 /\ t[s] \in Entry /\ t[s].key \in Keys /\ t[s].value \in Values
           /\ \A s \in Nat : s < n /\ t[s] # Empty => s \in Occupied(t)
<1>1. DOMAIN t = 0..n-1
  BY DEF Tables
<1> QED
  BY <1>1, EntryFields DEF Occupied

(* They are finitely many, at most one for each slot.                      *)
LEMMA OccupiedFinite ==
    ASSUME NEW n \in Nat, NEW t \in Tables(n)
    PROVE  /\ IsFiniteSet(Occupied(t))
           /\ Cardinality(Occupied(t)) \in Nat
           /\ Cardinality(Occupied(t)) <= n
<1>1. IsFiniteSet(0..n-1) /\ Cardinality(0..n-1) = n
  BY FS_Interval
<1>2. Occupied(t) \in SUBSET (0..n-1)
  BY TableDomain DEF Occupied
<1> QED
  BY <1>1, <1>2, FS_Subset, FS_CardinalityType

(* With fewer entries than buckets some bucket is empty.                   *)
LEMMA FreeBucketExists ==
    ASSUME NEW n \in Nat, NEW t \in Tables(n), Cardinality(Occupied(t)) < n
    PROVE  \E s \in 0..n-1 : t[s] = Empty
<1>1. IsFiniteSet(0..n-1) /\ Cardinality(0..n-1) = n
  BY FS_Interval
<1>2. Occupied(t) # 0..n-1
  BY <1>1
<1> QED
  BY <1>2, TableDomain DEF Occupied

(* Probing on from a slot that collides extends the arc by that slot.      *)
LEMMA ProbeStep ==
    ASSUME NEW n \in Nat, NEW t, NEW k, NEW home \in Nat, NEW h \in Nat,
           home < n, h < n,
           \A x \in Arc(home, h, n) : Collides(t, x, k),
           Collides(t, h, k)
    PROVE  \A x \in Arc(home, NextSlot(h, n), n) : Collides(t, x, k)
<1> SUFFICES ASSUME NEW x \in Arc(home, NextSlot(h, n), n), x # h
             PROVE  x \in Arc(home, h, n)
  OBVIOUS
<1> QED
  BY DEF Arc, NextSlot

(* Of two slots, one lies on the way from home to the other.               *)
LEMMA ArcsCompare ==
    ASSUME NEW n \in Nat, NEW home \in Nat, NEW a \in Nat, NEW b \in Nat,
           home < n, a < n, b < n, a # b
    PROVE  a \in Arc(home, b, n) \/ b \in Arc(home, a, n)
BY DEF Arc

(* A key that is in a sound table is not behind the slot where its probe   *)
(* stopped: it is in that slot.                                            *)
LEMMA ProbeFindsKey ==
    ASSUME NEW n \in Nat, n > 0, NEW t \in Tables(n), NEW k \in Keys, NEW h \in Nat, h < n,
           NoDuplicateKeys(t), ChainsUnbroken(t, n),
           \A x \in Arc(Home(k, n), h, n) : Collides(t, x, k),
           ~Collides(t, h, k),
           NEW s \in Occupied(t), t[s].key = k
    PROVE  s = h
<1> SUFFICES ASSUME s # h PROVE FALSE
  OBVIOUS
<1>1. s \in Nat /\ s < n /\ t[s] # Empty
  BY TableDomain
<1>2. h \in Arc(Home(k, n), s, n) \/ s \in Arc(Home(k, n), h, n)
  BY <1>1, HomeInTable, ArcsCompare
<1>3. CASE h \in Arc(Home(k, n), s, n)
  <2>1. h \in Occupied(t)
    BY <1>3 DEF ChainsUnbroken
  <2>2. t[h].key = k
    BY <2>1, TableDomain DEF Collides
  <2> QED
    BY <2>1, <2>2, s # h DEF NoDuplicateKeys
<1>4. CASE s \in Arc(Home(k, n), h, n)
  BY <1>4, <1>1 DEF Collides
<1> QED
  BY <1>2, <1>3, <1>4

(* What storing key k in the slot where its probe stopped does to a table. *)
LEMMA StoreOccupies ==
    ASSUME NEW n \in Nat, NEW t \in Tables(n), NEW h \in Nat, h < n,
           NEW k \in Keys, NEW v \in Values
    PROVE  /\ Occupied(Store(t, h, k, v)) = Occupied(t) \cup {h}
           /\ Store(t, h, k, v)[h] = [key |-> k, value |-> v]
           /\ \A s \in Occupied(t) : s # h => Store(t, h, k, v)[s] = t[s]
<1>1. [key |-> k, value |-> v] # Empty
  BY DistinctAssumption
<1> QED
  BY <1>1, TableDomain DEF Store, Occupied, Tables

(* Storing a key where its probe stopped keeps the table sound.            *)
LEMMA StoreKeepsSound ==
    ASSUME NEW n \in Nat, n > 0, NEW t \in Tables(n), NEW h \in Nat, h < n,
           NEW k \in Keys, NEW v \in Values,
           NoDuplicateKeys(t), ChainsUnbroken(t, n),
           \A x \in Arc(Home(k, n), h, n) : Collides(t, x, k),
           ~Collides(t, h, k)
    PROVE  /\ NoDuplicateKeys(Store(t, h, k, v))
           /\ ChainsUnbroken(Store(t, h, k, v), n)
           /\ Contents(Store(t, h, k, v)) =
                {e \in Contents(t) : e.key # k} \cup {[key |-> k, value |-> v]}
           /\ Cardinality(Occupied(Store(t, h, k, v))) <= Cardinality(Occupied(t)) + 1
<1> DEFINE u == Store(t, h, k, v)
<1>1. /\ Occupied(u) = Occupied(t) \cup {h}
      /\ u[h] = [key |-> k, value |-> v]
      /\ \A s \in Occupied(t) : s # h => u[s] = t[s]
  BY StoreOccupies
<1>2. \A s \in Occupied(t) : t[s].key = k => s = h
  BY ProbeFindsKey
<1>3. h \in Occupied(t) => t[h].key = k
  BY TableDomain DEF Collides
<1> HIDE DEF u
<1>4. NoDuplicateKeys(u)
  BY <1>1, <1>2 DEF NoDuplicateKeys
<1>5. ChainsUnbroken(u, n)
  <2> SUFFICES ASSUME NEW s \in Occupied(u)
               PROVE  Arc(Home(u[s].key, n), s, n) \subseteq Occupied(u)
    BY DEF ChainsUnbroken
  <2>1. CASE s = h
    <3>1. Arc(Home(k, n), h, n) \subseteq Occupied(t)
      BY TableDomain DEF Collides, Arc
    <3> QED
      BY <1>1, <2>1, <3>1
  <2>2. CASE s # h
    BY <1>1, <2>2 DEF ChainsUnbroken
  <2> QED
    BY <2>1, <2>2
<1>6. Contents(u) = {e \in Contents(t) : e.key # k} \cup {[key |-> k, value |-> v]}
  BY <1>1, <1>2, <1>3 DEF Contents
<1>7. Cardinality(Occupied(u)) <= Cardinality(Occupied(t)) + 1
  <2>1. IsFiniteSet(Occupied(t)) /\ Cardinality(Occupied(t)) \in Nat
    BY OccupiedFinite
  <2>2. Cardinality(Occupied(t) \cup {h}) =
          IF h \in Occupied(t) THEN Cardinality(Occupied(t)) ELSE Cardinality(Occupied(t)) + 1
    BY <2>1, FS_AddElement
  <2> QED
    BY <1>1, <2>1, <2>2
<1> QED
  BY <1>4, <1>5, <1>6, <1>7 DEF u

(* A table without entries is sound.                                       *)
LEMMA FreshIsSound ==
    ASSUME NEW n \in Nat
    PROVE  /\ Occupied(Fresh(n)) = {} /\ Contents(Fresh(n)) = {}
           /\ NoDuplicateKeys(Fresh(n)) /\ ChainsUnbroken(Fresh(n), n)
           /\ Cardinality(Occupied(Fresh(n))) = 0
<1>1. Occupied(Fresh(n)) = {}
  BY DEF Occupied, Fresh
<1> QED
  BY <1>1, FS_EmptySet DEF Contents, NoDuplicateKeys, ChainsUnbroken

-----------------------------------------------------------------------------
(* The inductive invariant of the table.                                   *)

(* The invariant holds of the empty table.                                 *)
LEMMA TableInit == Init => TableInv
<1> SUFFICES ASSUME Init PROVE TableInv
  OBVIOUS
<1>1. TypeOK /\ CountsOrdered
  BY TypeInit DEF TypeInv
<1>2. ProbeLoops /\ NewTableSound /\ RehashComplete
  BY DEF Init, ProbeLoops, NewTableSound, RehashComplete, Rehashing
<1>3. TableSound /\ CountCovers
  BY FreshIsSound DEF Init, TableSound, CountCovers, Rehashing
<1> QED
  BY <1>1, <1>2, <1>3 DEF TableInv

(* Steps that leave both tables and the counts alone keep what is said of  *)
(* them; only the loop invariants are left to show.                        *)
LEMMA TablesUnchanged ==
    ASSUME TableInv, UNCHANGED <<table, newTable>>, Rehashing' => Rehashing,
           Rehashing' => i' = i
    PROVE  TableSound' /\ NewTableSound' /\ CountCovers' /\ RehashComplete'
<1> USE DEF TableInv, table, newTable
<1>1. TableSound'
  BY DEF TableSound, NoDuplicateKeys, ChainsUnbroken, Occupied
<1>2. NewTableSound'
  BY DEF NewTableSound, NoDuplicateKeys, ChainsUnbroken, Occupied
<1>3. CountCovers'
  BY DEF CountCovers, Occupied
<1>4. RehashComplete'
  BY DEF RehashComplete, Contents, Occupied
<1> QED
  BY <1>1, <1>2, <1>3, <1>4

(* A probe that starts has seen nothing yet.                               *)
LEMMA ProbeStarts ==
    ASSUME NEW t, NEW k \in Keys, NEW n \in Nat, n > 0
    PROVE  \A x \in Arc(Home(k, n), Home(k, n), n) : Collides(t, x, k)
BY HomeInTable DEF Arc

(* Calling add or find disturbs no table and starts its probe.             *)
LEMMA CallSteps ==
    ASSUME TableInv, TypeInv',
           NEW k \in Keys, \/ \E v \in Values : CallAdd(k, v)
                          \/ CallFind(k)
    PROVE  TableInv'
<1> USE DEF TableInv
<1>1. UNCHANGED <<table, newTable>> /\ ~Rehashing'
  BY DEF CallAdd, CallFind, Rehashing, TypeOK
<1>2. TableSound' /\ NewTableSound' /\ CountCovers' /\ RehashComplete'
  BY <1>1, TablesUnchanged
<1>3. ProbeLoops'
  <2>1. CASE CallFind(k)
    <3>1. pc' = "find" /\ op'.key = k /\ i' = 0 /\ allocated' = allocated /\ buckets' = buckets
      BY <2>1 DEF CallFind, table
    <3>2. allocated # 0 => hk' = Home(k, allocated)
      BY <2>1 DEF CallFind
    <3>3. allocated # 0 => Probed(buckets, op.key, allocated)'
      BY <3>1, <3>2, ProbeStarts DEF Probed, TypeOK
    <3>4. allocated # 0 => FindCounted'
      BY <3>1, <3>2, HomeInTable DEF FindCounted, TypeOK
    <3> QED
      BY <3>1, <3>3, <3>4 DEF ProbeLoops
  <2>2. CASE \E v \in Values : CallAdd(k, v)
    <3>1. op'.key = k /\ allocated' = allocated /\ buckets' = buckets /\ pc' \in {"grow", "probe"}
      BY <2>2 DEF CallAdd, table
    <3>2. pc' = "probe" => hk' = Home(k, allocated) /\ allocated > 0
      BY <2>2 DEF CallAdd, NeedsGrow, TypeOK
    <3>3. pc' = "probe" => Probed(buckets, op.key, allocated)'
      BY <3>1, <3>2, ProbeStarts DEF Probed, TypeOK
    <3> QED
      BY <3>1, <3>3 DEF ProbeLoops
  <2> QED
    BY <2>1, <2>2
<1> QED
  BY <1>2, <1>3 DEF TypeInv

(* Neither do deallocate, the first allocation and the start of a          *)
(* doubling.                                                               *)
LEMMA ClearSteps ==
    ASSUME TableInv, TypeInv', Deallocate \/ GrowFirst \/ GrowDouble
    PROVE  TableInv'
<1> USE DEF TableInv, TypeInv, TypeOK, CountsOrdered
<1>1. CASE Deallocate
  <2>1. ~Rehashing' /\ pc' = "idle"
    BY <1>1 DEF Deallocate, Rehashing
  <2>2. TableSound' /\ CountCovers'
    BY <1>1, <2>1, FreshIsSound DEF Deallocate, TableSound, CountCovers
  <2> QED
    BY <2>1, <2>2 DEF ProbeLoops, NewTableSound, RehashComplete
<1>2. CASE GrowFirst
  <2>1. /\ ~Rehashing' /\ pc' = "probe" /\ op' = op /\ op.key \in Keys
        /\ buckets' = Fresh(InitialCapacity) /\ allocated' = InitialCapacity /\ count' = 0
        /\ hk' = Home(op.key, InitialCapacity)
    BY <1>2, OpFields DEF GrowFirst, Rehashing
  <2>2. TableSound' /\ CountCovers'
    BY <2>1, CapacityIsPositive, FreshIsSound DEF TableSound, CountCovers
  <2>3. Probed(buckets, op.key, allocated)'
    BY <2>1, CapacityIsPositive, ProbeStarts DEF Probed
  <2> QED
    BY <2>1, <2>2, <2>3 DEF ProbeLoops, NewTableSound, RehashComplete
<1>3. CASE GrowDouble
  <2>1. /\ Rehashing' /\ pc' = "rehash" /\ i' = 0 /\ UNCHANGED table /\ ~Rehashing
        /\ new_buckets' = Fresh(2 * allocated) /\ new_count' = 0
        /\ buckets' = buckets /\ allocated' = allocated /\ count' = count /\ count = allocated
    BY <1>3 DEF GrowDouble, Rehashing, table
  <2>2. TableSound'
    BY <2>1 DEF TableSound, NoDuplicateKeys, ChainsUnbroken, Occupied
  <2>3. NewTableSound' /\ CountCovers'
    BY <2>1, FreshIsSound DEF NewTableSound, CountCovers
  <2>4. RehashComplete'
    <3>1. {x \in Occupied(buckets) : x < 0} = {}
      BY TableDomain
    <3> QED
      BY <2>1, <3>1, FreshIsSound DEF RehashComplete
  <2> QED
    BY <2>1, <2>2, <2>3, <2>4 DEF ProbeLoops
<1> QED
  BY <1>1, <1>2, <1>3

(* The slots below j + 1 are those below j and j.                          *)
LEMMA OneMore ==
    ASSUME NEW S, \A x \in S : x \in Nat, NEW j \in S
    PROVE  {x \in S : x < j + 1} = {x \in S : x < j} \cup {j}
OBVIOUS

(* The loop of grow keeps the invariant of both tables.                    *)
LEMMA RehashSteps ==
    ASSUME TableInv, TypeInv', RehashNext \/ RehashProbe \/ RehashPlace \/ RehashDone
    PROVE  TableInv'
<1> USE DEF TableInv, TypeInv, TypeOK, CountsOrdered
<1>1. CASE RehashNext
  <2>1. /\ UNCHANGED <<table, newTable>> /\ Rehashing /\ Rehashing' /\ pc = "rehash"
        /\ UNCHANGED <<buckets, allocated, count, new_buckets, new_count>>
        /\ i < count
    BY <1>1 DEF RehashNext, Rehashing, table, newTable
  <2>2. CASE buckets[i] = Empty
    <3>1. i' = i + 1 /\ pc' = "rehash"
      BY <1>1, <2>2 DEF RehashNext
    <3>2. {x \in Occupied(buckets) : x < i + 1} = {x \in Occupied(buckets) : x < i}
      BY <2>2, TableDomain
    <3>3. TableSound'
      BY <2>1 DEF TableSound, NoDuplicateKeys, ChainsUnbroken, Occupied
    <3>4. NewTableSound'
      BY <2>1 DEF NewTableSound, NoDuplicateKeys, ChainsUnbroken, Occupied
    <3>5. CountCovers'
      BY <2>1, <3>1 DEF CountCovers, Occupied
    <3>6. RehashComplete'
      BY <2>1, <3>1, <3>2 DEF RehashComplete, Contents, Occupied
    <3> QED
      BY <3>1, <3>3, <3>4, <3>5, <3>6 DEF ProbeLoops
  <2>3. CASE buckets[i] # Empty
    <3>1. i' = i /\ pc' = "rehash_probe" /\ hk' = Home(buckets[i].key, 2 * allocated)
      BY <1>1, <2>3 DEF RehashNext
    <3>2. TableSound' /\ NewTableSound' /\ CountCovers' /\ RehashComplete'
      BY <2>1, <3>1, TablesUnchanged
    <3>3. buckets[i].key \in Keys
      BY <2>1, <2>3, EntryFields
    <3>4. Probed(new_buckets, buckets[i].key, 2 * allocated)'
      BY <2>1, <3>1, <3>3, ProbeStarts DEF Probed
    <3> QED
      BY <3>1, <3>2, <3>4 DEF ProbeLoops
  <2> QED
    BY <2>2, <2>3
<1>2. CASE RehashProbe
  <2>1. /\ UNCHANGED <<table, newTable>> /\ Rehashing /\ pc' = "rehash_probe" /\ i' = i
        /\ UNCHANGED <<buckets, allocated, new_buckets>>
        /\ hk' = NextSlot(hk, 2 * allocated) /\ Collides(new_buckets, hk, buckets[i].key)
    BY <1>2 DEF RehashProbe, Rehashing, table, newTable
  <2>2. TableSound' /\ NewTableSound' /\ CountCovers' /\ RehashComplete'
    BY <2>1, TablesUnchanged
  <2>3. buckets[i].key \in Keys /\ Probed(new_buckets, buckets[i].key, 2 * allocated)
    BY <1>2, EntryFields DEF RehashProbe, ProbeLoops
  <2>4. Probed(new_buckets, buckets[i].key, 2 * allocated)'
    BY <1>2, <2>1, <2>3, HomeInTable, ProbeStep DEF RehashProbe, Probed
  <2> QED
    BY <2>1, <2>2, <2>4 DEF ProbeLoops
<1>3. CASE RehashPlace
  <2> DEFINE n == 2 * allocated
             e == buckets[i]
             u == Store(new_buckets, hk, e.key, e.value)
  <2>1. /\ Rehashing /\ Rehashing' /\ pc' = "rehash" /\ i' = i + 1
        /\ UNCHANGED <<buckets, allocated, count>>
        /\ new_buckets' = u /\ new_count' = new_count + 1
        /\ ~Collides(new_buckets, hk, e.key)
        /\ i \in Occupied(buckets)
        /\ n \in Nat /\ n > 0 /\ new_buckets \in Tables(n) /\ hk < n
    BY <1>3, TableDomain DEF RehashPlace, Rehashing, table
  <2>2. e \in Entry /\ e.key \in Keys /\ e.value \in Values /\ e = [key |-> e.key, value |-> e.value]
    BY <2>1, TableDomain DEF Entry
  <2>3. Probed(new_buckets, e.key, n)
    BY <1>3 DEF RehashPlace, ProbeLoops
  <2>4. /\ NoDuplicateKeys(u) /\ ChainsUnbroken(u, n)
        /\ Contents(u) = {x \in Contents(new_buckets) : x.key # e.key} \cup {e}
        /\ Cardinality(Occupied(u)) <= Cardinality(Occupied(new_buckets)) + 1
    BY <2>1, <2>2, <2>3, StoreKeepsSound DEF NewTableSound, Probed
  <2> HIDE DEF u, n
  <2>5. TableSound'
    BY <2>1 DEF TableSound, NoDuplicateKeys, ChainsUnbroken, Occupied
  <2>6. NewTableSound'
    BY <2>1, <2>4 DEF NewTableSound, n
  <2>7. CountCovers'
    <3>1. Cardinality(Occupied(u)) \in Nat /\ Cardinality(Occupied(new_buckets)) \in Nat
      BY <2>1, OccupiedFinite DEF n
    <3>2. Cardinality(Occupied(buckets)) <= count /\ Occupied(buckets)' = Occupied(buckets)
      BY <2>1 DEF CountCovers, Occupied
    <3> QED
      BY <2>1, <2>4, <3>1, <3>2 DEF CountCovers
  <2>8. RehashComplete'
    <3> DEFINE passed == {buckets[s] : s \in {x \in Occupied(buckets) : x < i}}
    <3>1. Contents(new_buckets) = passed /\ count = allocated
      BY <2>1 DEF RehashComplete
    <3>2. \A x \in passed : x.key # e.key
      BY <2>1, TableDomain DEF TableSound, NoDuplicateKeys
    <3>3. {x \in Occupied(buckets) : x < i + 1} = {x \in Occupied(buckets) : x < i} \cup {i}
      <4>1. \A x \in Occupied(buckets) : x \in Nat
        BY TableDomain
      <4> QED
        BY <2>1, <4>1, OneMore
    <3>4. Contents(u) = {buckets[s] : s \in {x \in Occupied(buckets) : x < i + 1}}
      BY <2>4, <3>1, <3>2, <3>3
    <3>5. Contents(new_buckets)' = Contents(u) /\ Occupied(buckets)' = Occupied(buckets)
      BY <2>1 DEF Contents, Occupied
    <3> QED
      BY <2>1, <3>1, <3>4, <3>5 DEF RehashComplete
  <2> QED
    BY <2>1, <2>5, <2>6, <2>7, <2>8 DEF ProbeLoops
<1>4. CASE RehashDone
  <2>1. /\ Rehashing /\ ~Rehashing' /\ pc' = "probe" /\ op' = op /\ op.key \in Keys
        /\ buckets' = new_buckets /\ allocated' = 2 * allocated /\ count' = new_count
        /\ hk' = Home(op.key, 2 * allocated) /\ 2 * allocated \in Nat /\ 2 * allocated > 0
    BY <1>4, OpFields DEF RehashDone, Rehashing
  <2>2. TableSound'
    BY <2>1 DEF NewTableSound, TableSound, NoDuplicateKeys, ChainsUnbroken, Occupied
  <2>3. CountCovers'
    BY <2>1 DEF CountCovers, Occupied
  <2>4. Probed(buckets, op.key, allocated)'
    BY <2>1, ProbeStarts DEF Probed
  <2> QED
    BY <2>1, <2>2, <2>3, <2>4 DEF ProbeLoops, NewTableSound, RehashComplete
<1> QED
  BY <1>1, <1>2, <1>3, <1>4

(* So do the probe of add and the store that ends it.                      *)
LEMMA AddSteps ==
    ASSUME TableInv, TypeInv', AddProbe \/ AddPlace
    PROVE  TableInv'
<1> USE DEF TableInv, TypeInv, TypeOK, CountsOrdered
<1>1. CASE AddProbe
  <2>1. /\ UNCHANGED <<table, newTable>> /\ ~Rehashing' /\ pc' = "probe" /\ pc = "probe"
        /\ UNCHANGED <<buckets, allocated, op>>
        /\ hk' = NextSlot(hk, allocated) /\ Collides(buckets, hk, op.key)
        /\ op.key \in Keys
    BY <1>1, OpFields DEF AddProbe, Rehashing, table, newTable
  <2>2. TableSound' /\ NewTableSound' /\ CountCovers' /\ RehashComplete'
    BY <2>1, TablesUnchanged
  <2>3. Probed(buckets, op.key, allocated)'
    BY <2>1, HomeInTable, ProbeStep DEF Probed, ProbeLoops
  <2> QED
    BY <2>1, <2>2, <2>3 DEF ProbeLoops
<1>2. CASE AddPlace
  <2> DEFINE u == Store(buckets, hk, op.key, op.value)
  <2>1. /\ pc = "probe" /\ pc' = "idle" /\ ~Rehashing' /\ UNCHANGED <<allocated, newTable>>
        /\ buckets' = u /\ count' = count + 1
        /\ ~Collides(buckets, hk, op.key)
        /\ op.key \in Keys /\ op.value \in Values
    BY <1>2, OpFields DEF AddPlace, Rehashing
  <2>2. Probed(buckets, op.key, allocated)
    BY <2>1 DEF ProbeLoops
  <2>3. /\ NoDuplicateKeys(u) /\ ChainsUnbroken(u, allocated)
        /\ Cardinality(Occupied(u)) <= Cardinality(Occupied(buckets)) + 1
    BY <2>1, <2>2, StoreKeepsSound DEF TableSound, Probed
  <2>4. u \in Tables(allocated)
    BY <2>1, StoreInTables
  <2> HIDE DEF u
  <2>5. TableSound'
    BY <2>1, <2>3 DEF TableSound
  <2>6. CountCovers'
    <3>1. Cardinality(Occupied(u)) \in Nat /\ Cardinality(Occupied(buckets)) \in Nat
      BY <2>4, OccupiedFinite
    <3> QED
      BY <2>1, <2>3, <3>1 DEF CountCovers
  <2> QED
    BY <2>1, <2>5, <2>6 DEF ProbeLoops, NewTableSound, RehashComplete
<1> QED
  BY <1>1, <1>2

(* So do the iterations of find, which write nothing but the result.       *)
LEMMA FindSteps ==
    ASSUME TableInv, TypeInv', FindProbe \/ FindReturn
    PROVE  TableInv'
<1> USE DEF TableInv, TypeInv, TypeOK, CountsOrdered
<1>1. CASE FindProbe
  <2>1. /\ UNCHANGED <<table, newTable>> /\ ~Rehashing' /\ pc' = "find" /\ pc = "find"
        /\ UNCHANGED <<buckets, allocated, op>>
        /\ hk' = NextSlot(hk, allocated) /\ Collides(buckets, hk, op.key)
        /\ i < allocated /\ i' = i + 1
        /\ op.key \in Keys
    BY <1>1, OpFields DEF FindProbe, FindContinues, Rehashing, table, newTable
  <2>2. TableSound' /\ NewTableSound' /\ CountCovers' /\ RehashComplete'
    BY <2>1, TablesUnchanged
  <2>3. Probed(buckets, op.key, allocated) /\ FindCounted
    BY <2>1 DEF ProbeLoops
  <2>4. Probed(buckets, op.key, allocated)'
    BY <2>1, <2>3, HomeInTable, ProbeStep DEF Probed
  <2>5. FindCounted'
    <3> DEFINE home == Home(op.key, allocated)
    <3>1. home \in Nat /\ home < allocated /\ home' = home
      BY <2>1, HomeInTable
    <3>2. hk = IF home + i < allocated THEN home + i ELSE home + i - allocated
      BY <2>1, <2>3 DEF FindCounted
    <3> HIDE DEF home
    <3>3. i + 1 < allocated =>
            hk' = IF home + (i + 1) < allocated THEN home + (i + 1) ELSE home + (i + 1) - allocated
      BY <2>1, <3>1, <3>2 DEF NextSlot
    <3>4. ASSUME i + 1 = allocated, NEW x \in 0..allocated-1
          PROVE  Collides(buckets, x, op.key)
      <4>1. x = hk \/ x \in Arc(home, hk, allocated)
        BY <2>1, <3>1, <3>2, <3>4 DEF Arc
      <4> QED
        BY <2>1, <2>3, <4>1 DEF Probed, home
    <3> QED
      BY <2>1, <3>1, <3>3, <3>4 DEF FindCounted, home
  <2> QED
    BY <2>1, <2>2, <2>4, <2>5 DEF ProbeLoops
<1>2. CASE FindReturn
  <2>1. UNCHANGED <<table, newTable>> /\ ~Rehashing' /\ pc' = "idle"
    BY <1>2 DEF FindReturn, Rehashing
  <2> QED
    BY <2>1, TablesUnchanged DEF ProbeLoops
<1> QED
  BY <1>1, <1>2

(* Every step keeps the invariant.                                         *)
LEMMA TableStep == TableInv /\ [Next]_vars => TableInv'
<1> SUFFICES ASSUME TableInv, [Next]_vars PROVE TableInv'
  OBVIOUS
<1>1. TypeInv'
  BY TypeStep DEF TableInv, TypeInv
<1>2. CASE UNCHANGED vars
  <2>1. UNCHANGED <<table, newTable>> /\ (Rehashing' <=> Rehashing) /\ i' = i
    BY <1>2 DEF vars, table, newTable, Rehashing
  <2>2. TableSound' /\ NewTableSound' /\ CountCovers' /\ RehashComplete'
    BY <2>1, TablesUnchanged
  <2>3. ProbeLoops'
    BY <1>2 DEF vars, TableInv, ProbeLoops, Probed, FindCounted
  <2> QED
    BY <1>1, <2>2, <2>3 DEF TableInv, TypeInv
<1> QED
  BY <1>1, <1>2, CallSteps, ClearSteps, RehashSteps, AddSteps, FindSteps DEF Next, Step

(* The invariant holds in every reachable state.                           *)
LEMMA TableInvariant == Spec => []TableInv
BY TableInit, TableStep, PTL DEF Spec

-----------------------------------------------------------------------------
(* The safety properties.                                                  *)

(* No key is stored twice, and no entry is cut off from its home slot by   *)
(* an empty bucket: what add stored (hash_table.h:86-100) is what find     *)
(* meets first (102-113), through every overwrite and every grow.          *)
THEOREM TableIsSound == Spec => [](TableSound /\ NewTableSound)
<1>1. TableInv => TableSound /\ NewTableSound
  BY DEF TableInv
<1> QED
  BY <1>1, TableInvariant, PTL

(* count bounds the number of entries and stays within allocated, although *)
(* overwriting a key counts too (hash_table.h:99).                         *)
THEOREM CountIsSafe == Spec => []CountCovers
<1>1. TableInv => CountCovers
  BY DEF TableInv
<1> QED
  BY <1>1, TableInvariant, PTL

(* The unbounded loop of add (hash_table.h:92) always has a free bucket to *)
(* stop at, in the table and in the table that grow builds.                *)
THEOREM AddFindsRoom == Spec => []FreeBucketForAdd
<1>1. TableInv => FreeBucketForAdd
  <2> SUFFICES ASSUME TableInv PROVE FreeBucketForAdd
    OBVIOUS
  <2> USE DEF TableInv, TypeOK, CountsOrdered, CountCovers, Rehashing
  <2>1. CASE pc = "probe"
    <3>1. Cardinality(Occupied(buckets)) < allocated
      BY <2>1, OccupiedFinite
    <3> QED
      BY <2>1, <3>1, FreeBucketExists DEF FreeBucketForAdd
  <2>2. CASE pc = "rehash_probe"
    <3>1. Cardinality(Occupied(new_buckets)) < 2 * allocated
      BY <2>2, OccupiedFinite
    <3> QED
      BY <2>2, <3>1, FreeBucketExists DEF FreeBucketForAdd
  <2> QED
    BY <2>1, <2>2 DEF FreeBucketForAdd
<1> QED
  BY <1>1, TableInvariant, PTL

(* The rehash loop runs to count (hash_table.h:73) and still copies every  *)
(* entry: count equals allocated whenever grow doubles the table.          *)
THEOREM GrowKeepsEntries == Spec => []RehashComplete
<1>1. TableInv => RehashComplete
  BY DEF TableInv
<1> QED
  BY <1>1, TableInvariant, PTL

-----------------------------------------------------------------------------
(* The table implements the map.                                           *)

(* What find returns is what the map answers.                              *)
LEMMA FindAnswers ==
    ASSUME TableInv, FindReturn
    PROVE  result' \in Map!Answers(Contents(buckets), op.key)
<1> USE DEF TableInv, TypeOK
<1> DEFINE k == op.key
           hits == {e \in Contents(buckets) : e.key = k}
<1>1. pc = "find" /\ k \in Keys /\ ~FindContinues
  BY OpFields DEF FindReturn
<1>2. CASE allocated # 0 /\ buckets[hk] # Empty /\ buckets[hk].key = k
  <2>1. buckets[hk] \in hits /\ result' = buckets[hk].value
    BY <1>1, <1>2, TableDomain DEF FindReturn, Contents
  <2> QED
    BY <2>1 DEF Map!Answers
<1>3. CASE ~(allocated # 0 /\ buckets[hk] # Empty /\ buckets[hk].key = k)
  <2>1. result' = NULL
    BY <1>3 DEF FindReturn
  <2>2. ASSUME NEW s \in Occupied(buckets), buckets[s].key = k PROVE FALSE
    <3>1. s \in Nat /\ s < allocated
      BY TableDomain
    <3>2. hk < allocated /\ Probed(buckets, k, allocated) /\ FindCounted
      BY <1>1, <3>1 DEF ProbeLoops
    <3>3. CASE Collides(buckets, hk, k)
      <4>1. i = allocated
        BY <1>1, <3>2, <3>3 DEF FindContinues, FindCounted
      <4> QED
        BY <2>2, <3>1, <3>2, <4>1 DEF FindCounted, Collides
    <3>4. CASE ~Collides(buckets, hk, k)
      <4>1. s = hk
        BY <1>1, <2>2, <3>1, <3>2, <3>4, ProbeFindsKey DEF TableSound, Probed
      <4> QED
        BY <1>3, <2>2, <3>1, <4>1, TableDomain
    <3> QED
      BY <3>3, <3>4
  <2>3. hits = {}
    BY <2>2 DEF Contents
  <2> QED
    BY <2>1, <2>3 DEF Map!Answers
<1> QED
  BY <1>2, <1>3

(* Every step of the table is a step of the map or invisible to it.        *)
LEMMA MapStep ==
    ASSUME TableInv, [Next]_vars
    PROVE  [Map!MapNext]_(Map!mapVars)
<1> USE DEF TableInv, TypeOK, CountsOrdered, table, newTable, Map!mapVars, Map!MapNext,
            Map!Idle, Idle
<1>i. op = Idle <=> pc = "idle"
  OBVIOUS
<1>1. ASSUME NEW k \in Keys, NEW v \in Values, CallAdd(k, v) PROVE Map!CallAdd(k, v)
  BY <1>1 DEF CallAdd, Map!CallAdd
<1>2. ASSUME NEW k \in Keys, CallFind(k) PROVE Map!CallFind(k)
  BY <1>2 DEF CallFind, Map!CallFind
<1>3. CASE Deallocate
  BY <1>3, FreshIsSound DEF Deallocate, Map!Clear
<1>4. CASE GrowFirst
  <2>1. Contents(buckets) = {}
    BY <1>4, TableDomain DEF GrowFirst, Contents
  <2> QED
    BY <1>4, <2>1, CapacityIsPositive, FreshIsSound DEF GrowFirst
<1>5. CASE GrowDouble \/ RehashNext \/ RehashProbe \/ RehashPlace \/ AddProbe \/ FindProbe
  BY <1>5 DEF GrowDouble, RehashNext, RehashProbe, RehashPlace, AddProbe, FindProbe
<1>6. CASE RehashDone
  <2>1. i = count /\ count = allocated /\ Rehashing
    BY <1>6 DEF RehashDone, Rehashing
  <2>2. {x \in Occupied(buckets) : x < i} = Occupied(buckets)
    BY <2>1, TableDomain
  <2>3. Contents(new_buckets) = Contents(buckets)
    BY <2>1, <2>2 DEF RehashComplete, Contents
  <2> QED
    BY <1>6, <2>3 DEF RehashDone
<1>7. CASE AddPlace
  <2>1. pc = "probe" /\ op.key \in Keys /\ op.value \in Values /\ op.kind = "add"
    BY <1>7, OpFields DEF AddPlace, Ops, Idle
  <2>2. Contents(Store(buckets, hk, op.key, op.value)) =
          Map!Bind(Contents(buckets), op.key, op.value)
    <3>1. Probed(buckets, op.key, allocated) /\ ~Collides(buckets, hk, op.key)
      BY <1>7, <2>1 DEF AddPlace, ProbeLoops
    <3>2. Contents(Store(buckets, hk, op.key, op.value)) =
            {e \in Contents(buckets) : e.key # op.key}
              \cup {[key |-> op.key, value |-> op.value]}
      BY <2>1, <3>1, StoreKeepsSound DEF Probed, TableSound
    <3> QED
      BY <3>2 DEF Map!Bind
  <2> QED
    BY <1>7, <2>1, <2>2 DEF AddPlace, Map!ReturnAdd
<1>8. CASE FindReturn
  BY <1>8, FindAnswers DEF FindReturn, Map!ReturnFind
<1>9. CASE UNCHANGED vars
  BY <1>9 DEF vars
<1> QED
  BY <1>1, <1>2, <1>3, <1>4, <1>5, <1>6, <1>7, <1>8, <1>9 DEF Next, Step

(* The table behaves like the map of HashMap: an add binds its key at the  *)
(* instant the bucket is written, a find answers with the binding or with  *)
(* nullptr, and growing changes nothing a caller can see                   *)
(* (hash_table.h:53-113).                                                  *)
THEOREM TableImplementsMap == Spec => ImplementsMap
<1>1. Init => Map!MapInit
  BY FreshIsSound DEF Init, Map!MapInit, Map!Idle, Idle
<1>2. TableInv /\ [Next]_vars => [Map!MapNext]_(Map!mapVars)
  BY MapStep
<1> QED
  BY <1>1, <1>2, TableInvariant, PTL DEF Spec, ImplementsMap, Map!MapSpec

=============================================================================
