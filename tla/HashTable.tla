----------------------------- MODULE HashTable -----------------------------
(***************************************************************************)
(* The open-addressing hash table of src/hash_table.h, loop iteration by   *)
(* loop iteration.  Hash_Table<Key, Value> and String_Hash_Table<Value>    *)
(* run the same algorithm and differ in the type of the key only.          *)
(*                                                                         *)
(* The table never removes an entry, grows only when count reaches         *)
(* allocated (a load factor of one), and lets count also grow when a key   *)
(* is overwritten.  Whether the unbounded probe loop of add stops, and     *)
(* whether the rehash loop, which runs up to count and not up to           *)
(* allocated, copies every entry, both depend on how these three facts     *)
(* combine.                                                                *)
(*                                                                         *)
(* A definition X_Y is the variant of X with the bug that Y names.  It is  *)
(* not part of the specification: it stands next to X to show which        *)
(* property notices the bug.  The other modules follow the same convention.*)
(***************************************************************************)
EXTENDS Integers, FiniteSets

CONSTANTS Keys, Values, NULL,
          Hash,             \* get_hash
          InitialCapacity,  \* HASH_TABLE_INITIAL_CAPACITY: 256 in the code
          Empty,            \* a bucket whose occupancy_mask bit is false
          MaxCount          \* bound: no add is called once count reaches it

ASSUME HashAssumption == Hash \in [Keys -> Nat]

(* The code masks with allocated - 1, which is the remainder below because *)
(* allocated is the initial capacity doubled some number of times.         *)
ASSUME CapacityAssumption ==
    /\ InitialCapacity \in Nat \ {0}
    /\ \E p \in 0..30 : InitialCapacity = 2^p

ASSUME DistinctAssumption ==
    /\ NULL \notin Values
    /\ Empty \notin [key : Keys, value : Values]

ASSUME BoundAssumption == MaxCount \in Nat

VARIABLES buckets,      \* buckets and occupancy_mask: an Entry or Empty each
          allocated,
          count,
          new_buckets,  \* new_hash_table of grow, while it is being filled
          new_count,
          op,           \* the call in progress
          pc,           \* the loop the call is in
          hk,           \* the probe cursor
          i,            \* the loop counter of find and of the rehash in grow
          result        \* what the last find returned

table == <<buckets, allocated, count>>
newTable == <<new_buckets, new_count>>
vars == <<buckets, allocated, count, new_buckets, new_count, op, pc, hk, i, result>>

Entry == [key : Keys, value : Values]
Idle == [kind |-> "idle"]

(* get_hash(key) & (allocated - 1), for a table of n > 0 buckets. *)
Home(k, n) == Hash[k] % n

NextSlot_NoWrap(h, n) == h + 1

(* hk = (hk + 1) & (allocated - 1) *)
NextSlot(h, n) == IF h + 1 = n THEN 0 ELSE h + 1

Occupied(t) == {s \in DOMAIN t : t[s] # Empty}

Contents(t) == {t[s] : s \in Occupied(t)}

Collides_AnyEntry(t, h, k) == t[h] # Empty

(* The condition under which a probe loop moves on from slot h. *)
Collides(t, h, k) == t[h] # Empty /\ t[h].key # k

(* calloc of n buckets and of their occupancy mask *)
Fresh(n) == [s \in 0..n-1 |-> Empty]

NeedsGrow_Late(c, n) == n = 0 \/ c > n

NeedsGrow_LoadFactor(c, n) == 4 * c >= 3 * n

NeedsGrow(c, n) == c >= n

Store(t, h, k, v) == [t EXCEPT ![h] = [key |-> k, value |-> v]]

-----------------------------------------------------------------------------
Init ==
    /\ buckets = Fresh(0) /\ allocated = 0 /\ count = 0
    /\ new_buckets = Fresh(0) /\ new_count = 0
    /\ op = Idle /\ pc = "idle"
    /\ hk = 0 /\ i = 0
    /\ result = NULL

(* add(key, value): the entry of the call, up to the growth test. *)
CallAdd(k, v) ==
    /\ pc = "idle"
    /\ count < MaxCount
    /\ op' = [kind |-> "add", key |-> k, value |-> v]
    /\ IF NeedsGrow(count, allocated)
       THEN pc' = "grow" /\ UNCHANGED hk
       ELSE pc' = "probe" /\ hk' = Home(k, allocated)
    /\ UNCHANGED <<table, newTable, i, result>>

(* grow() on a table that has no buckets yet. *)
GrowFirst ==
    /\ pc = "grow"
    /\ allocated = 0
    /\ buckets' = Fresh(InitialCapacity)
    /\ allocated' = InitialCapacity
    /\ count' = 0
    /\ pc' = "probe"
    /\ hk' = Home(op.key, InitialCapacity)
    /\ UNCHANGED <<newTable, op, i, result>>

(* grow() on a table with buckets: allocate twice as many, start copying. *)
GrowDouble ==
    /\ pc = "grow"
    /\ allocated # 0
    /\ new_buckets' = Fresh(2 * allocated)
    /\ new_count' = 0
    /\ i' = 0
    /\ pc' = "rehash"
    /\ UNCHANGED <<table, op, hk, result>>

(* for (int i = 0; i < count; i++): an iteration that finds an empty       *)
(* bucket does nothing, one that finds an entry adds it to the new table.  *)
RehashNext ==
    /\ pc = "rehash"
    /\ i < count
    /\ IF buckets[i] = Empty
       THEN i' = i + 1 /\ UNCHANGED <<pc, hk>>
       ELSE /\ pc' = "rehash_probe"
            /\ hk' = Home(buckets[i].key, 2 * allocated)
            /\ UNCHANGED i
    /\ UNCHANGED <<table, newTable, op, result>>

(* The probe loop of new_hash_table.add, which never needs to grow. *)
RehashProbe ==
    /\ pc = "rehash_probe"
    /\ Collides(new_buckets, hk, buckets[i].key)
    /\ hk' = NextSlot(hk, 2 * allocated)
    /\ UNCHANGED <<table, newTable, op, pc, i, result>>

RehashPlace ==
    /\ pc = "rehash_probe"
    /\ ~Collides(new_buckets, hk, buckets[i].key)
    /\ new_buckets' = Store(new_buckets, hk, buckets[i].key, buckets[i].value)
    /\ new_count' = new_count + 1
    /\ i' = i + 1
    /\ pc' = "rehash"
    /\ UNCHANGED <<table, op, hk, result>>

(* free(buckets); *this = new_hash_table; and back in add. *)
RehashDone ==
    /\ pc = "rehash"
    /\ ~(i < count)
    /\ buckets' = new_buckets
    /\ allocated' = 2 * allocated
    /\ count' = new_count
    /\ new_buckets' = Fresh(0) /\ new_count' = 0
    /\ pc' = "probe"
    /\ hk' = Home(op.key, 2 * allocated)
    /\ UNCHANGED <<op, i, result>>

(* The probe loop of add; it has no bound of its own. *)
AddProbe ==
    /\ pc = "probe"
    /\ Collides(buckets, hk, op.key)
    /\ hk' = NextSlot(hk, allocated)
    /\ UNCHANGED <<table, newTable, op, pc, i, result>>

(* The assignments after the loop; count grows on an overwrite too. *)
AddPlace ==
    /\ pc = "probe"
    /\ ~Collides(buckets, hk, op.key)
    /\ buckets' = Store(buckets, hk, op.key, op.value)
    /\ count' = count + 1
    /\ op' = Idle /\ pc' = "idle"
    /\ UNCHANGED <<allocated, newTable, hk, i, result>>

(* find(key) up to its loop.  With no buckets the cursor is never used.    *)
CallFind(k) ==
    /\ pc = "idle"
    /\ op' = [kind |-> "find", key |-> k]
    /\ pc' = "find"
    /\ i' = 0
    /\ hk' = IF allocated = 0 THEN 0 ELSE Home(k, allocated)
    /\ UNCHANGED <<table, newTable, result>>

FindContinues == i < allocated /\ Collides(buckets, hk, op.key)

FindProbe_NoCount ==
    /\ pc = "find"
    /\ FindContinues
    /\ hk' = NextSlot(hk, allocated)
    /\ UNCHANGED <<table, newTable, op, pc, i, result>>

FindProbe ==
    /\ pc = "find"
    /\ FindContinues
    /\ hk' = NextSlot(hk, allocated)
    /\ i' = i + 1
    /\ UNCHANGED <<table, newTable, op, pc, result>>

FindReturn_NoKeyTest ==
    /\ pc = "find"
    /\ ~FindContinues
    /\ result' = IF allocated # 0 /\ buckets[hk] # Empty THEN buckets[hk].value ELSE NULL
    /\ op' = Idle /\ pc' = "idle"
    /\ UNCHANGED <<table, newTable, hk, i>>

FindReturn ==
    /\ pc = "find"
    /\ ~FindContinues
    /\ result' = IF allocated # 0 /\ buckets[hk] # Empty /\ buckets[hk].key = op.key
                 THEN buckets[hk].value
                 ELSE NULL
    /\ op' = Idle /\ pc' = "idle"
    /\ UNCHANGED <<table, newTable, hk, i>>

(* deallocate() *)
Deallocate ==
    /\ pc = "idle"
    /\ buckets' = Fresh(0) /\ allocated' = 0 /\ count' = 0
    /\ UNCHANGED <<newTable, op, pc, hk, i, result>>

(* What the code does on its own once it has been called. *)
Step ==
    \/ GrowFirst \/ GrowDouble
    \/ RehashNext \/ RehashProbe \/ RehashPlace \/ RehashDone
    \/ AddProbe \/ AddPlace
    \/ FindProbe \/ FindReturn

Next ==
    \/ \E k \in Keys, v \in Values : CallAdd(k, v)
    \/ \E k \in Keys : CallFind(k)
    \/ Deallocate
    \/ Step

Spec == Init /\ [][Next]_vars

(* The table runs on the caller's thread: a call that was made keeps       *)
(* executing until it returns.                                             *)
FairSpec == Spec /\ WF_vars(Step)

-----------------------------------------------------------------------------
Ops == {Idle} \cup [kind : {"add"}, key : Keys, value : Values]
              \cup [kind : {"find"}, key : Keys]

Tables(n) == [0..n-1 -> Entry \cup {Empty}]

Rehashing == pc \in {"rehash", "rehash_probe"}

(* The variables have their types: a table has one bucket per allocated    *)
(* slot, the table under construction twice as many, and the cursor of a   *)
(* running loop is a slot of the table the loop reads.                     *)
TypeOK ==
    /\ allocated \in Nat /\ count \in Nat /\ new_count \in Nat /\ i \in Nat /\ hk \in Nat
    /\ buckets \in Tables(allocated)
    /\ new_buckets \in Tables(IF Rehashing THEN 2 * allocated ELSE 0)
    /\ op \in Ops
    /\ pc \in {"idle", "grow", "probe", "rehash", "rehash_probe", "find"}
    /\ op = Idle <=> pc = "idle"
    /\ op.kind = "find" <=> pc = "find"
    /\ pc \in {"probe", "rehash", "rehash_probe"} => allocated # 0
    /\ pc = "probe" => hk < allocated
    /\ pc = "find" /\ allocated # 0 => hk < allocated
    /\ pc = "rehash_probe" => hk < 2 * allocated /\ i < allocated /\ buckets[i] # Empty
    /\ result \in Values \cup {NULL}

(* A key is stored in one bucket at most, so that what find meets first is *)
(* the entry add last wrote (hash_table.h:92-98).                          *)
NoDuplicateKeys(t) ==
    \A a, b \in Occupied(t) : t[a].key = t[b].key => a = b

(* The slots a probe visits on its way from slot a to slot b. *)
Arc(a, b, n) ==
    {x \in 0..n-1 : IF a <= b THEN a <= x /\ x < b ELSE a <= x \/ x < b}

(* Every entry can be reached from its home slot without meeting an empty  *)
(* bucket, which is where find gives up (hash_table.h:104).                *)
ChainsUnbroken(t, n) ==
    \A s \in Occupied(t) : Arc(Home(t[s].key, n), s, n) \subseteq Occupied(t)

TableSound == NoDuplicateKeys(buckets) /\ ChainsUnbroken(buckets, allocated)

(* The table that grow builds is as sound as the one it replaces.          *)
NewTableSound ==
    Rehashing => NoDuplicateKeys(new_buckets) /\ ChainsUnbroken(new_buckets, 2 * allocated)

(* count never falls behind the number of entries although overwrites make *)
(* it run ahead, and never passes allocated: the two facts that make       *)
(* count >= allocated a safe test for "there may be no free bucket left".  *)
CountCovers ==
    /\ Cardinality(Occupied(buckets)) <= count
    /\ count <= allocated
    /\ Rehashing => Cardinality(Occupied(new_buckets)) <= new_count /\ new_count <= i

(* While a probe loop of add runs, on the table or on the one under        *)
(* construction, some bucket is free: the loop of hash_table.h:92 stops.   *)
FreeBucketForAdd ==
    /\ pc = "probe" => \E s \in 0..allocated-1 : buckets[s] = Empty
    /\ pc = "rehash_probe" => \E s \in 0..2*allocated-1 : new_buckets[s] = Empty

(* Growing keeps every entry: the entries copied so far are exactly those  *)
(* of the buckets passed, and the loop to count passes all of them.        *)
RehashComplete ==
    Rehashing =>
        /\ count = allocated
        /\ Contents(new_buckets) = {buckets[s] : s \in {x \in Occupied(buckets) : x < i}}

(* How count, allocated and the loop counters are related: the part of the *)
(* inductive invariant that is arithmetic only.                            *)
CountsOrdered ==
    /\ count <= allocated
    /\ pc = "probe" => count < allocated
    /\ pc = "grow" => count = allocated
    /\ Rehashing => count = allocated /\ new_count <= i /\ i <= count

(* What a running probe loop has established: every slot between the home  *)
(* of its key and the cursor holds an entry of another key.                *)
Probed(t, k, n) == \A x \in Arc(Home(k, n), hk, n) : Collides(t, x, k)

(* find counts its iterations: the cursor is i slots past the home, and    *)
(* after allocated iterations all buckets have been seen.                  *)
FindCounted ==
    LET home == Home(op.key, allocated)
    IN  /\ i <= allocated
        /\ i < allocated =>
              hk = IF home + i < allocated THEN home + i ELSE home + i - allocated
        /\ i = allocated => \A x \in 0..allocated-1 : Collides(buckets, x, op.key)

ProbeLoops ==
    /\ pc = "probe" => Probed(buckets, op.key, allocated)
    /\ pc = "rehash_probe" => Probed(new_buckets, buckets[i].key, 2 * allocated)
    /\ pc = "find" /\ allocated # 0 => Probed(buckets, op.key, allocated) /\ FindCounted

(* The inductive invariant of the table. *)
TableInv ==
    /\ TypeOK /\ CountsOrdered /\ ProbeLoops
    /\ TableSound /\ NewTableSound /\ CountCovers /\ RehashComplete

(* Every call returns (hash_table.h:92 and 104 loop without a break).      *)
CallsReturn == pc # "idle" ~> pc = "idle"

(* The table implements the map: the entries of its buckets are the map's  *)
(* entries, growing and probing are invisible.                             *)
Map == INSTANCE HashMap WITH entries <- Contents(buckets)
ImplementsMap == Map!MapSpec
=============================================================================
