---------------------------- MODULE LibraryProofs ----------------------------
(***************************************************************************)
(* Proofs about the program's own library: temporary storage (Arena), the  *)
(* Array template (DynArray), an Array in temporary storage (TempArray)    *)
(* and the functions that walk over strings (Strings), for every size of   *)
(* the arena and of a request, every alignment, every set of values, every *)
(* capacity, every length and every text.                                  *)
(***************************************************************************)
EXTENDS TempArray, Strings, SequenceTheorems, TLAPS

-----------------------------------------------------------------------------
(* Rounding                                                                *)

(* The quotient of natural numbers is one, and so is a multiple of it.     *)
LEMMA QuotientIsNat ==
    ASSUME NEW x \in Nat, NEW d \in Nat \ {0}
    PROVE  x \div d \in Nat
  OBVIOUS

(* A product of natural numbers is one.                                    *)
LEMMA ProductIsNat ==
    ASSUME NEW x \in Nat, NEW y \in Nat
    PROVE  x * y \in Nat
  OBVIOUS

(* What a division leaves is less than the divisor.                        *)
LEMMA QuotientReaches ==
    ASSUME NEW x \in Nat, NEW d \in Nat \ {0}
    PROVE  x < (x \div d) * d + d
  OBVIOUS

(* Rounding up gives a size that suffices.                                 *)
LEMMA AlignedSuffices ==
    ASSUME NEW size \in Nat
    PROVE  Aligned(size) \in Nat /\ size <= Aligned(size)
  <1>1. Alignment \in Nat \ {0}
    BY AlignmentAssumption
  <1> DEFINE x == size + Alignment - 1
             q == x \div Alignment
  <1>2. x \in Nat /\ size = (x - Alignment) + 1
    BY <1>1
  <1> HIDE DEF x
  <1>3. q \in Nat /\ x < q * Alignment + Alignment
    BY <1>1, <1>2, QuotientIsNat, QuotientReaches
  <1> HIDE DEF q
  <1>4. q * Alignment \in Nat
    BY <1>1, <1>3, ProductIsNat
  <1> DEFINE rounded == q * Alignment
  <1>5. rounded \in Nat /\ x < rounded + Alignment
    BY <1>3, <1>4
  <1> HIDE DEF rounded
  <1>6. size <= rounded
    BY <1>1, <1>2, <1>5
  <1>7. Aligned(size) = rounded
    BY DEF Aligned, rounded, q, x
  <1> QED BY <1>5, <1>6, <1>7

-----------------------------------------------------------------------------
(* The arena.  An Array may ask it for more than MaxRequest bytes, so its  *)
(* steps are those of Arena with requests of any size.                     *)

ArenaStep ==
    \/ \E size \in Nat : talloc(size)
    \/ Write
    \/ get_temporary_storage_mark
    \/ set_temporary_storage_mark
    \/ reset_temporary_storage

LEMMA NextIsArenaStep == Next => ArenaStep
  BY SizeAssumption DEF Next, ArenaStep

(* What a talloc that fits adds: a block between what was occupied and     *)
(* what is occupied now.                                                   *)
LEMMA NewBlock ==
    ASSUME TypeOK, NEW size \in Nat, TallocFits(size)
    PROVE  /\ occupied' \in 0..ArenaSize /\ occupied <= occupied'
           /\ result' = [start |-> occupied, end |-> occupied'] /\ result' \in Block
           /\ blocks' = blocks \cup {result'} /\ marks' = marks
  <1>1. Aligned(size) \in Nat
    BY AlignedSuffices
  <1>2. occupied \in 0..ArenaSize /\ ArenaSize \in Nat
    BY SizeAssumption DEF TypeOK
  <1>3. occupied' = occupied + Aligned(size) /\ ~(occupied + Aligned(size) > ArenaSize)
    BY DEF TallocFits, Full
  <1>4. occupied' \in 0..ArenaSize /\ occupied <= occupied'
    BY <1>1, <1>2, <1>3
  <1>5. result' = [start |-> occupied, end |-> occupied']
    BY <1>3 DEF TallocFits
  <1> QED BY <1>2, <1>4, <1>5 DEF TallocFits, Block

LEMMA InitTypeOK == Init => TypeOK
  BY SizeAssumption DEF Init, TypeOK, Block, NoBlock

LEMMA StepTypeOK == TypeOK /\ [ArenaStep]_vars => TypeOK'
  <1> SUFFICES ASSUME TypeOK, [ArenaStep]_vars PROVE TypeOK'
    OBVIOUS
  <1>0. NoBlock \in Block
    BY SizeAssumption DEF NoBlock, Block
  <1>1. ASSUME NEW size \in Nat, TallocFails(size) PROVE TypeOK'
    BY <1>0, <1>1 DEF TallocFails, TypeOK
  <1>2. ASSUME NEW size \in Nat, TallocFits(size) PROVE TypeOK'
    <2>1. used' \subseteq 0..ArenaSize - 1
      BY <1>2 DEF TallocFits, TypeOK
    <2> QED BY <1>2, <2>1, NewBlock DEF TypeOK
  <1>3. CASE Write
    <2>1. \A b \in Block : Bytes(b) \subseteq 0..ArenaSize - 1
      BY SizeAssumption DEF Block, Bytes
    <2> QED BY <1>0, <1>3, <2>1 DEF Write, WriteTo, TypeOK
  <1>4. CASE get_temporary_storage_mark
    BY <1>0, <1>4 DEF get_temporary_storage_mark, TypeOK
  <1>5. CASE set_temporary_storage_mark
    BY <1>0, <1>5 DEF set_temporary_storage_mark, TypeOK
  <1>6. CASE reset_temporary_storage
    BY <1>0, <1>6, SizeAssumption DEF reset_temporary_storage, TypeOK
  <1>7. CASE UNCHANGED vars
    BY <1>7 DEF vars, TypeOK
  <1> QED BY <1>1, <1>2, <1>3, <1>4, <1>5, <1>6, <1>7 DEF ArenaStep, talloc

(* occupied stays within the arena and every block handed out lies in it,  *)
(* also when a talloc is rounded up to the very end of the arena           *)
(* (memory_arena.cpp:24-40).                                               *)
THEOREM ArenaTypeCorrect == Spec => []TypeOK
  <1> QED BY InitTypeOK, StepTypeOK, NextIsArenaStep, PTL DEF Spec

-----------------------------------------------------------------------------
(* Why blocks in use stay apart although marks bring old ones back: the    *)
(* blocks of every mark end below it, and no mark is above occupied.       *)
ArenaInv == TypeOK /\ BlocksDisjoint /\ MarksDisjoint

(* The empty arena satisfies the invariant.                                *)
LEMMA InitArenaInv == Init => ArenaInv
  BY SizeAssumption DEF Init, ArenaInv, TypeOK, Block, NoBlock, BlocksDisjoint, MarksDisjoint

(* A talloc adds a block above all others.                                 *)
LEMMA FitsKeepsApart ==
    ASSUME ArenaInv, NEW size \in Nat, TallocFits(size)
    PROVE  BlocksDisjoint' /\ MarksDisjoint'
  <1> DEFINE new == [start |-> occupied, end |-> occupied']
  <1>1. /\ occupied' \in 0..ArenaSize /\ occupied <= occupied'
        /\ blocks' = blocks \cup {new} /\ marks' = marks
    BY NewBlock DEF ArenaInv
  <1>2. occupied \in 0..ArenaSize /\ blocks \subseteq Block
        /\ marks \subseteq [at : 0..ArenaSize, blocks : SUBSET Block]
    BY DEF ArenaInv, TypeOK
  <1>3. ArenaSize \in Nat
    BY SizeAssumption
  <1>4. new.start = occupied /\ new.end = occupied'
    OBVIOUS
  <1>5. \A b \in blocks : /\ b.start \in Int /\ b.end \in Int
                          /\ b.start <= b.end /\ b.end <= occupied
    BY <1>2, <1>3 DEF ArenaInv, BlocksDisjoint, Block
  <1> HIDE DEF new
  <1>6. \A b \in blocks' : b.start <= b.end /\ b.end <= occupied'
    BY <1>1, <1>2, <1>3, <1>4, <1>5
  <1>7. \A a, b \in blocks' : a = b \/ Disjoint(a, b)
    <2> SUFFICES ASSUME NEW a \in blocks', NEW b \in blocks', a # b
                 PROVE  Disjoint(a, b)
      OBVIOUS
    <2>1. CASE a \in blocks /\ b \in blocks
      BY <2>1 DEF ArenaInv, BlocksDisjoint
    <2>2. CASE a \in blocks /\ b = new
      BY <2>2, <1>4, <1>5 DEF Disjoint
    <2>3. CASE a = new /\ b \in blocks
      BY <2>3, <1>4, <1>5 DEF Disjoint
    <2> QED BY <1>1, <2>1, <2>2, <2>3
  <1>8. MarksDisjoint'
    <2>1. \A m \in marks : m.at \in Int /\ m.at <= occupied
      BY <1>2, <1>3 DEF ArenaInv, MarksDisjoint
    <2>2. \A m \in marks : m.at <= occupied'
      BY <2>1, <1>1, <1>2, <1>3
    <2> QED BY <2>2, <1>1 DEF ArenaInv, MarksDisjoint, Disjoint
  <1> QED BY <1>6, <1>7, <1>8 DEF BlocksDisjoint

(* Restoring a mark brings back the blocks below it, and keeps only the    *)
(* marks below it.                                                         *)
LEMMA RestoreKeepsApart ==
    ASSUME ArenaInv, set_temporary_storage_mark
    PROVE  BlocksDisjoint' /\ MarksDisjoint'
  <1>1. PICK m \in marks :
           /\ occupied' = m.at /\ blocks' = m.blocks
           /\ marks' = {k \in marks \ {m} : k.at <= m.at /\ k.blocks \subseteq m.blocks}
    BY DEF set_temporary_storage_mark
  <1>2. BlocksDisjoint'
    BY <1>1 DEF ArenaInv, MarksDisjoint, BlocksDisjoint, Disjoint
  <1>3. MarksDisjoint'
    BY <1>1 DEF ArenaInv, MarksDisjoint, Disjoint
  <1> QED BY <1>2, <1>3

LEMMA StepArenaInv == ArenaInv /\ [ArenaStep]_vars => ArenaInv'
  <1> SUFFICES ASSUME ArenaInv, [ArenaStep]_vars
               PROVE  BlocksDisjoint' /\ MarksDisjoint'
    BY StepTypeOK DEF ArenaInv
  <1>1. ASSUME NEW size \in Nat, TallocFails(size)
        PROVE  BlocksDisjoint' /\ MarksDisjoint'
    BY <1>1 DEF TallocFails, ArenaInv, BlocksDisjoint, MarksDisjoint, Disjoint
  <1>2. ASSUME NEW size \in Nat, TallocFits(size)
        PROVE  BlocksDisjoint' /\ MarksDisjoint'
    BY <1>2, FitsKeepsApart
  <1>3. CASE Write
    BY <1>3 DEF Write, WriteTo, ArenaInv, BlocksDisjoint, MarksDisjoint, Disjoint
  <1>4. CASE get_temporary_storage_mark
    <2>1. BlocksDisjoint'
      BY <1>4 DEF get_temporary_storage_mark, ArenaInv, BlocksDisjoint, Disjoint
    <2>2. occupied <= occupied
      BY SizeAssumption DEF ArenaInv, TypeOK
    <2>3. MarksDisjoint'
      BY <1>4, <2>2
         DEF get_temporary_storage_mark, ArenaInv, BlocksDisjoint, MarksDisjoint, Disjoint
    <2> QED BY <2>1, <2>3
  <1>5. CASE set_temporary_storage_mark
    BY <1>5, RestoreKeepsApart
  <1>6. CASE reset_temporary_storage
    BY <1>6 DEF reset_temporary_storage, BlocksDisjoint, MarksDisjoint
  <1>7. CASE UNCHANGED vars
    BY <1>7 DEF vars, ArenaInv, BlocksDisjoint, MarksDisjoint, Disjoint
  <1> QED BY <1>1, <1>2, <1>3, <1>4, <1>5, <1>6, <1>7 DEF ArenaStep, talloc

(* No two blocks in use ever share a byte: a mark restores no block that a *)
(* later talloc overlaps (temporary_storage.cpp:14-34).                    *)
THEOREM BlocksStayApart == Spec => []BlocksDisjoint
  <1>1. ArenaInv => BlocksDisjoint
    BY DEF ArenaInv
  <1> QED BY <1>1, InitArenaInv, StepArenaInv, NextIsArenaStep, PTL DEF Spec

-----------------------------------------------------------------------------
LEMMA InitZeroed == Init => BlocksZeroed
  <1>1. Bytes(NoBlock) = {}
    BY DEF Bytes, NoBlock
  <1> QED BY <1>1 DEF Init, BlocksZeroed

LEMMA StepZeroed == TypeOK /\ BlocksZeroed /\ [ArenaStep]_vars => BlocksZeroed'
  <1>0. Bytes(NoBlock) = {}
    BY DEF Bytes, NoBlock
  <1> SUFFICES ASSUME TypeOK, BlocksZeroed, [ArenaStep]_vars PROVE BlocksZeroed'
    OBVIOUS
  <1>1. ASSUME NEW size \in Nat, TallocFits(size) PROVE BlocksZeroed'
    <2>1. Bytes(result') = Zeroed(size)
      <3>1. result'.start = occupied /\ result'.end = occupied + Aligned(size)
        BY <1>1 DEF TallocFits
      <3>2. occupied \in Int /\ Aligned(size) \in Int
        BY AlignedSuffices DEF TypeOK
      <3> QED BY <3>1, <3>2 DEF Bytes, Zeroed
    <2> QED BY <1>1, <2>1 DEF TallocFits, BlocksZeroed, Bytes
  <1>2. CASE UNCHANGED vars
    BY <1>2 DEF vars, BlocksZeroed, Bytes
  <1>3. CASE result' = NoBlock
    BY <1>3, <1>0 DEF BlocksZeroed, Bytes
  <1> QED BY <1>1, <1>2, <1>3
          DEF ArenaStep, talloc, TallocFails, Write, WriteTo, get_temporary_storage_mark,
              set_temporary_storage_mark, reset_temporary_storage

(* Every block is handed out zeroed, whatever was written where it lies    *)
(* before a reset or a restored mark (memory_arena.cpp:35-37).             *)
THEOREM BlocksComeZeroed == Spec => []BlocksZeroed
  <1> QED BY InitTypeOK, StepTypeOK, InitZeroed, StepZeroed, NextIsArenaStep, PTL DEF Spec

-----------------------------------------------------------------------------
(* The Array                                                               *)

(* A block with the capacity for size has room for size and for what there *)
(* was.                                                                    *)
LEMMA CapacitySuffices ==
    ASSUME ArrayTypeOK, NEW size \in Nat
    PROVE  /\ Capacity(size) \in Nat
           /\ Capacity(size) >= size /\ Capacity(size) >= allocated
  BY CapacityAssumption DEF Capacity, NewAllocated, ArrayTypeOK

(* reserve keeps the elements and only adds places behind them.            *)
LEMMA ReserveKeeps ==
    ASSUME ArrayTypeOK, NEW size \in Nat, NEW block \in Blocks(size), Reserved(size, block)
    PROVE  /\ block \in [1..Capacity(size) -> Values]
           /\ \A i \in 1..count : block[i] = data[i]
  <1>1. block \in [1..Capacity(size) -> Values]
    BY DEF Blocks
  <1>2. CASE allocated >= size
    BY <1>1, <1>2 DEF Reserved
  <1>3. CASE ~(allocated >= size)
    <2>1. \A i \in 1..allocated : block[i] = data[i]
      BY <1>3 DEF Reserved
    <2> QED BY <1>1, <2>1 DEF ArrayTypeOK
  <1> QED BY <1>1, <1>2, <1>3

(* Removing keeps the block and its size.                                  *)
LEMMA ShiftedIsBlock ==
    ASSUME ArrayTypeOK, NEW n \in 0..count - 1
    PROVE  Shifted(n) \in [1..allocated -> Values]
  <1> SUFFICES ASSUME NEW i \in 1..allocated
               PROVE  (IF n <= i - 1 /\ i - 1 < count - 1 THEN data[i + 1] ELSE data[i]) \in Values
    BY DEF Shifted
  <1>1. i - 1 < count - 1 => i + 1 \in 1..allocated
    BY DEF ArrayTypeOK
  <1> QED BY <1>1 DEF ArrayTypeOK

(* The types hold: count never passes allocated, and data has just so many *)
(* places.                                                                 *)
THEOREM ArrayTypeCorrect == ArraySpec => []ArrayTypeOK
  <1>1. ArrayInit => ArrayTypeOK
    BY DEF ArrayInit, ArrayTypeOK
  <1>2. ArrayTypeOK /\ [ArrayNext]_arrayVars => ArrayTypeOK'
    <2> SUFFICES ASSUME ArrayTypeOK, [ArrayNext]_arrayVars PROVE ArrayTypeOK'
      OBVIOUS
    <2>0. MaxCount \in Nat /\ allocated \in Nat /\ count \in Nat
      BY CapacityAssumption DEF ArrayTypeOK
    <2>1. ASSUME NEW size \in 0..MaxCount, reserve(size) PROVE ArrayTypeOK'
      BY <2>0, <2>1, CapacitySuffices DEF reserve, Blocks, ArrayTypeOK
    <2>2. ASSUME NEW size \in 0..MaxCount, resize(size) PROVE ArrayTypeOK'
      BY <2>0, <2>2, CapacitySuffices DEF resize, Blocks, ArrayTypeOK
    <2>3. ASSUME NEW item \in Values, add(item) PROVE ArrayTypeOK'
      BY <2>0, <2>3, CapacitySuffices DEF add, Blocks, ArrayTypeOK
    <2>5. ASSUME NEW i \in 0..MaxCount - 1, ordered_remove_by_index(i) PROVE ArrayTypeOK'
      <3>1. i \in 0..count - 1
        BY <2>0, <2>5 DEF ordered_remove_by_index
      <3> QED BY <2>0, <2>5, <3>1, ShiftedIsBlock DEF ordered_remove_by_index, ArrayTypeOK
    <2>6. ASSUME NEW value \in Values, ordered_remove_by_value(value) PROVE ArrayTypeOK'
      BY <2>0, <2>6, ShiftedIsBlock DEF ordered_remove_by_value, ArrayTypeOK
    <2>7. CASE deallocate
      BY <2>7 DEF deallocate, ArrayTypeOK
    <2>8. CASE UNCHANGED arrayVars
      BY <2>8 DEF arrayVars, ArrayTypeOK
    <2> QED BY <2>1, <2>2, <2>3, <2>5, <2>6, <2>7, <2>8 DEF ArrayNext
  <1> QED BY <1>1, <1>2, PTL DEF ArraySpec

-----------------------------------------------------------------------------
(* The list an array stands for.                                           *)
Listed == [i \in 1..count |-> data[i]]

(* Cutting the list is what the shifted block holds.                       *)
LEMMA ShiftIsCut ==
    ASSUME ArrayTypeOK, NEW n \in 0..count - 1, data' = Shifted(n), count' = count - 1
    PROVE  Listed' = L!Cut(Listed, n + 1)
  <1>1. Len(Listed) = count
    BY DEF Listed, ArrayTypeOK
  <1>2. \A i \in 1..count - 1 :
           Shifted(n)[i] = IF i < n + 1 THEN Listed[i] ELSE Listed[i + 1]
    BY DEF Shifted, Listed, ArrayTypeOK
  <1> QED BY <1>1, <1>2 DEF Listed, L!Cut

(* Every behaviour of the array is one of the list.                        *)
THEOREM ArrayImplementsList == ArraySpec => ImplementsList
  <1>1. ArrayInit => L!Init
    BY DEF ArrayInit, L!Init
  <1>2. ArrayTypeOK /\ [ArrayNext]_arrayVars => [L!Next]_(L!vars)
    <2> SUFFICES ASSUME ArrayTypeOK, [ArrayNext]_arrayVars PROVE [L!Next]_(L!vars)
      OBVIOUS
    <2>0. MaxCount \in Nat /\ allocated \in Nat /\ count \in Nat /\ Len(Listed) = count
      BY CapacityAssumption DEF ArrayTypeOK, Listed
    <2>1. ASSUME NEW size \in 0..MaxCount, reserve(size) PROVE L!Reserve
      BY <2>0, <2>1, ReserveKeeps DEF reserve, Called, L!Reserve
    <2>2. ASSUME NEW size \in 0..MaxCount, resize(size) PROVE L!Resize
      <3>1. call' = [op |-> "resize", arg |-> size] /\ count' = size
        BY <2>2 DEF resize, Called
      <3>2. Len(Listed') = size
        BY <2>0, <3>1 DEF Listed
      <3>3. \A k \in 1..count : data'[k] = data[k]
        BY <2>0, <2>2, ReserveKeeps DEF resize
      <3>4. \A k \in 1..Len(Listed) : k <= Len(Listed') => Listed'[k] = Listed[k]
        BY <2>0, <3>1, <3>2, <3>3 DEF Listed
      <3>5. call'.op = "resize" /\ call'.arg = size
        BY <3>1
      <3> QED BY <3>2, <3>4, <3>5 DEF L!Resize, Listed
    <2>3. ASSUME NEW item \in Values, add(item) PROVE L!Add
      <3>1. PICK block \in Blocks(count + 1) :
               Reserved(count + 1, block) /\ data' = [block EXCEPT ![count + 1] = item]
        BY <2>3 DEF add
      <3>2. /\ block \in [1..Capacity(count + 1) -> Values] /\ count + 1 \in 1..Capacity(count + 1)
            /\ \A i \in 1..count : block[i] = data[i]
        <4>1. count + 1 \in Nat
          BY <2>0
        <4>2. Capacity(count + 1) \in Nat /\ Capacity(count + 1) >= count + 1
          BY <4>1, CapacitySuffices
        <4>3. count + 1 \in 1..Capacity(count + 1)
          BY <2>0, <4>2
        <4>4. /\ block \in [1..Capacity(count + 1) -> Values]
              /\ \A i \in 1..count : block[i] = data[i]
          BY <3>1, <4>1, ReserveKeeps
        <4> QED BY <4>3, <4>4
      <3>3. /\ data'[count + 1] = item
            /\ \A i \in 1..count : data'[i] = data[i]
        BY <2>0, <3>1, <3>2
      <3>4. count' = count + 1 /\ Called("add", item)
        BY <2>3 DEF add
      <3>5. Listed' = Append(Listed, item)
        <4>1. \A i \in 1..count + 1 : data'[i] = IF i = count + 1 THEN item ELSE data[i]
          BY <2>0, <3>3
        <4> QED BY <2>0, <3>4, <4>1 DEF Listed
      <3> QED BY <3>4, <3>5 DEF L!Add, L!Called, Called, Listed
    <2>5. ASSUME NEW i \in 0..MaxCount - 1, ordered_remove_by_index(i) PROVE L!RemoveAt
      <3>1. i \in 0..count - 1 /\ i + 1 \in 1..Len(Listed) /\ (i + 1) - 1 = i
        BY <2>0, <2>5 DEF ordered_remove_by_index
      <3>2. Listed' = L!Cut(Listed, i + 1)
        BY <2>5, <3>1, ShiftIsCut DEF ordered_remove_by_index
      <3>3. L!Called("remove_by_index", (i + 1) - 1)
        BY <2>5, <3>1 DEF ordered_remove_by_index, Called, L!Called
      <3> QED BY <3>1, <3>2, <3>3 DEF L!RemoveAt, Listed
    <2>6. ASSUME NEW value \in Values, ordered_remove_by_value(value) PROVE L!RemoveValue
      <3>1. L!Called("remove_by_value", value)
        BY <2>6 DEF ordered_remove_by_value, Called, L!Called
      <3>2. CASE (\A i \in 0..count - 1 : data[i + 1] # value) /\ UNCHANGED <<data, count>>
        <4>1. \A k \in 1..Len(Listed) : Listed[k] # value
          <5> SUFFICES ASSUME NEW k \in 1..count PROVE data[k] # value
            BY <2>0 DEF Listed
          <5>1. k - 1 \in 0..count - 1 /\ (k - 1) + 1 = k
            BY <2>0
          <5> QED BY <3>2, <5>1
        <4>2. Listed' = Listed
          BY <3>2 DEF Listed
        <4> QED BY <3>1, <4>1, <4>2 DEF L!RemoveValue, Listed
      <3>3. ASSUME NEW n \in 0..count - 1, Found(value, n), data' = Shifted(n), count' = count - 1
            PROVE  L!RemoveValue
        <4>1. n + 1 \in 1..Len(Listed) /\ Listed[n + 1] = value
          BY <2>0, <3>3 DEF Found, Listed
        <4>2. \A k \in 1..(n + 1) - 1 : Listed[k] # value
          <5> SUFFICES ASSUME NEW k \in 1..n PROVE data[k] # value
            BY <2>0 DEF Listed
          <5>1. k - 1 \in 0..n - 1 /\ (k - 1) + 1 = k
            OBVIOUS
          <5> QED BY <3>3, <5>1 DEF Found
        <4>3. Listed' = L!Cut(Listed, n + 1)
          BY <3>3, ShiftIsCut
        <4> QED BY <3>1, <4>1, <4>2, <4>3 DEF L!RemoveValue, Listed
      <3> QED BY <2>6, <3>2, <3>3 DEF ordered_remove_by_value
    <2>7. ASSUME deallocate PROVE L!Clear
      <3>1. Listed' = <<>>
        BY <2>7 DEF deallocate, Listed
      <3> QED BY <2>7, <3>1 DEF deallocate, Called, L!Clear, L!Called, Listed
    <2>8. CASE UNCHANGED arrayVars
      BY <2>8 DEF arrayVars, L!vars
    <2> QED BY <2>1, <2>2, <2>3, <2>5, <2>6, <2>7, <2>8 DEF ArrayNext, L!Next
  <1> QED BY <1>1, <1>2, ArrayTypeCorrect, PTL DEF ArraySpec, ImplementsList, L!Spec

-----------------------------------------------------------------------------
(* An Array in temporary storage                                           *)

(* Every step of an Array in temporary storage is one of an Array: nobody  *)
(* else changes it, and giving it up is what deallocate does.              *)
LEMMA StorageStepsArray == [StorageNext]_storageVars => [ArrayNext]_arrayVars
  <1> SUFFICES ASSUME [StorageNext]_storageVars PROVE [ArrayNext]_arrayVars
    OBVIOUS
  <1>1. CASE CallInPlace \/ CallWithNewBlock
    BY <1>1 DEF CallInPlace, CallWithNewBlock
  <1>2. CASE OthersStep
    <2>1. ASSUME NEW size \in 0..MaxRequest, OtherTalloc(size) PROVE UNCHANGED arrayVars
      BY <2>1 DEF OtherTalloc
    <2>2. CASE OtherWrite \/ OtherMark
      BY <2>2 DEF OtherWrite, OtherMark
    <2>3. CASE Release
      BY <2>3 DEF Release, GiveUpIfGone, ArrayNext
    <2> QED BY <1>2, <2>1, <2>2, <2>3 DEF OthersStep
  <1>3. CASE UNCHANGED storageVars
    BY <1>3 DEF storageVars
  <1> QED BY <1>1, <1>2, <1>3 DEF StorageNext

(* An Array in temporary storage is an Array, whatever the others do.      *)
THEOREM StorageImplementsArray == StorageSpec => ArraySpec
  <1>1. StorageInit => ArrayInit
    BY DEF StorageInit
  <1> QED BY <1>1, StorageStepsArray, PTL DEF StorageSpec, ArraySpec

(* So it is the list that List promises: a refinement in two steps.        *)
THEOREM StorageImplementsList == StorageSpec => ImplementsList
  <1> QED BY StorageImplementsArray, ArrayImplementsList, PTL

(* The array's block is one of those in use, or there is none, and it has  *)
(* a byte for every place.                                                 *)
StorageInv ==
    use_temporary_storage /\ ~broken =>
        /\ intact
        /\ data_block = NoBlock \/ data_block \in blocks
        /\ data_block.start + allocated <= data_block.end

LEMMA InitStorageInv == StorageInit => StorageInv
  BY DEF StorageInit, ArrayInit, StorageInv, NoBlock

(* The block of the array lies in the arena, below what is handed out next. *)
LEMMA BlockTyped ==
    ASSUME ArenaInv, data_block = NoBlock \/ data_block \in blocks
    PROVE  /\ data_block.start \in Nat /\ data_block.end \in Nat /\ occupied \in Nat
           /\ data_block.start <= data_block.end /\ data_block.end <= occupied
  <1>1. occupied \in Nat
    BY SizeAssumption DEF ArenaInv, TypeOK
  <1>2. CASE data_block = NoBlock
    BY <1>1, <1>2 DEF NoBlock
  <1>3. CASE data_block \in blocks
    BY <1>1, <1>3, SizeAssumption DEF ArenaInv, TypeOK, BlocksDisjoint, Block
  <1> QED BY <1>2, <1>3

(* Every step is one of the arena.                                         *)
LEMMA StorageStepsArena ==
    ASSUME ArrayTypeOK, ArrayTypeOK', ArenaInv, StorageInv, [StorageNext]_storageVars
    PROVE  [ArenaStep]_vars
  <1>1. CASE ~broken /\ CallInPlace
    <2>1. CASE use_temporary_storage /\ allocated' > 0 /\ data' # data
      <3>1. data_block = NoBlock \/ data_block \in blocks
        BY <1>1, <2>1 DEF StorageInv
      <3>2. allocated \in Nat /\ allocated > 0
        BY <1>1, <2>1 DEF CallInPlace, ArrayTypeOK
      <3>3. data_block # NoBlock
        BY <1>1, <2>1, <3>2 DEF StorageInv, NoBlock
      <3>4. WriteTo(data_block)
        BY <1>1, <2>1 DEF CallInPlace
      <3> QED BY <3>1, <3>3, <3>4 DEF Write, ArenaStep
    <2>2. CASE ~(use_temporary_storage /\ allocated' > 0 /\ data' # data)
      BY <1>1, <2>2 DEF CallInPlace
    <2> QED BY <2>1, <2>2
  <1>2. CASE CallWithNewBlock
    <2>1. NewBytes \in Nat /\ talloc(NewBytes)
      BY <1>2 DEF CallWithNewBlock, NewBytes, ArrayTypeOK
    <2> QED BY <2>1 DEF ArenaStep
  <1>3. CASE OthersStep
    <2>1. ASSUME NEW size \in 0..MaxRequest, OtherTalloc(size) PROVE ArenaStep
      BY <2>1, SizeAssumption DEF OtherTalloc, ArenaStep
    <2>2. CASE OtherWrite
      BY <2>2 DEF OtherWrite, Write, ArenaStep
    <2>3. CASE OtherMark
      BY <2>3 DEF OtherMark, ArenaStep
    <2>4. CASE Release
      BY <2>4 DEF Release, ArenaStep
    <2> QED BY <1>3, <2>1, <2>2, <2>3, <2>4 DEF OthersStep
  <1>4. CASE UNCHANGED storageVars
    BY <1>4 DEF storageVars
  <1> QED BY <1>1, <1>2, <1>3, <1>4 DEF StorageNext

(* Bytes of another block, or of a new one, are none of the array's.       *)
LEMMA OthersApart ==
    ASSUME ArrayTypeOK, ArenaInv, StorageInv, use_temporary_storage, ~broken
    PROVE  /\ \A b \in blocks \ {data_block} : Bytes(b) \cap Elements = {}
           /\ \A size \in Nat : Zeroed(size) \cap Elements = {}
  <1>1. /\ data_block = NoBlock \/ data_block \in blocks
        /\ data_block.start + allocated <= data_block.end /\ allocated \in Nat
    BY DEF StorageInv, ArrayTypeOK
  <1>2. /\ data_block.start \in Nat /\ data_block.end \in Nat /\ occupied \in Nat
        /\ data_block.start <= data_block.end /\ data_block.end <= occupied
    BY <1>1, BlockTyped
  <1>3. \A x \in Elements : x \in Int /\ data_block.start <= x /\ x < data_block.end
    BY <1>1, <1>2 DEF Elements
  <1>4. ASSUME NEW b \in blocks \ {data_block} PROVE Bytes(b) \cap Elements = {}
    <2>1. b.start \in Int /\ b.end \in Int
      BY SizeAssumption DEF ArenaInv, TypeOK, Block
    <2>2. CASE data_block = NoBlock
      <3>1. Elements = {}
        BY <1>1, <2>2 DEF Elements, NoBlock
      <3> QED BY <3>1
    <2>3. CASE data_block \in blocks
      <3>1. b.end <= data_block.start \/ data_block.end <= b.start
        BY <2>3 DEF ArenaInv, BlocksDisjoint, Disjoint
      <3>2. \A x \in Bytes(b) : x \in Int /\ b.start <= x /\ x < b.end
        BY <2>1 DEF Bytes
      <3> QED BY <1>2, <1>3, <2>1, <3>1, <3>2
    <2> QED BY <1>1, <2>2, <2>3
  <1>5. ASSUME NEW size \in Nat PROVE Zeroed(size) \cap Elements = {}
    <2>1. Aligned(size) \in Nat
      BY AlignedSuffices
    <2>2. \A x \in Zeroed(size) : x \in Int /\ occupied <= x
      BY <1>2, <2>1 DEF Zeroed
    <2> QED BY <1>2, <1>3, <2>2
  <1> QED BY <1>4, <1>5

LEMMA NextStorageInv ==
    ASSUME ArrayTypeOK, ArrayTypeOK', ArenaInv, StorageInv, [StorageNext]_storageVars
    PROVE  StorageInv'
  <1> SUFFICES ASSUME use_temporary_storage', ~broken'
               PROVE  /\ intact'
                      /\ data_block' = NoBlock \/ data_block' \in blocks'
                      /\ data_block'.start + allocated' <= data_block'.end
    BY DEF StorageInv
  <1>1. CASE UNCHANGED storageVars
    BY <1>1 DEF storageVars, vars, arrayVars, StorageInv
  <1>2. CASE StorageNext
    <2>1. /\ use_temporary_storage /\ ~broken
      BY <1>2 DEF StorageNext, CallInPlace, CallWithNewBlock, OthersStep, OtherTalloc, OtherWrite,
                  OtherMark, Release
    <2>2. /\ intact
          /\ data_block = NoBlock \/ data_block \in blocks
          /\ data_block.start + allocated <= data_block.end
      BY <2>1 DEF StorageInv
    <2>3. /\ data_block.start \in Nat /\ data_block.end \in Nat /\ occupied \in Nat
          /\ allocated \in Nat /\ allocated' \in Nat
      BY <2>2, BlockTyped DEF ArrayTypeOK
    <2>4. CASE CallInPlace
      <3>1. allocated' <= allocated /\ UNCHANGED <<data_block, intact>> /\ blocks' = blocks
        BY <2>1, <2>4 DEF CallInPlace, WriteTo, vars
      <3> QED BY <2>2, <2>3, <3>1
    <2>5. CASE CallWithNewBlock
      <3>1. ~Full(NewBytes) /\ talloc(NewBytes) /\ data_block' = result' /\ intact' = intact
        BY <2>5 DEF CallWithNewBlock
      <3>2. TallocFits(NewBytes)
        BY <3>1 DEF talloc, TallocFails
      <3>3. data_block' \in blocks' /\ data_block' = [start |-> occupied, end |-> occupied + Aligned(allocated')]
        BY <3>1, <3>2 DEF TallocFits, NewBytes
      <3>4. Aligned(allocated') \in Nat /\ allocated' <= Aligned(allocated')
        BY <2>3, AlignedSuffices
      <3>5. data_block'.start + allocated' <= data_block'.end
        BY <2>3, <3>3, <3>4
      <3> QED BY <2>2, <3>1, <3>3, <3>5
    <2>6. ASSUME NEW size \in 0..MaxRequest, OtherTalloc(size)
          PROVE  /\ intact' /\ blocks \subseteq blocks'
                 /\ UNCHANGED <<data_block, allocated>>
      <3>1. /\ ~Full(size) /\ talloc(size) /\ UNCHANGED <<data_block, allocated>>
            /\ intact' = (intact /\ Zeroed(size) \cap Elements = {})
        BY <2>6 DEF OtherTalloc, WrittenByOthers, arrayVars
      <3>2. Zeroed(size) \cap Elements = {}
        BY <2>1, OthersApart, SizeAssumption
      <3>3. blocks \subseteq blocks'
        BY <3>1 DEF talloc, TallocFails, TallocFits
      <3> QED BY <2>2, <3>1, <3>2, <3>3
    <2>7. CASE OtherWrite
      <3>1. PICK b \in blocks \ {data_block} :
               /\ WriteTo(b)
               /\ intact' = (intact /\ Bytes(b) \cap Elements = {})
               /\ UNCHANGED <<data_block, allocated>>
        BY <2>7 DEF OtherWrite, WrittenByOthers, arrayVars
      <3>2. Bytes(b) \cap Elements = {}
        BY <2>1, OthersApart
      <3>3. blocks' = blocks
        BY <3>1 DEF WriteTo
      <3> QED BY <2>2, <3>1, <3>2, <3>3
    <2>8. CASE OtherMark
      BY <2>2, <2>8 DEF OtherMark, get_temporary_storage_mark, arrayVars
    <2>9. CASE Release
      <3>1. CASE data_block \notin blocks'
        BY <2>2, <2>9, <3>1 DEF Release, GiveUpIfGone, deallocate, NoBlock
      <3>2. CASE data_block \in blocks'
        BY <2>2, <2>9, <3>2 DEF Release, GiveUpIfGone, arrayVars
      <3> QED BY <3>1, <3>2
    <2> QED BY <1>2, <2>2, <2>4, <2>5, <2>6, <2>7, <2>8, <2>9 DEF StorageNext, OthersStep
  <1> QED BY <1>1, <1>2

(* The arena keeps its blocks apart and hands them out zeroed with an      *)
(* Array among its users, who asks for blocks of its own choice and keeps  *)
(* the ones it has left occupied.                                          *)
THEOREM StorageKeepsArena == StorageSpec => [](TypeOK /\ BlocksDisjoint /\ BlocksZeroed)
  <1> DEFINE Inv == ArenaInv /\ BlocksZeroed /\ StorageInv
  <1>1. StorageInit => Inv
    BY InitArenaInv, InitZeroed, InitStorageInv DEF StorageInit
  <1>2. ArrayTypeOK /\ ArrayTypeOK' /\ Inv /\ [StorageNext]_storageVars => Inv'
    BY StorageStepsArena, NextStorageInv, StepArenaInv, StepZeroed DEF ArenaInv
  <1>3. Inv => TypeOK /\ BlocksDisjoint /\ BlocksZeroed
    BY DEF ArenaInv
  <1> HIDE DEF Inv
  <1> QED BY <1>1, <1>2, <1>3, StorageImplementsArray, ArrayTypeCorrect, PTL DEF StorageSpec

(* Nobody who may still write to temporary storage owns a byte of an       *)
(* Array's block, and the block has a byte for every place the Array       *)
(* counts on (array.h:117-144; temporary_storage.cpp:14-34).               *)
THEOREM ContentsKept == StorageSpec => []ArrayContentsKept
  <1> DEFINE Inv == ArenaInv /\ StorageInv
  <1>1. StorageInit => Inv
    BY InitArenaInv, InitStorageInv DEF StorageInit
  <1>2. ArrayTypeOK /\ ArrayTypeOK' /\ Inv /\ [StorageNext]_storageVars => Inv'
    BY StorageStepsArena, NextStorageInv, StepArenaInv
  <1>3. ArrayTypeOK /\ Inv => ArrayContentsKept
    <2> SUFFICES ASSUME ArrayTypeOK, Inv, use_temporary_storage, ~broken
                 PROVE  intact /\ allocated <= data_block.end - data_block.start
      BY DEF ArrayContentsKept
    <2>1. /\ intact
          /\ data_block = NoBlock \/ data_block \in blocks
          /\ data_block.start + allocated <= data_block.end /\ allocated \in Nat
      BY DEF StorageInv, ArrayTypeOK
    <2>2. data_block.start \in Nat /\ data_block.end \in Nat
      BY <2>1, BlockTyped
    <2> QED BY <2>1, <2>2
  <1> HIDE DEF Inv
  <1> QED BY <1>1, <1>2, <1>3, StorageImplementsArray, ArrayTypeCorrect, PTL DEF StorageSpec

-----------------------------------------------------------------------------
(* Slices of a text: l characters from the d-th on.                        *)

Slice(t, d, l) == SubSeq(t, d, d + l - 1)

LEMMA SliceIs ==
    ASSUME NEW C, NEW t \in Seq(C), NEW d \in Nat \ {0}, NEW l \in Nat, d + l <= Len(t) + 1
    PROVE  /\ Slice(t, d, l) \in Seq(C) /\ Len(Slice(t, d, l)) = l
           /\ \A j \in 1..l : Slice(t, d, l)[j] = t[d + j - 1]
  <1>1. d + l - 1 \in Int /\ d \in Int /\ Len(t) \in Nat
    OBVIOUS
  <1>2. \A j \in d..d + l - 1 : t[j] \in C
    BY <1>1
  <1>3. /\ Slice(t, d, l) \in Seq(C)
        /\ Len(Slice(t, d, l)) = IF d <= d + l - 1 THEN (d + l - 1) - d + 1 ELSE 0
        /\ \A j \in 1..(d + l - 1) - d + 1 : Slice(t, d, l)[j] = t[d + j - 1]
    BY <1>1, <1>2, SubSeqProperties DEF Slice
  <1>4. (d + l - 1) - d + 1 = l /\ (IF d <= d + l - 1 THEN (d + l - 1) - d + 1 ELSE 0) = l
    OBVIOUS
  <1> QED BY <1>3, <1>4

(* What holds of every place of the text that a slice takes holds of the   *)
(* slice.                                                                  *)
LEMMA SliceOf ==
    ASSUME NEW C, NEW t \in Seq(C), NEW d \in Nat \ {0}, NEW l \in Nat, d + l <= Len(t) + 1,
           NEW A, \A j \in d..d + l - 1 : t[j] \in A
    PROVE  \A j \in 1..l : Slice(t, d, l)[j] \in A
  <1> SUFFICES ASSUME NEW j \in 1..l PROVE Slice(t, d, l)[j] \in A
    OBVIOUS
  <1>1. d + j - 1 \in d..d + l - 1
    OBVIOUS
  <1>2. Slice(t, d, l)[j] = t[d + j - 1]
    BY SliceIs
  <1> QED BY <1>1, <1>2

(* A slice of one place is the character there.                            *)
LEMMA SliceOfOne ==
    ASSUME NEW C, NEW t \in Seq(C), NEW d \in Nat \ {0}, d + 1 <= Len(t) + 1
    PROVE  Slice(t, d, 1) = <<t[d]>>
  <1>1. /\ Slice(t, d, 1) \in Seq(C) /\ Len(Slice(t, d, 1)) = 1
        /\ \A j \in 1..1 : Slice(t, d, 1)[j] = t[d + j - 1]
    <2>1. 1 \in Nat
      OBVIOUS
    <2> QED BY <2>1, SliceIs, Zenon
  <1>2. d + 1 - 1 = d /\ 1 \in 1..1
    OBVIOUS
  <1>3. Slice(t, d, 1)[1] = t[d]
    BY <1>1, <1>2
  <1> HIDE DEF Slice
  <1> QED BY <1>1, <1>3

(* A slice falls apart into what comes before any place in it and what     *)
(* comes after.                                                            *)
LEMMA SliceSplits ==
    ASSUME NEW C, NEW t \in Seq(C), NEW d \in Nat \ {0}, NEW l \in Nat, d + l <= Len(t) + 1,
           NEW k \in 0..l
    PROVE  /\ Slice(t, d, l) = Slice(t, d, k) \o Slice(t, d + k, l - k)
           /\ SubSeq(Slice(t, d, l), 1, k) = Slice(t, d, k)
           /\ SubSeq(Slice(t, d, l), k + 1, l) = Slice(t, d + k, l - k)
  <1> DEFINE whole == Slice(t, d, l)
             front == Slice(t, d, k)
             back  == Slice(t, d + k, l - k)
  <1>1. /\ whole \in Seq(C) /\ Len(whole) = l
        /\ \A j \in 1..l : whole[j] = t[d + j - 1]
    BY SliceIs
  <1>2. /\ front \in Seq(C) /\ Len(front) = k
        /\ \A j \in 1..k : front[j] = t[d + j - 1]
    <2>1. k \in Nat /\ d + k <= Len(t) + 1
      OBVIOUS
    <2> QED BY <2>1, SliceIs
  <1>3. /\ back \in Seq(C) /\ Len(back) = l - k
        /\ \A j \in 1..l - k : back[j] = t[(d + k) + j - 1]
    <2>1. d + k \in Nat \ {0} /\ l - k \in Nat /\ (d + k) + (l - k) <= Len(t) + 1
      OBVIOUS
    <2> QED BY <2>1, SliceIs
  <1> HIDE DEF whole, front, back
  <1>4. whole = front \o back
    <2>1. /\ front \o back \in Seq(C) /\ Len(front \o back) = l
          /\ \A j \in 1..k : (front \o back)[j] = front[j]
          /\ \A j \in 1..l - k : (front \o back)[k + j] = back[j]
      <3>1. /\ front \o back \in Seq(C) /\ Len(front \o back) = Len(front) + Len(back)
            /\ \A j \in 1..Len(front) : (front \o back)[j] = front[j]
            /\ \A j \in 1..Len(back) : (front \o back)[Len(front) + j] = back[j]
        <4>1. front \in Seq(C) /\ back \in Seq(C)
          BY <1>2, <1>3, Zenon
        <4> QED BY <4>1
      <3>2. k + (l - k) = l
        OBVIOUS
      <3> QED BY <1>2, <1>3, <3>1, <3>2, Zenon
    <2>2. l \in Nat
      OBVIOUS
    <2>3. ASSUME NEW j \in 1..l PROVE (front \o back)[j] = whole[j]
      <3>1. CASE j <= k
        <4>1. j \in 1..k
          BY <3>1
        <4> QED BY <1>1, <1>2, <2>1, <4>1
      <3>2. CASE j > k
        <4>1. j - k \in 1..l - k /\ k + (j - k) = j /\ (d + k) + (j - k) - 1 = d + j - 1
          BY <3>2
        <4>2. (front \o back)[j] = back[j - k]
          BY <2>1, <4>1
        <4>3. back[j - k] = t[(d + k) + (j - k) - 1]
          BY <1>3, <4>1, Zenon
        <4> QED BY <1>1, <4>1, <4>2, <4>3, Zenon
      <3>3. j <= k \/ j > k
        OBVIOUS
      <3> QED BY <3>1, <3>2, <3>3, Zenon
    <2> QED BY <1>1, <2>1, <2>2, <2>3, SeqEqual
  <1>5. SubSeq(whole, 1, k) = front
    <2>1. SubSeq(whole, 1, k) \in Seq(C) /\ Len(SubSeq(whole, 1, k)) = k
          /\ \A j \in 1..k : SubSeq(whole, 1, k)[j] = whole[j]
      BY <1>1
    <2>2. \A j \in 1..k : SubSeq(whole, 1, k)[j] = front[j]
      <3>1. \A j \in 1..k : j \in 1..l
        OBVIOUS
      <3> QED BY <1>1, <1>2, <2>1, <3>1
    <2> QED BY <1>2, <2>1, <2>2, SeqEqual
  <1>6. SubSeq(whole, k + 1, l) = back
    <2>1. SubSeq(whole, k + 1, l) \in Seq(C) /\ Len(SubSeq(whole, k + 1, l)) = l - k
          /\ \A j \in 1..l - k : SubSeq(whole, k + 1, l)[j] = whole[k + j]
      BY <1>1
    <2>2. \A j \in 1..l - k : SubSeq(whole, k + 1, l)[j] = back[j]
      <3> SUFFICES ASSUME NEW j \in 1..l - k PROVE SubSeq(whole, k + 1, l)[j] = back[j]
        OBVIOUS
      <3>1. k + j \in 1..l /\ d + (k + j) - 1 = (d + k) + j - 1
        OBVIOUS
      <3> QED BY <1>1, <1>3, <2>1, <3>1
    <2> QED BY <1>3, <2>1, <2>2, SeqEqual
  <1> QED BY <1>4, <1>5, <1>6 DEF whole, front, back

-----------------------------------------------------------------------------
(* The functions that walk over strings                                    *)

Blanks == {" ", "\n"}
LineEnds == {"\n", "\r"}

InText(str) ==
    /\ str \in [data : Nat \ {0}, length : Nat]
    /\ str.data + str.length <= Len(text) + 1

End(str) == str.data + str.length

(* The function f is running, or has returned from its loop.               *)
Entered(f) == op = f /\ (pc # "idle" \/ arg.length > 0)

StringsTyped ==
    /\ text \in Seq(Chars)
    /\ InText(s) /\ InText(arg) /\ InText(string_result)
    /\ pc \in {"idle", "loop", "break"}
    /\ pc = "break" => op \in {"eat_spaces", "eat_trailing_spaces", "consume_next_line"}

(* What each loop has passed so far is what it is there to pass.           *)
SpacesPassed ==
    Entered("eat_spaces") =>
        /\ arg.data <= string_result.data /\ End(string_result) = End(arg)
        /\ \A j \in arg.data..string_result.data - 1 : text[j] \in Blanks
        /\ pc = "idle" => string_result.length > 0 /\ text[string_result.data] \notin Blanks
        /\ pc = "break" => string_result.length = 0

TrailingPassed ==
    Entered("eat_trailing_spaces") =>
        /\ arg.data = string_result.data /\ string_result.length <= arg.length
        /\ \A j \in End(string_result)..End(arg) - 1 : text[j] \in Blanks
        /\ pc = "idle" => string_result.length > 0 /\ text[End(string_result) - 1] \notin Blanks
        /\ pc = "break" => string_result.length = 0

LinePassed ==
    Entered("consume_next_line") =>
        /\ arg.data <= s.data /\ End(s) = End(arg)
        /\ pc # "idle" =>
              /\ string_result = arg
              /\ \A j \in arg.data..s.data - 1 : text[j] \notin LineEnds
        /\ pc = "break" => s.length = 0
        /\ pc = "idle" =>
              /\ string_result.data = arg.data /\ s.data = End(string_result) + 1
              /\ text[End(string_result)] \in LineEnds
              /\ \A j \in arg.data..End(string_result) - 1 : text[j] \notin LineEnds

StringsInv == StringsTyped /\ SpacesPassed /\ TrailingPassed /\ LinePassed

LEMMA InitStringsInv == StringsInit => StringsInv
  <1> SUFFICES ASSUME StringsInit PROVE StringsInv
    OBVIOUS
  <1>1. text \in Seq(Chars) /\ Len(text) \in Nat
    <2>1. PICK l \in 0..MaxLength : text \in [1..l -> Chars]
      BY DEF StringsInit, BoundedSeq, SeqOf
    <2> QED BY <2>1
  <1>2. InText(s) /\ InText(arg) /\ InText(string_result)
    BY <1>1 DEF StringsInit, String, Empty, InText
  <1> QED BY <1>1, <1>2
          DEF StringsInit, StringsInv, StringsTyped, Entered, SpacesPassed, TrailingPassed, LinePassed

LEMMA CallKeeps ==
    ASSUME StringsInv, NEW f \in Ops, Call(f)
    PROVE  StringsInv'
  <1>1. /\ text \in Seq(Chars) /\ InText(s) /\ Len(text) \in Nat
        /\ s.data \in Nat \ {0} /\ s.length \in Nat
    BY DEF StringsInv, StringsTyped, InText
  <1>2. /\ pc = "idle" /\ op' = f /\ arg' = s /\ text' = text /\ s' = s
        /\ IF s.length <= 0 THEN string_result' = Empty /\ pc' = pc
                            ELSE string_result' = s /\ pc' = "loop"
    BY DEF Call, is_empty
  <1>3. InText(Empty)
    BY <1>1 DEF InText, Empty, String
  <1>4. CASE s.length <= 0
    <2>1. pc' = "idle" /\ ~(arg'.length > 0)
      BY <1>1, <1>2, <1>4
    <2>2. StringsTyped'
      BY <1>1, <1>2, <1>3, <1>4 DEF StringsTyped, InText
    <2> QED BY <2>1, <2>2 DEF StringsInv, Entered, SpacesPassed, TrailingPassed, LinePassed
  <1>5. CASE ~(s.length <= 0)
    <2>1. pc' = "loop" /\ string_result' = s
      BY <1>2, <1>5
    <2>2. StringsTyped'
      BY <1>1, <1>2, <2>1 DEF StringsTyped, InText
    <2>3. /\ s.data <= s.data /\ s.length <= s.length
          /\ s.data..s.data - 1 = {} /\ End(s)..End(s) - 1 = {}
      BY <1>1 DEF End
    <2> QED BY <1>2, <2>1, <2>2, <2>3 DEF StringsInv, SpacesPassed, TrailingPassed, LinePassed, End
  <1> QED BY <1>4, <1>5

LEMMA EatSpacesKeeps ==
    ASSUME StringsInv, EatSpaces
    PROVE  StringsInv'
  <1>1. /\ pc = "loop" /\ op = "eat_spaces" /\ op' = op /\ arg' = arg /\ text' = text
        /\ StringsTyped /\ InText(string_result) /\ InText(s) /\ InText(arg)
    BY DEF EatSpaces, Break, StringsInv, StringsTyped
  <1>2. /\ arg.data <= string_result.data /\ End(string_result) = End(arg)
        /\ \A j \in arg.data..string_result.data - 1 : text[j] \in Blanks
    BY <1>1 DEF StringsInv, SpacesPassed, Entered
  <1>3. /\ string_result.data \in Nat \ {0} /\ string_result.length \in Nat /\ Len(text) \in Nat
        /\ string_result.data + string_result.length <= Len(text) + 1 /\ arg.data \in Nat
    BY <1>1 DEF InText, StringsTyped
  <1>4. TrailingPassed' /\ LinePassed'
    BY <1>1 DEF TrailingPassed, LinePassed, Entered
  <1>5. CASE Break(string_result, 0)
    <2>1. pc' = "break" /\ UNCHANGED <<s, string_result>> /\ string_result.length = 0
      BY <1>3, <1>5 DEF Break, Asserted
    <2>2. StringsTyped' /\ SpacesPassed'
      BY <1>1, <1>2, <2>1 DEF StringsTyped, InText, SpacesPassed, End
    <2> QED BY <1>4, <2>2 DEF StringsInv
  <1>6. CASE /\ Asserted(string_result, 0) /\ is_space(At(string_result, 0))
             /\ string_result' = advance(string_result) /\ UNCHANGED <<s, pc>>
    <2>1. string_result.length > 0 /\ text[string_result.data] \in Blanks
      <3>1. string_result.data + 0 = string_result.data
        BY <1>3
      <3> QED BY <1>6, <3>1 DEF Asserted, is_space, At, Blanks
    <2>2. /\ string_result'.data = string_result.data + 1
          /\ string_result'.length = string_result.length - 1
          /\ string_result' \in [data : Nat \ {0}, length : Nat]
      BY <1>3, <1>6, <2>1 DEF advance, is_empty, String
    <2>3. StringsTyped'
      BY <1>1, <1>3, <1>6, <2>2 DEF StringsTyped, InText
    <2>4. \A j \in arg.data..string_result'.data - 1 : text[j] \in Blanks
      <3> SUFFICES ASSUME NEW j \in arg.data..string_result'.data - 1 PROVE text[j] \in Blanks
        OBVIOUS
      <3>1. j = string_result.data \/ j \in arg.data..string_result.data - 1
        BY <1>3, <2>2
      <3> QED BY <1>2, <2>1, <3>1
    <2>5. arg.data <= string_result'.data /\ string_result'.data + string_result'.length = End(arg)
      BY <1>2, <1>3, <2>2 DEF End
    <2>6. SpacesPassed'
      BY <1>1, <1>6, <2>4, <2>5 DEF SpacesPassed, End
    <2> QED BY <1>4, <2>3, <2>6 DEF StringsInv
  <1>7. CASE /\ Asserted(string_result, 0) /\ ~is_space(At(string_result, 0))
             /\ s' = string_result /\ pc' = "idle" /\ UNCHANGED string_result
    <2>1. string_result.length > 0 /\ text[string_result.data] \notin Blanks
      <3>1. string_result.data + 0 = string_result.data
        BY <1>3
      <3> QED BY <1>7, <3>1 DEF Asserted, is_space, At, Blanks
    <2>2. StringsTyped'
      BY <1>1, <1>7 DEF StringsTyped, InText
    <2>3. SpacesPassed'
      BY <1>1, <1>2, <1>7, <2>1 DEF SpacesPassed, End
    <2> QED BY <1>4, <2>2, <2>3 DEF StringsInv
  <1> QED BY <1>5, <1>6, <1>7 DEF EatSpaces

LEMMA EatTrailingSpacesKeeps ==
    ASSUME StringsInv, EatTrailingSpaces
    PROVE  StringsInv'
  <1>1. /\ pc = "loop" /\ op = "eat_trailing_spaces" /\ op' = op /\ arg' = arg /\ text' = text
        /\ StringsTyped /\ InText(string_result) /\ InText(s) /\ InText(arg)
    BY DEF EatTrailingSpaces, Break, StringsInv, StringsTyped
  <1>2. /\ arg.data = string_result.data /\ string_result.length <= arg.length
        /\ \A j \in End(string_result)..End(arg) - 1 : text[j] \in Blanks
    BY <1>1 DEF StringsInv, TrailingPassed, Entered
  <1>3. /\ string_result.data \in Nat \ {0} /\ string_result.length \in Nat /\ Len(text) \in Nat
        /\ string_result.data + string_result.length <= Len(text) + 1
        /\ arg.data \in Nat /\ arg.length \in Nat
    BY <1>1 DEF InText, StringsTyped
  <1>4. SpacesPassed' /\ LinePassed'
    BY <1>1 DEF SpacesPassed, LinePassed, Entered
  <1> DEFINE last == string_result.length - 1
  <1>5. string_result.data + last = End(string_result) - 1
    BY <1>3 DEF End
  <1>6. CASE Break(string_result, last)
    <2>1. pc' = "break" /\ UNCHANGED <<s, string_result>> /\ string_result.length = 0
      BY <1>3, <1>6 DEF Break, Asserted
    <2>2. StringsTyped' /\ TrailingPassed'
      BY <1>1, <1>2, <2>1 DEF StringsTyped, InText, TrailingPassed, End
    <2> QED BY <1>4, <2>2 DEF StringsInv
  <1>7. CASE /\ Asserted(string_result, last) /\ is_space(At(string_result, last))
             /\ string_result' = String(string_result.data, last) /\ UNCHANGED <<s, pc>>
    <2>1. string_result.length > 0 /\ text[End(string_result) - 1] \in Blanks
      <3>1. 0 <= last
        BY <1>7 DEF Asserted
      <3>2. text[string_result.data + last] \in Blanks
        BY <1>7 DEF is_space, At, Blanks
      <3> QED BY <1>3, <1>5, <3>1, <3>2
    <2>2. /\ string_result'.data = string_result.data
          /\ string_result'.length = string_result.length - 1
          /\ string_result' \in [data : Nat \ {0}, length : Nat]
      BY <1>3, <1>7, <2>1 DEF String
    <2>3. StringsTyped'
      BY <1>1, <1>3, <1>7, <2>2 DEF StringsTyped, InText
    <2>4. string_result'.data + string_result'.length = End(string_result) - 1
      BY <1>3, <2>2 DEF End
    <2>5. \A j \in End(string_result) - 1..End(arg) - 1 : text[j] \in Blanks
      <3> SUFFICES ASSUME NEW j \in End(string_result) - 1..End(arg) - 1 PROVE text[j] \in Blanks
        OBVIOUS
      <3>1. End(string_result) \in Int /\ End(arg) \in Int
        BY <1>3 DEF End
      <3>2. j = End(string_result) - 1 \/ j \in End(string_result)..End(arg) - 1
        BY <3>1
      <3> QED BY <1>2, <2>1, <3>2
    <2>6. string_result'.length <= arg.length
      BY <1>2, <1>3, <2>2
    <2>7. TrailingPassed'
      BY <1>1, <1>2, <1>7, <2>2, <2>4, <2>5, <2>6 DEF TrailingPassed, End
    <2> QED BY <1>4, <2>3, <2>7 DEF StringsInv
  <1>8. CASE /\ Asserted(string_result, last) /\ ~is_space(At(string_result, last))
             /\ s' = string_result /\ pc' = "idle" /\ UNCHANGED string_result
    <2>1. string_result.length > 0 /\ text[End(string_result) - 1] \notin Blanks
      <3>1. 0 <= last
        BY <1>8 DEF Asserted
      <3>2. text[string_result.data + last] \notin Blanks
        BY <1>8 DEF is_space, At, Blanks
      <3> QED BY <1>3, <1>5, <3>1, <3>2
    <2>2. StringsTyped'
      BY <1>1, <1>8 DEF StringsTyped, InText
    <2>3. TrailingPassed'
      BY <1>1, <1>2, <1>8, <2>1 DEF TrailingPassed, End
    <2> QED BY <1>4, <2>2, <2>3 DEF StringsInv
  <1> QED BY <1>6, <1>7, <1>8 DEF EatTrailingSpaces


LEMMA ConsumeNextLineKeeps ==
    ASSUME StringsInv, ConsumeNextLine
    PROVE  StringsInv'
  <1>1. /\ pc = "loop" /\ op = "consume_next_line" /\ op' = op /\ arg' = arg /\ text' = text
        /\ StringsTyped /\ InText(string_result) /\ InText(s) /\ InText(arg)
    BY DEF ConsumeNextLine, Break, StringsInv, StringsTyped
  <1>2. /\ arg.data <= s.data /\ End(s) = End(arg) /\ string_result = arg
        /\ \A j \in arg.data..s.data - 1 : text[j] \notin LineEnds
    BY <1>1 DEF StringsInv, LinePassed, Entered
  <1>3. /\ s.data \in Nat \ {0} /\ s.length \in Nat /\ Len(text) \in Nat
        /\ s.data + s.length <= Len(text) + 1
        /\ arg.data \in Nat \ {0} /\ arg.length \in Nat
        /\ s.data + s.length = arg.data + arg.length
    BY <1>1, <1>2 DEF InText, StringsTyped, End
  <1>4. SpacesPassed' /\ TrailingPassed'
    BY <1>1 DEF SpacesPassed, TrailingPassed, Entered
  <1>5. s.data + 0 = s.data
    BY <1>3
  <1>6. CASE Break(s, 0)
    <2>1. pc' = "break" /\ UNCHANGED <<s, string_result>> /\ s.length = 0
      BY <1>3, <1>6 DEF Break, Asserted
    <2>2. StringsTyped' /\ LinePassed'
      BY <1>1, <1>2, <2>1 DEF StringsTyped, InText, LinePassed, End
    <2> QED BY <1>4, <2>2 DEF StringsInv
  <1>7. ASSUME Asserted(s, 0)
        PROVE  /\ s.length > 0
               /\ advance(s) = [data |-> s.data + 1, length |-> s.length - 1]
               /\ advance(s) \in [data : Nat \ {0}, length : Nat]
    <2>1. s.length > 0
      BY <1>3, <1>7 DEF Asserted
    <2>2. advance(s) = [data |-> s.data + 1, length |-> s.length - 1]
      BY <1>3, <2>1 DEF advance, is_empty, String
    <2>3. s.data + 1 \in Nat \ {0} /\ s.length - 1 \in Nat
      BY <1>3, <2>1
    <2> QED BY <2>1, <2>2, <2>3
  <1>8. CASE /\ Asserted(s, 0) /\ At(s, 0) \notin LineEnds
             /\ s' = advance(s) /\ UNCHANGED <<string_result, pc>>
    <2>1. text[s.data] \notin LineEnds
      BY <1>5, <1>8 DEF At
    <2>2. s'.data = s.data + 1 /\ s'.length = s.length - 1 /\ s.length > 0
      BY <1>7, <1>8
    <2>3. StringsTyped'
      BY <1>1, <1>3, <1>7, <1>8, <2>2 DEF StringsTyped, InText
    <2>4. \A j \in arg.data..s'.data - 1 : text[j] \notin LineEnds
      <3> SUFFICES ASSUME NEW j \in arg.data..s'.data - 1 PROVE text[j] \notin LineEnds
        OBVIOUS
      <3>1. j = s.data \/ j \in arg.data..s.data - 1
        BY <1>3, <2>2
      <3> QED BY <1>2, <2>1, <3>1
    <2>5. arg.data <= s'.data /\ s'.data + s'.length = End(arg)
      BY <1>2, <1>3, <2>2 DEF End
    <2>6. LinePassed'
      BY <1>1, <1>2, <1>8, <2>4, <2>5 DEF LinePassed, End
    <2> QED BY <1>4, <2>3, <2>6 DEF StringsInv
  <1>9. CASE /\ Asserted(s, 0) /\ At(s, 0) \in LineEnds
             /\ string_result' = String(string_result.data, string_result.length - s.length)
             /\ s' = EndLine(s) /\ pc' = "idle"
    <2>1. text[s.data] \in LineEnds
      BY <1>5, <1>9 DEF At
    <2>2. s' = advance(s)
      BY <1>9 DEF EndLine
    <2>3. s'.data = s.data + 1 /\ s'.length = s.length - 1 /\ s.length > 0
      BY <1>7, <1>9, <2>2
    <2>4. string_result' = [data |-> arg.data, length |-> arg.length - s.length]
      BY <1>2, <1>9 DEF String
    <2>5. /\ arg.length - s.length \in Nat /\ arg.data + (arg.length - s.length) = s.data
      BY <1>2, <1>3
    <2>6. /\ string_result'.data = arg.data /\ string_result'.length = arg.length - s.length
          /\ string_result'.data + string_result'.length = s.data
          /\ string_result' \in [data : Nat \ {0}, length : Nat]
      BY <1>3, <2>4, <2>5
    <2>7. StringsTyped'
      <3>1. /\ s' \in [data : Nat \ {0}, length : Nat]
            /\ s'.data + s'.length <= Len(text) + 1
        BY <1>3, <1>7, <1>9, <2>2, <2>3
      <3>2. string_result'.data + string_result'.length <= Len(text) + 1
        BY <1>3, <2>6
      <3> QED BY <1>1, <1>9, <2>6, <3>1, <3>2 DEF StringsTyped, InText
    <2>8. arg.data <= s'.data /\ s'.data + s'.length = End(arg)
      BY <1>2, <1>3, <2>3 DEF End
    <2>9. LinePassed'
      BY <1>1, <1>2, <1>9, <2>1, <2>3, <2>6, <2>8 DEF LinePassed, End
    <2> QED BY <1>4, <2>7, <2>9 DEF StringsInv
  <1> QED BY <1>6, <1>8, <1>9 DEF ConsumeNextLine, LineEnds

LEMMA NextStringsInv == StringsInv /\ [StringsNext]_stringsVars => StringsInv'
  <1> SUFFICES ASSUME StringsInv, [StringsNext]_stringsVars PROVE StringsInv'
    OBVIOUS
  <1>1. CASE \E f \in Ops : Call(f)
    BY <1>1, CallKeeps
  <1>2. CASE EatSpaces
    BY <1>2, EatSpacesKeeps
  <1>3. CASE EatTrailingSpaces
    BY <1>3, EatTrailingSpacesKeeps
  <1>4. CASE ConsumeNextLine
    BY <1>4, ConsumeNextLineKeeps
  <1>5. CASE UNCHANGED stringsVars
    BY <1>5 DEF stringsVars, StringsInv, StringsTyped, InText, End, Entered,
                SpacesPassed, TrailingPassed, LinePassed
  <1> QED BY <1>1, <1>2, <1>3, <1>4, <1>5 DEF StringsNext

-----------------------------------------------------------------------------
(* What the invariant says of the characters.                              *)

LEMMA CharsAreSlices ==
    ASSUME NEW str
    PROVE  CharsOf(str) = Slice(text, str.data, str.length)
  BY DEF CharsOf, Slice

(* A String in the text and what it falls into at a place inside it.       *)
LEMMA StringSplits ==
    ASSUME text \in Seq(Chars), NEW str, InText(str), NEW k \in 0..str.length
    PROVE  /\ CharsOf(str) = Slice(text, str.data, k)
                               \o Slice(text, str.data + k, str.length - k)
           /\ SubSeq(CharsOf(str), 1, k) = Slice(text, str.data, k)
           /\ SubSeq(CharsOf(str), k + 1, str.length)
                = Slice(text, str.data + k, str.length - k)
  <1> DEFINE d == str.data
             l == str.length
  <1>1. d \in Nat \ {0} /\ l \in Nat /\ d + l <= Len(text) + 1 /\ k \in 0..l
    BY DEF InText
  <1>2. CharsOf(str) = Slice(text, d, l)
    BY CharsAreSlices
  <1> HIDE DEF d, l
  <1>3. /\ Slice(text, d, l) = Slice(text, d, k) \o Slice(text, d + k, l - k)
        /\ SubSeq(Slice(text, d, l), 1, k) = Slice(text, d, k)
        /\ SubSeq(Slice(text, d, l), k + 1, l) = Slice(text, d + k, l - k)
    BY <1>1, SliceSplits
  <1> QED BY <1>2, <1>3, Zenon DEF d, l

LEMMA SlicesOfBlanks ==
    ASSUME text \in Seq(Chars), NEW d \in Nat \ {0}, NEW l \in Nat,
           d + l <= Len(text) + 1, \A j \in d..d + l - 1 : text[j] \in Blanks
    PROVE  Spaces(Slice(text, d, l))
  <1>1. \A j \in 1..l : Slice(text, d, l)[j] \in Blanks
    BY SliceOf
  <1>2. DOMAIN Slice(text, d, l) = 1..l
    <2>1. Slice(text, d, l) \in Seq(Chars) /\ Len(Slice(text, d, l)) = l
      BY SliceIs
    <2> QED BY <2>1
  <1> QED BY <1>1, <1>2, Zenon DEF Spaces, Blanks

LEMMA SlicesOfLines ==
    ASSUME text \in Seq(Chars), NEW d \in Nat \ {0}, NEW l \in Nat,
           d + l <= Len(text) + 1, \A j \in d..d + l - 1 : text[j] \notin LineEnds
    PROVE  \A j \in 1..l : Slice(text, d, l)[j] \notin LineEnds
  <1>1. \A j \in d..d + l - 1 : text[j] \in Chars \ LineEnds
    <2> SUFFICES ASSUME NEW j \in d..d + l - 1 PROVE text[j] \in Chars \ LineEnds
      OBVIOUS
    <2>1. j \in 1..Len(text)
      OBVIOUS
    <2> QED BY <2>1
  <1>2. \A j \in 1..l : Slice(text, d, l)[j] \in Chars \ LineEnds
    <2> DEFINE inside == Chars \ LineEnds
    <2>1. \A j \in d..d + l - 1 : text[j] \in inside
      BY <1>1
    <2> HIDE DEF inside
    <2>2. \A j \in 1..l : Slice(text, d, l)[j] \in inside
      BY <2>1, SliceOf
    <2> QED BY <2>2 DEF inside
  <1> QED BY <1>2

LEMMA InvSpacesEaten ==
    ASSUME StringsInv, Returned("eat_spaces")
    PROVE  \E k \in 0..arg.length :
             /\ CharsOf(arg) = SubSeq(CharsOf(arg), 1, k) \o CharsOf(string_result)
             /\ Spaces(SubSeq(CharsOf(arg), 1, k))
             /\ string_result.length > 0 /\ At(string_result, 0) \in {"x", "\r"}
  <1>1. /\ text \in Seq(Chars) /\ InText(arg) /\ InText(string_result) /\ pc = "idle"
        /\ arg.data <= string_result.data /\ End(string_result) = End(arg)
        /\ \A j \in arg.data..string_result.data - 1 : text[j] \in Blanks
        /\ string_result.length > 0 /\ text[string_result.data] \notin Blanks
    BY DEF StringsInv, StringsTyped, SpacesPassed, Entered, Returned
  <1> DEFINE k == string_result.data - arg.data
  <1>2. /\ arg.data \in Nat \ {0} /\ arg.length \in Nat /\ Len(text) \in Nat
        /\ string_result.data \in Nat \ {0} /\ string_result.length \in Nat
        /\ arg.data + arg.length <= Len(text) + 1
        /\ string_result.data + string_result.length = arg.data + arg.length
        /\ arg.data <= string_result.data
    BY <1>1 DEF InText, End
  <1>3. /\ k \in 0..arg.length /\ arg.data + k = string_result.data
        /\ arg.length - k = string_result.length
    <2>1. \A from, to, m, l \in Nat :
             to + l = from + m /\ from <= to =>
                 to - from \in 0..m /\ from + (to - from) = to /\ m - (to - from) = l
      OBVIOUS
    <2> QED BY <1>2, <2>1
  <1>4. Spaces(Slice(text, arg.data, k))
    <2>1. k \in Nat /\ arg.data + k <= Len(text) + 1 /\ arg.data + k - 1 = string_result.data - 1
      BY <1>2, <1>3
    <2>2. \A j \in arg.data..arg.data + k - 1 : text[j] \in Blanks
      BY <1>1, <2>1
    <2> HIDE DEF k
    <2> QED BY <1>1, <1>2, <2>1, <2>2, SlicesOfBlanks
  <1>5. At(string_result, 0) \in {"x", "\r"}
    <2>1. string_result.data \in 1..Len(text) /\ string_result.data + 0 = string_result.data
      BY <1>1, <1>2
    <2>2. text[string_result.data] \in Chars \ Blanks
      BY <1>1, <2>1
    <2>3. At(string_result, 0) = text[string_result.data]
      BY <2>1 DEF At
    <2> QED BY <2>2, <2>3 DEF Chars, Blanks
  <1>6. /\ CharsOf(arg) = Slice(text, arg.data, k) \o Slice(text, arg.data + k, arg.length - k)
        /\ SubSeq(CharsOf(arg), 1, k) = Slice(text, arg.data, k)
    <2> HIDE DEF k
    <2> QED BY <1>1, <1>3, StringSplits
  <1>7. CharsOf(arg) = SubSeq(CharsOf(arg), 1, k) \o CharsOf(string_result)
    <2>1. CharsOf(string_result) = Slice(text, arg.data + k, arg.length - k)
      BY <1>3, CharsAreSlices, Zenon
    <2> QED BY <1>6, <2>1, Zenon
  <1> HIDE DEF k
  <1> QED BY <1>1, <1>3, <1>4, <1>5, <1>6, <1>7, Zenon

LEMMA InvTrailingEaten ==
    ASSUME StringsInv, Returned("eat_trailing_spaces")
    PROVE  \E k \in 0..arg.length :
             /\ CharsOf(arg) = CharsOf(string_result)
                                 \o SubSeq(CharsOf(arg), k + 1, arg.length)
             /\ Spaces(SubSeq(CharsOf(arg), k + 1, arg.length))
             /\ string_result.length > 0
             /\ At(string_result, string_result.length - 1) \in {"x", "\r"}
  <1>1. /\ text \in Seq(Chars) /\ InText(arg) /\ InText(string_result) /\ pc = "idle"
        /\ arg.data = string_result.data /\ string_result.length <= arg.length
        /\ \A j \in End(string_result)..End(arg) - 1 : text[j] \in Blanks
        /\ string_result.length > 0 /\ text[End(string_result) - 1] \notin Blanks
    BY DEF StringsInv, StringsTyped, TrailingPassed, Entered, Returned
  <1> DEFINE k == string_result.length
             d == arg.data + k
             l == arg.length - k
  <1>2. /\ arg.data \in Nat \ {0} /\ arg.length \in Nat /\ Len(text) \in Nat
        /\ arg.data + arg.length <= Len(text) + 1
        /\ k \in Nat /\ k <= arg.length /\ k > 0
    BY <1>1 DEF InText
  <1>3. /\ k \in 0..arg.length /\ d \in Nat \ {0} /\ l \in Nat
        /\ d + l <= Len(text) + 1 /\ d + l = arg.data + arg.length
    BY <1>2
  <1>4. End(string_result) = d /\ End(arg) = d + l
    BY <1>1, <1>3 DEF End
  <1>5. Spaces(Slice(text, d, l))
    <2> HIDE DEF d, l
    <2>1. \A j \in d..d + l - 1 : text[j] \in Blanks
      <3> SUFFICES ASSUME NEW j \in d..d + l - 1 PROVE text[j] \in Blanks
        OBVIOUS
      <3>1. j \in End(string_result)..End(arg) - 1
        BY <1>2, <1>3, <1>4
      <3> QED BY <1>1, <3>1
    <2> QED BY <1>1, <1>3, <2>1, SlicesOfBlanks
  <1>6. At(string_result, string_result.length - 1) \in {"x", "\r"}
    <2>1. d - 1 \in 1..Len(text) /\ arg.data + (k - 1) = d - 1
      BY <1>2, <1>3
    <2>2. text[d - 1] \in Chars \ Blanks
      BY <1>1, <1>4, <2>1
    <2>3. At(string_result, string_result.length - 1) = text[d - 1]
      BY <1>1, <2>1 DEF At
    <2> QED BY <2>2, <2>3 DEF Chars, Blanks
  <1>7. /\ CharsOf(arg) = Slice(text, arg.data, k) \o Slice(text, d, l)
        /\ SubSeq(CharsOf(arg), k + 1, arg.length) = Slice(text, d, l)
    <2> HIDE DEF k
    <2> QED BY <1>1, <1>3, StringSplits
  <1>8. CharsOf(string_result) = Slice(text, arg.data, k)
    BY <1>1, CharsAreSlices, Zenon
  <1> HIDE DEF k, d, l
  <1>9. CharsOf(arg) = CharsOf(string_result) \o SubSeq(CharsOf(arg), k + 1, arg.length)
    BY <1>7, <1>8, Zenon
  <1>10. Spaces(SubSeq(CharsOf(arg), k + 1, arg.length))
    BY <1>5, <1>7, Zenon
  <1> QED BY <1>1, <1>3, <1>6, <1>9, <1>10, Zenon

LEMMA InvLineConsumed == StringsInv => LineConsumed
  <1> SUFFICES ASSUME StringsInv, Returned("consume_next_line")
               PROVE  \E e \in {"\n", "\r"} :
                        /\ CharsOf(arg) = CharsOf(string_result) \o <<e>> \o CharsOf(s)
                        /\ \A j \in 1..string_result.length :
                              CharsOf(string_result)[j] \notin {"\n", "\r"}
    BY DEF LineConsumed
  <1>1. /\ text \in Seq(Chars) /\ InText(arg) /\ InText(string_result) /\ InText(s) /\ pc = "idle"
        /\ End(s) = End(arg) /\ string_result.data = arg.data
        /\ s.data = End(string_result) + 1 /\ text[End(string_result)] \in LineEnds
        /\ \A j \in arg.data..End(string_result) - 1 : text[j] \notin LineEnds
    BY DEF StringsInv, StringsTyped, LinePassed, Entered, Returned
  <1> DEFINE k == string_result.length
             d == arg.data + k
             l == arg.length - k
             e == text[d]
  <1>2. /\ arg.data \in Nat \ {0} /\ arg.length \in Nat /\ Len(text) \in Nat
        /\ arg.data + arg.length <= Len(text) + 1
        /\ k \in Nat /\ s.data = d + 1 /\ s.length \in Nat
        /\ s.data + s.length = arg.data + arg.length
    BY <1>1 DEF InText, End
  <1>3. /\ k \in 0..arg.length /\ d \in Nat \ {0} /\ l \in Nat /\ l - 1 = s.length /\ 1 \in 0..l
        /\ d + l <= Len(text) + 1 /\ d + 1 <= Len(text) + 1
        /\ arg.data + k <= Len(text) + 1
        /\ d + 1 \in Nat \ {0} /\ (d + 1) + s.length <= Len(text) + 1
    BY <1>2
  <1>4. End(string_result) = d /\ e \in LineEnds
    BY <1>1 DEF End
  <1>5. /\ CharsOf(arg) = Slice(text, arg.data, k) \o Slice(text, d, l)
        /\ CharsOf(string_result) = Slice(text, arg.data, k)
    <2>1. CharsOf(arg) = Slice(text, arg.data, k) \o Slice(text, d, l)
      <3> HIDE DEF k
      <3> QED BY <1>1, <1>3, StringSplits
    <2>2. CharsOf(string_result) = Slice(text, arg.data, k)
      BY <1>1, CharsAreSlices, Zenon
    <2> QED BY <2>1, <2>2, Zenon
  <1>6. \A j \in 1..string_result.length : CharsOf(string_result)[j] \notin {"\n", "\r"}
    <2>1. \A j \in arg.data..arg.data + k - 1 : text[j] \notin LineEnds
      <3> SUFFICES ASSUME NEW j \in arg.data..arg.data + k - 1 PROVE text[j] \notin LineEnds
        OBVIOUS
      <3>1. End(string_result) = arg.data + k
        BY <1>4
      <3>2. End(string_result) \in Int /\ arg.data \in Int
        BY <1>2, <3>1
      <3>3. j \in arg.data..End(string_result) - 1
        BY <1>2, <3>1, <3>2
      <3> QED BY <1>1, <3>3
    <2>2. \A j \in 1..k : Slice(text, arg.data, k)[j] \notin LineEnds
      <3> HIDE DEF k
      <3> QED BY <1>1, <1>2, <1>3, <2>1, SlicesOfLines
    <2> QED BY <1>5, <2>2, Zenon DEF LineEnds
  <1> HIDE DEF k, d, l
  <1>7. Slice(text, d, l) = Slice(text, d, 1) \o Slice(text, d + 1, s.length)
    <2>1. Slice(text, d, l) = Slice(text, d, 1) \o Slice(text, d + 1, l - 1)
      BY <1>1, <1>3, SliceSplits
    <2> QED BY <1>3, <2>1, Zenon
  <1>8. Slice(text, d, 1) = <<e>>
    BY <1>1, <1>3, SliceOfOne, Zenon
  <1>9. Slice(text, d + 1, s.length) = CharsOf(s)
    BY <1>2, CharsAreSlices, Zenon
  <1>10. CharsOf(arg) = (CharsOf(string_result) \o <<e>>) \o CharsOf(s)
    <2>1. Slice(text, arg.data, k) \in Seq(Chars)
      BY <1>1, <1>2, <1>3, SliceIs, Zenon
    <2>2. Slice(text, d, 1) \in Seq(Chars)
      <3>1. 1 \in Nat
        OBVIOUS
      <3> QED BY <1>1, <1>3, <3>1, SliceIs, Zenon
    <2>3. Slice(text, d + 1, s.length) \in Seq(Chars)
      BY <1>1, <1>2, <1>3, SliceIs, Zenon
    <2>4. Slice(text, arg.data, k) \o (Slice(text, d, 1) \o Slice(text, d + 1, s.length))
            = (Slice(text, arg.data, k) \o Slice(text, d, 1)) \o Slice(text, d + 1, s.length)
      BY <2>1, <2>2, <2>3, ConcatAssociative
    <2> QED BY <1>5, <1>7, <1>8, <1>9, <2>4, Zenon
  <1> QED BY <1>4, <1>6, <1>10, Zenon DEF LineEnds

LEMMA InvBreaksExplained == StringsInv => BreaksExplained
  <1> SUFFICES ASSUME StringsInv, pc = "break"
               PROVE  \/ /\ op \in {"eat_spaces", "eat_trailing_spaces"}
                         /\ Spaces(CharsOf(arg))
                      \/ /\ op = "consume_next_line"
                         /\ \A j \in 1..arg.length : CharsOf(arg)[j] \notin {"\n", "\r"}
    BY DEF BreaksExplained
  <1>1. /\ text \in Seq(Chars) /\ InText(arg) /\ InText(string_result) /\ InText(s)
        /\ op \in {"eat_spaces", "eat_trailing_spaces", "consume_next_line"}
    BY DEF StringsInv, StringsTyped
  <1>2. /\ arg.data \in Nat \ {0} /\ arg.length \in Nat
        /\ arg.data + arg.length <= Len(text) + 1
        /\ string_result.data \in Nat /\ s.data \in Nat
    BY <1>1 DEF InText
  <1>3. CharsOf(arg) = Slice(text, arg.data, arg.length)
    BY CharsAreSlices
  <1>4. ASSUME \A j \in arg.data..arg.data + arg.length - 1 : text[j] \in Blanks
        PROVE  Spaces(CharsOf(arg))
    BY <1>1, <1>2, <1>3, <1>4, SlicesOfBlanks
  <1>5. CASE op = "eat_spaces"
    <2>1. /\ End(string_result) = End(arg) /\ string_result.length = 0
          /\ \A j \in arg.data..string_result.data - 1 : text[j] \in Blanks
      BY <1>5 DEF StringsInv, SpacesPassed, Entered
    <2>2. string_result.data = arg.data + arg.length
      BY <1>2, <2>1 DEF End
    <2>3. \A j \in arg.data..arg.data + arg.length - 1 : text[j] \in Blanks
      <3> SUFFICES ASSUME NEW j \in arg.data..arg.data + arg.length - 1 PROVE text[j] \in Blanks
        OBVIOUS
      <3>1. j \in arg.data..string_result.data - 1
        BY <1>2, <2>2
      <3> QED BY <2>1, <3>1
    <2> QED BY <1>4, <1>5, <2>3
  <1>6. CASE op = "eat_trailing_spaces"
    <2>1. /\ arg.data = string_result.data /\ string_result.length = 0
          /\ \A j \in End(string_result)..End(arg) - 1 : text[j] \in Blanks
      BY <1>6 DEF StringsInv, TrailingPassed, Entered
    <2>2. End(string_result) = arg.data /\ End(arg) = arg.data + arg.length
      BY <1>2, <2>1 DEF End
    <2>3. \A j \in arg.data..arg.data + arg.length - 1 : text[j] \in Blanks
      <3> SUFFICES ASSUME NEW j \in arg.data..arg.data + arg.length - 1 PROVE text[j] \in Blanks
        OBVIOUS
      <3>1. j \in End(string_result)..End(arg) - 1
        BY <1>2, <2>2
      <3> QED BY <2>1, <3>1
    <2> QED BY <1>4, <1>6, <2>3
  <1>7. CASE op = "consume_next_line"
    <2>1. /\ End(s) = End(arg) /\ s.length = 0
          /\ \A j \in arg.data..s.data - 1 : text[j] \notin LineEnds
      BY <1>7 DEF StringsInv, LinePassed, Entered
    <2>2. s.data = arg.data + arg.length
      BY <1>2, <2>1 DEF End
    <2>3. \A j \in arg.data..arg.data + arg.length - 1 : text[j] \notin LineEnds
      <3> SUFFICES ASSUME NEW j \in arg.data..arg.data + arg.length - 1 PROVE text[j] \notin LineEnds
        OBVIOUS
      <3>1. j \in arg.data..s.data - 1
        BY <1>2, <2>2
      <3> QED BY <2>1, <3>1
    <2>4. \A j \in 1..arg.length : Slice(text, arg.data, arg.length)[j] \notin LineEnds
      BY <1>1, <1>2, <2>3, SlicesOfLines
    <2> QED BY <1>3, <1>7, <2>4, Zenon DEF LineEnds
  <1> QED BY <1>1, <1>5, <1>6, <1>7

(* eat_spaces and eat_trailing_spaces take off spaces only and all of      *)
(* them, consume_next_line splits at the first end of line and drops one   *)
(* character, and the assertion of an index fails in them only where there *)
(* was nothing to stop at, for every text (my_string.cpp:58-104,           *)
(* my_string.h:14-15).                                                     *)
THEOREM LoopsStayExact == StringsSpec => []LoopsExact
  <1>1. StringsInv => LoopsExact
    <2> SUFFICES ASSUME StringsInv PROVE LoopsExact
      OBVIOUS
    <2>1. SpacesEaten
      BY InvSpacesEaten, InvTrailingEaten, Zenon DEF SpacesEaten
    <2> QED BY <2>1, InvLineConsumed, InvBreaksExplained DEF LoopsExact
  <1> QED BY <1>1, InitStringsInv, NextStringsInv, PTL DEF StringsSpec

(* Every String the functions make lies in the text, for every text and    *)
(* every length of it (my_string.cpp:58-104).                              *)
THEOREM StringsTypeCorrect == StringsSpec => []StringsTypeOK
  <1> DEFINE Bounded == Len(text) <= MaxLength /\ op \in Ops \cup {"none"}
  <1>1. StringsInit => Bounded
    <2> SUFFICES ASSUME StringsInit PROVE Bounded
      OBVIOUS
    <2>1. PICK l \in 0..MaxLength : text \in [1..l -> Chars]
      BY DEF StringsInit, BoundedSeq, SeqOf
    <2>2. Len(text) = l
      BY <2>1
    <2> QED BY <2>1, <2>2 DEF StringsInit
  <1>2. Bounded /\ [StringsNext]_stringsVars => Bounded'
    BY DEF StringsNext, stringsVars, Call, EatSpaces, EatTrailingSpaces, ConsumeNextLine, Break
  <1>3. StringsInv /\ Bounded => StringsTypeOK
    <2> SUFFICES ASSUME StringsInv, Bounded PROVE StringsTypeOK
      OBVIOUS
    <2>1. ASSUME NEW str, InText(str)
          PROVE  str.data \in 1..Len(text) + 1 /\ str.length \in 0..Len(text) + 1 - str.data
      <3>1. Len(text) \in Nat
        BY DEF StringsInv, StringsTyped
      <3> QED BY <2>1, <3>1 DEF InText
    <2> QED BY <2>1 DEF StringsInv, StringsTyped, StringsTypeOK
  <1> HIDE DEF Bounded
  <1> QED BY <1>1, <1>2, <1>3, InitStringsInv, NextStringsInv, PTL DEF StringsSpec
=============================================================================
