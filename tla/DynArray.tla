------------------------------ MODULE DynArray ------------------------------
(***************************************************************************)
(* The Array template: a block of memory with room for allocated values,   *)
(* of which the first count are in use.  A block that is too small is      *)
(* replaced by one that is just large enough, or has MinCapacity places.   *)
(* Memory nobody wrote to holds anything, and shortening an array leaves   *)
(* what it held, so lengthening it again brings values back.               *)
(*                                                                         *)
(* The item of add is a reference.  One into the array itself would dangle *)
(* once the block is replaced; no caller passes one, and the model takes   *)
(* the item by value.                                                      *)
(***************************************************************************)
EXTENDS Integers, Sequences

CONSTANTS Values,
          MinCapacity, \* the 32 of reserve
          MaxCount     \* bound: arrays get no longer than this

ASSUME CapacityAssumption == MinCapacity \in Nat \ {0} /\ MaxCount \in Nat

VARIABLES data, allocated, count,
          call \* the last call with its argument

arrayVars == <<data, allocated, count, call>>

Called(op, arg) == call' = [op |-> op, arg |-> arg]

ArrayInit ==
    /\ data = <<>> /\ allocated = 0 /\ count = 0
    /\ call = [op |-> "none", arg |-> 0]

(* data[i] is the element data[i + 1] of the model.                        *)
NewAllocated(size) ==
    LET larger == IF allocated > size THEN allocated ELSE size
    IN  IF larger > MinCapacity THEN larger ELSE MinCapacity

(* What reserve(size) makes of the block: the old contents are copied, the *)
(* rest is what malloc found there.                                        *)
Reserved(size, block) ==
    IF allocated >= size
    THEN block = data
    ELSE /\ block \in [1..NewAllocated(size) -> Values]
         /\ \A i \in 1..allocated : block[i] = data[i]

Capacity(size) == IF allocated >= size THEN allocated ELSE NewAllocated(size)
Blocks(size) == [1..Capacity(size) -> Values]

reserve(size) ==
    /\ \E block \in Blocks(size) : Reserved(size, block) /\ data' = block
    /\ allocated' = Capacity(size)
    /\ Called("reserve", size)
    /\ UNCHANGED count

resize(size) ==
    /\ \E block \in Blocks(size) : Reserved(size, block) /\ data' = block
    /\ allocated' = Capacity(size)
    /\ count' = size
    /\ Called("resize", size)

add(item) ==
    /\ count < MaxCount
    /\ \E block \in Blocks(count + 1) :
          Reserved(count + 1, block) /\ data' = [block EXCEPT ![count + 1] = item]
    /\ allocated' = Capacity(count + 1)
    /\ count' = count + 1
    /\ Called("add", item)

(* The loop moves the elements behind n down by one.                       *)
Shifted_OneShort(n) ==
    [i \in 1..allocated |-> IF n <= i - 1 /\ i < count - 1 THEN data[i + 1] ELSE data[i]]

Shifted(n) ==
    [i \in 1..allocated |-> IF n <= i - 1 /\ i - 1 < count - 1 THEN data[i + 1] ELSE data[i]]

(* n < count is the caller's part: no assertion here says so, and for any  *)
(* other n the last element would go (array.h:174-179).  Nothing in the    *)
(* program calls this but ordered_remove_by_value, with an index find has  *)
(* returned.                                                               *)
ordered_remove_by_index(n) ==
    /\ n < count
    /\ data' = Shifted(n)
    /\ count' = count - 1
    /\ Called("remove_by_index", n)
    /\ UNCHANGED allocated

(* n is the index find returns for value.                                  *)
Found(value, n) ==
    /\ data[n + 1] = value
    /\ \A i \in 0..n - 1 : data[i + 1] # value

ordered_remove_by_value(value) ==
    /\ \/ /\ \A i \in 0..count - 1 : data[i + 1] # value
          /\ UNCHANGED <<data, count>>
       \/ \E n \in 0..count - 1 :
             /\ Found(value, n)
             /\ data' = Shifted(n)
             /\ count' = count - 1
    /\ Called("remove_by_value", value)
    /\ UNCHANGED allocated

deallocate ==
    /\ data' = <<>> /\ allocated' = 0 /\ count' = 0
    /\ Called("deallocate", 0)

ArrayNext ==
    \/ \E size \in 0..MaxCount : reserve(size) \/ resize(size)
    \/ \E item \in Values : add(item)
    \/ \E i \in 0..MaxCount - 1 : ordered_remove_by_index(i)
    \/ \E value \in Values : ordered_remove_by_value(value)
    \/ deallocate

ArraySpec == ArrayInit /\ [][ArrayNext]_arrayVars

-----------------------------------------------------------------------------
ArrayTypeOK ==
    /\ allocated \in Nat
    /\ count \in 0..allocated
    /\ data \in [1..allocated -> Values]

(* Read as a list, the array does what List promises: growing keeps the    *)
(* elements and their order, removing shifts the rest once, and no call    *)
(* writes behind the block (array.h:77-179).                               *)
L == INSTANCE List WITH list <- [i \in 1..count |-> data[i]]
ImplementsList == L!Spec
=============================================================================
