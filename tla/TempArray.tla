------------------------------ MODULE TempArray ------------------------------
(***************************************************************************)
(* An Array next to the other users of temporary storage.  With            *)
(* use_temporary_storage its blocks come from talloc: none is ever given   *)
(* back, the one it leaves behind stays occupied until the frame ends or a *)
(* mark is restored, and what lies behind its block goes to others.        *)
(* Without it the array has memory of its own, as DynArray describes, and  *)
(* the arena is none of its business.                                      *)
(*                                                                         *)
(* An element is a byte.  data is what the array ought to hold; whether    *)
(* the arena still holds it is up to who writes to the bytes of its block. *)
(***************************************************************************)
EXTENDS Arena, DynArray

CONSTANTS MaxMarks \* bound: how many marks may wait to be restored

ASSUME MarksAssumption == MaxMarks \in Nat

VARIABLES use_temporary_storage,
          data_block, \* where data points to, NoBlock for NULL
          intact,     \* nobody else has written to the elements
          broken      \* an assertion failed

storageVars == <<vars, arrayVars, use_temporary_storage, data_block, intact, broken>>

StorageInit ==
    /\ Init /\ ArrayInit
    /\ use_temporary_storage \in BOOLEAN
    /\ data_block = NoBlock
    /\ intact = TRUE
    /\ broken = FALSE

Elements == data_block.start..data_block.start + allocated - 1

WrittenByOthers(bytes) == intact' = (intact /\ bytes \cap Elements = {})

-----------------------------------------------------------------------------
(* The array *)

(* A call that needs no new block, or gets it from malloc. *)
CallInPlace ==
    /\ ArrayNext
    /\ use_temporary_storage => allocated' <= allocated
    /\ IF use_temporary_storage /\ allocated' > 0 /\ data' # data THEN WriteTo(data_block) ELSE UNCHANGED vars
    /\ UNCHANGED <<use_temporary_storage, data_block, intact, broken>>

(* new_bytes of reserve *)
NewBytes_Old == allocated

NewBytes == allocated'

(* reserve takes its block from temporary storage and copies the contents  *)
(* of the old one.  If there is no room the assertion of ma_alloc fails;   *)
(* without assertions its NULL is what memcpy or the next item goes to.    *)
CallWithNewBlock ==
    /\ ArrayNext
    /\ use_temporary_storage /\ allocated' > allocated
    /\ talloc(NewBytes)
    /\ data_block' = result'
    /\ broken' = Full(NewBytes)
    /\ UNCHANGED <<use_temporary_storage, intact>>

-----------------------------------------------------------------------------
(* The others *)

OtherTalloc(size) ==
    /\ talloc(size)
    /\ WrittenByOthers(IF Full(size) THEN {} ELSE Zeroed(size))
    /\ broken' = Full(size)
    /\ UNCHANGED <<arrayVars, use_temporary_storage, data_block>>

OtherWrite ==
    \E b \in blocks \ {data_block} :
        /\ WriteTo(b)
        /\ WrittenByOthers(Bytes(b))
        /\ UNCHANGED <<arrayVars, use_temporary_storage, data_block, broken>>

OtherMark ==
    /\ Cardinality(marks) < MaxMarks
    /\ get_temporary_storage_mark
    /\ UNCHANGED <<arrayVars, use_temporary_storage, data_block, intact, broken>>

(* The user of an array whose block is gone has to be done with it. *)
GiveUpIfGone ==
    IF data_block \notin blocks'
    THEN deallocate /\ data_block' = NoBlock
    ELSE UNCHANGED <<arrayVars, data_block>>

Release ==
    /\ set_temporary_storage_mark \/ reset_temporary_storage
    /\ GiveUpIfGone
    /\ UNCHANGED <<use_temporary_storage, intact, broken>>

OthersStep ==
    \/ \E size \in 0..MaxRequest : OtherTalloc(size)
    \/ OtherWrite \/ OtherMark \/ Release

StorageNext ==
    /\ ~broken
    /\ \/ CallInPlace \/ CallWithNewBlock
       \/ use_temporary_storage /\ OthersStep

StorageSpec == StorageInit /\ [][StorageNext]_storageVars

-----------------------------------------------------------------------------
(* Whatever the others allocate, write and roll back, a temporary array    *)
(* keeps what was put into it: its block has a byte for every place it     *)
(* counts on, and nobody who may still write to temporary storage owns one *)
(* of them (array.h:117-144; temporary_storage.cpp:14-34).                 *)
ArrayContentsKept ==
    use_temporary_storage /\ ~broken =>
        /\ intact
        /\ allocated <= data_block.end - data_block.start
=============================================================================
