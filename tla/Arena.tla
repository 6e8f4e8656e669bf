-------------------------------- MODULE Arena --------------------------------
(***************************************************************************)
(* Temporary storage: one memory arena that is allocated from by moving    *)
(* occupied on, emptied at the start of every frame, and rolled back to    *)
(* marks in between.  Nothing is freed on its own and nothing tells a      *)
(* caller that its block is gone, so what has to hold is that two blocks   *)
(* that callers may still use never share a byte.                          *)
(*                                                                         *)
(* Sizes are in bytes of a small arena.  Which blocks and marks are still  *)
(* of use is known to the callers only; here a history variable keeps it.  *)
(***************************************************************************)
EXTENDS Integers, FiniteSets

CONSTANTS ArenaSize,
          Alignment, \* MEMORY_ARENA_DEFAULT_ALIGNMENT; talloc uses no other
          MaxRequest \* bound: the largest block that is asked for

ASSUME SizeAssumption == ArenaSize \in Nat /\ MaxRequest \in Nat
ASSUME AlignmentAssumption == Alignment \in Nat \ {0}

VARIABLES occupied,
          used,   \* the bytes that are not zero
          result, \* the block the last talloc returned, or NoBlock
          (* History, for the properties only. *)
          blocks, \* the blocks in use
          marks   \* the marks that may be restored, each with the blocks
                  \* that were in use when it was taken

vars == <<occupied, used, result, blocks, marks>>

NoBlock == [start |-> 0, end |-> 0]
Bytes(b) == b.start..b.end - 1

Init ==
    /\ occupied = 0
    /\ used = {}
    /\ result = NoBlock
    /\ blocks = {} /\ marks = {}

(* The size is rounded up, so that the next block is aligned as well.      *)
Aligned(size) == ((size + Alignment - 1) \div Alignment) * Alignment

Full_AsRequested(size) == occupied + size > ArenaSize

Full(size) == occupied + Aligned(size) > ArenaSize

Zeroed_AsRequested(size) == occupied..occupied + size - 1

Zeroed(size) == occupied..occupied + Aligned(size) - 1

(* An arena that is full asserts, and returns NULL if the program goes on. *)
TallocFails(size) ==
    /\ Full(size)
    /\ result' = NoBlock
    /\ UNCHANGED <<occupied, used, blocks, marks>>

TallocFits(size) ==
    /\ ~Full(size)
    /\ result' = [start |-> occupied, end |-> occupied + Aligned(size)]
    /\ occupied' = occupied + Aligned(size)
    /\ used' = used \ Zeroed(size)
    /\ blocks' = blocks \cup {result'}
    /\ UNCHANGED marks

talloc(size) == TallocFails(size) \/ TallocFits(size)

(* A caller writes to one of its blocks. *)
WriteTo(b) ==
    /\ used' = used \cup Bytes(b)
    /\ result' = NoBlock
    /\ UNCHANGED <<occupied, blocks, marks>>

Write == \E b \in blocks : WriteTo(b)

get_temporary_storage_mark ==
    /\ marks' = marks \cup {[at |-> occupied, blocks |-> blocks]}
    /\ result' = NoBlock
    /\ UNCHANGED <<occupied, used, blocks>>

(* Callers restore a mark once, and none that was taken after it.          *)
set_temporary_storage_mark_Resets ==
    \E m \in marks :
        /\ occupied' = 0
        /\ blocks' = m.blocks
        /\ marks' = {k \in marks \ {m} : k.at <= m.at /\ k.blocks \subseteq m.blocks}
        /\ result' = NoBlock
        /\ UNCHANGED used

set_temporary_storage_mark ==
    \E m \in marks :
        /\ occupied' = m.at
        /\ blocks' = m.blocks
        /\ marks' = {k \in marks \ {m} : k.at <= m.at /\ k.blocks \subseteq m.blocks}
        /\ result' = NoBlock
        /\ UNCHANGED used

(* The frame begins: no block or mark of the last one is used any more.    *)
reset_temporary_storage ==
    /\ occupied' = 0
    /\ blocks' = {} /\ marks' = {}
    /\ result' = NoBlock
    /\ UNCHANGED used

Next ==
    \/ \E size \in 0..MaxRequest : talloc(size)
    \/ Write
    \/ get_temporary_storage_mark
    \/ set_temporary_storage_mark
    \/ reset_temporary_storage

Spec == Init /\ [][Next]_vars

-----------------------------------------------------------------------------
Block == [start : 0..ArenaSize, end : 0..ArenaSize]

TypeOK ==
    /\ occupied \in 0..ArenaSize
    /\ used \subseteq 0..ArenaSize - 1
    /\ result \in Block
    /\ blocks \subseteq Block
    /\ marks \subseteq [at : 0..ArenaSize, blocks : SUBSET Block]

Disjoint(a, b) == a.end <= b.start \/ b.end <= a.start

(* No two blocks in use share a byte, and none reaches into what the next  *)
(* talloc hands out, after any sequence of marks, restores and full-arena  *)
(* failures (memory_arena.cpp:24-40, temporary_storage.cpp:14-34).         *)
BlocksDisjoint ==
    /\ \A b \in blocks : b.start <= b.end /\ b.end <= occupied
    /\ \A a, b \in blocks : a = b \/ Disjoint(a, b)

(* The same holds for the blocks a mark will bring back.                   *)
MarksDisjoint ==
    \A m \in marks :
        /\ m.at <= occupied
        /\ \A b \in m.blocks : b.start <= b.end /\ b.end <= m.at
        /\ \A a, b \in m.blocks : a = b \/ Disjoint(a, b)

(* A block is handed out zeroed, also when its bytes were in use before a  *)
(* reset or a restored mark, since talloc always asks for zeroed memory:   *)
(* it passes its alignment where ma_alloc takes zero_memory                *)
(* (temporary_storage.cpp:32-34).                                          *)
BlocksZeroed == Bytes(result) \cap used = {}

(* set_temporary_storage_mark asserts that a mark is less than the size of *)
(* the arena (temporary_storage.cpp:28); the actions above restore a mark  *)
(* as a build without assertions does.                                     *)
MarksAccepted == \A m \in marks : m.at < ArenaSize

=============================================================================
