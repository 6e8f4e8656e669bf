------------------------------ MODULE HashMap ------------------------------
(***************************************************************************)
(* What Hash_Table and String_Hash_Table of src/hash_table.h promise the   *)
(* registries that use them: a finite map from keys to values.  A caller   *)
(* calls add or find, the operation takes effect at one instant, and then  *)
(* the caller may call again.  The table itself is modelled in HashTable,  *)
(* which implements this specification.                                    *)
(***************************************************************************)
CONSTANTS Keys,      \* what callers look up: names of textures and meshes
          Values,    \* what they store: pointers, never dereferenced here
          NULL       \* the nullptr that find returns for an absent key

VARIABLES entries,   \* the set of [key, value] records the map holds
          op,        \* the call in progress
          result     \* what the last completed find returned

mapVars == <<entries, op, result>>

Entry == [key : Keys, value : Values]

Idle == [kind |-> "idle"]

Ops == {Idle} \cup [kind : {"add"}, key : Keys, value : Values]
              \cup [kind : {"find"}, key : Keys]

(* The entries after key k has been bound to v. *)
Bind(E, k, v) == {e \in E : e.key # k} \cup {[key |-> k, value |-> v]}

(* What a find of k may return. *)
Answers(E, k) ==
    LET hits == {e \in E : e.key = k}
    IN  IF hits = {} THEN {NULL} ELSE {e.value : e \in hits}

MapInit == entries = {} /\ op = Idle /\ result = NULL

CallAdd(k, v) ==
    /\ op = Idle
    /\ op' = [kind |-> "add", key |-> k, value |-> v]
    /\ UNCHANGED <<entries, result>>

CallFind(k) ==
    /\ op = Idle
    /\ op' = [kind |-> "find", key |-> k]
    /\ UNCHANGED <<entries, result>>

ReturnAdd ==
    /\ op.kind = "add"
    /\ entries' = Bind(entries, op.key, op.value)
    /\ op' = Idle
    /\ UNCHANGED result

ReturnFind ==
    /\ op.kind = "find"
    /\ result' \in Answers(entries, op.key)
    /\ op' = Idle
    /\ UNCHANGED entries

Clear ==
    /\ op = Idle
    /\ entries' = {}
    /\ UNCHANGED <<op, result>>

MapNext ==
    \/ \E k \in Keys : CallFind(k) \/ \E v \in Values : CallAdd(k, v)
    \/ ReturnAdd
    \/ ReturnFind
    \/ Clear

MapSpec == MapInit /\ [][MapNext]_mapVars
=============================================================================
