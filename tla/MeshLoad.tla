------------------------------ MODULE MeshLoad ------------------------------
(***************************************************************************)
(* load_mesh_gltf: the primitives of a glTF file become the submeshes of a *)
(* mesh.  One pass over the nodes counts them, the array is allocated, and *)
(* a second pass, which decides again which nodes to take, fills it.  A    *)
(* node may have no mesh, several nodes may place the same mesh, and nodes *)
(* whose name marks them as a plane, proxy or shadow are left out.         *)
(*                                                                         *)
(* The contents of a submesh are abstracted to the primitive they come     *)
(* from and the node whose transform they went through.  A submesh of the  *)
(* new array has no contents: its counts and pointers are uninitialised.   *)
(***************************************************************************)
EXTENDS Integers, Sequences, SequencesExt

CONSTANTS Meshes,        \* the meshes of the file
          MaxNodes,      \* bound: the length of the list of nodes
          MaxPrimitives, \* bound: the primitives of a mesh
          NULL,
          Unset          \* the contents of a submesh nothing was written to

ASSUME BoundsAssumption == MaxNodes \in Nat /\ MaxPrimitives \in Nat
ASSUME NullAssumption == NULL \notin Meshes

VARIABLES nodes,      \* data->nodes
          primitives, \* the primitives of each mesh
          num_submeshes, submeshes,
          n, p, index, \* the cursors of the loops
          pc

file == <<nodes, primitives>>
vars == <<nodes, primitives, num_submeshes, submeshes, n, p, index, pc>>

Node == [mesh : Meshes \cup {NULL}, left_out : BOOLEAN]

(* All there is to tell of a primitive is whether it has a position        *)
(* attribute, and if so whether an accessor that its submesh gets a count  *)
(* from, of positions or of indices, has no elements: no count is looked   *)
(* at here.                                                                *)
Primitive == {primitive \in [has_position : BOOLEAN, empty : BOOLEAN] :
                  primitive.empty => primitive.has_position}

Init ==
    /\ nodes \in BoundedSeq(Node, MaxNodes)
    /\ primitives \in [Meshes -> BoundedSeq(Primitive, MaxPrimitives)]
    /\ num_submeshes = 0 /\ submeshes = <<>>
    /\ n = 1 /\ p = 1 /\ index = 0
    /\ pc = "parse"

(* The file does not parse, or its buffers do not load. *)
Fail ==
    /\ pc = "parse"
    /\ pc' = "failed"
    /\ UNCHANGED <<file, num_submeshes, submeshes, n, p, index>>

Parse ==
    /\ pc = "parse"
    /\ num_submeshes' = 0
    /\ pc' = "count"
    /\ UNCHANGED <<file, submeshes, n, p, index>>

-----------------------------------------------------------------------------
(* Counting *)

Counted(node) == node.mesh # NULL /\ ~node.left_out

CountNode ==
    /\ pc = "count" /\ n <= Len(nodes)
    /\ num_submeshes' = num_submeshes
                        + IF Counted(nodes[n]) THEN Len(primitives[nodes[n].mesh]) ELSE 0
    /\ n' = n + 1
    /\ UNCHANGED <<file, submeshes, p, index, pc>>

Allocate ==
    /\ pc = "count" /\ n > Len(nodes)
    /\ submeshes' = [i \in 1..num_submeshes |-> Unset]
    /\ n' = 1 /\ index' = 0
    /\ pc' = "node"
    /\ UNCHANGED <<file, num_submeshes, p>>

-----------------------------------------------------------------------------
(* Filling *)

Filled_AllNodes(node) == node.mesh # NULL

Filled(node) == node.mesh # NULL /\ ~node.left_out

NextNode ==
    /\ pc = "node" /\ n <= Len(nodes)
    /\ IF Filled(nodes[n]) THEN p' = 1 /\ pc' = "primitive" /\ UNCHANGED n
                           ELSE n' = n + 1 /\ UNCHANGED <<p, pc>>
    /\ UNCHANGED <<file, num_submeshes, submeshes, index>>

Contents(node, primitive) == [node |-> node, primitive |-> primitive]

(* index moves on for a primitive without a position, too; its submesh     *)
(* stays as the allocation left it.                                        *)
FillPrimitive_Compacts ==
    /\ pc = "primitive" /\ p <= Len(primitives[nodes[n].mesh])
    /\ IF primitives[nodes[n].mesh][p].has_position
       THEN /\ submeshes' = [submeshes EXCEPT ![index + 1] = Contents(n, p)]
            /\ index' = index + 1
       ELSE UNCHANGED <<submeshes, index>>
    /\ p' = p + 1
    /\ UNCHANGED <<file, num_submeshes, n, pc>>

FillPrimitive ==
    /\ pc = "primitive" /\ p <= Len(primitives[nodes[n].mesh])
    /\ IF primitives[nodes[n].mesh][p].has_position
       THEN submeshes' = [submeshes EXCEPT ![index + 1] = Contents(n, p)]
       ELSE UNCHANGED submeshes
    /\ index' = index + 1
    /\ p' = p + 1
    /\ UNCHANGED <<file, num_submeshes, n, pc>>

EndNode ==
    /\ pc = "primitive" /\ p > Len(primitives[nodes[n].mesh])
    /\ n' = n + 1
    /\ pc' = "node"
    /\ UNCHANGED <<file, num_submeshes, submeshes, p, index>>

Finish ==
    /\ pc = "node" /\ n > Len(nodes)
    /\ pc' = "loaded"
    /\ UNCHANGED <<file, num_submeshes, submeshes, n, p, index>>

Next ==
    \/ Fail \/ Parse
    \/ CountNode \/ Allocate
    \/ NextNode \/ FillPrimitive \/ EndNode \/ Finish

Spec == Init /\ [][Next]_vars

-----------------------------------------------------------------------------
(* The types, and that the two passes agree: whenever the second one takes *)
(* the address of the next submesh, that submesh is in the array the first *)
(* one counted (mesh.cpp:63-79, 105).                                      *)
TypeOK ==
    /\ num_submeshes \in 0..MaxNodes * MaxPrimitives
    /\ submeshes \in Seq([node : 1..Len(nodes), primitive : 1..MaxPrimitives] \cup {Unset})
    /\ n \in 1..Len(nodes) + 1 /\ p \in 1..MaxPrimitives + 1 /\ index \in 0..num_submeshes
    /\ pc \in {"parse", "failed", "count", "node", "primitive", "loaded"}
    /\ pc = "primitive" /\ p <= Len(primitives[nodes[n].mesh]) => index < Len(submeshes)

(* What one node brings into the mesh. *)
FromNode(k) ==
    IF nodes[k].mesh = NULL \/ nodes[k].left_out
    THEN <<>>
    ELSE LET ps == primitives[nodes[k].mesh]
         IN  [q \in 1..Len(ps) |-> IF ps[q].has_position THEN [node |-> k, primitive |-> q] ELSE Unset]

(* A loaded mesh consists of the primitives of the nodes that are not left *)
(* out, each with the transform of its own node, in the order of the file, *)
(* once for every node that places it.  A primitive without a position has *)
(* a submesh nonetheless, one with nothing in it: that is what the code    *)
(* leaves to generate_gpu_data_for_mesh (mesh.cpp:105, 137; renderer.cpp:75)*)
MeshFollowsFile ==
    pc = "loaded" =>
        /\ num_submeshes = Len(submeshes) /\ index = num_submeshes
        /\ submeshes = FlattenSeq([k \in 1..Len(nodes) |-> FromNode(k)])
=============================================================================
