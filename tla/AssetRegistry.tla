--------------------------- MODULE AssetRegistry ---------------------------
(***************************************************************************)
(* Texture_Registry and Mesh_Registry, with the loading they trigger:      *)
(* load_texture and create_texture (renderer.cpp, renderer_d3d11.cpp) and  *)
(* generate_gpu_data_for_mesh.  A registry is a cache that is filled on a  *)
(* miss; a miss can fail at every call into the file system, the decoder   *)
(* and the device, and each failure leaves a different part of the work    *)
(* behind.                                                                 *)
(*                                                                         *)
(* The lookup tables are functions here: HashTable shows that              *)
(* String_Hash_Table behaves like one.  A device object is a number, and   *)
(* gpu is the set of those that have been created and not released.        *)
(***************************************************************************)
EXTENDS Integers, Sequences, FiniteSets

CONSTANTS TextureNames, MeshNames,
          Slots,       \* the texture slots of a Material, in the order in which
                       \* generate_gpu_data_for_mesh resolves them
          Submeshes,   \* what the file of a mesh holds: for each of its submeshes
                       \* the texture name of each slot, or NoName
          NoName,      \* a material that names no texture for a slot
          White,       \* globals.white_texture
          NULL,
          MaxObjects   \* bound: no load is started after so many device objects

SlotNames == {Slots[j] : j \in DOMAIN Slots}

ASSUME SlotsAssumption == Slots \in Seq(SlotNames) /\ Len(Slots) > 0

ASSUME SubmeshesAssumption ==
    Submeshes \in [MeshNames -> Seq([SlotNames -> TextureNames \cup {NoName}])]

ASSUME NamesAssumption == NoName \notin TextureNames /\ MaxObjects \in Nat

(* NULL is no pointer to anything. *)
ASSUME NullAssumption == NULL \notin Nat /\ NULL \notin [texture : Nat, srv : Nat]

VARIABLES texture_lookup,  \* Texture_Registry: name -> the device objects of a Texture
          mesh_lookup,     \* Mesh_Registry: name -> the submeshes of a Mesh
          all_names,       \* all_names_in_order_of_loading
          alive,           \* the registries whose destructor has not run
          gpu,             \* live device objects
          next_id,         \* the next device object
          orphans,         \* live objects whose last owner was deleted
          pc,              \* what the mesh load in progress does next
          build,           \* the Mesh being loaded: its name and its submeshes so far
          result           \* what the last find_or_load returned

caches == <<texture_lookup, mesh_lookup, all_names>>
device == <<gpu, next_id, orphans>>
vars == <<texture_lookup, mesh_lookup, all_names, alive, gpu, next_id, orphans,
          pc, build, result>>

NoBuild == [name |-> NULL]

(* add of a key that is absent *)
With(f, k, v) == [x \in DOMAIN f \cup {k} |-> IF x = k THEN v ELSE f[x]]

EmptyTable == [x \in {} |-> NULL]

Init ==
    /\ texture_lookup = EmptyTable /\ mesh_lookup = EmptyTable /\ all_names = <<>>
    /\ alive = {"textures", "meshes"}
    /\ gpu = {} /\ next_id = 0 /\ orphans = {}
    /\ pc = "idle" /\ build = NoBuild /\ result = NULL

-----------------------------------------------------------------------------
(* What Texture_Registry::find_or_load(name) may do, one record per        *)
(* outcome: what it returns, and the device objects it has created.        *)
Hit(name) == [returns |-> texture_lookup[name], creates |-> {}]

(* No file with one of the extensions, no decoder for it, or no texture    *)
(* from CreateTexture2D: nothing has been created.                         *)
NotLoaded == [returns |-> NULL, creates |-> {}]

(* CreateShaderResourceView fails after CreateTexture2D has succeeded: the *)
(* Texture is deleted, the device object it points to is not released.     *)
ViewFails == [returns |-> NULL, creates |-> {next_id}]

Loaded == [returns |-> [texture |-> next_id, srv |-> next_id + 1],
           creates |-> {next_id, next_id + 1}]

TextureOutcomes(name) ==
    IF name \in DOMAIN texture_lookup
    THEN {Hit(name)}
    ELSE {NotLoaded, ViewFails, Loaded}

LoadTexture_NotAdded(name, o) ==
    /\ gpu' = gpu \cup o.creates
    /\ orphans' = IF o.returns = NULL THEN orphans \cup o.creates ELSE orphans
    /\ next_id' = next_id + Cardinality(o.creates)
    /\ UNCHANGED texture_lookup

(* The effect of outcome o: only a load that succeeded is added to the     *)
(* table, so a failed name is looked for again next time.                  *)
LoadTexture(name, o) ==
    /\ texture_lookup' = IF o.returns # NULL /\ name \notin DOMAIN texture_lookup
                         THEN With(texture_lookup, name, o.returns)
                         ELSE texture_lookup
    /\ gpu' = gpu \cup o.creates
    /\ orphans' = IF o.returns = NULL THEN orphans \cup o.creates ELSE orphans
    /\ next_id' = next_id + Cardinality(o.creates)

(* A caller other than the mesh loader: main asks for the environment      *)
(* texture, recursive_init_all for every file of the directory.            *)
FindOrLoadTexture(name) ==
    /\ pc = "idle" /\ "textures" \in alive /\ next_id < MaxObjects
    /\ \E o \in TextureOutcomes(name) :
          LoadTexture(name, o) /\ result' = o.returns
    /\ UNCHANGED <<mesh_lookup, all_names, alive, pc, build>>

-----------------------------------------------------------------------------
(* Mesh_Registry::find_or_load(name): a hit returns at once.               *)
FindMesh(name) ==
    /\ pc = "idle" /\ "meshes" \in alive
    /\ name \in DOMAIN mesh_lookup
    /\ result' = [submeshes |-> mesh_lookup[name]]
    /\ UNCHANGED <<caches, device, alive, pc, build>>

(* A miss with no file, or with a file load_mesh cannot read. *)
MeshNotLoaded(name) ==
    /\ pc = "idle" /\ "meshes" \in alive
    /\ name \notin DOMAIN mesh_lookup
    /\ result' = NULL
    /\ UNCHANGED <<caches, device, alive, pc, build>>

LoadMesh_NoLookup(name) ==
    /\ pc = "idle" /\ alive = {"textures", "meshes"} /\ next_id < MaxObjects
    /\ build' = [name |-> name, submeshes |-> <<>>]
    /\ pc' = "submesh"
    /\ UNCHANGED <<caches, device, alive, result>>

LoadMesh_ListsEarly(name) ==
    /\ pc = "idle" /\ alive = {"textures", "meshes"} /\ next_id < MaxObjects
    /\ name \notin DOMAIN mesh_lookup
    /\ build' = [name |-> name, submeshes |-> <<>>]
    /\ all_names' = Append(all_names, name)
    /\ pc' = "submesh"
    /\ UNCHANGED <<texture_lookup, mesh_lookup, device, alive, result>>

(* A miss whose file load_mesh has read: on to generate_gpu_data_for_mesh, *)
(* which resolves texture names through the texture registry.              *)
LoadMesh(name) ==
    /\ pc = "idle" /\ alive = {"textures", "meshes"} /\ next_id < MaxObjects
    /\ name \notin DOMAIN mesh_lookup
    /\ build' = [name |-> name, submeshes |-> <<>>]
    /\ pc' = "submesh"
    /\ UNCHANGED <<caches, device, alive, result>>

Buffers(submesh) == {submesh.vertex_buffer, submesh.index_buffer} \ {NULL}

BuffersOf(submeshes) == UNION {Buffers(submeshes[s]) : s \in DOMAIN submeshes}

(* The submesh being worked on. *)
Last == Len(build.submeshes)
Current == build.submeshes[Last]
SetCurrent(submesh) ==
    build' = [name |-> build.name, submeshes |-> [build.submeshes EXCEPT ![Last] = submesh]]

AbandonMesh_KeepsBuild ==
    /\ orphans' = orphans \cup BuffersOf(build.submeshes)
    /\ result' = NULL
    /\ pc' = "idle"
    /\ UNCHANGED build

(* generate_gpu_data_for_mesh returns false: find_or_load deletes the mesh *)
(* and with it the pointers to the buffers created so far.                 *)
AbandonMesh ==
    /\ orphans' = orphans \cup BuffersOf(build.submeshes)
    /\ result' = NULL
    /\ build' = NoBuild
    /\ pc' = "idle"

(* The loop condition of generate_gpu_data_for_mesh. *)
MoreSubmeshes == Len(build.submeshes) < Len(Submeshes[build.name])

CreateVertexBuffer ==
    /\ pc = "submesh"
    /\ MoreSubmeshes
    /\ \/ /\ build' = [name |-> build.name, submeshes |-> Append(build.submeshes,
                         [vertex_buffer |-> next_id, index_buffer |-> NULL, textures |-> <<>>])]
          /\ gpu' = gpu \cup {next_id} /\ next_id' = next_id + 1
          /\ pc' = "index_buffer"
          /\ UNCHANGED <<orphans, result>>
       \/ AbandonMesh /\ UNCHANGED <<gpu, next_id>>
    /\ UNCHANGED <<caches, alive>>

CreateIndexBuffer ==
    /\ pc = "index_buffer"
    /\ \/ /\ SetCurrent([Current EXCEPT !.index_buffer = next_id])
          /\ gpu' = gpu \cup {next_id} /\ next_id' = next_id + 1
          /\ pc' = "textures"
          /\ UNCHANGED <<orphans, result>>
       \/ AbandonMesh /\ UNCHANGED <<gpu, next_id>>
    /\ UNCHANGED <<caches, alive>>

(* The slot to resolve next, and the name the material has for it. *)
Slot == Slots[Len(Current.textures) + 1]
SlotTexture == Submeshes[build.name][Last][Slot]

(* The texture pointer of a slot: white without a name, otherwise whatever *)
(* find_or_load returns, the NULL of a failed load included.               *)
ResolveSlot ==
    /\ pc = "textures"
    /\ \E o \in IF SlotTexture = NoName
                THEN {[returns |-> White, creates |-> {}]}
                ELSE TextureOutcomes(SlotTexture) :
          /\ IF SlotTexture = NoName
             THEN UNCHANGED <<texture_lookup, device>>
             ELSE LoadTexture(SlotTexture, o)
          /\ SetCurrent([Current EXCEPT !.textures = Append(@, o.returns)])
    /\ pc' = IF Len(Current.textures) + 1 = Len(Slots) THEN "submesh" ELSE "textures"
    /\ UNCHANGED <<mesh_lookup, all_names, alive, result>>

(* All submeshes have their data: the mesh enters the cache and the list   *)
(* the editor shows.                                                       *)
RegisterMesh ==
    /\ pc = "submesh"
    /\ ~MoreSubmeshes
    /\ mesh_lookup' = With(mesh_lookup, build.name, build.submeshes)
    /\ all_names' = Append(all_names, build.name)
    /\ result' = [submeshes |-> build.submeshes]
    /\ build' = NoBuild
    /\ pc' = "idle"
    /\ UNCHANGED <<texture_lookup, device, alive>>

-----------------------------------------------------------------------------
TextureObjects(t) == {t.texture, t.srv}

TexturesOf(f) == UNION {TextureObjects(f[n]) : n \in DOMAIN f}

MeshesOf(f) == UNION {BuffersOf(f[n]) : n \in DOMAIN f}

(* ~Texture_Registry and ~Mesh_Registry *)
DestroyTextures ==
    /\ pc = "idle" /\ "textures" \in alive
    /\ gpu' = gpu \ TexturesOf(texture_lookup)
    /\ alive' = alive \ {"textures"}
    /\ UNCHANGED <<caches, next_id, orphans, pc, build, result>>

DestroyMeshes_VertexBuffersOnly ==
    /\ pc = "idle" /\ "meshes" \in alive
    /\ gpu' = gpu \ UNION {{s.vertex_buffer : s \in {mesh_lookup[n][j] : j \in DOMAIN mesh_lookup[n]}}
                            : n \in DOMAIN mesh_lookup}
    /\ alive' = alive \ {"meshes"}
    /\ UNCHANGED <<caches, next_id, orphans, pc, build, result>>

DestroyMeshes ==
    /\ pc = "idle" /\ "meshes" \in alive
    /\ gpu' = gpu \ MeshesOf(mesh_lookup)
    /\ alive' = alive \ {"meshes"}
    /\ UNCHANGED <<caches, next_id, orphans, pc, build, result>>

(* The rest of a mesh load once it has been started. *)
LoadStep == CreateVertexBuffer \/ CreateIndexBuffer \/ ResolveSlot \/ RegisterMesh

Next ==
    \/ \E name \in TextureNames : FindOrLoadTexture(name)
    \/ \E name \in MeshNames : FindMesh(name) \/ MeshNotLoaded(name) \/ LoadMesh(name)
    \/ LoadStep
    \/ DestroyTextures \/ DestroyMeshes

Spec == Init /\ [][Next]_vars

-----------------------------------------------------------------------------
Objects == 0..next_id-1

Texture == [texture : Objects, srv : Objects]

TexturePointers == Texture \cup {White, NULL}

Submesh == [vertex_buffer : Objects, index_buffer : Objects \cup {NULL},
            textures : Seq(TexturePointers)]

TypeOK ==
    /\ next_id \in Nat
    /\ gpu \subseteq Objects /\ orphans \subseteq Objects
    /\ alive \subseteq {"textures", "meshes"}
    /\ pc \in {"idle", "submesh", "index_buffer", "textures"}
    /\ DOMAIN texture_lookup \subseteq TextureNames
    /\ \A n \in DOMAIN texture_lookup : texture_lookup[n] \in Texture
    /\ DOMAIN mesh_lookup \subseteq MeshNames
    /\ \A n \in DOMAIN mesh_lookup : mesh_lookup[n] \in Seq(Submesh)
    /\ all_names \in Seq(MeshNames)
    /\ IF pc = "idle" THEN build = NoBuild
       ELSE build \in [name : MeshNames, submeshes : Seq(Submesh)]
    /\ result \in {NULL} \cup Texture \cup [submeshes : Seq(Submesh)]

(* The device objects each live owner would release. *)
HeldByTextures == IF "textures" \in alive THEN TexturesOf(texture_lookup) ELSE {}

HeldByMeshes == IF "meshes" \in alive THEN MeshesOf(mesh_lookup) ELSE {}

HeldByLoad == IF pc = "idle" THEN {} ELSE BuffersOf(build.submeshes)

(* Every live device object has exactly one owner that releases it, or was *)
(* left behind by a load that failed half-way: nothing that a cache hands  *)
(* out has been released, nothing is released twice, and the two           *)
(* destructors release all the caches hold (texture_registry.cpp:53-60,    *)
(* mesh_registry.cpp:78-90).                                               *)
LiveObjectsAccounted ==
    /\ gpu = HeldByTextures \cup HeldByMeshes \cup HeldByLoad \cup orphans
    /\ HeldByTextures \cap HeldByMeshes = {}
    /\ (HeldByTextures \cup HeldByMeshes) \cap HeldByLoad = {}
    /\ (HeldByTextures \cup HeldByMeshes \cup HeldByLoad) \cap orphans = {}

(* What a texture pointer may be under the name the material gives. *)
Shared(named, texture) ==
    IF named = NoName
    THEN texture = White
    ELSE \/ texture = NULL
         \/ named \in DOMAIN texture_lookup /\ texture = texture_lookup[named]

(* The texture pointers of these submeshes of the file of name, as far as  *)
(* they have been resolved.                                                *)
Share(name, submeshes) ==
    \A s \in DOMAIN submeshes : \A j \in DOMAIN submeshes[s].textures :
        Shared(Submeshes[name][s][Slots[j]], submeshes[s].textures[j])

(* All materials that name a texture and got one share the one the texture *)
(* registry holds under that name; a material without a name is white.  A  *)
(* name is decoded and uploaded once, whatever loads fail in between       *)
(* (renderer.cpp:79-102, texture_registry.cpp:16-51).                      *)
TexturesShared ==
    /\ \A n \in DOMAIN mesh_lookup : Share(n, mesh_lookup[n])
    /\ pc # "idle" => Share(build.name, build.submeshes)

(* The list of names in the editor is the set of cached meshes, each once, *)
(* so the find_or_load of a listed name (main.cpp:385-389) is always a     *)
(* hit; and a mesh enters the cache complete: every submesh of its file    *)
(* with both buffers and all texture slots resolved, whatever failed       *)
(* before (mesh_registry.cpp:61-73).                                       *)
ListedMeshesComplete ==
    /\ {all_names[j] : j \in DOMAIN all_names} = DOMAIN mesh_lookup
    /\ Cardinality(DOMAIN mesh_lookup) = Len(all_names)
    /\ \A n \in DOMAIN mesh_lookup :
          /\ Len(mesh_lookup[n]) = Len(Submeshes[n])
          /\ \A s \in DOMAIN mesh_lookup[n] :
                /\ mesh_lookup[n][s].index_buffer # NULL
                /\ Len(mesh_lookup[n][s].textures) = Len(Slots)

(* What a registry has returned stays what it returns: callers keep the    *)
(* pointers (main.cpp:431-440, the materials), so no later load, failed or *)
(* not, may rebind a name or drop it.                                      *)
CacheStable ==
    [][/\ \A n \in DOMAIN texture_lookup :
             n \in DOMAIN texture_lookup' /\ texture_lookup'[n] = texture_lookup[n]
       /\ \A n \in DOMAIN mesh_lookup :
             n \in DOMAIN mesh_lookup' /\ mesh_lookup'[n] = mesh_lookup[n]]_vars

(* render_item asserts that the albedo texture is there                    *)
(* (renderer_d3d11.cpp:727), and main draws every mesh it gets from the    *)
(* registry in every frame.                                                *)
AlbedoPresent ==
    \A n \in DOMAIN mesh_lookup : \A s \in DOMAIN mesh_lookup[n] :
        \A j \in DOMAIN mesh_lookup[n][s].textures :
            Slots[j] = "albedo" => mesh_lookup[n][s].textures[j] # NULL
=============================================================================
