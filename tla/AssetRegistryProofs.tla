------------------------ MODULE AssetRegistryProofs ------------------------
(***************************************************************************)
(* Proofs about AssetRegistry, for all names, all materials of all meshes  *)
(* and any number of slots.                                                *)
(***************************************************************************)
EXTENDS AssetRegistry, FiniteSetTheorems, TLAPS

(* A sequence over a set is one over every larger set.                     *)
LEMMA SeqGrows ==
    ASSUME NEW S, NEW T, S \subseteq T
    PROVE  Seq(S) \subseteq Seq(T)
  OBVIOUS

(* The numbers below a bound are numbers below every larger bound.         *)
LEMMA BelowGrows ==
    ASSUME NEW a \in Nat, NEW b \in Nat, a <= b
    PROVE  0..a - 1 \subseteq 0..b - 1
  <1> SUFFICES ASSUME NEW x \in 0..a - 1 PROVE x \in 0..b - 1
    OBVIOUS
  <1> QED OBVIOUS

(* What refers to the objects there are refers to them when there are      *)
(* more.                                                                   *)
LEMMA TypesGrow ==
    ASSUME next_id \in Nat, next_id' \in Nat, next_id <= next_id'
    PROVE  /\ Objects \subseteq Objects'
           /\ Texture \subseteq Texture' /\ TexturePointers \subseteq TexturePointers'
           /\ Submesh \subseteq Submesh' /\ Seq(Submesh) \subseteq Seq(Submesh')
  <1>1. Objects \subseteq Objects'
    BY BelowGrows DEF Objects
  <1>2. Texture \subseteq Texture'
    BY <1>1 DEF Texture
  <1>3. TexturePointers \subseteq TexturePointers'
    BY <1>2 DEF TexturePointers
  <1>4. Seq(TexturePointers) \subseteq Seq(TexturePointers')
    BY <1>3, SeqGrows
  <1>5. Submesh \subseteq Submesh'
    BY <1>1, <1>4 DEF Submesh
  <1> QED BY <1>1, <1>2, <1>3, <1>5, SeqGrows

(* The next object is none of those there are.                             *)
LEMMA NextIsFresh ==
    ASSUME next_id \in Nat
    PROVE  next_id \notin Objects /\ next_id + 1 \notin Objects
  BY DEF Objects

(* What find_or_load of a texture does in each of its outcomes: it creates *)
(* objects that are new, and what it returns is what the table holds       *)
(* under the name from then on.                                            *)
LEMMA OutcomeOfLoad ==
    ASSUME TypeOK, NEW name \in TextureNames, NEW o \in TextureOutcomes(name),
           LoadTexture(name, o)
    PROVE  /\ next_id' \in Nat /\ next_id <= next_id'
           /\ o.creates \subseteq Objects' /\ o.creates \cap Objects = {}
           /\ o.returns \in Texture' \cup {NULL}
           /\ name \in DOMAIN texture_lookup => o.returns # NULL /\ o.creates = {}
           /\ o.returns # NULL /\ name \notin DOMAIN texture_lookup =>
                  o.creates = TextureObjects(o.returns)
           /\ o.returns # NULL => /\ name \in DOMAIN texture_lookup'
                                  /\ texture_lookup'[name] = o.returns
           /\ DOMAIN texture_lookup' \subseteq TextureNames
           /\ \A n \in DOMAIN texture_lookup' : texture_lookup'[n] \in Texture'
  <1> DEFINE isHit == name \in DOMAIN texture_lookup
  <1>0. next_id \in Nat /\ Cardinality({}) = 0 /\ Cardinality({next_id}) = 1
        /\ Cardinality({next_id, next_id + 1}) = 2
    <2>1. next_id \in Nat
      BY DEF TypeOK
    <2>2. IsFiniteSet({next_id}) /\ Cardinality({next_id}) = 1
      BY FS_Singleton
    <2>3. Cardinality({next_id} \cup {next_id + 1}) = 1 + 1
      BY <2>1, <2>2, FS_AddElement
    <2>4. {next_id} \cup {next_id + 1} = {next_id, next_id + 1}
      OBVIOUS
    <2> QED BY <2>1, <2>2, <2>3, <2>4, FS_EmptySet
  <1>1. /\ isHit => o = Hit(name)
        /\ ~isHit => o \in {NotLoaded, ViewFails, Loaded}
    BY DEF TextureOutcomes
  <1>2. /\ NotLoaded.creates = {} /\ NotLoaded.returns = NULL
        /\ ViewFails.creates = {next_id} /\ ViewFails.returns = NULL
        /\ Loaded.creates = {next_id, next_id + 1}
        /\ Loaded.returns = [texture |-> next_id, srv |-> next_id + 1]
        /\ Hit(name).creates = {} /\ Hit(name).returns = texture_lookup[name]
    BY DEF NotLoaded, ViewFails, Loaded, Hit
  <1>3. next_id' = next_id + Cardinality(o.creates)
    BY DEF LoadTexture
  <1>4. next_id' \in Nat /\ next_id <= next_id' /\ o.creates \subseteq Objects'
        /\ o.creates \cap Objects = {}
    <2>1. CASE o.creates = {}
      BY <2>1, <1>0, <1>3
    <2>2. CASE o.creates = {next_id}
      BY <2>2, <1>0, <1>3, NextIsFresh DEF Objects
    <2>3. CASE o.creates = {next_id, next_id + 1}
      BY <2>3, <1>0, <1>3, NextIsFresh DEF Objects
    <2> QED BY <1>1, <1>2, <2>1, <2>2, <2>3
  <1>5. \A t \in [texture : Nat, srv : Nat] : t # NULL
    BY NullAssumption
  <1>6. Texture \subseteq [texture : Nat, srv : Nat] /\ Texture \subseteq Texture'
    BY <1>0, <1>4, TypesGrow DEF Texture, Objects
  <1>7. isHit => o.returns \in Texture /\ o.returns # NULL
    BY <1>1, <1>2, <1>5, <1>6 DEF TypeOK
  <1>8. o = Loaded => o.returns \in Texture' /\ o.returns # NULL
    <2> SUFFICES ASSUME o = Loaded PROVE o.returns \in Texture' /\ o.returns # NULL
      OBVIOUS
    <2>1. next_id \in Objects' /\ next_id + 1 \in Objects'
      BY <1>2, <1>4
    <2>2. o.returns \in [texture : Nat, srv : Nat]
      BY <1>0, <1>2
    <2> QED BY <1>2, <1>5, <2>1, <2>2 DEF Texture
  <1>9. o.returns \in Texture' \cup {NULL}
    BY <1>1, <1>2, <1>6, <1>7, <1>8
  <1>10. o.returns # NULL /\ ~isHit => o.creates = TextureObjects(o.returns)
    BY <1>1, <1>2 DEF TextureObjects
  <1>11. CASE o.returns # NULL /\ ~isHit
    <2>1. texture_lookup' = With(texture_lookup, name, o.returns)
      BY <1>11 DEF LoadTexture
    <2>2. /\ DOMAIN texture_lookup' = DOMAIN texture_lookup \cup {name}
          /\ \A n \in DOMAIN texture_lookup' :
                texture_lookup'[n] = IF n = name THEN o.returns ELSE texture_lookup[n]
      BY <2>1 DEF With
    <2>3. \A n \in DOMAIN texture_lookup' : texture_lookup'[n] \in Texture'
      BY <2>2, <1>6, <1>9, <1>11 DEF TypeOK
    <2> QED BY <1>4, <1>9, <1>10, <1>11, <2>2, <2>3 DEF TypeOK
  <1>12. CASE ~(o.returns # NULL /\ ~isHit)
    <2>1. texture_lookup' = texture_lookup
      BY <1>12 DEF LoadTexture
    <2> QED BY <1>1, <1>2, <1>4, <1>6, <1>7, <1>9, <1>12, <2>1 DEF TypeOK
  <1> QED BY <1>11, <1>12

-----------------------------------------------------------------------------
(* The load in progress *)

Resolved(submesh) == submesh.index_buffer # NULL /\ Len(submesh.textures) = Len(Slots)

(* How far a load has come: all submeshes but the one it is at have both   *)
(* buffers and all slots, and it does not go past the end of the file.     *)
(* Both registries live, and the mesh is not in the cache yet.             *)
Progress ==
    /\ pc # "idle" =>
          /\ alive = {"textures", "meshes"}
          /\ build.name \notin DOMAIN mesh_lookup
          /\ Len(build.submeshes) <= Len(Submeshes[build.name])
          /\ \A s \in 1..Len(build.submeshes) - 1 : Resolved(build.submeshes[s])
    /\ pc = "submesh" => \A s \in 1..Len(build.submeshes) : Resolved(build.submeshes[s])
    /\ pc = "index_buffer" => /\ build.submeshes # <<>>
                              /\ Current.index_buffer = NULL /\ Current.textures = <<>>
    /\ pc = "textures" => /\ build.submeshes # <<>>
                          /\ Current.index_buffer # NULL /\ Len(Current.textures) < Len(Slots)

LoaderInv == TypeOK /\ Progress

(* The submesh the load is at.                                             *)
LEMMA CurrentType ==
    ASSUME LoaderInv, pc \in {"index_buffer", "textures"}
    PROVE  /\ build.name \in MeshNames /\ build.submeshes \in Seq(Submesh)
           /\ Last \in Nat /\ Last > 0 /\ Last \in 1..Len(build.submeshes)
           /\ Last \in 1..Len(Submeshes[build.name])
           /\ Current \in Submesh
  <1>1. build.name \in MeshNames /\ build.submeshes \in Seq(Submesh) /\ build.submeshes # <<>>
    BY DEF LoaderInv, TypeOK, Progress
  <1>2. Last \in Nat /\ Last > 0 /\ Last \in 1..Len(build.submeshes)
    BY <1>1 DEF Last
  <1>3. Len(Submeshes[build.name]) \in Nat /\ Last <= Len(Submeshes[build.name])
    BY <1>1, SubmeshesAssumption DEF LoaderInv, Progress, Last
  <1> QED BY <1>1, <1>2, <1>3 DEF Current

(* Replacing that submesh by another one leaves the others alone.          *)
LEMMA SetCurrentKeeps ==
    ASSUME LoaderInv, pc \in {"index_buffer", "textures"}, Submesh \subseteq Submesh',
           NEW new \in Submesh', SetCurrent(new)
    PROVE  /\ build' \in [name : MeshNames, submeshes : Seq(Submesh')]
           /\ build'.name = build.name /\ Len(build'.submeshes) = Len(build.submeshes)
           /\ build'.submeshes # <<>> /\ Current' = new
           /\ \A s \in 1..Len(build.submeshes) - 1 : build'.submeshes[s] = build.submeshes[s]
  <1>1. build.name \in MeshNames /\ build.submeshes \in Seq(Submesh')
        /\ Last \in 1..Len(build.submeshes)
    BY CurrentType, SeqGrows
  <1>2. build' = [name |-> build.name, submeshes |-> [build.submeshes EXCEPT ![Last] = new]]
    BY DEF SetCurrent
  <1>3. [build.submeshes EXCEPT ![Last] = new] \in Seq(Submesh')
    BY <1>1
  <1>4. Len([build.submeshes EXCEPT ![Last] = new]) = Len(build.submeshes)
    BY <1>1
  <1>5. [build.submeshes EXCEPT ![Last] = new][Last] = new
    BY <1>1
  <1>6. \A s \in 1..Len(build.submeshes) - 1 :
           [build.submeshes EXCEPT ![Last] = new][s] = build.submeshes[s]
    BY <1>1 DEF Last
  <1>7. Last' = Last /\ Current' = new
    BY <1>2, <1>4, <1>5 DEF Last, Current
  <1>8. Len(build'.submeshes) > 0
    BY <1>1, <1>2, <1>4
  <1> QED BY <1>1, <1>2, <1>3, <1>4, <1>6, <1>7, <1>8

(* A failed load leaves no trace in the loader.                            *)
LEMMA AbandonKeeps ==
    ASSUME LoaderInv, AbandonMesh, UNCHANGED <<gpu, next_id, caches, alive>>, pc # "idle"
    PROVE  LoaderInv'
  <1>1. \A s \in DOMAIN build.submeshes : build.submeshes[s] \in Submesh
    BY DEF LoaderInv, TypeOK
  <1>2. \A x \in Submesh : Buffers(x) \subseteq Objects
    BY DEF Submesh, Buffers
  <1>3. BuffersOf(build.submeshes) \subseteq Objects
    BY <1>1, <1>2 DEF BuffersOf
  <1>4. orphans' \subseteq Objects
    BY <1>3 DEF AbandonMesh, LoaderInv, TypeOK
  <1>5. TypeOK'
    BY <1>4 DEF AbandonMesh, LoaderInv, TypeOK, caches, Texture, Submesh, TexturePointers, Objects
  <1>6. Progress'
    BY DEF AbandonMesh, Progress
  <1> QED BY <1>5, <1>6 DEF LoaderInv

(* The types of everything but the build follow from an unchanged device   *)
(* and unchanged caches.                                                   *)
CachesTyped ==
    /\ next_id \in Nat
    /\ gpu \subseteq Objects /\ orphans \subseteq Objects
    /\ alive \subseteq {"textures", "meshes"}
    /\ DOMAIN texture_lookup \subseteq TextureNames
    /\ \A n \in DOMAIN texture_lookup : texture_lookup[n] \in Texture
    /\ DOMAIN mesh_lookup \subseteq MeshNames
    /\ \A n \in DOMAIN mesh_lookup : mesh_lookup[n] \in Seq(Submesh)
    /\ all_names \in Seq(MeshNames)
    /\ result \in {NULL} \cup Texture \cup [submeshes : Seq(Submesh)]

(* It survives the creation of a buffer.                                   *)
LEMMA NewBufferKeepsTypes ==
    ASSUME TypeOK, gpu' = gpu \cup {next_id}, next_id' = next_id + 1,
           UNCHANGED <<caches, alive, orphans, result>>
    PROVE  /\ CachesTyped' /\ next_id \in Objects' /\ next_id # NULL
           /\ next_id' \in Nat /\ next_id <= next_id'
  <1>1. next_id \in Nat /\ next_id' \in Nat /\ next_id <= next_id'
    BY DEF TypeOK
  <1>2. /\ Objects \subseteq Objects' /\ Texture \subseteq Texture'
        /\ Submesh \subseteq Submesh' /\ Seq(Submesh) \subseteq Seq(Submesh')
    BY <1>1, TypesGrow
  <1>3. next_id \in Objects'
    BY <1>1 DEF Objects
  <1>4. gpu' \subseteq Objects' /\ orphans' \subseteq Objects'
    BY <1>2, <1>3 DEF TypeOK
  <1>5. \A n \in DOMAIN texture_lookup' : texture_lookup'[n] \in Texture'
    BY <1>2 DEF TypeOK, caches
  <1>6. \A n \in DOMAIN mesh_lookup' : mesh_lookup'[n] \in Seq(Submesh')
    BY <1>2 DEF TypeOK, caches
  <1>7. result' \in {NULL} \cup Texture' \cup [submeshes : Seq(Submesh')]
    <2>1. CASE result \in {NULL} \cup Texture
      BY <2>1, <1>2
    <2>2. CASE result \in [submeshes : Seq(Submesh)]
      BY <2>2, <1>2
    <2> QED BY <2>1, <2>2 DEF TypeOK
  <1>8. next_id # NULL
    BY <1>1, NullAssumption
  <1> QED BY <1>1, <1>3, <1>4, <1>5, <1>6, <1>7, <1>8 DEF CachesTyped, TypeOK, caches

(* Types and progress over the creation of a vertex buffer.                *)
LEMMA VertexKeeps ==
    ASSUME LoaderInv, CreateVertexBuffer
    PROVE  LoaderInv'
  <1>1. CASE AbandonMesh /\ UNCHANGED <<gpu, next_id>>
    BY <1>1, AbandonKeeps DEF CreateVertexBuffer
  <1>2. CASE ~(AbandonMesh /\ UNCHANGED <<gpu, next_id>>)
    <2> DEFINE new == [vertex_buffer |-> next_id, index_buffer |-> NULL, textures |-> <<>>]
    <2>1. /\ build' = [name |-> build.name, submeshes |-> Append(build.submeshes, new)]
          /\ gpu' = gpu \cup {next_id} /\ next_id' = next_id + 1
          /\ pc = "submesh" /\ pc' = "index_buffer" /\ MoreSubmeshes
          /\ UNCHANGED <<caches, alive, orphans, result>>
      BY <1>2 DEF CreateVertexBuffer
    <2>2. CachesTyped' /\ next_id \in Objects' /\ next_id' \in Nat /\ next_id \in Nat
          /\ next_id <= next_id'
      BY <2>1, NewBufferKeepsTypes DEF LoaderInv, TypeOK
    <2>3. build.name \in MeshNames /\ build.submeshes \in Seq(Submesh')
      BY <2>1, <2>2, TypesGrow DEF LoaderInv, TypeOK
    <2>4. new \in Submesh'
      <3>1. <<>> \in Seq(TexturePointers')
        OBVIOUS
      <3> QED BY <2>2, <3>1 DEF Submesh
    <2> HIDE DEF new
    <2>5. Append(build.submeshes, new) \in Seq(Submesh')
      BY <2>3, <2>4
    <2>6. TypeOK'
      BY <2>1, <2>2, <2>3, <2>5 DEF TypeOK, CachesTyped
    <2>7. build'.submeshes = Append(build.submeshes, new) /\ build'.name = build.name
      BY <2>1
    <2>8. Len(build'.submeshes) = Len(build.submeshes) + 1
          /\ build'.submeshes # <<>>
          /\ build'.submeshes[Len(build'.submeshes)] = new
          /\ \A s \in 1..Len(build.submeshes) : build'.submeshes[s] = build.submeshes[s]
      BY <2>3, <2>7
    <2>9. Current' = new
      BY <2>8 DEF Current, Last
    <2>10. Len(build.submeshes) \in Nat /\ Len(Submeshes[build.name]) \in Nat
      BY <2>3, SubmeshesAssumption
    <2>11. Len(build'.submeshes) <= Len(Submeshes[build.name])
      BY <2>1, <2>8, <2>10 DEF MoreSubmeshes
    <2>12. \A s \in 1..Len(build'.submeshes) - 1 : Resolved(build'.submeshes[s])
      BY <2>1, <2>8, <2>10 DEF LoaderInv, Progress, Resolved
    <2>13. new.index_buffer = NULL /\ new.textures = <<>>
      BY DEF new
    <2>14. alive' = {"textures", "meshes"} /\ build'.name \notin DOMAIN mesh_lookup'
      BY <2>1, <2>7 DEF LoaderInv, Progress, caches
    <2>15. Progress'
      BY <2>1, <2>7, <2>8, <2>9, <2>11, <2>12, <2>13, <2>14 DEF Progress, Resolved
    <2> QED BY <2>6, <2>15 DEF LoaderInv
  <1> QED BY <1>1, <1>2

(* The same for an index buffer.                                           *)
LEMMA IndexKeeps ==
    ASSUME LoaderInv, CreateIndexBuffer
    PROVE  LoaderInv'
  <1>1. CASE AbandonMesh /\ UNCHANGED <<gpu, next_id>>
    BY <1>1, AbandonKeeps DEF CreateIndexBuffer
  <1>2. CASE ~(AbandonMesh /\ UNCHANGED <<gpu, next_id>>)
    <2> DEFINE new == [Current EXCEPT !.index_buffer = next_id]
    <2>1. /\ SetCurrent(new)
          /\ gpu' = gpu \cup {next_id} /\ next_id' = next_id + 1
          /\ pc = "index_buffer" /\ pc' = "textures"
          /\ UNCHANGED <<caches, alive, orphans, result>>
      BY <1>2 DEF CreateIndexBuffer
    <2>2. /\ CachesTyped' /\ next_id \in Objects' /\ next_id # NULL
          /\ next_id' \in Nat /\ next_id \in Nat /\ next_id <= next_id'
      BY <2>1, NewBufferKeepsTypes DEF LoaderInv, TypeOK
    <2>3. Current \in Submesh /\ Submesh \subseteq Submesh'
      BY <2>1, <2>2, TypesGrow, CurrentType
    <2>4. new \in Submesh' /\ new.index_buffer # NULL /\ new.textures = <<>>
      BY <2>1, <2>2, <2>3 DEF Submesh, LoaderInv, Progress
    <2> HIDE DEF new
    <2>5. /\ build' \in [name : MeshNames, submeshes : Seq(Submesh')]
          /\ build'.name = build.name /\ Len(build'.submeshes) = Len(build.submeshes)
          /\ build'.submeshes # <<>> /\ Current' = new
          /\ \A s \in 1..Len(build.submeshes) - 1 : build'.submeshes[s] = build.submeshes[s]
      BY <2>1, <2>3, <2>4, SetCurrentKeeps
    <2>6. TypeOK'
      BY <2>1, <2>2, <2>5 DEF TypeOK, CachesTyped
    <2>7. Len(Slots) \in Nat /\ Len(Slots) > 0 /\ Len(<<>>) = 0
      BY SlotsAssumption
    <2>8. Progress'
      BY <2>1, <2>4, <2>5, <2>7 DEF LoaderInv, Progress, Resolved, caches
    <2> QED BY <2>6, <2>8 DEF LoaderInv
  <1> QED BY <1>1, <1>2

(* What a texture slot may get: the white texture, or an outcome of        *)
(* find_or_load.                                                           *)
LEMMA SlotOutcome ==
    ASSUME LoaderInv, ResolveSlot
    PROVE  \E o : /\ \/ /\ SlotTexture = NoName
                        /\ o = [returns |-> White, creates |-> {}]
                        /\ UNCHANGED <<texture_lookup, device>>
                     \/ /\ SlotTexture \in TextureNames /\ SlotTexture # NoName
                        /\ o \in TextureOutcomes(SlotTexture)
                        /\ LoadTexture(SlotTexture, o)
                  /\ SetCurrent([Current EXCEPT !.textures = Append(@, o.returns)])
  <1>1. pc = "textures" /\ Last \in 1..Len(Submeshes[build.name]) /\ build.name \in MeshNames
        /\ Current \in Submesh
    BY CurrentType DEF ResolveSlot
  <1>2. Submeshes[build.name][Last] \in [SlotNames -> TextureNames \cup {NoName}]
    BY <1>1, SubmeshesAssumption
  <1>3. Slot \in SlotNames
    <2>1. Len(Current.textures) \in Nat /\ Len(Current.textures) < Len(Slots)
      BY <1>1 DEF LoaderInv, Progress, Submesh
    <2>2. Len(Current.textures) + 1 \in DOMAIN Slots
      BY <2>1, SlotsAssumption
    <2> QED BY <2>2 DEF Slot, SlotNames
  <1>4. SlotTexture \in TextureNames \cup {NoName}
    BY <1>2, <1>3 DEF SlotTexture
  <1>5. PICK o \in IF SlotTexture = NoName THEN {[returns |-> White, creates |-> {}]}
                   ELSE TextureOutcomes(SlotTexture) :
           /\ IF SlotTexture = NoName THEN UNCHANGED <<texture_lookup, device>>
              ELSE LoadTexture(SlotTexture, o)
           /\ SetCurrent([Current EXCEPT !.textures = Append(@, o.returns)])
    BY DEF ResolveSlot
  <1> QED BY <1>4, <1>5

(* The types over a texture load, for both of its callers.                 *)
LEMMA LoadTextureTypes ==
    ASSUME TypeOK, NEW name \in TextureNames, NEW o \in TextureOutcomes(name),
           LoadTexture(name, o), UNCHANGED <<mesh_lookup, all_names, alive>>,
           result' \in {result, o.returns}
    PROVE  /\ CachesTyped' /\ next_id' \in Nat /\ next_id \in Nat /\ next_id <= next_id'
           /\ o.returns \in TexturePointers'
  <1>1. next_id \in Nat /\ next_id' \in Nat /\ next_id <= next_id'
        /\ o.creates \subseteq Objects' /\ o.returns \in Texture' \cup {NULL}
        /\ DOMAIN texture_lookup' \subseteq TextureNames
        /\ \A n \in DOMAIN texture_lookup' : texture_lookup'[n] \in Texture'
    BY OutcomeOfLoad DEF TypeOK
  <1>2. /\ Objects \subseteq Objects' /\ Texture \subseteq Texture'
        /\ Seq(Submesh) \subseteq Seq(Submesh')
    BY <1>1, TypesGrow
  <1>3. gpu' \subseteq Objects' /\ orphans' \subseteq Objects'
    BY <1>1, <1>2 DEF TypeOK, LoadTexture
  <1>4. \A n \in DOMAIN mesh_lookup' : mesh_lookup'[n] \in Seq(Submesh')
    BY <1>2 DEF TypeOK
  <1>5. result' \in {NULL} \cup Texture' \cup [submeshes : Seq(Submesh')]
    <2>1. CASE result' = o.returns
      BY <2>1, <1>1
    <2>2. CASE result' = result /\ result \in {NULL} \cup Texture
      BY <2>2, <1>2
    <2>3. CASE result' = result /\ result \in [submeshes : Seq(Submesh)]
      BY <2>3, <1>2
    <2> QED BY <2>1, <2>2, <2>3 DEF TypeOK
  <1> QED BY <1>1, <1>3, <1>4, <1>5 DEF CachesTyped, TypeOK, TexturePointers

(* Types and progress over a texture slot.                                 *)
LEMMA SlotKeeps ==
    ASSUME LoaderInv, ResolveSlot
    PROVE  LoaderInv'
  <1>1. PICK o : /\ \/ /\ SlotTexture = NoName
                       /\ o = [returns |-> White, creates |-> {}]
                       /\ UNCHANGED <<texture_lookup, device>>
                    \/ /\ SlotTexture \in TextureNames /\ SlotTexture # NoName
                       /\ o \in TextureOutcomes(SlotTexture)
                       /\ LoadTexture(SlotTexture, o)
                 /\ SetCurrent([Current EXCEPT !.textures = Append(@, o.returns)])
    BY SlotOutcome
  <1>2. /\ pc = "textures" /\ UNCHANGED <<mesh_lookup, all_names, alive, result>>
        /\ pc' = IF Len(Current.textures) + 1 = Len(Slots) THEN "submesh" ELSE "textures"
    BY DEF ResolveSlot
  <1>3. CachesTyped' /\ next_id' \in Nat /\ next_id \in Nat /\ next_id <= next_id'
        /\ o.returns \in TexturePointers'
    <2>1. CASE SlotTexture = NoName
      <3>1. /\ UNCHANGED <<gpu, next_id, orphans, texture_lookup>> /\ o.returns = White
        BY <1>1, <2>1 DEF device
      <3>2. next_id \in Nat /\ next_id <= next_id
        BY DEF LoaderInv, TypeOK
      <3>3. CachesTyped
        BY DEF LoaderInv, TypeOK, CachesTyped
      <3>4. CachesTyped'
        BY <1>2, <3>1, <3>3 DEF CachesTyped, Objects, Texture, Submesh, TexturePointers
      <3> QED BY <3>1, <3>2, <3>4 DEF TexturePointers
    <2>2. CASE SlotTexture # NoName
      BY <1>1, <1>2, <2>2, LoadTextureTypes DEF LoaderInv
    <2> QED BY <2>1, <2>2
  <1> DEFINE new == [Current EXCEPT !.textures = Append(@, o.returns)]
  <1>4. Current \in Submesh /\ Submesh \subseteq Submesh'
    BY <1>2, <1>3, TypesGrow, CurrentType
  <1>5. new \in Submesh' /\ new.index_buffer = Current.index_buffer
        /\ new.textures = Append(Current.textures, o.returns)
        /\ Current.textures \in Seq(TexturePointers')
    BY <1>3, <1>4 DEF Submesh
  <1>6. Len(new.textures) = Len(Current.textures) + 1 /\ Len(Current.textures) \in Nat
    BY <1>5
  <1> HIDE DEF new
  <1>7. /\ build' \in [name : MeshNames, submeshes : Seq(Submesh')]
        /\ build'.name = build.name /\ Len(build'.submeshes) = Len(build.submeshes)
        /\ build'.submeshes # <<>> /\ Current' = new
        /\ \A s \in 1..Len(build.submeshes) - 1 : build'.submeshes[s] = build.submeshes[s]
    BY <1>1, <1>2, <1>4, <1>5, SetCurrentKeeps DEF new
  <1>8. TypeOK'
    BY <1>2, <1>3, <1>7 DEF TypeOK, CachesTyped
  <1>9. Len(Slots) \in Nat /\ Len(Current.textures) < Len(Slots) /\ Current.index_buffer # NULL
    BY <1>2, SlotsAssumption DEF LoaderInv, Progress
  <1>10. Current' = build'.submeshes[Len(build'.submeshes)]
    BY DEF Current, Last
  <1>11. pc' = "submesh" => \A s \in 1..Len(build'.submeshes) : Resolved(build'.submeshes[s])
    <2> SUFFICES ASSUME pc' = "submesh", NEW s \in 1..Len(build'.submeshes)
                 PROVE  Resolved(build'.submeshes[s])
      OBVIOUS
    <2>1. CASE s = Len(build'.submeshes)
      BY <2>1, <1>2, <1>5, <1>6, <1>7, <1>9, <1>10 DEF Resolved
    <2>2. CASE s # Len(build'.submeshes)
      BY <2>2, <1>2, <1>7 DEF LoaderInv, Progress, Resolved
    <2> QED BY <2>1, <2>2
  <1>12. pc' = "textures" => Current'.index_buffer # NULL /\ Len(Current'.textures) < Len(Slots)
    BY <1>2, <1>5, <1>6, <1>7, <1>9
  <1>13. Progress'
    BY <1>2, <1>7, <1>11, <1>12 DEF LoaderInv, Progress, Resolved
  <1> QED BY <1>8, <1>13 DEF LoaderInv

(* Types and progress over the end of a load.                              *)
LEMMA RegisterKeeps ==
    ASSUME LoaderInv, RegisterMesh
    PROVE  LoaderInv'
  <1>1. /\ pc = "submesh" /\ pc' = "idle" /\ build' = NoBuild
        /\ mesh_lookup' = With(mesh_lookup, build.name, build.submeshes)
        /\ all_names' = Append(all_names, build.name)
        /\ result' = [submeshes |-> build.submeshes]
        /\ UNCHANGED <<texture_lookup, gpu, next_id, orphans, alive>>
    BY DEF RegisterMesh, device
  <1>2. build.name \in MeshNames /\ build.submeshes \in Seq(Submesh)
    BY <1>1 DEF LoaderInv, TypeOK
  <1>3. /\ DOMAIN mesh_lookup' = DOMAIN mesh_lookup \cup {build.name}
        /\ \A n \in DOMAIN mesh_lookup' :
              mesh_lookup'[n] = IF n = build.name THEN build.submeshes ELSE mesh_lookup[n]
    BY <1>1 DEF With
  <1>4. /\ DOMAIN mesh_lookup' \subseteq MeshNames
        /\ \A n \in DOMAIN mesh_lookup' : mesh_lookup'[n] \in Seq(Submesh)
    BY <1>2, <1>3 DEF LoaderInv, TypeOK
  <1>5. all_names' \in Seq(MeshNames) /\ result' \in [submeshes : Seq(Submesh)]
    BY <1>1, <1>2 DEF LoaderInv, TypeOK
  <1>6. TypeOK'
    BY <1>1, <1>4, <1>5
       DEF LoaderInv, TypeOK, Texture, Submesh, TexturePointers, Objects
  <1>7. Progress'
    BY <1>1 DEF Progress
  <1> QED BY <1>6, <1>7 DEF LoaderInv

(* Types and progress over a texture load of another caller.               *)
LEMMA FindTextureKeeps ==
    ASSUME LoaderInv, NEW name \in TextureNames, FindOrLoadTexture(name)
    PROVE  LoaderInv'
  <1>1. PICK o \in TextureOutcomes(name) : LoadTexture(name, o) /\ result' = o.returns
    BY DEF FindOrLoadTexture
  <1>2. pc = "idle" /\ UNCHANGED <<mesh_lookup, all_names, alive, pc, build>>
    BY DEF FindOrLoadTexture
  <1>3. CachesTyped'
    BY <1>1, <1>2, LoadTextureTypes DEF LoaderInv
  <1>4. next_id' \in Nat
    BY <1>1, <1>2, LoadTextureTypes DEF LoaderInv
  <1>5. TypeOK'
    BY <1>2, <1>3, <1>4 DEF LoaderInv, TypeOK, CachesTyped
  <1>6. Progress'
    BY <1>2 DEF Progress
  <1> QED BY <1>5, <1>6 DEF LoaderInv

(* Types and progress over the start of a load.                            *)
LEMMA LoadMeshKeeps ==
    ASSUME LoaderInv, NEW name \in MeshNames, LoadMesh(name)
    PROVE  LoaderInv'
  <1>1. /\ build' = [name |-> name, submeshes |-> <<>>] /\ pc' = "submesh"
        /\ name \notin DOMAIN mesh_lookup /\ alive = {"textures", "meshes"}
        /\ UNCHANGED <<texture_lookup, mesh_lookup, all_names, gpu, next_id, orphans, alive,
                       result>>
    BY DEF LoadMesh, caches, device
  <1>2. TypeOK'
    <2>1. /\ Texture' = Texture /\ Submesh' = Submesh /\ Objects' = Objects
      BY <1>1 DEF Texture, Submesh, TexturePointers, Objects
    <2>2. <<>> \in Seq(Submesh)
      OBVIOUS
    <2>3. build' \in [name : MeshNames, submeshes : Seq(Submesh)]
      BY <1>1, <2>2
    <2>4. pc' # "idle" /\ pc' \in {"idle", "submesh", "index_buffer", "textures"}
      BY <1>1
    <2> QED BY <1>1, <2>1, <2>3, <2>4 DEF LoaderInv, TypeOK
  <1>3. Len(Submeshes[name]) \in Nat
    BY SubmeshesAssumption
  <1>4. build'.name = name /\ build'.submeshes = <<>> /\ Len(build'.submeshes) = 0
    BY <1>1
  <1>5. Progress'
    BY <1>1, <1>3, <1>4 DEF Progress
  <1> QED BY <1>2, <1>5 DEF LoaderInv

(* The remaining steps touch neither the caches nor a build.               *)
LEMMA QuietKeeps ==
    ASSUME LoaderInv, UNCHANGED <<texture_lookup, mesh_lookup, all_names, next_id, orphans>>,
           \/ /\ pc = "idle" /\ pc' = "idle" /\ UNCHANGED build
              /\ alive' \subseteq alive /\ gpu' \subseteq gpu
              /\ result' \in {result, NULL} \cup {[submeshes |-> mesh_lookup[n]] : n \in DOMAIN mesh_lookup}
           \/ UNCHANGED <<alive, gpu, pc, build, result>>
    PROVE  LoaderInv'
  <1>1. /\ Texture' = Texture /\ Submesh' = Submesh /\ Objects' = Objects
        /\ TexturePointers' = TexturePointers
    BY DEF Texture, Submesh, TexturePointers, Objects
  <1>2. CASE UNCHANGED <<alive, gpu, pc, build, result>>
    BY <1>1, <1>2 DEF LoaderInv, TypeOK, Progress, Current, Last, Resolved
  <1>3. CASE ~UNCHANGED <<alive, gpu, pc, build, result>>
    <2>1. result' \in {NULL} \cup Texture \cup [submeshes : Seq(Submesh)]
      BY <1>3 DEF LoaderInv, TypeOK
    <2>2. TypeOK'
      BY <1>1, <1>3, <2>1 DEF LoaderInv, TypeOK
    <2>3. Progress'
      BY <1>3 DEF Progress
    <2> QED BY <2>2, <2>3 DEF LoaderInv
  <1> QED BY <1>2, <1>3

LEMMA LoaderStep ==
    ASSUME LoaderInv, [Next]_vars
    PROVE  LoaderInv'
  <1>1. ASSUME NEW name \in TextureNames, FindOrLoadTexture(name) PROVE LoaderInv'
    BY <1>1, FindTextureKeeps
  <1>2. ASSUME NEW name \in MeshNames, FindMesh(name) PROVE LoaderInv'
    BY <1>2, QuietKeeps DEF FindMesh, caches, device
  <1>3. ASSUME NEW name \in MeshNames, MeshNotLoaded(name) PROVE LoaderInv'
    BY <1>3, QuietKeeps DEF MeshNotLoaded, caches, device
  <1>4. ASSUME NEW name \in MeshNames, LoadMesh(name) PROVE LoaderInv'
    BY <1>4, LoadMeshKeeps
  <1>5. CASE LoadStep
    BY <1>5, VertexKeeps, IndexKeeps, SlotKeeps, RegisterKeeps DEF LoadStep
  <1>6. CASE DestroyTextures \/ DestroyMeshes
    BY <1>6, QuietKeeps DEF DestroyTextures, DestroyMeshes, caches
  <1>7. CASE UNCHANGED vars
    BY <1>7, QuietKeeps DEF vars
  <1> QED BY <1>1, <1>2, <1>3, <1>4, <1>5, <1>6, <1>7 DEF Next

LEMMA LoaderInit ==
    ASSUME Init
    PROVE  LoaderInv
  <1>1. DOMAIN EmptyTable = {}
    BY DEF EmptyTable
  <1>2. <<>> \in Seq(MeshNames)
    OBVIOUS
  <1> QED BY <1>1, <1>2 DEF Init, LoaderInv, TypeOK, Progress, Objects

(* All values are of their types, in every state.                          *)
THEOREM TypeCorrect == Spec => [](TypeOK /\ Progress)
  <1>1. Init => LoaderInv
    BY LoaderInit
  <1>2. LoaderInv /\ [Next]_vars => LoaderInv'
    BY LoaderStep
  <1> QED BY <1>1, <1>2, PTL DEF Spec, LoaderInv

-----------------------------------------------------------------------------
(* The caches *)

(* What the texture table holds it goes on holding.                        *)
TexturesStay ==
    \A n \in DOMAIN texture_lookup :
        n \in DOMAIN texture_lookup' /\ texture_lookup'[n] = texture_lookup[n]

MeshesStay ==
    \A n \in DOMAIN mesh_lookup :
        n \in DOMAIN mesh_lookup' /\ mesh_lookup'[n] = mesh_lookup[n]

LEMMA LoadTextureStays ==
    ASSUME NEW name, NEW o, LoadTexture(name, o)
    PROVE  TexturesStay
  <1>1. CASE o.returns # NULL /\ name \notin DOMAIN texture_lookup
    <2>1. texture_lookup' = With(texture_lookup, name, o.returns)
      BY <1>1 DEF LoadTexture
    <2>2. /\ DOMAIN texture_lookup' = DOMAIN texture_lookup \cup {name}
          /\ \A n \in DOMAIN texture_lookup' :
                texture_lookup'[n] = IF n = name THEN o.returns ELSE texture_lookup[n]
      BY <2>1 DEF With
    <2> QED BY <1>1, <2>2 DEF TexturesStay
  <1>2. CASE ~(o.returns # NULL /\ name \notin DOMAIN texture_lookup)
    BY <1>2 DEF LoadTexture, TexturesStay
  <1> QED BY <1>1, <1>2

(* Where the mesh table changes.                                           *)
LEMMA RegisterAdds ==
    ASSUME LoaderInv, RegisterMesh
    PROVE  /\ build.name \in MeshNames /\ build.name \notin DOMAIN mesh_lookup
           /\ DOMAIN mesh_lookup' = DOMAIN mesh_lookup \cup {build.name}
           /\ mesh_lookup'[build.name] = build.submeshes
           /\ \A n \in DOMAIN mesh_lookup : mesh_lookup'[n] = mesh_lookup[n]
  <1>1. /\ DOMAIN mesh_lookup' = DOMAIN mesh_lookup \cup {build.name}
        /\ \A n \in DOMAIN mesh_lookup' :
              mesh_lookup'[n] = IF n = build.name THEN build.submeshes ELSE mesh_lookup[n]
    BY DEF RegisterMesh, With
  <1>2. build.name \in MeshNames /\ build.name \notin DOMAIN mesh_lookup
    BY DEF RegisterMesh, LoaderInv, TypeOK, Progress
  <1> QED BY <1>1, <1>2

LEMMA CachesStay ==
    ASSUME LoaderInv, [Next]_vars
    PROVE  TexturesStay /\ MeshesStay
  <1> USE DEF TexturesStay, MeshesStay
  <1>1. ASSUME NEW name \in TextureNames, FindOrLoadTexture(name)
        PROVE  TexturesStay /\ MeshesStay
    BY <1>1, LoadTextureStays DEF FindOrLoadTexture
  <1>2. ASSUME NEW name \in MeshNames, FindMesh(name) \/ MeshNotLoaded(name) \/ LoadMesh(name)
        PROVE  TexturesStay /\ MeshesStay
    BY <1>2 DEF FindMesh, MeshNotLoaded, LoadMesh, caches
  <1>3. CASE CreateVertexBuffer \/ CreateIndexBuffer
    BY <1>3 DEF CreateVertexBuffer, CreateIndexBuffer, caches
  <1>4. CASE ResolveSlot
    <2>1. TexturesStay
      BY <1>4, LoadTextureStays DEF ResolveSlot
    <2> QED BY <1>4, <2>1 DEF ResolveSlot
  <1>5. CASE RegisterMesh
    BY <1>5, RegisterAdds DEF RegisterMesh
  <1>6. CASE DestroyTextures \/ DestroyMeshes \/ UNCHANGED vars
    BY <1>6 DEF DestroyTextures, DestroyMeshes, caches, vars
  <1> QED BY <1>1, <1>2, <1>3, <1>4, <1>5, <1>6 DEF Next, LoadStep

(* What a registry has returned stays what it returns                      *)
(* (texture_registry.cpp:16-51, mesh_registry.cpp:13-76).                  *)
THEOREM CachesAreStable == Spec => CacheStable
  <1>1. LoaderInv /\ [Next]_vars =>
          [/\ \A n \in DOMAIN texture_lookup :
                 n \in DOMAIN texture_lookup' /\ texture_lookup'[n] = texture_lookup[n]
           /\ \A n \in DOMAIN mesh_lookup :
                 n \in DOMAIN mesh_lookup' /\ mesh_lookup'[n] = mesh_lookup[n]]_vars
    BY CachesStay DEF TexturesStay, MeshesStay
  <1> QED BY <1>1, TypeCorrect, PTL DEF Spec, CacheStable, LoaderInv

-----------------------------------------------------------------------------
(* The list of names *)

(* Steps other than the end of a load leave the mesh table and the list.   *)
LEMMA MeshesChangeAtRegister ==
    ASSUME [Next]_vars, ~RegisterMesh
    PROVE  UNCHANGED <<mesh_lookup, all_names>>
  BY DEF Next, LoadStep, vars, caches, FindOrLoadTexture, FindMesh, MeshNotLoaded, LoadMesh,
         CreateVertexBuffer, CreateIndexBuffer, ResolveSlot, DestroyTextures, DestroyMeshes

Complete(name, submeshes) ==
    /\ Len(submeshes) = Len(Submeshes[name])
    /\ \A s \in DOMAIN submeshes :
          submeshes[s].index_buffer # NULL /\ Len(submeshes[s].textures) = Len(Slots)

LEMMA ListStep ==
    ASSUME LoaderInv, ListedMeshesComplete, IsFiniteSet(DOMAIN mesh_lookup), [Next]_vars
    PROVE  ListedMeshesComplete' /\ IsFiniteSet(DOMAIN mesh_lookup)'
  <1>1. CASE RegisterMesh
    <2>1. build.submeshes \in Seq(Submesh) /\ all_names \in Seq(MeshNames)
          /\ Submeshes[build.name] \in Seq([SlotNames -> TextureNames \cup {NoName}])
      BY <1>1, RegisterAdds, SubmeshesAssumption DEF RegisterMesh, LoaderInv, TypeOK
    <2>2. Len(build.submeshes) = Len(Submeshes[build.name])
      <3>1. Len(build.submeshes) \in Nat /\ Len(Submeshes[build.name]) \in Nat
        BY <2>1
      <3> QED BY <1>1, <3>1 DEF RegisterMesh, MoreSubmeshes, LoaderInv, Progress
    <2>3. Complete(build.name, build.submeshes)
      BY <1>1, <2>1, <2>2 DEF Complete, RegisterMesh, LoaderInv, Progress, Resolved
    <2>4. all_names' = Append(all_names, build.name)
      BY <1>1 DEF RegisterMesh
    <2>5. {all_names'[j] : j \in DOMAIN all_names'}
            = {all_names[j] : j \in DOMAIN all_names} \cup {build.name}
      BY <1>1, <2>1, <2>4, RegisterAdds
    <2>6. Len(all_names') = Len(all_names) + 1
      BY <1>1, <2>1, <2>4, RegisterAdds
    <2>7. /\ IsFiniteSet(DOMAIN mesh_lookup')
          /\ Cardinality(DOMAIN mesh_lookup') = Cardinality(DOMAIN mesh_lookup) + 1
      BY <1>1, RegisterAdds, FS_AddElement
    <2>8. \A n \in DOMAIN mesh_lookup' : Complete(n, mesh_lookup'[n])
      BY <1>1, <2>3, RegisterAdds DEF ListedMeshesComplete, Complete
    <2> QED BY <1>1, <2>5, <2>6, <2>7, <2>8, RegisterAdds DEF ListedMeshesComplete, Complete
  <1>2. CASE ~RegisterMesh
    BY <1>2, MeshesChangeAtRegister DEF ListedMeshesComplete
  <1> QED BY <1>1, <1>2

(* The list of names is the set of cached meshes, each once and complete   *)
(* (mesh_registry.cpp:61-73).                                              *)
THEOREM ListIsComplete == Spec => []ListedMeshesComplete
  <1> DEFINE Inv == ListedMeshesComplete /\ IsFiniteSet(DOMAIN mesh_lookup)
  <1>1. Init => Inv
    BY FS_EmptySet DEF Init, EmptyTable, ListedMeshesComplete
  <1>2. Inv /\ LoaderInv /\ [Next]_vars => Inv'
    BY ListStep
  <1>3. Inv => ListedMeshesComplete
    OBVIOUS
  <1> HIDE DEF Inv
  <1> QED BY <1>1, <1>2, <1>3, TypeCorrect, PTL DEF Spec, LoaderInv

-----------------------------------------------------------------------------
(* The texture pointers of the materials *)

(* Shared in the next state.                                               *)
SharedNext(named, texture) ==
    IF named = NoName
    THEN texture = White
    ELSE \/ texture = NULL
         \/ named \in DOMAIN texture_lookup' /\ texture = texture_lookup'[named]

ShareNext(name, submeshes) ==
    \A s \in DOMAIN submeshes : \A j \in DOMAIN submeshes[s].textures :
        SharedNext(Submeshes[name][s][Slots[j]], submeshes[s].textures[j])

LEMMA ShareStays ==
    ASSUME TexturesStay, NEW name, NEW submeshes, Share(name, submeshes)
    PROVE  ShareNext(name, submeshes)
  <1>1. ASSUME NEW named, NEW texture, Shared(named, texture) PROVE SharedNext(named, texture)
    BY <1>1 DEF TexturesStay, Shared, SharedNext
  <1> QED BY <1>1 DEF Share, ShareNext

(* It is enough to look at the meshes of the cache and at the build.       *)
LEMMA SharedInNext ==
    ASSUME \A n \in DOMAIN mesh_lookup' : ShareNext(n, mesh_lookup'[n]),
           pc' # "idle" => ShareNext(build'.name, build'.submeshes)
    PROVE  TexturesShared'
  BY DEF TexturesShared, Share, ShareNext, Shared, SharedNext

LEMMA SharedVertex ==
    ASSUME LoaderInv, TexturesStay, TexturesShared, CreateVertexBuffer, pc' # "idle"
    PROVE  ShareNext(build'.name, build'.submeshes)
  <1> DEFINE new == [vertex_buffer |-> next_id, index_buffer |-> NULL, textures |-> <<>>]
  <1>1. pc = "submesh" /\ build' = [name |-> build.name, submeshes |-> Append(build.submeshes, new)]
    BY DEF CreateVertexBuffer, AbandonMesh
  <1>2. build.submeshes \in Seq(Submesh)
    BY <1>1 DEF LoaderInv, TypeOK
  <1>3. new.textures = <<>>
    OBVIOUS
  <1>4. Share(build.name, build.submeshes)
    BY <1>1 DEF TexturesShared
  <1>5. ShareNext(build.name, build.submeshes)
    BY <1>4, ShareStays
  <1> HIDE DEF new
  <1>6. \A s \in DOMAIN Append(build.submeshes, new) :
           \/ s \in DOMAIN build.submeshes
              /\ Append(build.submeshes, new)[s] = build.submeshes[s]
           \/ Append(build.submeshes, new)[s] = new
    BY <1>2
  <1>7. ShareNext(build.name, Append(build.submeshes, new))
    BY <1>3, <1>5, <1>6 DEF ShareNext
  <1> QED BY <1>1, <1>7

LEMMA SharedIndex ==
    ASSUME LoaderInv, TexturesStay, TexturesShared, CreateIndexBuffer, pc' # "idle"
    PROVE  ShareNext(build'.name, build'.submeshes)
  <1> DEFINE new == [Current EXCEPT !.index_buffer = next_id]
             after == [build.submeshes EXCEPT ![Last] = new]
  <1>1. pc = "index_buffer" /\ SetCurrent(new)
    BY DEF CreateIndexBuffer, AbandonMesh
  <1>2. build' = [name |-> build.name, submeshes |-> after]
    BY <1>1 DEF SetCurrent
  <1>3. Current \in Submesh /\ Current = build.submeshes[Last]
        /\ Last \in DOMAIN build.submeshes
    BY <1>1, CurrentType DEF Current
  <1>4. new.textures = build.submeshes[Last].textures
    BY <1>3 DEF Submesh
  <1> HIDE DEF new
  <1>5. DOMAIN after = DOMAIN build.submeshes
        /\ \A s \in DOMAIN after : after[s].textures = build.submeshes[s].textures
    BY <1>4
  <1>6. ShareNext(build.name, build.submeshes)
    BY <1>1, ShareStays DEF TexturesShared
  <1> HIDE DEF after
  <1>7. ShareNext(build.name, after)
    BY <1>5, <1>6 DEF ShareNext
  <1> QED BY <1>2, <1>7

LEMMA SharedSlot ==
    ASSUME LoaderInv, TexturesShared, ResolveSlot
    PROVE  TexturesStay /\ ShareNext(build'.name, build'.submeshes)
  <1>1. PICK o : /\ \/ /\ SlotTexture = NoName
                       /\ o = [returns |-> White, creates |-> {}]
                       /\ UNCHANGED <<texture_lookup, device>>
                    \/ /\ SlotTexture \in TextureNames /\ SlotTexture # NoName
                       /\ o \in TextureOutcomes(SlotTexture)
                       /\ LoadTexture(SlotTexture, o)
                 /\ SetCurrent([Current EXCEPT !.textures = Append(@, o.returns)])
    BY SlotOutcome
  <1>2. SharedNext(SlotTexture, o.returns) /\ TexturesStay
    <2>1. CASE SlotTexture = NoName
      BY <1>1, <2>1 DEF SharedNext, TexturesStay
    <2>2. CASE SlotTexture # NoName
      BY <1>1, <2>2, OutcomeOfLoad, LoadTextureStays DEF SharedNext, LoaderInv
    <2> QED BY <2>1, <2>2
  <1> DEFINE new == [Current EXCEPT !.textures = Append(@, o.returns)]
             after == [build.submeshes EXCEPT ![Last] = new]
  <1>3. pc = "textures" /\ build' = [name |-> build.name, submeshes |-> after]
    BY <1>1 DEF SetCurrent, ResolveSlot
  <1>4. Current \in Submesh /\ Current = build.submeshes[Last]
        /\ Last \in DOMAIN build.submeshes
    BY <1>3, CurrentType DEF Current
  <1>5. new.textures = Append(Current.textures, o.returns)
        /\ Current.textures \in Seq(TexturePointers)
    BY <1>4 DEF Submesh
  <1>6. ShareNext(build.name, build.submeshes)
    BY <1>2, <1>3, ShareStays DEF TexturesShared
  <1>7. \A j \in DOMAIN new.textures :
           SharedNext(Submeshes[build.name][Last][Slots[j]], new.textures[j])
    <2> HIDE DEF new
    <2>1. \A j \in DOMAIN new.textures :
             \/ j \in DOMAIN Current.textures /\ new.textures[j] = Current.textures[j]
             \/ j = Len(Current.textures) + 1 /\ new.textures[j] = o.returns
      BY <1>5
    <2> QED BY <2>1, <1>2, <1>4, <1>6 DEF ShareNext, SlotTexture, Slot
  <1> HIDE DEF new
  <1>8. DOMAIN after = DOMAIN build.submeshes /\ after[Last] = new
        /\ \A s \in DOMAIN after : s # Last => after[s] = build.submeshes[s]
    BY <1>4
  <1> HIDE DEF after
  <1>9. ShareNext(build.name, after)
    BY <1>6, <1>7, <1>8 DEF ShareNext
  <1> QED BY <1>2, <1>3, <1>9

LEMMA SharedStep ==
    ASSUME LoaderInv, TexturesShared, [Next]_vars
    PROVE  TexturesShared'
  <1>1. TexturesStay
    BY CachesStay
  <1>2. \A n \in DOMAIN mesh_lookup : ShareNext(n, mesh_lookup[n])
    BY <1>1, ShareStays DEF TexturesShared
  <1>3. pc # "idle" => ShareNext(build.name, build.submeshes)
    BY <1>1, ShareStays DEF TexturesShared
  <1>4. \A n \in DOMAIN mesh_lookup' : ShareNext(n, mesh_lookup'[n])
    <2>1. CASE RegisterMesh
      <3>1. pc = "submesh"
        BY <2>1 DEF RegisterMesh
      <3> QED BY <2>1, <3>1, <1>2, <1>3, RegisterAdds
    <2>2. CASE ~RegisterMesh
      BY <2>2, <1>2, MeshesChangeAtRegister
    <2> QED BY <2>1, <2>2
  <1>5. pc' # "idle" => ShareNext(build'.name, build'.submeshes)
    <2>1. CASE CreateVertexBuffer
      BY <2>1, <1>1, SharedVertex
    <2>2. CASE CreateIndexBuffer
      BY <2>2, <1>1, SharedIndex
    <2>3. CASE ResolveSlot
      BY <2>3, SharedSlot
    <2>4. CASE \E name \in MeshNames : LoadMesh(name)
      <3>1. build'.submeshes = <<>>
        BY <2>4 DEF LoadMesh
      <3> QED BY <3>1 DEF ShareNext
    <2>5. CASE UNCHANGED <<pc, build>>
      BY <2>5, <1>3
    <2>6. CASE RegisterMesh
      BY <2>6 DEF RegisterMesh
    <2> QED BY <2>1, <2>2, <2>3, <2>4, <2>5, <2>6
            DEF Next, LoadStep, vars, FindOrLoadTexture, FindMesh, MeshNotLoaded,
                DestroyTextures, DestroyMeshes
  <1> QED BY <1>4, <1>5, SharedInNext

(* A material that names a texture shares the one the registry holds       *)
(* (renderer.cpp:79-102, texture_registry.cpp:16-51).                      *)
THEOREM MaterialsShare == Spec => []TexturesShared
  <1>1. Init => TexturesShared
    BY DEF Init, EmptyTable, TexturesShared
  <1>2. TexturesShared /\ LoaderInv /\ [Next]_vars => TexturesShared'
    BY SharedStep
  <1> QED BY <1>1, <1>2, TypeCorrect, PTL DEF Spec, LoaderInv

-----------------------------------------------------------------------------
(* The device objects *)

LEMMA BuffersOfAppend ==
    ASSUME NEW S, NEW submeshes \in Seq(S), NEW submesh
    PROVE  BuffersOf(Append(submeshes, submesh)) = BuffersOf(submeshes) \cup Buffers(submesh)
  <1>1. Append(submeshes, submesh)[Len(submeshes) + 1] = submesh
        /\ Len(submeshes) + 1 \in DOMAIN Append(submeshes, submesh)
    OBVIOUS
  <1>2. \A s \in DOMAIN Append(submeshes, submesh) :
           \/ s \in DOMAIN submeshes /\ Append(submeshes, submesh)[s] = submeshes[s]
           \/ Append(submeshes, submesh)[s] = submesh
    OBVIOUS
  <1>3. \A s \in DOMAIN submeshes :
           s \in DOMAIN Append(submeshes, submesh) /\ Append(submeshes, submesh)[s] = submeshes[s]
    OBVIOUS
  <1> QED BY <1>1, <1>2, <1>3, Zenon DEF BuffersOf

(* Replacing one submesh by one that has its buffers and more.             *)
LEMMA BuffersOfReplace ==
    ASSUME NEW submeshes, NEW after, NEW i \in DOMAIN submeshes, NEW X,
           DOMAIN after = DOMAIN submeshes,
           \A s \in DOMAIN submeshes : s # i => after[s] = submeshes[s],
           Buffers(after[i]) = Buffers(submeshes[i]) \cup X
    PROVE  BuffersOf(after) = BuffersOf(submeshes) \cup X
  <1>1. BuffersOf(after) \subseteq BuffersOf(submeshes) \cup X
    BY DEF BuffersOf
  <1>2. BuffersOf(submeshes) \cup X \subseteq BuffersOf(after)
    BY DEF BuffersOf
  <1> QED BY <1>1, <1>2

(* A step that changes neither what lives nor who holds it.                *)
LEMMA AccountedSame ==
    ASSUME LiveObjectsAccounted, UNCHANGED gpu, UNCHANGED orphans,
           UNCHANGED HeldByTextures, UNCHANGED HeldByMeshes, UNCHANGED HeldByLoad
    PROVE  LiveObjectsAccounted'
  BY DEF LiveObjectsAccounted

LEMMA AccountedVertex ==
    ASSUME LoaderInv, LiveObjectsAccounted, CreateVertexBuffer
    PROVE  LiveObjectsAccounted'
  <1>1. pc = "submesh" /\ UNCHANGED <<texture_lookup, mesh_lookup, alive>>
        /\ next_id \in Nat /\ gpu \subseteq Objects /\ build.submeshes \in Seq(Submesh)
    BY DEF CreateVertexBuffer, caches, LoaderInv, TypeOK
  <1>2. UNCHANGED HeldByTextures /\ UNCHANGED HeldByMeshes
    BY <1>1 DEF HeldByTextures, HeldByMeshes
  <1>3. CASE AbandonMesh /\ UNCHANGED <<gpu, next_id>>
    <2>1. HeldByLoad' = {} /\ orphans' = orphans \cup HeldByLoad /\ gpu' = gpu
      BY <1>1, <1>3 DEF AbandonMesh, HeldByLoad
    <2> QED BY <1>2, <2>1 DEF LiveObjectsAccounted
  <1>4. CASE ~(AbandonMesh /\ UNCHANGED <<gpu, next_id>>)
    <2> DEFINE new == [vertex_buffer |-> next_id, index_buffer |-> NULL, textures |-> <<>>]
    <2>1. /\ build' = [name |-> build.name, submeshes |-> Append(build.submeshes, new)]
          /\ gpu' = gpu \cup {next_id} /\ pc' = "index_buffer" /\ orphans' = orphans
      BY <1>4 DEF CreateVertexBuffer
    <2>2. Buffers(new) = {next_id}
      BY <1>1, NullAssumption DEF Buffers
    <2> HIDE DEF new
    <2>3. HeldByLoad' = HeldByLoad \cup {next_id}
      BY <1>1, <2>1, <2>2, BuffersOfAppend DEF HeldByLoad
    <2>4. next_id \notin gpu
      BY <1>1, NextIsFresh
    <2> QED BY <1>2, <2>1, <2>3, <2>4 DEF LiveObjectsAccounted
  <1> QED BY <1>3, <1>4

LEMMA AccountedIndex ==
    ASSUME LoaderInv, LiveObjectsAccounted, CreateIndexBuffer
    PROVE  LiveObjectsAccounted'
  <1>1. pc = "index_buffer" /\ UNCHANGED <<texture_lookup, mesh_lookup, alive>>
        /\ next_id \in Nat /\ gpu \subseteq Objects
    BY DEF CreateIndexBuffer, caches, LoaderInv, TypeOK
  <1>2. UNCHANGED HeldByTextures /\ UNCHANGED HeldByMeshes
    BY <1>1 DEF HeldByTextures, HeldByMeshes
  <1>3. CASE AbandonMesh /\ UNCHANGED <<gpu, next_id>>
    <2>1. HeldByLoad' = {} /\ orphans' = orphans \cup HeldByLoad /\ gpu' = gpu
      BY <1>1, <1>3 DEF AbandonMesh, HeldByLoad
    <2> QED BY <1>2, <2>1 DEF LiveObjectsAccounted
  <1>4. CASE ~(AbandonMesh /\ UNCHANGED <<gpu, next_id>>)
    <2> DEFINE new == [Current EXCEPT !.index_buffer = next_id]
               after == [build.submeshes EXCEPT ![Last] = new]
    <2>1. /\ build' = [name |-> build.name, submeshes |-> after]
          /\ gpu' = gpu \cup {next_id} /\ pc' = "textures" /\ orphans' = orphans
      BY <1>4 DEF CreateIndexBuffer, SetCurrent
    <2>2. /\ Current \in Submesh /\ Current = build.submeshes[Last]
          /\ Last \in DOMAIN build.submeshes /\ Current.index_buffer = NULL
      BY <1>1, CurrentType DEF Current, LoaderInv, Progress
    <2>3. Buffers(new) = Buffers(Current) \cup {next_id}
      <3>1. /\ new.vertex_buffer = Current.vertex_buffer /\ new.index_buffer = next_id
            /\ Current.vertex_buffer \in Objects /\ next_id # NULL
        BY <1>1, <2>2, NullAssumption DEF Submesh
      <3>2. Current.vertex_buffer # NULL
        BY <1>1, <3>1, NullAssumption DEF Objects
      <3> HIDE DEF new
      <3> QED BY <2>2, <3>1, <3>2 DEF Buffers
    <2> HIDE DEF new
    <2>4. /\ DOMAIN after = DOMAIN build.submeshes /\ after[Last] = new
          /\ \A s \in DOMAIN build.submeshes : s # Last => after[s] = build.submeshes[s]
      BY <2>2
    <2> HIDE DEF after
    <2>5. BuffersOf(after) = BuffersOf(build.submeshes) \cup {next_id}
      BY <2>2, <2>3, <2>4, BuffersOfReplace
    <2>6. HeldByLoad' = HeldByLoad \cup {next_id}
      BY <1>1, <2>1, <2>5 DEF HeldByLoad
    <2>7. next_id \notin gpu
      BY <1>1, NextIsFresh
    <2> QED BY <1>2, <2>1, <2>6, <2>7 DEF LiveObjectsAccounted
  <1> QED BY <1>3, <1>4

(* The objects over a texture load: new ones go to the table or are left   *)
(* behind.                                                                 *)
LEMMA AccountedTexture ==
    ASSUME LoaderInv, LiveObjectsAccounted, NEW name \in TextureNames,
           NEW o \in TextureOutcomes(name), LoadTexture(name, o),
           "textures" \in alive, UNCHANGED alive,
           UNCHANGED HeldByMeshes, UNCHANGED HeldByLoad
    PROVE  LiveObjectsAccounted'
  <1>1. /\ o.creates \cap Objects = {}
        /\ name \in DOMAIN texture_lookup => o.returns # NULL /\ o.creates = {}
        /\ o.returns # NULL /\ name \notin DOMAIN texture_lookup =>
               o.creates = TextureObjects(o.returns)
    BY OutcomeOfLoad DEF LoaderInv
  <1>2. gpu \subseteq Objects /\ gpu' = gpu \cup o.creates /\ o.creates \cap gpu = {}
    BY <1>1 DEF LoadTexture, LoaderInv, TypeOK
  <1>3. CASE name \in DOMAIN texture_lookup
    <2>1. UNCHANGED gpu /\ UNCHANGED orphans /\ UNCHANGED texture_lookup
      BY <1>1, <1>3 DEF LoadTexture
    <2> QED BY <2>1, AccountedSame DEF HeldByTextures
  <1>4. CASE o.returns = NULL
    <2>1. UNCHANGED texture_lookup /\ orphans' = orphans \cup o.creates
      BY <1>4 DEF LoadTexture
    <2> QED BY <1>2, <2>1 DEF LiveObjectsAccounted, HeldByTextures
  <1>5. CASE name \notin DOMAIN texture_lookup /\ o.returns # NULL
    <2>1. texture_lookup' = With(texture_lookup, name, o.returns) /\ orphans' = orphans
      BY <1>5 DEF LoadTexture
    <2>2. /\ DOMAIN texture_lookup' = DOMAIN texture_lookup \cup {name}
          /\ \A n \in DOMAIN texture_lookup' :
                texture_lookup'[n] = IF n = name THEN o.returns ELSE texture_lookup[n]
      BY <2>1 DEF With
    <2>3. texture_lookup'[name] = o.returns
          /\ \A n \in DOMAIN texture_lookup : texture_lookup'[n] = texture_lookup[n]
      BY <1>5, <2>2
    <2>4. TexturesOf(texture_lookup') = TexturesOf(texture_lookup) \cup o.creates
      BY <1>1, <1>5, <2>2, <2>3 DEF TexturesOf
    <2>5. HeldByTextures' = HeldByTextures \cup o.creates
      BY <2>4 DEF HeldByTextures
    <2> QED BY <1>2, <2>1, <2>5 DEF LiveObjectsAccounted
  <1> QED BY <1>3, <1>4, <1>5

LEMMA AccountedSlot ==
    ASSUME LoaderInv, LiveObjectsAccounted, ResolveSlot
    PROVE  LiveObjectsAccounted'
  <1>1. PICK o : /\ \/ /\ SlotTexture = NoName
                       /\ o = [returns |-> White, creates |-> {}]
                       /\ UNCHANGED <<texture_lookup, device>>
                    \/ /\ SlotTexture \in TextureNames /\ SlotTexture # NoName
                       /\ o \in TextureOutcomes(SlotTexture)
                       /\ LoadTexture(SlotTexture, o)
                 /\ SetCurrent([Current EXCEPT !.textures = Append(@, o.returns)])
    BY SlotOutcome
  <1> DEFINE new == [Current EXCEPT !.textures = Append(@, o.returns)]
             after == [build.submeshes EXCEPT ![Last] = new]
  <1>2. pc = "textures" /\ pc' # "idle" /\ build' = [name |-> build.name, submeshes |-> after]
        /\ UNCHANGED <<mesh_lookup, alive>> /\ alive = {"textures", "meshes"}
    BY <1>1 DEF SetCurrent, ResolveSlot, LoaderInv, Progress
  <1>3. Current \in Submesh /\ Current = build.submeshes[Last]
        /\ Last \in DOMAIN build.submeshes
    BY <1>2, CurrentType DEF Current
  <1>4. Buffers(new) = Buffers(Current)
    BY <1>3 DEF Buffers, Submesh
  <1> HIDE DEF new
  <1>5. /\ DOMAIN after = DOMAIN build.submeshes /\ after[Last] = new
        /\ \A s \in DOMAIN build.submeshes : s # Last => after[s] = build.submeshes[s]
    BY <1>3
  <1> HIDE DEF after
  <1>6. BuffersOf(after) = BuffersOf(build.submeshes) \cup {}
    BY <1>3, <1>4, <1>5, BuffersOfReplace
  <1>7. UNCHANGED HeldByLoad /\ UNCHANGED HeldByMeshes
    BY <1>2, <1>6 DEF HeldByLoad, HeldByMeshes
  <1>8. CASE SlotTexture = NoName
    <2>1. UNCHANGED gpu /\ UNCHANGED orphans /\ UNCHANGED HeldByTextures
      BY <1>1, <1>2, <1>8 DEF device, HeldByTextures
    <2> QED BY <1>7, <2>1, AccountedSame
  <1>9. CASE SlotTexture # NoName
    BY <1>1, <1>2, <1>7, <1>9, AccountedTexture
  <1> QED BY <1>8, <1>9

LEMMA AccountedRegister ==
    ASSUME LoaderInv, LiveObjectsAccounted, RegisterMesh
    PROVE  LiveObjectsAccounted'
  <1>1. /\ pc = "submesh" /\ pc' = "idle" /\ alive = {"textures", "meshes"}
        /\ UNCHANGED <<texture_lookup, gpu, orphans, alive>>
    BY DEF RegisterMesh, device, LoaderInv, Progress
  <1>2. HeldByLoad' = {} /\ HeldByLoad = BuffersOf(build.submeshes) /\ UNCHANGED HeldByTextures
    BY <1>1 DEF HeldByLoad, HeldByTextures
  <1>3. MeshesOf(mesh_lookup') = MeshesOf(mesh_lookup) \cup BuffersOf(build.submeshes)
    BY RegisterAdds DEF MeshesOf
  <1>4. HeldByMeshes' = HeldByMeshes \cup HeldByLoad
    BY <1>1, <1>2, <1>3 DEF HeldByMeshes
  <1> QED BY <1>1, <1>2, <1>4 DEF LiveObjectsAccounted

LEMMA AccountedDestroy ==
    ASSUME LoaderInv, LiveObjectsAccounted, DestroyTextures \/ DestroyMeshes
    PROVE  LiveObjectsAccounted'
  <1>1. UNCHANGED <<texture_lookup, mesh_lookup, orphans, pc, build>>
    BY DEF DestroyTextures, DestroyMeshes, caches
  <1>2. UNCHANGED HeldByLoad
    BY <1>1 DEF HeldByLoad
  <1>3. CASE DestroyTextures
    <2>1. HeldByTextures' = {} /\ UNCHANGED HeldByMeshes /\ gpu' = gpu \ HeldByTextures
      BY <1>1, <1>3 DEF DestroyTextures, HeldByTextures, HeldByMeshes
    <2> QED BY <1>1, <1>2, <2>1 DEF LiveObjectsAccounted
  <1>4. CASE DestroyMeshes
    <2>1. HeldByMeshes' = {} /\ UNCHANGED HeldByTextures /\ gpu' = gpu \ HeldByMeshes
      BY <1>1, <1>4 DEF DestroyMeshes, HeldByTextures, HeldByMeshes
    <2> QED BY <1>1, <1>2, <2>1 DEF LiveObjectsAccounted
  <1> QED BY <1>3, <1>4

LEMMA AccountedStep ==
    ASSUME LoaderInv, LiveObjectsAccounted, [Next]_vars
    PROVE  LiveObjectsAccounted'
  <1>1. ASSUME NEW name \in TextureNames, FindOrLoadTexture(name)
        PROVE  LiveObjectsAccounted'
    <2>1. UNCHANGED HeldByMeshes /\ UNCHANGED HeldByLoad
      BY <1>1 DEF FindOrLoadTexture, HeldByMeshes, HeldByLoad
    <2> QED BY <1>1, <2>1, AccountedTexture DEF FindOrLoadTexture
  <1>2. CASE UNCHANGED <<texture_lookup, mesh_lookup, alive, gpu, orphans, pc, build>>
    BY <1>2, AccountedSame DEF HeldByTextures, HeldByMeshes, HeldByLoad
  <1>3. ASSUME NEW name \in MeshNames, LoadMesh(name)
        PROVE  LiveObjectsAccounted'
    <2>1. /\ pc = "idle" /\ pc' = "submesh" /\ build'.submeshes = <<>>
          /\ UNCHANGED <<texture_lookup, mesh_lookup, alive, gpu, orphans>>
      BY <1>3 DEF LoadMesh, caches, device
    <2>2. HeldByLoad = {} /\ HeldByLoad' = {}
      BY <2>1 DEF HeldByLoad, BuffersOf
    <2> QED BY <2>1, <2>2, AccountedSame DEF HeldByTextures, HeldByMeshes
  <1>4. ASSUME NEW name \in MeshNames, FindMesh(name) \/ MeshNotLoaded(name)
        PROVE  LiveObjectsAccounted'
    BY <1>2, <1>4 DEF FindMesh, MeshNotLoaded, caches, device
  <1>5. CASE LoadStep
    BY <1>5, AccountedVertex, AccountedIndex, AccountedSlot, AccountedRegister DEF LoadStep
  <1>6. CASE DestroyTextures \/ DestroyMeshes
    BY <1>6, AccountedDestroy
  <1>7. CASE UNCHANGED vars
    BY <1>2, <1>7 DEF vars
  <1> QED BY <1>1, <1>3, <1>4, <1>5, <1>6, <1>7 DEF Next

(* Every live device object has one owner or is left behind, and what a    *)
(* cache hands out is live (texture_registry.cpp:53-60,                    *)
(* mesh_registry.cpp:61-90).                                               *)
THEOREM ObjectsAreAccounted == Spec => []LiveObjectsAccounted
  <1>1. Init => LiveObjectsAccounted
    BY DEF Init, EmptyTable, LiveObjectsAccounted, HeldByTextures, HeldByMeshes, HeldByLoad,
           TexturesOf, MeshesOf
  <1>2. LiveObjectsAccounted /\ LoaderInv /\ [Next]_vars => LiveObjectsAccounted'
    BY AccountedStep
  <1> QED BY <1>1, <1>2, TypeCorrect, PTL DEF Spec, LoaderInv
=============================================================================
