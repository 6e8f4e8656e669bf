--------------------------- MODULE MeshFileProofs ---------------------------
(***************************************************************************)
(* Proofs about MeshLoad and MeshFile, for every glTF file of any number   *)
(* of nodes, meshes and primitives, and a .mesh file that ends anywhere.   *)
(***************************************************************************)
EXTENDS MeshFile, SequenceTheorems, WellFoundedInduction, TLAPS

-----------------------------------------------------------------------------
(* Induction, stated with sets.                                            *)

(* A set of natural numbers has a least element.                           *)
LEMMA LeastNumber ==
    ASSUME NEW T, T \subseteq Nat, T # {}
    PROVE  \E x \in T : \A y \in T : x <= y
  <1>1. PICK x \in T : \A y \in T : ~(<<y, x>> \in OpToRel(<, Nat))
    BY NatLessThanWellFounded, WFMin
  <1>2. ASSUME NEW y \in T PROVE ~(y < x)
    <2>1. <<y, x>> \in Nat \X Nat
      OBVIOUS
    <2>2. <<y, x>> \in OpToRel(<, Nat) <=> <<y, x>>[1] < <<y, x>>[2]
      BY <2>1 DEF OpToRel
    <2> QED BY <2>2, <1>1
  <1> QED BY <1>2

(* A set that holds 0 and, with each number below N, the next one, holds   *)
(* all numbers up to N.                                                    *)
LEMMA UpTo ==
    ASSUME NEW N \in Nat, NEW T, 0 \in T, \A k \in 0..N - 1 : k \in T => k + 1 \in T
    PROVE  \A k \in 0..N : k \in T
  <1> DEFINE Missed == {k \in 0..N : k \notin T}
  <1> SUFFICES ASSUME Missed # {} PROVE FALSE
    OBVIOUS
  <1>1. Missed \subseteq Nat
    OBVIOUS
  <1>2. PICK x \in Missed : \A y \in Missed : x <= y
    <2> HIDE DEF Missed
    <2> QED BY <1>1, LeastNumber
  <1>3. x \in 0..N /\ x # 0 /\ x - 1 \in 0..N - 1 /\ (x - 1) + 1 = x
    BY <1>2
  <1>4. x - 1 \in T
    BY <1>2, <1>3
  <1> QED BY <1>2, <1>3, <1>4

-----------------------------------------------------------------------------
(* FlattenSeq *)

(* f is the function that FlattenSeq picks, up to its k-th value.          *)
Flattens(seqs, k, f) ==
    f = [h \in 1..k |-> IF h = 1 THEN seqs[h] ELSE f[h - 1] \o seqs[h]]

(* There is such a function.                                               *)
LEMMA FlatteningExists ==
    ASSUME NEW seqs, NEW N \in Nat
    PROVE  \E f : Flattens(seqs, N, f)
  <1> DEFINE T == {k \in 0..N : \E f : Flattens(seqs, k, f)}
  <1>1. 0 \in T
    <2>1. Flattens(seqs, 0, [h \in 1..0 |-> seqs[h]])
      BY DEF Flattens
    <2> QED BY <2>1
  <1>2. ASSUME NEW k \in 0..N - 1, k \in T PROVE k + 1 \in T
    <2>1. PICK f : Flattens(seqs, k, f)
      BY <1>2
    <2> DEFINE last == IF k + 1 = 1 THEN seqs[k + 1] ELSE f[k] \o seqs[k + 1]
               g == [h \in 1..k + 1 |-> IF h = k + 1 THEN last ELSE f[h]]
    <2>2. ASSUME NEW h \in 1..k + 1
          PROVE  g[h] = IF h = 1 THEN seqs[h] ELSE g[h - 1] \o seqs[h]
      <3>1. CASE h = k + 1
        <4>1. g[h] = last
          BY <3>1
        <4>2. h # 1 => g[h - 1] = f[k]
          BY <3>1
        <4> QED BY <3>1, <4>1, <4>2
      <3>2. CASE h # k + 1
        <4>1. h \in 1..k /\ (h # 1 => h - 1 \in 1..k /\ h - 1 # k + 1)
          BY <3>2
        <4>2. g[h] = f[h] /\ (h # 1 => g[h - 1] = f[h - 1])
          BY <3>2, <4>1
        <4>3. f[h] = IF h = 1 THEN seqs[h] ELSE f[h - 1] \o seqs[h]
          BY <2>1, <4>1 DEF Flattens
        <4> QED BY <4>2, <4>3
      <3> QED BY <3>1, <3>2
    <2>3. g = [h \in 1..k + 1 |-> g[h]]
      OBVIOUS
    <2> HIDE DEF g
    <2>4. g = [h \in 1..k + 1 |-> IF h = 1 THEN seqs[h] ELSE g[h - 1] \o seqs[h]]
      BY <2>2, <2>3
    <2>5. Flattens(seqs, k + 1, g)
      BY <2>4 DEF Flattens
    <2> QED BY <2>5
  <1> HIDE DEF T
  <1>3. N \in T
    BY <1>1, <1>2, UpTo
  <1> QED BY <1>3 DEF T

(* FlattenSeq(seqs) is what the sequences of seqs add up to, one by one.   *)
Sums(S, seqs, B) ==
    /\ Len(seqs) \in Nat /\ \A k \in 1..Len(seqs) : seqs[k] \in Seq(S)
    /\ B \in [0..Len(seqs) -> Seq(S)]
    /\ B[0] = <<>>
    /\ \A k \in 1..Len(seqs) : B[k] = B[k - 1] \o seqs[k]
    /\ B[Len(seqs)] = FlattenSeq(seqs)

HasSums(S, seqs) == \E B : Sums(S, seqs, B)

LEMMA FlattenIsSum ==
    ASSUME NEW S, NEW seqs \in Seq(Seq(S))
    PROVE  HasSums(S, seqs)
  <1> SUFFICES \E B : Sums(S, seqs, B)
    BY DEF HasSums
  <1> DEFINE N == Len(seqs)
  <1>0. N \in Nat /\ \A h \in 1..N : seqs[h] \in Seq(S)
    BY ElementOfSeq
  <1>1. CASE N = 0
    <2>1. seqs = <<>> /\ FlattenSeq(seqs) = <<>>
      BY <1>1 DEF FlattenSeq
    <2> DEFINE B == [k \in 0..0 |-> <<>>]
    <2>2. B \in [0..0 -> Seq(S)] /\ B[0] = <<>> /\ B[Len(seqs)] = FlattenSeq(seqs)
      BY <1>1, <2>1
    <2>3. 0..Len(seqs) = 0..0 /\ 1..Len(seqs) = {}
      BY <1>1
    <2> HIDE DEF B
    <2>4. Sums(S, seqs, B)
      BY <1>0, <2>2, <2>3 DEF Sums
    <2> QED BY <2>4
  <1>2. CASE N # 0
    <2> DEFINE F == CHOOSE f : Flattens(seqs, N, f)
    <2>1. Flattens(seqs, N, F)
      BY <1>0, FlatteningExists
    <2>2. FlattenSeq(seqs) = F[N]
      BY <1>2 DEF FlattenSeq, Flattens
    <2> HIDE DEF F, N
    <2>3. \A h \in 1..N : F[h] = IF h = 1 THEN seqs[h] ELSE F[h - 1] \o seqs[h]
      BY <2>1 DEF Flattens
    <2> DEFINE T == {k \in 0..N : k > 0 => F[k] \in Seq(S)}
    <2>4. ASSUME NEW k \in 0..N - 1, k \in T PROVE k + 1 \in T
      <3>1. k + 1 \in 1..N /\ (k + 1) - 1 = k /\ k + 1 \in 0..N
        BY <1>0
      <3>2. seqs[k + 1] \in Seq(S)
        BY <1>0, <3>1
      <3>3. CASE k = 0
        BY <3>1, <3>2, <3>3, <2>3
      <3>4. CASE k # 0
        <4>1. F[k] \in Seq(S)
          BY <2>4, <3>4, <1>0
        <4>2. k + 1 # 1
          BY <3>4, <1>0
        <4>3. F[k + 1] = F[k] \o seqs[k + 1]
          BY <2>3, <3>1, <4>2
        <4>4. F[k + 1] \in Seq(S)
          BY <3>2, <4>1, <4>3, ConcatProperties
        <4> QED BY <3>1, <4>4
      <3> QED BY <3>3, <3>4
    <2>5. 0 \in T
      BY <1>0
    <2>6. \A k \in 0..N : k \in T
      <3> HIDE DEF T
      <3> QED BY <1>0, <2>4, <2>5, UpTo
    <2> DEFINE B == [k \in 0..N |-> IF k = 0 THEN <<>> ELSE F[k]]
    <2>7. B \in [0..N -> Seq(S)] /\ B[0] = <<>> /\ B[N] = FlattenSeq(seqs)
      <3>1. \A k \in 0..N : k # 0 => F[k] \in Seq(S)
        BY <1>0, <2>6
      <3>2. N \in 0..N /\ 0 \in 0..N
        BY <1>0
      <3> QED BY <1>2, <2>2, <3>1, <3>2
    <2>8. ASSUME NEW k \in 1..N PROVE B[k] = B[k - 1] \o seqs[k]
      <3>1. k \in 0..N /\ k - 1 \in 0..N /\ k # 0
        BY <1>0
      <3>2. B[k] = F[k] /\ B[k - 1] = IF k - 1 = 0 THEN <<>> ELSE F[k - 1]
        BY <3>1
      <3> HIDE DEF B
      <3>3. CASE k = 1
        <4>1. B[k - 1] = <<>>
          BY <3>2, <3>3
        <4>2. F[k] = seqs[k] /\ seqs[k] \in Seq(S)
          BY <1>0, <2>3, <3>3
        <4> QED BY <3>2, <4>1, <4>2, ConcatEmptySeq
      <3>4. CASE k # 1
        <4>1. k - 1 # 0
          BY <1>0, <3>4
        <4>2. F[k] = F[k - 1] \o seqs[k]
          BY <2>3, <3>4
        <4> QED BY <3>2, <4>1, <4>2
      <3> QED BY <3>3, <3>4
    <2> HIDE DEF B
    <2> QED BY <1>0, <2>7, <2>8 DEF Sums, N
  <1> QED BY <1>1, <1>2

LEMMA ConcatGrows ==
    ASSUME NEW S, NEW a \in Seq(S), NEW b \in Seq(S), NEW c \in Seq(S),
           Len(c) <= Len(a), \A h \in 1..Len(c) : a[h] = c[h]
    PROVE  /\ Len(c) <= Len(a \o b)
           /\ \A h \in 1..Len(c) : (a \o b)[h] = c[h]
  <1>1. Len(a) \in Nat /\ Len(b) \in Nat /\ Len(c) \in Nat /\ Len(a \o b) = Len(a) + Len(b)
    OBVIOUS
  <1>2. \A h \in 1..Len(a) : (a \o b)[h] = a[h]
    OBVIOUS
  <1> QED BY <1>1, <1>2

(* What is added up first stays at the beginning.                          *)
LEMMA SumsGrow ==
    ASSUME NEW S, NEW seqs, NEW B, Sums(S, seqs, B),
           NEW k \in 0..Len(seqs), NEW m \in k..Len(seqs)
    PROVE  /\ Len(B[k]) <= Len(B[m])
           /\ \A h \in 1..Len(B[k]) : B[m][h] = B[k][h]
  <1> DEFINE N == Len(seqs)
             Before(j) == /\ Len(B[k]) <= Len(B[j])
                          /\ \A h \in 1..Len(B[k]) : B[j][h] = B[k][h]
             T == {j \in 0..N : j >= k => Before(j)}
  <1>a. N \in Nat /\ k \in 0..N /\ m \in k..N
    BY DEF Sums
  <1>b. B \in [0..N -> Seq(S)]
    BY DEF Sums
  <1>c. \A h \in 1..N : seqs[h] \in Seq(S)
    BY DEF Sums
  <1>d. \A h \in 1..N : B[h] = B[h - 1] \o seqs[h]
    BY DEF Sums
  <1> HIDE DEF N
  <1>1. \A j \in 0..N : Len(B[j]) \in Nat
    BY <1>a, <1>b, <1>c, <1>d, LenProperties
  <1>2. Before(k)
    BY <1>a, <1>b, <1>c, <1>d, <1>1
  <1>3. 0 \in T
    BY <1>a, <1>b, <1>c, <1>d, <1>2
  <1>4. ASSUME NEW j \in 0..N - 1, j \in T PROVE j + 1 \in T
    <2>1. j + 1 \in 1..N /\ j \in 0..N /\ (j + 1) - 1 = j /\ j + 1 \in 0..N
      BY <1>a, <1>b, <1>c, <1>d
    <2>2. CASE j + 1 <= k
      <3>1. j + 1 >= k => j + 1 = k
        BY <1>a, <1>b, <1>c, <1>d, <2>1, <2>2
      <3> QED BY <1>2, <2>1, <3>1
    <2>3. CASE j >= k
      <3>1. B[j + 1] = B[j] \o seqs[j + 1]
        BY <1>a, <1>b, <1>c, <1>d, <2>1
      <3>2. B[j] \in Seq(S) /\ seqs[j + 1] \in Seq(S)
        BY <1>a, <1>b, <1>c, <1>d, <2>1
      <3>3. B[k] \in Seq(S)
        BY <1>a, <1>b
      <3>4. Before(j)
        BY <1>4, <2>3
      <3>5. /\ Len(B[k]) <= Len(B[j] \o seqs[j + 1])
            /\ \A h \in 1..Len(B[k]) : (B[j] \o seqs[j + 1])[h] = B[k][h]
        BY <3>2, <3>3, <3>4, ConcatGrows, Zenon
      <3>6. Before(j + 1)
        BY <3>1, <3>5
      <3> QED BY <2>1, <3>6
    <2> QED BY <1>a, <1>b, <1>c, <1>d, <2>1, <2>2, <2>3
  <1>5. m \in T
    <2> HIDE DEF T
    <2>1. \A j \in 0..N : j \in T
      BY <1>a, <1>b, <1>c, <1>d, <1>3, <1>4, UpTo
    <2> QED BY <2>1, <1>a, <1>b, <1>c, <1>d
  <1> QED BY <1>a, <1>b, <1>c, <1>d, <1>5

-----------------------------------------------------------------------------
(* MeshLoad *)

FileTyped ==
    /\ nodes \in Seq(Node) /\ Len(nodes) <= MaxNodes
    /\ primitives \in [Meshes -> Seq(Primitive)]
    /\ \A mesh \in Meshes : Len(primitives[mesh]) <= MaxPrimitives

Submesh == [node : 1..Len(nodes), primitive : 1..MaxPrimitives] \cup {Unset}

Parts == [k \in 1..Len(nodes) |-> FromNode(k)]

PrimitivesOf(k) == primitives[nodes[k].mesh]

LEMMA BoundedSeqTyped ==
    ASSUME NEW S, NEW b \in Nat, NEW s \in BoundedSeq(S, b)
    PROVE  s \in Seq(S) /\ Len(s) <= b
  <1>1. PICK l \in 0..b : s \in [1..l -> S]
    BY DEF BoundedSeq, SeqOf
  <1> QED BY <1>1

LEMMA NodeTyped ==
    ASSUME FileTyped, NEW k \in 1..Len(nodes)
    PROVE  /\ nodes[k] \in Node
           /\ Filled(nodes[k]) => /\ PrimitivesOf(k) \in Seq(Primitive)
                                  /\ Len(PrimitivesOf(k)) \in Nat
                                  /\ Len(PrimitivesOf(k)) <= MaxPrimitives
  <1>1. nodes[k] \in Node
    BY DEF FileTyped
  <1>2. ASSUME Filled(nodes[k])
        PROVE  /\ PrimitivesOf(k) \in Seq(Primitive)
               /\ Len(PrimitivesOf(k)) <= MaxPrimitives
    <2>1. nodes[k].mesh \in Meshes
      BY <1>1, <1>2 DEF Filled, Node
    <2> QED BY <2>1 DEF FileTyped, PrimitivesOf
  <1> QED BY <1>1, <1>2

(* What each node brings in. *)
LEMMA PartTyped ==
    ASSUME FileTyped, NEW k \in 1..Len(nodes)
    PROVE  /\ Parts[k] = FromNode(k) /\ FromNode(k) \in Seq(Submesh)
           /\ Len(FromNode(k)) = IF Filled(nodes[k]) THEN Len(PrimitivesOf(k)) ELSE 0
           /\ Filled(nodes[k]) => \A q \in 1..Len(PrimitivesOf(k)) :
                  FromNode(k)[q] = IF PrimitivesOf(k)[q].has_position THEN Contents(k, q) ELSE Unset
  <1>1. Parts[k] = FromNode(k)
    BY DEF Parts
  <1>2. CASE ~Filled(nodes[k])
    <2>1. FromNode(k) = <<>>
      BY <1>2 DEF Filled, FromNode
    <2> QED BY <1>1, <1>2, <2>1
  <1>3. CASE Filled(nodes[k])
    <2> DEFINE ps == PrimitivesOf(k)
    <2>1. Len(ps) \in Nat /\ Len(ps) <= MaxPrimitives
      BY <1>3, NodeTyped
    <2>2. FromNode(k) = [q \in 1..Len(ps) |-> IF ps[q].has_position THEN Contents(k, q) ELSE Unset]
      BY <1>3 DEF FromNode, Filled, Contents, PrimitivesOf
    <2> HIDE DEF ps
    <2>3. \A q \in 1..Len(ps) : Contents(k, q) \in Submesh /\ Unset \in Submesh
      BY <2>1, BoundsAssumption DEF Contents, Submesh
    <2>4. FromNode(k) \in Seq(Submesh) /\ Len(FromNode(k)) = Len(ps)
      BY <2>1, <2>2, <2>3
    <2> QED BY <1>1, <1>3, <2>2, <2>4 DEF ps
  <1> QED BY <1>2, <1>3

LEMMA PartsTyped ==
    ASSUME FileTyped
    PROVE  Parts \in Seq(Seq(Submesh)) /\ Len(Parts) = Len(nodes) /\ Len(nodes) \in Nat
  <1>1. \A k \in 1..Len(nodes) : FromNode(k) \in Seq(Submesh)
    BY PartTyped
  <1>2. Len(nodes) \in Nat
    BY DEF FileTyped
  <1> QED BY <1>1, <1>2 DEF Parts

(* B[k] is what the first k nodes bring in. *)
LEMMA BeforeNode ==
    ASSUME FileTyped, NEW B, Sums(Submesh, Parts, B), NEW k \in 1..Len(nodes)
    PROVE  /\ B[0] = <<>> /\ k - 1 \in 0..Len(nodes) /\ k \in 0..Len(nodes)
           /\ Len(B[k - 1]) \in Nat /\ Len(B[Len(nodes)]) \in Nat
           /\ Len(B[k]) = Len(B[k - 1]) + (IF Filled(nodes[k]) THEN Len(PrimitivesOf(k)) ELSE 0)
           /\ Len(B[k]) <= Len(B[Len(nodes)])
           /\ Filled(nodes[k]) => \A q \in 1..Len(PrimitivesOf(k)) :
                  B[Len(nodes)][Len(B[k - 1]) + q] =
                      IF PrimitivesOf(k)[q].has_position THEN Contents(k, q) ELSE Unset
  <1>1. Len(Parts) = Len(nodes) /\ Len(nodes) \in Nat
    BY PartsTyped
  <1>2. k - 1 \in 0..Len(nodes) /\ k \in 0..Len(nodes) /\ Len(nodes) \in k..Len(nodes)
    BY <1>1
  <1>3. /\ B \in [0..Len(nodes) -> Seq(Submesh)] /\ B[0] = <<>>
        /\ B[k] = B[k - 1] \o FromNode(k) /\ FromNode(k) \in Seq(Submesh)
    BY <1>1, PartTyped DEF Sums
  <1>4. B[k - 1] \in Seq(Submesh) /\ B[Len(nodes)] \in Seq(Submesh)
    BY <1>1, <1>2, <1>3
  <1>5. /\ Len(B[k - 1]) \in Nat /\ Len(B[Len(nodes)]) \in Nat
        /\ Len(B[k - 1] \o FromNode(k)) = Len(B[k - 1]) + Len(FromNode(k))
        /\ \A q \in 1..Len(FromNode(k)) : (B[k - 1] \o FromNode(k))[Len(B[k - 1]) + q] = FromNode(k)[q]
    BY <1>3, <1>4
  <1>6. Len(B[k]) = Len(B[k - 1]) + (IF Filled(nodes[k]) THEN Len(PrimitivesOf(k)) ELSE 0)
    BY <1>3, <1>5, PartTyped
  <1>7. /\ Len(B[k]) <= Len(B[Len(nodes)])
        /\ \A h \in 1..Len(B[k]) : B[Len(nodes)][h] = B[k][h]
    BY <1>1, <1>2, SumsGrow
  <1>8. ASSUME Filled(nodes[k]), NEW q \in 1..Len(PrimitivesOf(k))
        PROVE  B[Len(nodes)][Len(B[k - 1]) + q] =
                   IF PrimitivesOf(k)[q].has_position THEN Contents(k, q) ELSE Unset
    <2>1. Len(FromNode(k)) = Len(PrimitivesOf(k)) /\ Len(PrimitivesOf(k)) \in Nat
      BY <1>8, PartTyped, NodeTyped
    <2>2. Len(B[k - 1]) + q \in 1..Len(B[k])
      BY <1>5, <1>6, <1>8, <2>1
    <2>3. B[Len(nodes)][Len(B[k - 1]) + q] = FromNode(k)[q]
      BY <1>3, <1>5, <1>7, <2>1, <2>2
    <2> QED BY <1>8, <2>3, PartTyped
  <1> QED BY <1>2, <1>3, <1>5, <1>6, <1>7, <1>8

-----------------------------------------------------------------------------
(* The inductive invariant of the two passes: at every point the cursors   *)
(* are where the nodes before n put them, and the submeshes up to index    *)
(* are filled with what the file asks for there.                           *)

Filling(B) ==
    /\ num_submeshes = Len(B[Len(nodes)])
    /\ submeshes \in Seq(Submesh) /\ Len(submeshes) = num_submeshes
    /\ index \in 0..num_submeshes
    /\ \A k \in 1..index : submeshes[k] = B[Len(nodes)][k]
    /\ \A k \in index + 1..num_submeshes : submeshes[k] = Unset

Cursors(B) ==
    /\ n \in 1..Len(nodes) + 1 /\ p \in 1..MaxPrimitives + 1
    /\ pc \in {"parse", "failed", "count", "node", "primitive", "loaded"}
    /\ pc \in {"parse", "failed"} =>
          n = 1 /\ num_submeshes = 0 /\ submeshes = <<>> /\ index = 0
    /\ pc = "count" =>
          submeshes = <<>> /\ index = 0 /\ num_submeshes = Len(B[n - 1])
    /\ pc = "node" => index = Len(B[n - 1])
    /\ pc = "primitive" => /\ n <= Len(nodes) /\ Filled(nodes[n])
                           /\ p <= Len(PrimitivesOf(n)) + 1
                           /\ index = Len(B[n - 1]) + (p - 1)
    /\ pc = "loaded" => index = num_submeshes

Passes(B) ==
    /\ Sums(Submesh, Parts, B)
    /\ Cursors(B)
    /\ pc \in {"node", "primitive", "loaded"} => Filling(B)

LoadInv == FileTyped /\ \E B : Passes(B)

LEMMA InitLoadInv == Init => LoadInv
  <1> SUFFICES ASSUME Init PROVE LoadInv
    OBVIOUS
  <1>1. FileTyped
    <2>1. nodes \in Seq(Node) /\ Len(nodes) <= MaxNodes
      BY BoundsAssumption, BoundedSeqTyped DEF Init
    <2>2. ASSUME NEW mesh \in Meshes
          PROVE  /\ primitives[mesh] \in Seq(Primitive)
                 /\ Len(primitives[mesh]) <= MaxPrimitives
      <3>1. primitives[mesh] \in BoundedSeq(Primitive, MaxPrimitives)
        BY DEF Init
      <3> QED BY <3>1, BoundsAssumption, BoundedSeqTyped
    <2>3. primitives \in [Meshes -> Seq(Primitive)]
      BY <2>2 DEF Init
    <2> QED BY <2>1, <2>2, <2>3 DEF FileTyped
  <1>2. PICK B : Sums(Submesh, Parts, B)
    <2>1. Parts \in Seq(Seq(Submesh))
      BY <1>1, PartsTyped
    <2>2. HasSums(Submesh, Parts)
      BY <2>1, FlattenIsSum
    <2> QED BY <2>2 DEF HasSums
  <1>3. Cursors(B)
    BY <1>1, PartsTyped, BoundsAssumption DEF Init, Cursors
  <1>4. pc = "parse"
    BY DEF Init
  <1>5. Passes(B)
    BY <1>2, <1>3, <1>4 DEF Passes
  <1> QED BY <1>1, <1>5 DEF LoadInv

LEMMA NextLoadInv == LoadInv /\ [Next]_vars => LoadInv'
  <1> SUFFICES ASSUME LoadInv, [Next]_vars PROVE LoadInv'
    OBVIOUS
  <1>0. nodes' = nodes /\ primitives' = primitives
    BY DEF Next, vars, file, Fail, Parse, CountNode, Allocate, NextNode, FillPrimitive, EndNode, Finish
  <1>1. FileTyped /\ FileTyped'
    BY <1>0 DEF LoadInv, FileTyped
  <1>a. PICK B : Passes(B)
    BY DEF LoadInv
  <1>2. /\ Sums(Submesh, Parts, B)
        /\ Cursors(B)
        /\ pc \in {"node", "primitive", "loaded"} => Filling(B)
    BY <1>a DEF Passes
  <1>3. Submesh' = Submesh /\ Parts' = Parts
    BY <1>0 DEF Submesh, Parts, FromNode
  <1>4. Sums(Submesh, Parts, B)'
    BY <1>2, <1>3 DEF Sums
  <1>5. SUFFICES Cursors(B)' /\ (pc' \in {"node", "primitive", "loaded"} => Filling(B)')
    BY <1>1, <1>4 DEF LoadInv, Passes
  <1>6. Len(nodes) \in Nat /\ Len(B[0]) = 0 /\ Len(B[Len(nodes)]) \in Nat
    <2>1. Len(Parts) = Len(nodes) /\ Len(nodes) \in Nat
      BY <1>1, PartsTyped
    <2>2. B \in [0..Len(nodes) -> Seq(Submesh)] /\ B[0] = <<>>
      BY <1>2, <2>1 DEF Sums
    <2>3. B[Len(nodes)] \in Seq(Submesh)
      BY <2>1, <2>2
    <2> QED BY <2>1, <2>2, <2>3
  <1>7. CASE Fail
    BY <1>0, <1>2, <1>6, <1>7 DEF Fail, Cursors
  <1>8. CASE Parse
    <2>1. n - 1 = 0
      BY <1>2, <1>8 DEF Parse, Cursors
    <2> QED BY <1>0, <1>2, <1>6, <1>8, <2>1 DEF Parse, Cursors
  <1>9. CASE CountNode
    <2>1. n \in 1..Len(nodes)
      BY <1>2, <1>6, <1>9 DEF CountNode, Cursors
    <2>2. Len(B[n]) = Len(B[n - 1]) + (IF Filled(nodes[n]) THEN Len(PrimitivesOf(n)) ELSE 0)
      BY <1>1, <1>2, <2>1, BeforeNode
    <2>3. num_submeshes' = Len(B[n]) /\ n' = n + 1 /\ n' - 1 = n
      <3>1. num_submeshes = Len(B[n - 1])
        BY <1>2, <1>9 DEF CountNode, Cursors
      <3>2. /\ num_submeshes' = num_submeshes + (IF Filled(nodes[n]) THEN Len(PrimitivesOf(n)) ELSE 0)
            /\ n' = n + 1
        BY <1>9 DEF CountNode, Counted, Filled, PrimitivesOf
      <3> QED BY <2>1, <2>2, <3>1, <3>2
    <2>4. n' \in 1..Len(nodes) + 1
      BY <1>6, <2>1, <2>3
    <2> QED BY <1>0, <1>2, <1>9, <2>3, <2>4 DEF CountNode, Cursors
  <1>10. CASE Allocate
    <2>1. n = Len(nodes) + 1 /\ n - 1 = Len(nodes)
      BY <1>2, <1>6, <1>10 DEF Allocate, Cursors
    <2>2. num_submeshes' = Len(B[Len(nodes)]) /\ num_submeshes = Len(B[Len(nodes)])
      BY <1>2, <1>10, <2>1 DEF Allocate, Cursors
    <2>3. submeshes' = [k \in 1..num_submeshes |-> Unset] /\ index' = 0
      BY <1>10 DEF Allocate
    <2>4. submeshes' \in Seq(Submesh) /\ Len(submeshes') = num_submeshes
      BY <1>6, <2>2, <2>3 DEF Submesh
    <2>5. Filling(B)'
      <3>1. \A k \in index' + 1..num_submeshes' : submeshes'[k] = Unset
        BY <1>6, <2>2, <2>3
      <3>2. \A k \in 1..index' : submeshes'[k] = B[Len(nodes')][k]
        BY <2>3
      <3>3. index' \in 0..num_submeshes'
        BY <1>6, <2>2, <2>3
      <3> QED BY <1>0, <1>3, <2>2, <2>4, <3>1, <3>2, <3>3 DEF Filling
    <2>6. Cursors(B)'
      <3>1. n' = 1 /\ n' - 1 = 0 /\ pc' = "node" /\ p' = p
        BY <1>10 DEF Allocate
      <3> QED BY <1>0, <1>2, <1>6, <2>3, <3>1 DEF Cursors
    <2> QED BY <2>5, <2>6
  <1>11. CASE NextNode
    <2>1. n \in 1..Len(nodes) /\ index = Len(B[n - 1]) /\ Filling(B)
      BY <1>2, <1>6, <1>11 DEF NextNode, Cursors
    <2>2. Filling(B)'
      BY <1>0, <1>3, <1>11, <2>1 DEF NextNode, Filling
    <2>3. CASE Filled(nodes[n])
      <3>1. n' = n /\ p' = 1 /\ pc' = "primitive" /\ index' = index
        BY <1>11, <2>3 DEF NextNode
      <3>2. Len(PrimitivesOf(n)) \in Nat
        BY <1>1, <2>1, <2>3, NodeTyped
      <3>3. PrimitivesOf(n)' = PrimitivesOf(n) /\ Filled(nodes[n])'
        BY <1>0, <2>3, <3>1 DEF PrimitivesOf, Filled
      <3>4. n \in 1..Len(nodes) + 1 /\ 1 \in 1..MaxPrimitives + 1 /\ index = Len(B[n - 1]) + (1 - 1)
        <4>1. Len(B[n - 1]) \in Nat
          BY <1>1, <1>2, <2>1, BeforeNode
        <4> QED BY <1>6, <2>1, <4>1, BoundsAssumption
      <3> QED BY <1>0, <1>6, <2>1, <2>2, <3>1, <3>2, <3>3, <3>4 DEF Cursors
    <2>4. CASE ~Filled(nodes[n])
      <3>1. n' = n + 1 /\ p' = p /\ pc' = "node" /\ index' = index /\ n' - 1 = n
        BY <1>11, <2>1, <2>4 DEF NextNode
      <3>2. Len(B[n]) = Len(B[n - 1])
        <4>1. Len(B[n]) = Len(B[n - 1]) + 0 /\ Len(B[n - 1]) \in Nat
          BY <1>1, <1>2, <2>1, <2>4, BeforeNode
        <4> QED BY <4>1
      <3>3. n' \in 1..Len(nodes) + 1
        BY <1>6, <2>1, <3>1
      <3> QED BY <1>0, <1>2, <2>1, <2>2, <3>1, <3>2, <3>3 DEF Cursors
    <2> QED BY <2>3, <2>4
  <1>12. CASE FillPrimitive
    <2>1. /\ n \in 1..Len(nodes) /\ Filled(nodes[n]) /\ Filling(B)
          /\ p \in 1..Len(PrimitivesOf(n)) /\ index = Len(B[n - 1]) + (p - 1)
      <3>1. /\ pc = "primitive" /\ p <= Len(PrimitivesOf(n)) /\ n \in 1..Len(nodes) + 1
            /\ n <= Len(nodes) /\ p \in 1..MaxPrimitives + 1 /\ Filled(nodes[n])
        BY <1>2, <1>12 DEF FillPrimitive, PrimitivesOf, Cursors
      <3>2. n \in 1..Len(nodes)
        BY <1>6, <3>1
      <3>3. Len(PrimitivesOf(n)) \in Nat
        BY <1>1, <3>1, <3>2, NodeTyped
      <3>4. p \in 1..Len(PrimitivesOf(n))
        BY <3>1, <3>3, BoundsAssumption
      <3> QED BY <1>2, <3>1, <3>2, <3>4 DEF Cursors
    <2> DEFINE expected == IF PrimitivesOf(n)[p].has_position THEN Contents(n, p) ELSE Unset
    <2>2. /\ Len(PrimitivesOf(n)) \in Nat /\ Len(PrimitivesOf(n)) <= MaxPrimitives
          /\ Len(B[n - 1]) \in Nat
          /\ Len(B[n]) = Len(B[n - 1]) + Len(PrimitivesOf(n)) /\ Len(B[n]) <= Len(B[Len(nodes)])
          /\ B[Len(nodes)][Len(B[n - 1]) + p] = expected
      BY <1>1, <1>2, <2>1, BeforeNode, NodeTyped
    <2> HIDE DEF expected
    <2>3. /\ index + 1 = Len(B[n - 1]) + p /\ index \in Nat
          /\ index + 1 \in 1..num_submeshes /\ num_submeshes = Len(B[Len(nodes)])
          /\ num_submeshes \in Nat
      BY <1>6, <2>1, <2>2 DEF Filling
    <2>4. /\ submeshes \in Seq(Submesh) /\ Len(submeshes) = num_submeshes
          /\ \A k \in 1..index : submeshes[k] = B[Len(nodes)][k]
          /\ \A k \in index + 1..num_submeshes : submeshes[k] = Unset
      BY <2>1 DEF Filling
    <2>5. submeshes[index + 1] = Unset
      BY <2>3, <2>4
    <2>6. /\ submeshes' = [submeshes EXCEPT ![index + 1] = expected] /\ index' = index + 1
          /\ p' = p + 1 /\ n' = n /\ pc' = "primitive" /\ num_submeshes' = num_submeshes
      <3>1. /\ submeshes' = IF PrimitivesOf(n)[p].has_position
                            THEN [submeshes EXCEPT ![index + 1] = Contents(n, p)] ELSE submeshes
            /\ index' = index + 1
            /\ p' = p + 1 /\ n' = n /\ pc' = "primitive" /\ num_submeshes' = num_submeshes
        BY <1>12 DEF FillPrimitive, PrimitivesOf, file
      <3>2. ~PrimitivesOf(n)[p].has_position => submeshes = [submeshes EXCEPT ![index + 1] = expected]
        BY <2>3, <2>4, <2>5 DEF expected
      <3> QED BY <3>1, <3>2 DEF expected
    <2>7. expected \in Submesh
      BY <2>1, <2>2, BoundsAssumption DEF expected, Contents, Submesh
    <2>8. /\ submeshes' \in Seq(Submesh) /\ Len(submeshes') = num_submeshes
          /\ \A k \in 1..num_submeshes :
                submeshes'[k] = IF k = index + 1 THEN expected ELSE submeshes[k]
      BY <2>3, <2>4, <2>6, <2>7
    <2>9. Filling(B)'
      <3>1. \A k \in 1..index' : submeshes'[k] = B[Len(nodes)][k]
        BY <2>2, <2>3, <2>4, <2>6, <2>8
      <3>2. \A k \in index' + 1..num_submeshes' : submeshes'[k] = Unset
        BY <2>3, <2>4, <2>6, <2>8
      <3>3. index' \in 0..num_submeshes'
        BY <2>3, <2>6
      <3> QED BY <1>0, <1>3, <2>3, <2>6, <2>8, <3>1, <3>2, <3>3 DEF Filling
    <2>10. Cursors(B)'
      <3>1. PrimitivesOf(n)' = PrimitivesOf(n) /\ Filled(nodes[n])'
        BY <1>0, <2>1, <2>6 DEF PrimitivesOf, Filled
      <3>2. p + 1 \in 1..MaxPrimitives + 1 /\ p + 1 <= Len(PrimitivesOf(n)) + 1
        BY <2>1, <2>2, BoundsAssumption
      <3>3. index' = Len(B[n - 1]) + (p' - 1)
        BY <2>1, <2>2, <2>3, <2>6
      <3>4. n \in 1..Len(nodes) + 1 /\ n <= Len(nodes)
        BY <1>6, <2>1
      <3> QED BY <1>0, <2>6, <3>1, <3>2, <3>3, <3>4 DEF Cursors
    <2> QED BY <2>9, <2>10
  <1>13. CASE EndNode
    <2>1. /\ n \in 1..Len(nodes) + 1 /\ n <= Len(nodes) /\ Filled(nodes[n]) /\ Filling(B)
          /\ p > Len(PrimitivesOf(n)) /\ p <= Len(PrimitivesOf(n)) + 1
          /\ index = Len(B[n - 1]) + (p - 1) /\ p \in 1..MaxPrimitives + 1
      BY <1>2, <1>13 DEF EndNode, PrimitivesOf, Cursors
    <2>2. n \in 1..Len(nodes)
      BY <1>6, <2>1
    <2>3. /\ Len(PrimitivesOf(n)) \in Nat /\ Len(B[n - 1]) \in Nat
          /\ Len(B[n]) = Len(B[n - 1]) + Len(PrimitivesOf(n))
      BY <1>1, <1>2, <2>1, <2>2, BeforeNode, NodeTyped
    <2>4. index = Len(B[n])
      BY <2>1, <2>3, BoundsAssumption
    <2>5. n' = n + 1 /\ n' - 1 = n /\ n' \in 1..Len(nodes) + 1 /\ pc' = "node" /\ p' = p /\ index' = index
      BY <1>6, <1>13, <2>2 DEF EndNode
    <2>6. Filling(B)'
      BY <1>0, <1>3, <1>13, <2>1 DEF EndNode, Filling
    <2>7. Cursors(B)'
      BY <1>0, <2>1, <2>4, <2>5 DEF Cursors
    <2> QED BY <2>6, <2>7
  <1>14. CASE Finish
    <2>1. n \in 1..Len(nodes) + 1 /\ n > Len(nodes) /\ Filling(B) /\ index = Len(B[n - 1])
      BY <1>2, <1>14 DEF Finish, Cursors
    <2>2. n - 1 = Len(nodes)
      BY <1>6, <2>1
    <2>3. index = num_submeshes
      BY <2>1, <2>2 DEF Filling
    <2>4. Filling(B)'
      BY <1>0, <1>3, <1>14, <2>1 DEF Finish, Filling
    <2>5. Cursors(B)'
      BY <1>0, <1>2, <1>14, <2>3 DEF Finish, Cursors
    <2> QED BY <2>4, <2>5
  <1>15. CASE UNCHANGED vars
    <2>1. Cursors(B)'
      BY <1>0, <1>2, <1>15 DEF vars, file, Cursors, PrimitivesOf
    <2>2. pc' = pc /\ (Filling(B) => Filling(B)')
      BY <1>0, <1>3, <1>15 DEF vars, file, Filling
    <2> QED BY <1>2, <2>1, <2>2
  <1> QED BY <1>7, <1>8, <1>9, <1>10, <1>11, <1>12, <1>13, <1>14, <1>15 DEF Next

-----------------------------------------------------------------------------
(* MeshLoad's properties *)

(* The nodes before the k-th bring in at most MaxPrimitives submeshes each. *)
LEMMA BeforeBounded ==
    ASSUME FileTyped, NEW B, Sums(Submesh, Parts, B), NEW k \in 0..Len(nodes)
    PROVE  Len(B[k]) \in 0..MaxNodes * MaxPrimitives
  <1> DEFINE T == {j \in 0..Len(nodes) : Len(B[j]) \in Nat /\ Len(B[j]) <= j * MaxPrimitives}
  <1>1. Len(nodes) \in Nat /\ Len(nodes) <= MaxNodes /\ MaxNodes \in Nat /\ MaxPrimitives \in Nat
    BY BoundsAssumption DEF FileTyped
  <1>2. 0 \in T
    <2>1. B[0] = <<>>
      BY DEF Sums
    <2> QED BY <1>1, <2>1
  <1>3. ASSUME NEW j \in 0..Len(nodes) - 1, j \in T PROVE j + 1 \in T
    <2>1. j + 1 \in 1..Len(nodes) /\ (j + 1) - 1 = j /\ j + 1 \in 0..Len(nodes)
      BY <1>1
    <2>2. Len(B[j + 1]) = Len(B[j]) + (IF Filled(nodes[j + 1]) THEN Len(PrimitivesOf(j + 1)) ELSE 0)
      BY <2>1, BeforeNode
    <2>3. Filled(nodes[j + 1]) => /\ Len(PrimitivesOf(j + 1)) \in Nat
                                 /\ Len(PrimitivesOf(j + 1)) <= MaxPrimitives
      BY <2>1, NodeTyped
    <2>4. Len(B[j]) \in Nat /\ Len(B[j]) <= j * MaxPrimitives
      BY <1>3
    <2>5. (j + 1) * MaxPrimitives = j * MaxPrimitives + MaxPrimitives /\ j * MaxPrimitives \in Nat
      BY <1>1, <2>1
    <2>6. Len(B[j + 1]) \in Nat /\ Len(B[j + 1]) <= (j + 1) * MaxPrimitives
      <3> DEFINE before == j * MaxPrimitives
                 after  == (j + 1) * MaxPrimitives
      <3>1. before \in Nat /\ after = before + MaxPrimitives /\ Len(B[j]) <= before
        BY <2>4, <2>5
      <3> HIDE DEF before, after
      <3>2. CASE Filled(nodes[j + 1])
        <4>1. Len(B[j + 1]) = Len(B[j]) + Len(PrimitivesOf(j + 1))
          BY <2>2, <3>2
        <4>2. Len(B[j + 1]) \in Nat /\ Len(B[j + 1]) <= after
          <5>1. Len(PrimitivesOf(j + 1)) \in Nat /\ Len(PrimitivesOf(j + 1)) <= MaxPrimitives
            BY <2>3, <3>2
          <5>2. \A a, b, c, d \in Nat : a <= c /\ b <= d => a + b \in Nat /\ a + b <= c + d
            OBVIOUS
          <5>3. MaxPrimitives \in Nat /\ before \in Nat /\ Len(B[j]) \in Nat /\ Len(B[j]) <= before
            BY <1>1, <2>4, <3>1
          <5>4. /\ Len(B[j]) + Len(PrimitivesOf(j + 1)) \in Nat
                /\ Len(B[j]) + Len(PrimitivesOf(j + 1)) <= before + MaxPrimitives
            BY <5>1, <5>2, <5>3, Zenon
          <5> QED BY <3>1, <4>1, <5>4, Zenon
        <4> QED BY <4>2 DEF after
      <3>3. CASE ~Filled(nodes[j + 1])
        <4>1. Len(B[j + 1]) = Len(B[j]) + 0
          BY <2>2, <3>3
        <4>2. Len(B[j + 1]) \in Nat /\ Len(B[j + 1]) <= after
          BY <1>1, <2>4, <3>1, <4>1
        <4> QED BY <4>2 DEF after
      <3> QED BY <3>2, <3>3
    <2> QED BY <2>1, <2>6
  <1>4. k \in T
    <2> HIDE DEF T
    <2>1. \A j \in 0..Len(nodes) : j \in T
      BY <1>1, <1>2, <1>3, UpTo
    <2> QED BY <2>1
  <1>5. k * MaxPrimitives <= MaxNodes * MaxPrimitives
    <2>1. MaxNodes - k \in Nat /\ k \in Nat
      BY <1>1
    <2>2. (MaxNodes - k) * MaxPrimitives \in Nat
      BY <1>1, <2>1
    <2>3. MaxNodes * MaxPrimitives = k * MaxPrimitives + (MaxNodes - k) * MaxPrimitives
      BY <1>1, <2>1
    <2>4. k * MaxPrimitives \in Nat
      BY <1>1, <2>1
    <2> QED BY <2>2, <2>3, <2>4
  <1>6. Len(B[k]) \in Nat /\ Len(B[k]) <= k * MaxPrimitives
    BY <1>4
  <1>7. k * MaxPrimitives \in Nat /\ MaxNodes * MaxPrimitives \in Nat
    BY <1>1
  <1> QED BY <1>5, <1>6, <1>7

LEMMA LoadInvTypeOK == LoadInv => TypeOK
  <1> SUFFICES ASSUME LoadInv PROVE TypeOK
    OBVIOUS
  <1>1. FileTyped
    BY DEF LoadInv
  <1>a. PICK B : Passes(B)
    BY DEF LoadInv
  <1>2. /\ Sums(Submesh, Parts, B)
        /\ Cursors(B)
        /\ pc \in {"node", "primitive", "loaded"} => Filling(B)
    BY <1>a DEF Passes
  <1>3. Len(nodes) \in Nat
    BY <1>1 DEF FileTyped
  <1>4. num_submeshes \in 0..MaxNodes * MaxPrimitives
    <2>1. \A k \in 0..Len(nodes) : Len(B[k]) \in 0..MaxNodes * MaxPrimitives
      BY <1>1, <1>2, BeforeBounded
    <2>2. CASE pc \in {"parse", "failed"}
      <3>1. num_submeshes = 0 /\ MaxNodes * MaxPrimitives \in Nat
        BY <1>2, <2>2, BoundsAssumption DEF Cursors
      <3> QED BY <3>1
    <2>3. CASE pc = "count"
      <3>1. n - 1 \in 0..Len(nodes) /\ num_submeshes = Len(B[n - 1])
        BY <1>2, <1>3, <2>3 DEF Cursors
      <3> QED BY <2>1, <3>1
    <2>4. CASE pc \in {"node", "primitive", "loaded"}
      BY <1>2, <1>3, <2>1, <2>4 DEF Filling
    <2> QED BY <1>2, <2>2, <2>3, <2>4 DEF Cursors
  <1>5. /\ submeshes \in Seq(Submesh)
        /\ index \in 0..num_submeshes
    <2>a. num_submeshes \in Nat
      <3>1. MaxNodes * MaxPrimitives \in Nat
        BY BoundsAssumption
      <3> QED BY <1>4, <3>1
    <2>1. CASE pc \in {"parse", "failed"}
      <3>1. submeshes = <<>> /\ index = 0
        BY <1>2, <2>1 DEF Cursors
      <3> QED BY <2>a, <3>1
    <2>2. CASE pc = "count"
      <3>1. submeshes = <<>> /\ index = 0
        BY <1>2, <2>2 DEF Cursors
      <3> QED BY <2>a, <3>1
    <2>3. CASE pc \in {"node", "primitive", "loaded"}
      BY <1>2, <2>3 DEF Filling
    <2> QED BY <1>2, <2>1, <2>2, <2>3 DEF Cursors
  <1>6. ASSUME pc = "primitive", p <= Len(primitives[nodes[n].mesh]) PROVE index < Len(submeshes)
    <2>1. /\ n \in 1..Len(nodes) + 1 /\ n <= Len(nodes) /\ Filled(nodes[n])
          /\ index = Len(B[n - 1]) + (p - 1) /\ p \in 1..MaxPrimitives + 1
      BY <1>2, <1>6 DEF Cursors
    <2>2. n \in 1..Len(nodes)
      BY <1>3, <2>1
    <2>3. /\ Len(PrimitivesOf(n)) \in Nat /\ Len(B[n - 1]) \in Nat /\ Len(B[Len(nodes)]) \in Nat
          /\ Len(B[n]) = Len(B[n - 1]) + Len(PrimitivesOf(n)) /\ Len(B[n]) <= Len(B[Len(nodes)])
      BY <1>1, <1>2, <2>1, <2>2, BeforeNode, NodeTyped
    <2>4. Len(submeshes) = Len(B[Len(nodes)])
      BY <1>2, <1>6 DEF Filling
    <2>5. p <= Len(PrimitivesOf(n))
      BY <1>6 DEF PrimitivesOf
    <2> QED BY <2>1, <2>3, <2>4, <2>5, BoundsAssumption
  <1> QED BY <1>2, <1>4, <1>5, <1>6 DEF TypeOK, Submesh, Cursors

LEMMA LoadInvFollowsFile == LoadInv => MeshFollowsFile
  <1> SUFFICES ASSUME LoadInv, pc = "loaded"
               PROVE  /\ num_submeshes = Len(submeshes) /\ index = num_submeshes
                      /\ submeshes = FlattenSeq(Parts)
    BY DEF MeshFollowsFile, Parts
  <1>1. FileTyped
    BY DEF LoadInv
  <1>a. PICK B : Passes(B)
    BY DEF LoadInv
  <1>2. Sums(Submesh, Parts, B) /\ Cursors(B) /\ Filling(B)
    BY <1>a DEF Passes
  <1> DEFINE All == B[Len(nodes)]
  <1>3. All = FlattenSeq(Parts) /\ All \in Seq(Submesh)
    <2>1. Len(Parts) = Len(nodes) /\ Len(nodes) \in Nat
      BY <1>1, PartsTyped
    <2>2. B \in [0..Len(nodes) -> Seq(Submesh)] /\ B[Len(nodes)] = FlattenSeq(Parts)
      BY <1>2, <2>1 DEF Sums
    <2> QED BY <2>1, <2>2
  <1>4. /\ num_submeshes = Len(All) /\ index = num_submeshes /\ Len(submeshes) = num_submeshes
        /\ submeshes \in Seq(Submesh)
        /\ \A k \in 1..index : submeshes[k] = All[k]
    BY <1>2 DEF Cursors, Filling
  <1> HIDE DEF All
  <1>5. submeshes = All
    BY <1>3, <1>4, SeqEqual
  <1> QED BY <1>3, <1>4, <1>5

(* The second pass never takes the address of a submesh that the first one *)
(* did not count, whatever the file holds.                                 *)
THEOREM LoadTypeCorrect == Spec => []TypeOK
  <1> QED BY InitLoadInv, NextLoadInv, LoadInvTypeOK, PTL DEF Spec

(* A loaded mesh holds the primitives of the nodes that are not left out,  *)
(* in the order of the file, one submesh each.                             *)
THEOREM LoadFollowsFile == Spec => []MeshFollowsFile
  <1> QED BY InitLoadInv, NextLoadInv, LoadInvFollowsFile, PTL DEF Spec

-----------------------------------------------------------------------------
(* The inductive invariant of the two formats: what is in the file so far  *)
(* is what save_mesh has put there, item by item, and what has been read   *)
(* so far is what the file holds.                                          *)

Fields == {"version", "num_submeshes", "num_vertices", "vertices", "num_indices", "indices",
           "albedo_factor", "missing"}

SavedItem == [field : Fields, of : Nat \cup Submesh]

(* The j-th item of submesh s. *)
Fits(item, s, j) ==
    /\ j = 1 => \E c \in CountsOf(submeshes[s]) : item = Item("num_vertices", c[1])
    /\ j = 2 => item = Item("vertices", submeshes[s])
    /\ j = 3 => \E c \in CountsOf(submeshes[s]) : item = Item("num_indices", c[2])
    /\ j = 4 => item = Item("indices", submeshes[s])
    /\ j = 5 => item = Item("albedo_factor", submeshes[s])

SavedFile ==
    /\ custom \in Seq(SavedItem)
    /\ Len(custom) >= 1 => custom[1] = Item("version", 1)
    /\ Len(custom) >= 2 => custom[2] = Item("num_submeshes", num_submeshes)
    /\ \A s \in 1..num_submeshes, j \in 1..5 :
          ItemsBefore(s) + j <= Len(custom) => Fits(custom[ItemsBefore(s) + j], s, j)

(* Nothing is saved before the mesh is loaded, and the mesh is loaded once.*)
OrderInv ==
    /\ stage \in {"idle", "dispatch", "gltf", "open_save", "save_header", "save",
                  "open_custom", "read", "returned", "broken", "crashed"}
    /\ custom # NULL => pc = "loaded"
    /\ stage \in {"open_save", "save_header", "save", "crashed"} => pc = "loaded"
    /\ stage \in {"gltf", "open_save"} => custom = NULL
    /\ stage = "dispatch" /\ temp_c_string_buffer = Source => pc = "parse"

SaveInv ==
    /\ custom # NULL => SavedFile
    /\ stage = "save_header" => custom = <<>> /\ i = 1
    /\ stage = "save" =>
          /\ SavedFile
          /\ i \in 1..num_submeshes + 1
          /\ Len(custom) <= ItemsBefore(i)
          /\ ~full => Len(custom) = ItemsBefore(i)
    /\ stage \notin {"save_header", "save", "crashed"} /\ custom # NULL /\ ~full =>
          Len(custom) = ItemsBefore(num_submeshes + 1)

Unexplained == ~full /\ submeshes # <<>> /\ \A k \in 1..Len(submeshes) : Solid(submeshes[k])

AsRead(k) ==
    [vertices |-> Read(ItemsBefore(k) + 2), indices |-> Read(ItemsBefore(k) + 4),
     albedo_factor |-> Read(ItemsBefore(k) + 5)]

LoadedMesh == [vertices : SavedItem, indices : SavedItem, albedo_factor : SavedItem]

ReadInv ==
    /\ stage \in {"read", "returned"} =>
          /\ custom # NULL
          /\ num_to_read \in 0..num_submeshes /\ i \in 1..num_to_read + 1
          /\ Len(custom) >= 2 => num_to_read = num_submeshes
          /\ loaded \in Seq(LoadedMesh) /\ Len(loaded) = i - 1
          /\ \A k \in 1..Len(loaded) : loaded[k] = AsRead(k)
    /\ stage = "returned" => i = num_to_read + 1
    /\ stage = "broken" => ~Unexplained

PathInv ==
    /\ stage = "dispatch" => temp_c_string_buffer = asked
    /\ stage = "gltf" => /\ temp_c_string_buffer = Source /\ asked = Source
                         /\ pc # "parse" => opened = Source
    /\ stage \in {"open_save", "save_header", "save"} => temp_c_string_buffer = Converted
    /\ stage \in {"save_header", "save"} => opened = Converted
    /\ stage = "open_custom" => temp_c_string_buffer = Converted /\ asked = Converted
    /\ stage \in {"read", "returned"} => opened = asked

FileInv == OrderInv /\ SaveInv /\ ReadInv /\ PathInv

(* What a loaded mesh is like, for what is done with it afterwards. *)
LEMMA LoadInvLoaded ==
    ASSUME LoadInv, pc = "loaded"
    PROVE  num_submeshes \in Nat /\ submeshes \in Seq(Submesh) /\ Len(submeshes) = num_submeshes
  <1>1. TypeOK /\ MeshFollowsFile
    BY LoadInvTypeOK, LoadInvFollowsFile
  <1>2. submeshes \in Seq(Submesh) /\ Len(submeshes) = num_submeshes
    BY <1>1 DEF TypeOK, MeshFollowsFile, Submesh
  <1>3. Len(submeshes) \in Nat
    BY <1>2
  <1> QED BY <1>2, <1>3

(* A step of mesh.cpp is a step of load_mesh_gltf or leaves its state.     *)
LEMMA FileStep ==
    [FileNext]_allVars =>
        \/ stage = "gltf" /\ LoadGltf /\ Next
        \/ UNCHANGED vars
  BY DEF FileNext, LoadMesh, Dispatch, LoadGltf, EndGltf, OpenToSave, SaveHeader, SaveSubmesh, EndSave,
         OpenCustom, ReadSubmesh, EndRead, allVars

LEMMA FileNextLoadInv == LoadInv /\ [FileNext]_allVars => LoadInv'
  BY FileStep, NextLoadInv

(* A loaded mesh is not loaded again. *)
LEMMA LoadedStays == pc = "loaded" /\ [FileNext]_allVars => UNCHANGED vars
  <1>1. pc = "loaded" => ~Next
    BY DEF Next, Fail, Parse, CountNode, Allocate, NextNode, FillPrimitive, EndNode, Finish
  <1> QED BY <1>1, FileStep

LEMMA OrderNext == OrderInv /\ [FileNext]_allVars => OrderInv'
  <1> SUFFICES ASSUME OrderInv, [FileNext]_allVars PROVE OrderInv'
    OBVIOUS
  <1> USE DEF OrderInv, vars
  <1>1. ASSUME NEW path \in Paths, LoadMesh(path) PROVE OrderInv'
    BY <1>1 DEF LoadMesh, temp_c_string
  <1>2. CASE Dispatch
    BY <1>2 DEF Dispatch, Source, Converted
  <1>3. CASE LoadGltf
    BY <1>3 DEF LoadGltf
  <1>4. CASE EndGltf
    BY <1>4 DEF EndGltf
  <1>5. CASE OpenToSave
    BY <1>5 DEF OpenToSave
  <1>6. CASE SaveHeader
    BY <1>6 DEF SaveHeader
  <1>7. CASE SaveSubmesh
    BY <1>7 DEF SaveSubmesh
  <1>8. CASE EndSave
    BY <1>8 DEF EndSave
  <1>9. CASE OpenCustom
    BY <1>9 DEF OpenCustom
  <1>10. CASE ReadSubmesh
    BY <1>10 DEF ReadSubmesh
  <1>11. CASE EndRead
    BY <1>11 DEF EndRead
  <1>12. CASE UNCHANGED allVars
    BY <1>12 DEF allVars, fileVars
  <1> QED BY <1>1, <1>2, <1>3, <1>4, <1>5, <1>6, <1>7, <1>8, <1>9, <1>10, <1>11, <1>12 DEF FileNext

LEMMA PathNext == OrderInv /\ PathInv /\ [FileNext]_allVars => PathInv'
  <1> SUFFICES ASSUME OrderInv, PathInv, [FileNext]_allVars PROVE PathInv'
    OBVIOUS
  <1> USE DEF PathInv, vars
  <1>1. ASSUME NEW path \in Paths, LoadMesh(path) PROVE PathInv'
    BY <1>1 DEF LoadMesh, temp_c_string
  <1>2. CASE Dispatch
    BY <1>2 DEF Dispatch, OrderInv, Source, Converted
  <1>3. CASE LoadGltf
    BY <1>3 DEF LoadGltf, OpenPath
  <1>4. CASE EndGltf
    BY <1>4 DEF EndGltf, temp_c_string, Renamed
  <1>5. CASE OpenToSave
    BY <1>5 DEF OpenToSave, OpenPath
  <1>6. CASE SaveHeader
    BY <1>6 DEF SaveHeader
  <1>7. CASE SaveSubmesh
    BY <1>7 DEF SaveSubmesh
  <1>8. CASE EndSave
    BY <1>8 DEF EndSave
  <1>9. CASE OpenCustom
    BY <1>9 DEF OpenCustom, OpenPath
  <1>10. CASE ReadSubmesh
    BY <1>10 DEF ReadSubmesh
  <1>11. CASE EndRead
    BY <1>11 DEF EndRead
  <1>12. CASE UNCHANGED allVars
    BY <1>12 DEF allVars, fileVars
  <1> QED BY <1>1, <1>2, <1>3, <1>4, <1>5, <1>6, <1>7, <1>8, <1>9, <1>10, <1>11, <1>12 DEF FileNext

LEMMA ItemTyped ==
    ASSUME NEW field \in Fields, NEW of \in Nat \cup Submesh
    PROVE  Item(field, of) \in SavedItem
  BY DEF Item, SavedItem

(* What one write puts into the file. *)
LEMMA WriteAppends ==
    ASSUME NEW S, custom \in Seq(S), NEW items \in Seq(S), ~full, Write(items)
    PROVE  \E kept \in 0..Len(items) :
              /\ custom' \in Seq(S) /\ Len(custom') = Len(custom) + kept
              /\ \A k \in 1..Len(custom) : custom'[k] = custom[k]
              /\ \A k \in 1..kept : custom'[Len(custom) + k] = items[k]
              /\ ~full' => kept = Len(items)
  <1>1. PICK kept \in 0..Len(items) : /\ custom' = custom \o SubSeq(items, 1, kept)
                                      /\ full' = (kept < Len(items))
    BY DEF Write
  <1>2. /\ SubSeq(items, 1, kept) \in Seq(S) /\ Len(SubSeq(items, 1, kept)) = kept
        /\ \A k \in 1..kept : SubSeq(items, 1, kept)[k] = items[k]
    OBVIOUS
  <1> DEFINE front == SubSeq(items, 1, kept)
  <1> HIDE DEF front
  <1>3. /\ custom \o front \in Seq(S) /\ Len(custom \o front) = Len(custom) + Len(front)
        /\ \A k \in 1..Len(custom) : (custom \o front)[k] = custom[k]
        /\ \A k \in 1..Len(front) : (custom \o front)[Len(custom) + k] = front[k]
    BY <1>2 DEF front
  <1>4. ~full' => ~(kept < Len(items))
    BY <1>1, Zenon
  <1>5. ~(kept < Len(items)) => kept = Len(items)
    OBVIOUS
  <1> QED BY <1>1, <1>2, <1>3, <1>4, <1>5 DEF front

(* The counts of a submesh. *)
LEMMA CountsTyped ==
    ASSUME NEW s, NEW counts \in CountsOf(s)
    PROVE  /\ counts[1] \in {0, 1} /\ counts[2] \in {0, 1}
           /\ Solid(s) => counts[1] = 1 /\ counts[2] = 1
  <1>1. counts \in {0, 1} \X {0, 1}
    BY DEF CountsOf
  <1>2. ASSUME Solid(s) PROVE counts = <<1, 1>>
    BY <1>2 DEF Solid, CountsOf
  <1> QED BY <1>1, <1>2

(* What is in the file depends on nothing but the file and the mesh.       *)
LEMMA SavedFileKept ==
    ASSUME UNCHANGED <<vars, custom>>, SavedFile
    PROVE  SavedFile'
  BY DEF SavedFile, vars, SavedItem, Submesh, Fits, CountsOf, PrimitiveOf

(* The items of one more submesh. *)
LEMMA SaveSubmeshKeeps ==
    ASSUME LoadInv, OrderInv, SaveInv, SaveSubmesh
    PROVE  SaveInv'
  <1>1. /\ stage = "save" /\ i <= num_submeshes /\ UNCHANGED vars
        /\ SavedFile /\ i \in 1..num_submeshes + 1 /\ Len(custom) <= ItemsBefore(i)
        /\ ~full => Len(custom) = ItemsBefore(i)
    BY DEF SaveSubmesh, SaveInv
  <1>2. num_submeshes \in Nat /\ submeshes \in Seq(Submesh) /\ Len(submeshes) = num_submeshes
    BY <1>1, LoadInvLoaded DEF OrderInv
  <1>3. /\ SavedItem' = SavedItem /\ num_submeshes' = num_submeshes
        /\ \A item, s, j : Fits(item, s, j)' = Fits(item, s, j)
    BY <1>1 DEF SavedItem, Submesh, vars, Fits, CountsOf, PrimitiveOf
  <1>4. i \in 1..num_submeshes /\ submeshes[i] \in Submesh /\ custom \in Seq(SavedItem)
    BY <1>1, <1>2 DEF SavedFile
  <1>5. CASE stage' = "crashed" /\ UNCHANGED <<custom, full, i>>
    <2>1. SavedFile'
      BY <1>1, <1>5, SavedFileKept
    <2> QED BY <1>5, <2>1 DEF SaveInv
  <1>6. ASSUME NEW counts \in CountsOf(submeshes[i]), i' = i + 1, stage' = stage,
               Write(SubmeshItems(submeshes[i], counts[1], counts[2]))
        PROVE  SaveInv'
    <2> DEFINE nv    == counts[1]
               ni    == counts[2]
               items == SubmeshItems(submeshes[i], nv, ni)
    <2>1. /\ items \in Seq(SavedItem) /\ Len(items) = 5
          /\ \A j \in 1..5 : Fits(items[j], i, j)
      <3>1. nv \in Nat /\ ni \in Nat
        BY CountsTyped
      <3>2. items = <<Item("num_vertices", nv), Item("vertices", submeshes[i]), Item("num_indices", ni),
                      Item("indices", submeshes[i]), Item("albedo_factor", submeshes[i])>>
        BY DEF SubmeshItems
      <3>3. /\ Item("num_vertices", nv) \in SavedItem /\ Item("vertices", submeshes[i]) \in SavedItem
            /\ Item("num_indices", ni) \in SavedItem /\ Item("indices", submeshes[i]) \in SavedItem
            /\ Item("albedo_factor", submeshes[i]) \in SavedItem
        <4>1. {"num_vertices", "vertices", "num_indices", "indices", "albedo_factor"} \subseteq Fields
          BY DEF Fields
        <4> QED BY <1>4, <3>1, <4>1, ItemTyped
      <3> HIDE DEF items
      <3>4. items \in Seq(SavedItem) /\ Len(items) = 5
        BY <3>2, <3>3
      <3>5. Fits(items[1], i, 1) /\ Fits(items[2], i, 2) /\ Fits(items[3], i, 3)
            /\ Fits(items[4], i, 4) /\ Fits(items[5], i, 5)
        BY <3>2 DEF Fits
      <3> QED BY <3>4, <3>5
    <2> HIDE DEF items
    <2>2. CASE full
      <3>1. UNCHANGED <<custom, full>>
        BY <1>6, <2>2 DEF Write
      <3>2. SavedFile'
        BY <1>1, <3>1, SavedFileKept
      <3>3. Len(custom) <= ItemsBefore(i + 1)
        <4>1. Len(custom) \in Nat
          BY <1>4
        <4> QED BY <1>1, <1>4, <4>1 DEF ItemsBefore
      <3>4. i + 1 \in 1..num_submeshes + 1
        BY <1>2, <1>4
      <3> QED BY <1>1, <1>3, <1>6, <2>2, <3>1, <3>2, <3>3, <3>4 DEF SaveInv
    <2>3. CASE ~full
      <3>1. PICK kept \in 0..Len(items) :
               /\ custom' \in Seq(SavedItem) /\ Len(custom') = Len(custom) + kept
               /\ \A k \in 1..Len(custom) : custom'[k] = custom[k]
               /\ \A k \in 1..kept : custom'[Len(custom) + k] = items[k]
               /\ ~full' => kept = Len(items)
        <4>1. Write(items)
          BY <1>6 DEF items
        <4> QED BY <1>4, <2>1, <2>3, <4>1, WriteAppends
      <3>a. kept \in 0..5 /\ (~full' => kept = 5)
        BY <2>1, <3>1
      <3>b. i \in Nat /\ i >= 1 /\ ItemsBefore(i + 1) = ItemsBefore(i) + 5 /\ ItemsBefore(i) \in Nat
            /\ ItemsBefore(i) >= 2
        BY <1>2, <1>4 DEF ItemsBefore
      <3>c. Len(custom) = ItemsBefore(i) /\ Len(custom') = ItemsBefore(i) + kept
        BY <1>1, <2>3, <3>1
      <3>2. /\ kept \in 0..5 /\ (~full' => kept = 5) /\ i \in Nat /\ i >= 1
            /\ Len(custom) = ItemsBefore(i) /\ Len(custom') = ItemsBefore(i) + kept
            /\ ItemsBefore(i) \in Nat /\ ItemsBefore(i + 1) = ItemsBefore(i) + 5 /\ ItemsBefore(i) >= 2
        BY <3>a, <3>b, <3>c
      <3>3. ASSUME NEW s \in 1..num_submeshes, NEW j \in 1..5,
                   ItemsBefore(s) + j <= Len(custom')
            PROVE  Fits(custom'[ItemsBefore(s) + j], s, j)
        <4>1. CASE s < i
          <5>1. ItemsBefore(s) + j <= Len(custom) /\ ItemsBefore(s) + j \in 1..Len(custom)
            BY <1>2, <3>2, <4>1 DEF ItemsBefore
          <5> QED BY <1>1, <3>1, <5>1 DEF SavedFile
        <4>2. CASE s = i
          <5>1. j \in 1..kept
            BY <3>2, <3>3, <4>2
          <5>2. custom'[ItemsBefore(s) + j] = items[j]
            BY <3>1, <3>2, <4>2, <5>1
          <5> QED BY <2>1, <4>2, <5>2
        <4>3. CASE s > i
          <5>1. ItemsBefore(s) + j > ItemsBefore(i) + kept
            BY <1>2, <3>2, <4>3 DEF ItemsBefore
          <5>2. ItemsBefore(s) + j \in Nat /\ ItemsBefore(i) + kept \in Nat
            BY <1>2, <3>2, <4>3 DEF ItemsBefore
          <5> QED BY <3>2, <3>3, <5>1, <5>2
        <4> QED BY <1>2, <1>4, <4>1, <4>2, <4>3
      <3>4. SavedFile'
        <4>1. custom[1] = Item("version", 1) /\ custom[2] = Item("num_submeshes", num_submeshes)
          BY <1>1, <3>2 DEF SavedFile
        <4>2. custom'[1] = custom[1] /\ custom'[2] = custom[2]
          BY <3>1, <3>2
        <4> QED BY <1>3, <3>1, <3>3, <4>1, <4>2 DEF SavedFile, ItemsBefore
      <3>5. /\ i + 1 \in 1..num_submeshes + 1 /\ Len(custom') <= ItemsBefore(i + 1)
            /\ ~full' => Len(custom') = ItemsBefore(i + 1)
        <4>1. i + 1 \in 1..num_submeshes + 1
          BY <1>2, <1>4
        <4>2. \A a \in Nat, b \in 0..5 : a + b <= a + 5
          OBVIOUS
        <4>3. Len(custom') <= ItemsBefore(i + 1)
          BY <3>2, <4>2, Zenon
        <4>4. ~full' => Len(custom') = ItemsBefore(i + 1)
          BY <3>2
        <4> QED BY <4>1, <4>3, <4>4
      <3> QED BY <1>1, <1>3, <1>6, <3>4, <3>5 DEF SaveInv
    <2> QED BY <2>2, <2>3
  <1> QED BY <1>5, <1>6 DEF SaveSubmesh

LEMMA SaveNext == LoadInv /\ OrderInv /\ SaveInv /\ [FileNext]_allVars => SaveInv'
  <1> SUFFICES ASSUME LoadInv, OrderInv, SaveInv, [FileNext]_allVars PROVE SaveInv'
    OBVIOUS
  <1>1. ASSUME UNCHANGED <<vars, custom, full>>,
               stage \notin {"save_header", "save", "crashed"},
               stage' \notin {"save_header", "save"}
        PROVE  SaveInv'
    <2>1. custom' # NULL => SavedFile'
      BY <1>1, SavedFileKept DEF SaveInv
    <2>2. stage' \notin {"save_header", "save", "crashed"} /\ custom' # NULL /\ ~full' =>
              Len(custom') = ItemsBefore(num_submeshes' + 1)
      BY <1>1 DEF SaveInv, vars, ItemsBefore
    <2> QED BY <1>1, <2>1, <2>2 DEF SaveInv
  <1>2. ASSUME NEW path \in Paths, LoadMesh(path) PROVE SaveInv'
    BY <1>1, <1>2 DEF LoadMesh
  <1>3. CASE Dispatch
    BY <1>1, <1>3 DEF Dispatch
  <1>4. CASE LoadGltf
    BY <1>4 DEF LoadGltf, OrderInv, SaveInv
  <1>5. CASE EndGltf
    BY <1>1, <1>5 DEF EndGltf
  <1>6. CASE OpenToSave
    <2>1. CASE stage' = "idle" /\ custom' = custom
      BY <1>6, <2>1 DEF OpenToSave, OrderInv, SaveInv
    <2>2. CASE stage' = "save_header" /\ custom' = <<>>
      <3>1. SavedFile'
        <4>1. num_submeshes' \in Nat
          BY <1>6, LoadInvLoaded DEF OrderInv, OpenToSave, vars
        <4>2. \A s \in 1..num_submeshes', j \in 1..5 : ~(ItemsBefore(s) + j <= 0)
          BY <4>1 DEF ItemsBefore
        <4>3. custom' \in Seq(SavedItem)' /\ Len(custom') = 0
          BY <2>2
        <4> QED BY <4>2, <4>3 DEF SavedFile, ItemsBefore
      <3> QED BY <1>6, <2>2, <3>1 DEF SaveInv, OpenToSave
    <2> QED BY <1>6, <2>1, <2>2 DEF OpenToSave
  <1>7. CASE SaveHeader
    <2> DEFINE items == <<Item("version", 1), Item("num_submeshes", num_submeshes)>>
    <2>1. /\ stage = "save_header" /\ Write(items) /\ stage' = "save" /\ i' = i /\ UNCHANGED vars
          /\ custom = <<>> /\ i = 1
      BY <1>7 DEF SaveHeader, SaveInv
    <2>2. num_submeshes \in Nat
      BY <2>1, LoadInvLoaded DEF OrderInv
    <2>3. items \in Seq(SavedItem) /\ Len(items) = 2
          /\ items[1] = Item("version", 1) /\ items[2] = Item("num_submeshes", num_submeshes)
      <3>1. Item("version", 1) \in SavedItem /\ Item("num_submeshes", num_submeshes) \in SavedItem
        <4>1. {"version", "num_submeshes"} \subseteq Fields /\ 1 \in Nat
          BY DEF Fields
        <4> QED BY <2>2, <4>1, ItemTyped
      <3> QED BY <3>1
    <2> HIDE DEF items
    <2>4. /\ custom' \in Seq(SavedItem) /\ Len(custom') \in Nat /\ Len(custom') <= 2
          /\ ~full' => Len(custom') = 2
          /\ Len(custom') >= 1 => custom'[1] = Item("version", 1)
          /\ Len(custom') >= 2 => custom'[2] = Item("num_submeshes", num_submeshes)
      <3>1. CASE full
        BY <2>1, <3>1 DEF Write
      <3>2. CASE ~full
        <4>1. custom \in Seq(SavedItem) /\ Len(custom) = 0
          BY <2>1
        <4>2. PICK kept \in 0..Len(items) :
                 /\ custom' \in Seq(SavedItem) /\ Len(custom') = Len(custom) + kept
                 /\ \A k \in 1..Len(custom) : custom'[k] = custom[k]
                 /\ \A k \in 1..kept : custom'[Len(custom) + k] = items[k]
                 /\ ~full' => kept = Len(items)
          BY <2>1, <2>3, <3>2, <4>1, WriteAppends
        <4>3. kept \in 0..2 /\ Len(custom') = kept /\ (~full' => kept = 2)
          BY <2>3, <4>1, <4>2
        <4>4. \A k \in 1..kept : custom'[k] = items[k]
          BY <4>1, <4>2
        <4>5. kept >= 1 => custom'[1] = items[1]
          BY <4>3, <4>4
        <4>6. kept >= 2 => custom'[2] = items[2]
          BY <4>3, <4>4
        <4>7. Len(custom') \in Nat /\ Len(custom') <= 2 /\ (~full' => Len(custom') = 2)
          BY <4>3
        <4> QED BY <2>3, <4>2, <4>3, <4>5, <4>6, <4>7
      <3> QED BY <3>1, <3>2
    <2>5. SavedItem' = SavedItem /\ num_submeshes' = num_submeshes
      BY <2>1 DEF SavedItem, Submesh, vars
    <2>6. SavedFile'
      <3>1. \A s \in 1..num_submeshes, j \in 1..5 : ~(2 + 5 * (s - 1) + j <= Len(custom'))
        BY <2>2, <2>4
      <3> QED BY <2>4, <2>5, <3>1 DEF SavedFile, ItemsBefore
    <2>7. /\ i' \in 1..num_submeshes' + 1 /\ Len(custom') <= ItemsBefore(i')
          /\ ~full' => Len(custom') = ItemsBefore(i')
      <3>1. ItemsBefore(i') = 2
        BY <2>1 DEF ItemsBefore
      <3> QED BY <2>1, <2>2, <2>4, <2>5, <3>1
    <2> QED BY <2>1, <2>6, <2>7 DEF SaveInv
  <1>8. CASE SaveSubmesh
    BY <1>8, SaveSubmeshKeeps DEF SaveSubmesh
  <1>9. CASE EndSave
    <2>1. /\ stage = "save" /\ i > num_submeshes /\ stage' = "idle" /\ UNCHANGED <<vars, custom, full>>
          /\ SavedFile /\ i \in 1..num_submeshes + 1 /\ (~full => Len(custom) = ItemsBefore(i))
      BY <1>9 DEF EndSave, SaveInv
    <2>2. num_submeshes \in Nat
      BY <2>1, LoadInvLoaded DEF OrderInv
    <2>3. i = num_submeshes + 1
      BY <2>1, <2>2
    <2>4. SavedFile'
      BY <2>1, SavedFileKept
    <2>5. ~full' => Len(custom') = ItemsBefore(num_submeshes' + 1)
      BY <2>1, <2>3 DEF vars
    <2> QED BY <2>1, <2>4, <2>5 DEF SaveInv
  <1>10. CASE OpenCustom
    BY <1>1, <1>10 DEF OpenCustom
  <1>11. CASE ReadSubmesh
    BY <1>1, <1>11 DEF ReadSubmesh
  <1>12. CASE EndRead
    BY <1>1, <1>12 DEF EndRead
  <1>13. CASE UNCHANGED allVars
    <2>1. UNCHANGED <<vars, custom, full, stage, i>>
      BY <1>13 DEF allVars, fileVars
    <2>2. SavedFile => SavedFile'
      BY <2>1, SavedFileKept
    <2> QED BY <2>1, <2>2 DEF SaveInv, vars, ItemsBefore
  <1> QED BY <1>2, <1>3, <1>4, <1>5, <1>6, <1>7, <1>8, <1>9, <1>10, <1>11, <1>12, <1>13 DEF FileNext

-----------------------------------------------------------------------------
(* Reading *)

LEMMA ReadTyped ==
    ASSUME custom \in Seq(SavedItem), NEW k \in Nat \ {0}
    PROVE  Read(k) \in SavedItem
  <1>1. Missing \in SavedItem
    <2>1. "missing" \in Fields /\ Unset \in Submesh
      BY DEF Fields, Submesh
    <2> QED BY <2>1, ItemTyped DEF Missing
  <1>2. k <= Len(custom) => custom[k] \in SavedItem
    OBVIOUS
  <1> QED BY <1>1, <1>2 DEF Read

LEMMA ReadNext == LoadInv /\ OrderInv /\ SaveInv /\ ReadInv /\ [FileNext]_allVars => ReadInv'
  <1> SUFFICES ASSUME LoadInv, OrderInv, SaveInv, ReadInv, [FileNext]_allVars PROVE ReadInv'
    OBVIOUS
  <1>1. ASSUME stage' \notin {"read", "returned", "broken"} PROVE ReadInv'
    BY <1>1 DEF ReadInv
  <1>2. ASSUME NEW path \in Paths, LoadMesh(path) PROVE ReadInv'
    BY <1>1, <1>2 DEF LoadMesh
  <1>3. CASE Dispatch
    BY <1>1, <1>3 DEF Dispatch
  <1>4. CASE LoadGltf
    BY <1>1, <1>4 DEF LoadGltf
  <1>5. CASE EndGltf
    BY <1>1, <1>5 DEF EndGltf
  <1>6. CASE OpenToSave
    BY <1>1, <1>6 DEF OpenToSave
  <1>7. CASE SaveHeader
    BY <1>1, <1>7 DEF SaveHeader
  <1>8. CASE SaveSubmesh
    BY <1>1, <1>8 DEF SaveSubmesh
  <1>9. CASE EndSave
    BY <1>1, <1>9 DEF EndSave
  <1>10. ASSUME custom # NULL, UNCHANGED <<vars, custom, full>>, LoadInv
         PROVE  /\ SavedFile /\ num_submeshes \in Nat /\ submeshes \in Seq(Submesh)
                /\ Len(submeshes) = num_submeshes
                /\ custom' = custom /\ num_submeshes' = num_submeshes
                /\ LoadedMesh' = LoadedMesh /\ \A k : AsRead(k)' = AsRead(k)
                /\ Unexplained' = Unexplained
    <2>1. pc = "loaded" /\ SavedFile
      BY <1>10 DEF OrderInv, SaveInv
    <2>2. LoadedMesh' = LoadedMesh
      BY <1>10 DEF LoadedMesh, SavedItem, Submesh, vars
    <2>3. \A k : AsRead(k)' = AsRead(k)
      BY <1>10 DEF AsRead, Read
    <2>4. Unexplained' = Unexplained
      BY <1>10 DEF Unexplained, Solid, PrimitiveOf, vars
    <2> QED BY <1>10, <2>1, <2>2, <2>3, <2>4, LoadInvLoaded DEF vars
  <1>11. CASE OpenCustom
    <2>1. stage' \in {"idle", "read", "broken"}
      BY <1>11 DEF OpenCustom
    <2>2. SUFFICES ASSUME stage' \in {"read", "broken"} PROVE ReadInv'
      BY <1>1, <2>1
    <2>3. /\ UNCHANGED <<vars, custom, full>> /\ loaded' = <<>> /\ i' = 1 /\ stage = "open_custom"
          /\ custom # NULL /\ num_to_read' \in NumbersOfSubmeshes
          /\ stage' = "broken" => num_to_read' = 0
      BY <1>11, <2>2 DEF OpenCustom
    <2>4. SavedFile /\ num_submeshes \in Nat /\ Len(submeshes) = num_submeshes /\ submeshes \in Seq(Submesh)
      BY <1>10, <2>3
    <2>5. /\ num_to_read' \in 0..num_submeshes
          /\ Len(custom) >= 2 => num_to_read' = num_submeshes
      <3>1. Len(custom) \in Nat
        BY <2>4 DEF SavedFile
      <3>2. CASE Len(custom) >= 2
        <4>1. Read(2) = Item("num_submeshes", num_submeshes)
          BY <2>4, <3>2 DEF SavedFile, Read
        <4>2. NumbersOfSubmeshes = {num_submeshes}
          BY <4>1 DEF NumbersOfSubmeshes, Item, Missing
        <4> QED BY <2>3, <2>4, <4>2
      <3>3. CASE ~(Len(custom) >= 2)
        <4>1. Read(2) = Missing
          BY <3>1, <3>3 DEF Read
        <4>2. NumbersOfSubmeshes = 0..num_submeshes \/ NumbersOfSubmeshes = {0}
          BY <4>1 DEF NumbersOfSubmeshes
        <4> QED BY <2>3, <2>4, <3>3, <4>2
      <3> QED BY <3>2, <3>3
    <2>6. CASE stage' = "read"
      <3>1. i' \in 1..num_to_read' + 1 /\ loaded' \in Seq(LoadedMesh') /\ Len(loaded') = i' - 1
        <4>1. num_to_read' \in Nat
          BY <2>4, <2>5
        <4>2. <<>> \in Seq(LoadedMesh') /\ Len(<<>>) = 1 - 1
          OBVIOUS
        <4>3. loaded' = <<>> /\ i' = 1
          BY <2>3
        <4>4. \A m \in Nat : 1 \in 1..m + 1
          OBVIOUS
        <4> QED BY <4>1, <4>2, <4>3, <4>4, Zenon
      <3>2. \A k \in 1..Len(loaded') : loaded'[k] = AsRead(k)'
        BY <2>3
      <3> QED BY <1>10, <2>3, <2>5, <2>6, <3>1, <3>2 DEF ReadInv
    <2>7. CASE stage' = "broken"
      <3>1. ASSUME ~full PROVE submeshes = <<>>
        <4>1. Len(custom) = ItemsBefore(num_submeshes + 1)
          BY <2>3, <3>1 DEF SaveInv
        <4>2. Len(custom) >= 2
          BY <2>4, <4>1 DEF ItemsBefore
        <4>3. num_submeshes = 0
          BY <2>3, <2>5, <2>7, <4>2
        <4> QED BY <2>4, <4>3
      <3>2. ~Unexplained
        BY <3>1 DEF Unexplained
      <3> QED BY <1>10, <2>3, <2>7, <3>2 DEF ReadInv
    <2> QED BY <2>2, <2>6, <2>7
  <1>12. ASSUME stage = "read", UNCHANGED <<vars, custom, full>>
         PROVE  /\ custom # NULL /\ num_to_read \in 0..num_submeshes /\ i \in 1..num_to_read + 1
                /\ Len(custom) >= 2 => num_to_read = num_submeshes
                /\ loaded \in Seq(LoadedMesh) /\ Len(loaded) = i - 1
                /\ \A k \in 1..Len(loaded) : loaded[k] = AsRead(k)
                /\ SavedFile /\ num_submeshes \in Nat /\ submeshes \in Seq(Submesh)
                /\ Len(submeshes) = num_submeshes
                /\ custom' = custom /\ num_submeshes' = num_submeshes
                /\ LoadedMesh' = LoadedMesh /\ \A k : AsRead(k)' = AsRead(k)
                /\ Unexplained' = Unexplained
                /\ ~full => Len(custom) = ItemsBefore(num_submeshes + 1)
    <2>1. custom # NULL
      BY <1>12 DEF ReadInv
    <2>2. ~full => Len(custom) = ItemsBefore(num_submeshes + 1)
      BY <1>12, <2>1 DEF SaveInv
    <2> QED BY <1>10, <1>12, <2>1, <2>2 DEF ReadInv
  <1>13. CASE ReadSubmesh
    <2>1. stage = "read" /\ UNCHANGED <<vars, custom, full, num_to_read>> /\ i <= num_to_read
      BY <1>13 DEF ReadSubmesh
    <2>2. i \in 1..num_to_read /\ i \in 1..num_submeshes /\ num_submeshes \in Nat /\ num_to_read \in Nat
      BY <1>12, <2>1
    <2>3. PICK nv \in Counts(Read(ItemsBefore(i) + 1), "num_vertices"),
               ni \in Counts(Read(ItemsBefore(i) + 3), "num_indices") :
             IF nv = 0 \/ ni = 0
             THEN stage' = "broken" /\ UNCHANGED <<i, loaded>>
             ELSE /\ loaded' = Append(loaded, AsRead(i))
                  /\ i' = i + 1
                  /\ UNCHANGED stage
      BY <1>13 DEF ReadSubmesh, AsRead
    <2>4. CASE nv = 0 \/ ni = 0
      <3>1. ASSUME ~full PROVE ~Solid(submeshes[i])
        <4>1. /\ ItemsBefore(i) + 1 <= Len(custom) /\ ItemsBefore(i) + 3 <= Len(custom)
              /\ 1 \in 1..5 /\ 3 \in 1..5
          BY <1>12, <2>1, <2>2, <3>1 DEF ItemsBefore
        <4>2. /\ Fits(custom[ItemsBefore(i) + 1], i, 1) /\ Fits(custom[ItemsBefore(i) + 3], i, 3)
              /\ Read(ItemsBefore(i) + 1) = custom[ItemsBefore(i) + 1]
              /\ Read(ItemsBefore(i) + 3) = custom[ItemsBefore(i) + 3]
          BY <1>12, <2>1, <2>2, <4>1 DEF SavedFile, Read
        <4>3. \E c \in CountsOf(submeshes[i]) : nv = c[1]
          <5>1. PICK c \in CountsOf(submeshes[i]) : Read(ItemsBefore(i) + 1) = Item("num_vertices", c[1])
            BY <4>2 DEF Fits
          <5>2. Counts(Read(ItemsBefore(i) + 1), "num_vertices") = {c[1]}
            BY <5>1 DEF Counts, Item
          <5> QED BY <2>3, <5>2
        <4>4. \E c \in CountsOf(submeshes[i]) : ni = c[2]
          <5>1. PICK c \in CountsOf(submeshes[i]) : Read(ItemsBefore(i) + 3) = Item("num_indices", c[2])
            BY <4>2 DEF Fits
          <5>2. Counts(Read(ItemsBefore(i) + 3), "num_indices") = {c[2]}
            BY <5>1 DEF Counts, Item
          <5> QED BY <2>3, <5>2
        <4> QED BY <2>4, <4>3, <4>4, CountsTyped
      <3>2. ~Unexplained'
        BY <1>12, <2>1, <2>2, <3>1 DEF Unexplained
      <3> QED BY <2>3, <2>4, <3>2 DEF ReadInv
    <2>5. CASE ~(nv = 0 \/ ni = 0)
      <3>1. AsRead(i) \in LoadedMesh
        <4>1. ItemsBefore(i) \in Nat
          BY <2>2 DEF ItemsBefore
        <4>2. custom \in Seq(SavedItem)
          BY <1>12, <2>1 DEF SavedFile
        <4>3. /\ Read(ItemsBefore(i) + 2) \in SavedItem /\ Read(ItemsBefore(i) + 4) \in SavedItem
              /\ Read(ItemsBefore(i) + 5) \in SavedItem
          <5>1. \A k \in Nat \ {0} : Read(k) \in SavedItem
            BY <4>2, ReadTyped
          <5> QED BY <4>1, <5>1
        <4> QED BY <4>3 DEF AsRead, LoadedMesh
      <3>2. loaded' = Append(loaded, AsRead(i)) /\ i' = i + 1 /\ stage' = "read"
        BY <2>1, <2>3, <2>5
      <3>3. loaded \in Seq(LoadedMesh) /\ Len(loaded) = i - 1
        BY <1>12, <2>1
      <3>4. /\ loaded' \in Seq(LoadedMesh) /\ Len(loaded') = i
            /\ \A k \in 1..i - 1 : loaded'[k] = loaded[k]
            /\ loaded'[i] = AsRead(i)
        BY <2>2, <3>1, <3>2, <3>3, AppendProperties
      <3>5. \A k \in 1..Len(loaded') : loaded'[k] = AsRead(k)
        <4>1. \A k \in 1..i - 1 : loaded[k] = AsRead(k)
          BY <1>12, <2>1
        <4>2. \A k \in 1..i : k = i \/ k \in 1..i - 1
          BY <2>2
        <4> QED BY <3>4, <4>1, <4>2
      <3>6. i' \in 1..num_to_read + 1 /\ Len(loaded') = i' - 1
        BY <2>2, <3>2, <3>4
      <3> QED BY <1>12, <2>1, <3>2, <3>4, <3>5, <3>6 DEF ReadInv
    <2> QED BY <2>4, <2>5
  <1>14. CASE EndRead
    <2>1. /\ stage = "read" /\ UNCHANGED <<vars, custom, full, num_to_read>> /\ i > num_to_read
          /\ stage' = "returned" /\ i' = i /\ loaded' = loaded
      BY <1>14 DEF EndRead
    <2>2. i = num_to_read + 1
      <3>1. num_to_read \in Nat /\ i \in 1..num_to_read + 1 /\ i > num_to_read
        BY <1>12, <2>1
      <3> QED BY <3>1
    <2> QED BY <1>12, <2>1, <2>2 DEF ReadInv
  <1>15. CASE UNCHANGED allVars
    BY <1>15 DEF ReadInv, LoadedMesh, SavedItem, Submesh, AsRead, Read, Unexplained, Solid, PrimitiveOf,
                      vars, allVars, fileVars
  <1> QED BY <1>2, <1>3, <1>4, <1>5, <1>6, <1>7, <1>8, <1>9, <1>11, <1>13, <1>14, <1>15 DEF FileNext

-----------------------------------------------------------------------------
(* MeshFile's properties *)

LEMMA InitFileInv == FileInit => LoadInv /\ FileInv
  <1> SUFFICES ASSUME FileInit PROVE LoadInv /\ FileInv
    OBVIOUS
  <1>1. LoadInv
    BY InitLoadInv DEF FileInit
  <1>2. OrderInv /\ SaveInv /\ ReadInv /\ PathInv
    BY DEF FileInit, OrderInv, SaveInv, ReadInv, PathInv
  <1> QED BY <1>1, <1>2 DEF FileInv

LEMMA NextFileInv == LoadInv /\ FileInv /\ [FileNext]_allVars => LoadInv' /\ FileInv'
  BY FileNextLoadInv, OrderNext, SaveNext, ReadNext, PathNext DEF FileInv

LEMMA FileInvLoadsBack == LoadInv /\ FileInv => SavedMeshLoadsBack
  <1> SUFFICES ASSUME LoadInv, FileInv PROVE SavedMeshLoadsBack
    OBVIOUS
  <1>1. ASSUME stage \in {"read", "returned"}
        PROVE  /\ SavedFile /\ num_submeshes \in Nat /\ Len(submeshes) = num_submeshes
               /\ num_to_read \in 0..num_submeshes /\ i \in 1..num_to_read + 1 /\ Len(loaded) = i - 1
               /\ \A k \in 1..Len(loaded) : loaded[k] = AsRead(k)
    <2>1. custom # NULL
      BY <1>1 DEF FileInv, ReadInv
    <2>2. pc = "loaded" /\ SavedFile
      BY <2>1 DEF FileInv, OrderInv, SaveInv
    <2> QED BY <1>1, <2>2, LoadInvLoaded DEF FileInv, ReadInv
  <1>2. ASSUME stage \in {"read", "returned"}, NEW k \in 1..Len(loaded), Whole(k)
        PROVE  loaded[k] = [vertices |-> Item("vertices", submeshes[k]),
                            indices |-> Item("indices", submeshes[k]),
                            albedo_factor |-> Item("albedo_factor", submeshes[k])]
    <2>1. k \in 1..num_submeshes
      BY <1>1, <1>2
    <2>2. /\ Len(custom) \in Nat
          /\ ItemsBefore(k) + 2 <= Len(custom) /\ ItemsBefore(k) + 4 <= Len(custom)
          /\ ItemsBefore(k) + 5 <= Len(custom) /\ {2, 4, 5} \subseteq 1..5
      <3>1. Len(custom) \in Nat
        BY <1>1, <1>2 DEF SavedFile
      <3> QED BY <1>2, <2>1, <3>1 DEF Whole, ItemsBefore
    <2>3. /\ Fits(custom[ItemsBefore(k) + 2], k, 2) /\ Fits(custom[ItemsBefore(k) + 4], k, 4)
          /\ Fits(custom[ItemsBefore(k) + 5], k, 5)
      BY <1>1, <1>2, <2>1, <2>2 DEF SavedFile
    <2>4. /\ Read(ItemsBefore(k) + 2) = Item("vertices", submeshes[k])
          /\ Read(ItemsBefore(k) + 4) = Item("indices", submeshes[k])
          /\ Read(ItemsBefore(k) + 5) = Item("albedo_factor", submeshes[k])
      BY <2>2, <2>3 DEF Fits, Read
    <2> QED BY <1>1, <1>2, <2>4 DEF AsRead
  <1>3. ASSUME stage = "returned", Whole(0) PROVE Len(loaded) = Len(submeshes)
    <2>1. Len(custom) >= 2
      BY <1>3 DEF Whole, ItemsBefore
    <2>2. i = num_to_read + 1 /\ num_to_read = num_submeshes
      BY <1>3, <2>1 DEF FileInv, ReadInv
    <2> QED BY <1>1, <1>3, <2>2
  <1>4. ASSUME stage = "broken"
        PROVE  full \/ submeshes = <<>> \/ \E k \in 1..Len(submeshes) : ~Solid(submeshes[k])
    BY <1>4 DEF FileInv, ReadInv, Unexplained
  <1> QED BY <1>2, <1>3, <1>4 DEF SavedMeshLoadsBack

LEMMA FileInvPathsKept == FileInv => PathsKept
  BY DEF FileInv, PathInv, PathsKept

(* load_mesh_custom never gets a submesh wrong that a file of save_mesh    *)
(* holds, wherever the file ends, and fails an assertion only for the      *)
(* reasons SavedMeshLoadsBack names.                                       *)
THEOREM SavedMeshLoads == FileSpec => []SavedMeshLoadsBack
  <1> QED BY InitFileInv, NextFileInv, FileInvLoadsBack, PTL DEF FileSpec

(* The path in the buffer of temp_c_string is the right one wherever a     *)
(* file is opened.                                                         *)
THEOREM FilePathsKept == FileSpec => []PathsKept
  <1> QED BY InitFileInv, NextFileInv, FileInvPathsKept, PTL DEF FileSpec

(* load_mesh and what it calls runs load_mesh_gltf as the module MeshLoad  *)
(* has it; what holds of the one holds of the other.                       *)
THEOREM FileLoadsMesh == FileSpec => Spec
  <1>1. FileInit => Init
    BY DEF FileInit
  <1>2. [FileNext]_allVars => [Next]_vars
    BY FileStep
  <1> QED BY <1>1, <1>2, PTL DEF FileSpec, Spec

(* In particular the two passes agree and the mesh follows the file,       *)
(* whatever is loaded, saved and read back around them.                    *)
THEOREM FileFollowsFile == FileSpec => [](TypeOK /\ MeshFollowsFile)
  <1> QED BY FileLoadsMesh, LoadTypeCorrect, LoadFollowsFile, PTL
=============================================================================
