---------------------------- MODULE MerkleTrees -----------------------------
(***************************************************************************)
(* The Merkle trees of src/src/zk/merkle: MerkleTree over a list of leaves *)
(* (tree.rs), the proofs that go on chain (proof.rs) and SparseMerkleTree  *)
(* as a key-value state (sparse.rs), each with SHA256 and with Poseidon2.  *)
(*                                                                         *)
(* A hash is the term it was computed from, so that no two inputs collide: *)
(* what the host's functions provide for all that anybody computes.  The   *)
(* SHA256 trees tag leaves and pairs apart; the Poseidon2 trees hash a     *)
(* leaf as the pair of the leaf and zero.                                  *)
(*                                                                         *)
(* A sparse tree grows by one insertion per step.  The values inserted, in *)
(* order, are also the leaves a MerkleTree is built from.  The bytes of a  *)
(* key are digits below ByteBase, and two of them number the slots, as     *)
(* 256 * 256 = 2^16 in the code.                                           *)
(*                                                                         *)
(* The Poseidon2 trees have no form on chain, and the sparse one neither   *)
(* get nor prove: ToOnChainProof, VerifyInclusion, Get and Prove are those *)
(* of the SHA256 trees, and what is said of them is said of those.         *)
(***************************************************************************)
EXTENDS Integers, Sequences, FiniteSets

CONSTANTS
    Data,        \* leaf values
    Keys,        \* keys of the sparse tree: sequences of bytes
    ByteBase,    \* values of a byte
    SMT_DEPTH,   \* depth of the sparse tree
    MaxInserts   \* bound of the number of insertions

PowerOf2[n \in Nat] == IF n = 0 THEN 1 ELSE 2 * PowerOf2[n - 1]

\* An absent node or value.
Absent == <<"absent">>

ASSUME MerkleAssumption ==
    /\ ByteBase \in Nat \ {0} /\ SMT_DEPTH \in Nat
    /\ MaxInserts \in Nat
    /\ ByteBase * ByteBase = PowerOf2[SMT_DEPTH]
    /\ \A key \in Keys : key \in Seq(0..(ByteBase - 1)) /\ Len(key) >= 2
    /\ Absent \notin Data

VARIABLES
    hash,     \* the hash function in use
    leaves,   \* the values inserted, in order
    nodes,    \* nodes[level][index]: a stored node of the sparse tree, or Absent
    root,     \* its root
    written   \* history: the value last inserted into the slot of each key

trees == <<hash, leaves, nodes, root, written>>

-----------------------------------------------------------------------------
(* Hashes *)

Zero == <<"zero">>

HashPair(left, right) == <<"pair", left, right>>

\* Faulty variant of the next definition: leaves are not told from pairs.
HashLeafUntagged(d) == d

HashLeaf(d) == IF hash = "sha256" THEN <<"leaf", d>> ELSE HashPair(d, Zero)

-----------------------------------------------------------------------------
(* MerkleTree *)

\* The smallest depth that has room for n leaves.
DepthFor(n) == CHOOSE d \in 0..n : n =< PowerOf2[d] /\ \A c \in 0..(d - 1) : PowerOf2[c] < n

\* Faulty variant of the next definition: the last leaf fills the layer.
PaddedWithLast(list, i) == HashLeaf(IF i < Len(list) THEN list[i + 1] ELSE list[Len(list)])

\* Leaf i, from 0, of a list that zero hashes fill up to a power of 2.
Padded(list, i) == IF i < Len(list) THEN HashLeaf(list[i + 1]) ELSE Zero

\* The layers over a bottom layer of PowerOf2[depth] hashes: layers[depth][0] is the root.
LayersOver(bottom, depth) ==
    LET layer[l \in 0..depth] ==
            IF l = 0 THEN bottom
            ELSE [i \in 0..(PowerOf2[depth - l] - 1) |->
                    HashPair(layer[l - 1][2 * i], layer[l - 1][2 * i + 1])]
    IN  layer

\* from_leaves, for a list that is not empty; a list of more than 2^20 leaves
\* is refused (tree.rs:57), which the lists of the runs do not come near.
Layers(list) ==
    LET depth == DepthFor(Len(list))
    IN  LayersOver([i \in 0..(PowerOf2[depth] - 1) |-> Padded(list, i)], depth)

RootOf(list) == Layers(list)[DepthFor(Len(list))][0]

Sibling(i) == IF i % 2 = 0 THEN i + 1 ELSE i - 1

\* The ancestor of leaf i at a level: i, halved level times; also i >> level.
At(i, level) ==
    LET halved[l \in Nat] == IF l = 0 THEN i ELSE halved[l - 1] \div 2
    IN  halved[level]

\* Faulty variant of the next definition: a node on the left is said to be on
\* the right.
IsRightInverted(i) == i % 2 = 0

IsRight(i) == i % 2 # 0

ProofOf(list, i) ==
    LET depth == DepthFor(Len(list))
    IN  [siblings     |-> [l \in 1..depth |-> Layers(list)[l - 1][Sibling(At(i, l - 1))]],
         path_indices |-> [l \in 1..depth |-> IsRight(At(i, l - 1))],
         leaf         |-> Layers(list)[0][i]]

\* The hash that a leaf and its siblings, from the bottom up, lead to.
Climb(leaf, siblings, onRight) ==
    LET current[l \in 0..Len(siblings)] ==
            IF l = 0 THEN leaf
            ELSE IF onRight[l] THEN HashPair(siblings[l], current[l - 1])
                               ELSE HashPair(current[l - 1], siblings[l])
    IN  current[Len(siblings)]

VerifyProof(proof, expected) ==
    Climb(proof.leaf, proof.siblings, proof.path_indices) = expected

-----------------------------------------------------------------------------
(* Proofs on chain *)

\* Faulty variant of the next definition: the first direction is the high bit.
PackedHighFirst(path) ==
    LET bits[l \in 0..Len(path)] ==
            IF l = 0 THEN 0 ELSE 2 * bits[l - 1] + (IF path[l] THEN 1 ELSE 0)
    IN  bits[Len(path)]

\* path_bits |= 1 << i for every step i on which the node is on the right.
Packed(path) ==
    LET bits[l \in 0..Len(path)] ==
            IF l = 0 THEN 0 ELSE bits[l - 1] + (IF path[l] THEN PowerOf2[l - 1] ELSE 0)
    IN  bits[Len(path)]

\* leaf_index, which is copied and which no verifier looks at, is left out.
ToOnChainProof(proof) ==
    [siblings |-> proof.siblings, path_bits |-> Packed(proof.path_indices),
     leaf |-> proof.leaf, depth |-> Len(proof.siblings)]

\* The shift of the u32 path_bits panics for a depth over 32, which no proof of
\* these trees has: the depths are at most 20 and 16.
VerifyInclusion(proof, expected) ==
    /\ Len(proof.siblings) = proof.depth
    /\ LET onRight == [l \in 1..proof.depth |-> At(proof.path_bits, l - 1) % 2 = 1]
       IN  Climb(proof.leaf, proof.siblings, onRight) = expected

-----------------------------------------------------------------------------
(* SparseMerkleTree *)

\* precompute_defaults: the hash of a subtree without entries, for each level.
Default[level \in 0..SMT_DEPTH] ==
    IF level = 0 THEN Zero ELSE HashPair(Default[level - 1], Default[level - 1])

Slots(level) == 0..(PowerOf2[SMT_DEPTH - level] - 1)

GetNode(level, i) == IF nodes[level][i] = Absent THEN Default[level] ELSE nodes[level][i]

\* Faulty variant of the next definition: the second byte is not used.
KeyToIndexOneByte(key) == key[1]

KeyToIndex(key) == (key[1] + ByteBase * key[2]) % PowerOf2[SMT_DEPTH]

\* Faulty variant of the next definition: a node always comes on the left.
PathUnordered(slot, leaf) ==
    LET node[l \in 0..SMT_DEPTH] ==
            IF l = 0 THEN leaf
            ELSE HashPair(node[l - 1], GetNode(l - 1, Sibling(At(slot, l - 1))))
    IN  node

\* The loop of insert: the nodes from a slot that holds leaf up to the root.
Path(slot, leaf) ==
    LET node[l \in 0..SMT_DEPTH] ==
            IF l = 0 THEN leaf
            ELSE LET beside == GetNode(l - 1, Sibling(At(slot, l - 1)))
                 IN  IF IsRight(At(slot, l - 1)) THEN HashPair(beside, node[l - 1])
                                                 ELSE HashPair(node[l - 1], beside)
    IN  node

\* Two keys share a slot when their first two bytes agree.
SameSlot(k1, k2) == k1[1] = k2[1] /\ k1[2] = k2[2]

\* Faulty variant of the next definition: a new leaf that is an update leaves
\* the root to the next insertion.
RootUnlessUpdate(key, path) == IF written[key] = Absent THEN path[SMT_DEPTH] ELSE root

NewRoot(key, path) == path[SMT_DEPTH]

\* insert stores the nodes on the path.
Insert(key, value) ==
    LET slot == KeyToIndex(key)
        path == Path(slot, HashLeaf(value))
    IN  /\ Len(leaves) < MaxInserts
        /\ nodes' = [level \in 0..SMT_DEPTH |->
                       [i \in Slots(level) |->
                          IF i = At(slot, level) THEN path[level]
                                                 ELSE nodes[level][i]]]
        /\ root' = NewRoot(key, path)
        /\ leaves' = Append(leaves, value)
        /\ written' = [k \in Keys |-> IF SameSlot(k, key) THEN value ELSE written[k]]
        /\ UNCHANGED hash

Get(key) == nodes[0][KeyToIndex(key)]

Prove(key) ==
    LET slot == KeyToIndex(key)
    IN  [siblings  |-> [l \in 1..SMT_DEPTH |-> GetNode(l - 1, Sibling(At(slot, l - 1)))],
         path_bits |-> Packed([l \in 1..SMT_DEPTH |-> IsRight(At(slot, l - 1))]),
         leaf      |-> GetNode(0, slot),
         depth     |-> SMT_DEPTH]

-----------------------------------------------------------------------------

NoTrees ==
    /\ hash \in {"sha256", "poseidon2"}
    /\ leaves = <<>>
    /\ nodes = [level \in 0..SMT_DEPTH |-> [i \in Slots(level) |-> Absent]]
    /\ root = Default[SMT_DEPTH]
    /\ written = [key \in Keys |-> Absent]

Grow == \E key \in Keys, value \in Data : Insert(key, value)

TreesSpec == NoTrees /\ [][Grow]_trees

-----------------------------------------------------------------------------
(* Properties *)

\* Every leaf of a MerkleTree has a proof that verify_proof accepts and, with
\* SHA256, verify_inclusion on chain, for every number of leaves, padding
\* included (tree.rs:104, proof.rs:25, :50).
EveryLeafProves ==
    \A i \in 0..(Len(leaves) - 1) :
        LET proof == ProofOf(leaves, i)
        IN  /\ VerifyProof(proof, RootOf(leaves))
            /\ hash = "sha256" => VerifyInclusion(ToOnChainProof(proof), RootOf(leaves))

LeafLists == UNION {[1..n -> Data] : n \in 1..MaxInserts}

\* The root tells lists of leaves apart, those of other lengths included: no
\* other list pads to the same tree (tree.rs:65).
RootBindsLeaves ==
    leaves # <<>> =>
        LET top == RootOf(leaves)
        IN  \A list \in LeafLists : RootOf(list) = top => list = leaves

Hashes ==
    UNION {{Layers(leaves)[l][i] : i \in DOMAIN Layers(leaves)[l]} :
              l \in DOMAIN Layers(leaves)}

\* A proof that a value is a leaf, put together from any hashes of the tree,
\* only verifies when it is one.  With SHA256 the tag of a leaf settles it for
\* proofs of every length up to the depth of the tree; with Poseidon2, where a
\* padded pair is also a leaf's hash, for those of just that length (tree.rs:141,
\* :231).  The proof has to start at the hash of the value: the verifiers take
\* the leaf's hash as it is given, and accept that of an inner node as well.
ProofsBindLeaves ==
    leaves # <<>> =>
        LET depth  == DepthFor(Len(leaves))
            top    == RootOf(leaves)
            hashes == Hashes
        IN  \A n \in IF hash = "sha256" THEN 0..depth ELSE {depth} :
                \A siblings \in [1..n -> hashes], path \in [1..n -> BOOLEAN],
                   d \in Data \cup hashes :
                      VerifyProof([siblings |-> siblings, path_indices |-> path,
                                   leaf |-> HashLeaf(d)], top)
                        => \E i \in DOMAIN leaves : d = leaves[i]

\* The sparse tree answers with the hash of the value last inserted into the
\* key's slot; keys that differ in their first two bytes do not meet.
GetAnswersLastInsert ==
    hash = "sha256" =>
        \A key \in Keys :
            Get(key) = IF written[key] = Absent THEN Absent ELSE HashLeaf(written[key])

\* The root depends on what the slots hold and not on the order or the number
\* of the insertions: updating one path at a time (sparse.rs:55) comes to the
\* same as building the whole tree.
SparseRootIsCanonical ==
    root = LayersOver([i \in Slots(0) |-> GetNode(0, i)], SMT_DEPTH)[SMT_DEPTH][0]

\* A proof taken before an insertion is accepted after it only while the slot
\* holds the same leaf.
StaleProofsFail ==
    [][hash = "sha256" =>
          \A key \in Keys : VerifyInclusion(Prove(key), root') => Get(key)' = Get(key)]_trees
=============================================================================
