----------------------------- MODULE MerkleTree -----------------------------
(***************************************************************************)
(* The audit tree of the settlement engine (settlement/merkleTree.js).     *)
(* SHA-256 is taken to be free of collisions, so that a hash is the term   *)
(* that was hashed, with the prefix that tells leaves from nodes.          *)
(***************************************************************************)
EXTENDS Naturals, SequencesExt

hashLeaf(data) == <<0, data>>
hashInternal(left, right) == <<1, left, right>>

\* A layer of odd length pairs its last node with itself.
NextLayer(layer) ==
    [i \in 1..((Len(layer) + 1) \div 2) |->
        hashInternal(layer[2 * i - 1],
                     IF 2 * i <= Len(layer) THEN layer[2 * i] ELSE layer[2 * i - 1])]

\* One turn of the loop that builds the layers.
AddLayer(layers, leaf) ==
    IF Len(Last(layers)) > 1 THEN Append(layers, NextLayer(Last(layers))) ELSE layers

\* The layers from the leaves upwards, until one has a single node.  A layer is
\* shorter than the one below, so there are no more turns than leaves.
buildTree(leaves) ==
    FoldLeft(AddLayer, <<[i \in DOMAIN leaves |-> hashLeaf(leaves[i])]>>, leaves)

getRoot(leaves) == Last(buildTree(leaves))[1]

\* One step of a proof: the sibling of node i of a layer, and on which side.
Sibling(layer, i) ==
    CASE i % 2 = 0 -> [position |-> "left", hash |-> layer[i - 1]]
      [] i % 2 = 1 /\ i < Len(layer) -> [position |-> "right", hash |-> layer[i + 1]]
      [] OTHER -> [position |-> "right", hash |-> layer[i]]

\* Mutant: the sibling is always said to be on the right.
AddStep_one_sided(walk, layer) ==
    [node |-> (walk.node + 1) \div 2,
     proof |-> Append(walk.proof,
                      [position |-> "right", hash |-> Sibling(layer, walk.node).hash])]

\* One turn of the walk from a leaf to the root: nodes 2j - 1 and 2j of a layer
\* are below node j of the next.
AddStep(walk, layer) ==
    [node |-> (walk.node + 1) \div 2,
     proof |-> Append(walk.proof, Sibling(layer, walk.node))]

getProof(leaves, leaf) ==
    FoldLeft(AddStep, [node |-> leaf, proof |-> <<>>], Front(buildTree(leaves))).proof

HashUp(hash, step) ==
    IF step.position = "left" THEN hashInternal(step.hash, hash)
    ELSE hashInternal(hash, step.hash)

verifyProof(data, proof, root) == root = FoldLeft(HashUp, hashLeaf(data), proof)

\* Batches are chained by the hash of the one before.
Genesis == <<>>
computeBatchChainHash(prevBatchHash, merkleRoot, batchId) ==
    <<prevBatchHash, merkleRoot, batchId>>
=============================================================================
