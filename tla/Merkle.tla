------------------------------- MODULE Merkle -------------------------------
(***************************************************************************)
(* chain/merkle.rs: the Merkle root of a list of transaction hashes, and   *)
(* the loop of generate_proof as a state machine, one iteration per step.  *)
(* SHA3 is collision-free: a parent is the pair of its children, and no    *)
(* pair is a transaction hash.                                             *)
(***************************************************************************)
EXTENDS Integers, SequencesExt

CONSTANTS
    Hash,           \* transaction hashes
    MaxLeaves       \* longest list

ASSUME LeavesAssumption == MaxLeaves \in Nat \ {0}

Leaf(h) == <<"leaf", h>>
EmptyBlock == <<"kyvera-empty-block">>

\* Variant: the children are sorted before they are hashed.
hash_pair_Sorted(left, right) == <<"pair", {left, right}>>

hash_pair(left, right) == <<"pair", left, right>>

\* The last node of an odd layer is its own sibling.
right_of(layer, i) == IF i < Len(layer) THEN layer[i + 1] ELSE layer[i]

build_next_layer(layer) ==
    [k \in 1..((Len(layer) + 1) \div 2) |->
        hash_pair(layer[2 * k - 1], right_of(layer, 2 * k - 1))]

\* current_layer after n iterations of the loop, which ends at a single node.
layers(hashes) ==
    LET current[n \in Nat] ==
            IF n = 0 THEN hashes
            ELSE LET below == current[n - 1]
                 IN  IF Len(below) > 1 THEN build_next_layer(below) ELSE below
    IN  current

\* Layers get shorter, so that the loop has ended after Len(hashes) iterations.
compute_merkle_root(hashes) ==
    IF hashes = <<>> THEN EmptyBlock ELSE layers(hashes)[Len(hashes)][1]

\* One step of verify_proof: fold a sibling into the hash of the path.
fold_sibling(hash, s) ==
    IF s.direction = "Right" THEN hash_pair(hash, s.hash) ELSE hash_pair(s.hash, hash)

path_hash(leaf, siblings) == FoldLeft(fold_sibling, leaf, siblings)

verify_proof(proof) == path_hash(proof.leaf_hash, proof.siblings) = proof.root

-----------------------------------------------------------------------------
VARIABLES
    leaves,     \* transaction_hashes
    target,     \* target_hash
    layer,      \* current_layer
    index,      \* current_index, from 1
    siblings

proof_vars == <<leaves, target, layer, index, siblings>>

Lists == {[i \in DOMAIN s |-> Leaf(s[i])] : s \in SeqOf(Hash, MaxLeaves) \ {<<>>}}

\* generate_proof is called for a hash of the list; position finds the first.
ProofInit ==
    /\ leaves \in Lists
    /\ target \in Range(leaves)
    /\ layer = leaves
    /\ index = CHOOSE i \in DOMAIN leaves :
                 leaves[i] = target /\ \A j \in 1..(i - 1) : leaves[j] # target
    /\ siblings = <<>>

\* Variants: the side is swapped; a node without a sibling adds nothing.
sibling_SwappedSide(nodes, i) ==
    IF i % 2 = 1 THEN <<[hash |-> right_of(nodes, i), direction |-> "Left"]>>
    ELSE <<[hash |-> nodes[i - 1], direction |-> "Right"]>>
\* The sibling of node i: an odd position, counted from 1, is a left child.
sibling(nodes, i) ==
    IF i % 2 = 1 THEN <<[hash |-> right_of(nodes, i), direction |-> "Right"]>>
    ELSE <<[hash |-> nodes[i - 1], direction |-> "Left"]>>

generate_proof_step ==
    /\ Len(layer) > 1
    /\ siblings' = siblings \o sibling(layer, index)
    /\ layer' = build_next_layer(layer)
    /\ index' = (index + 1) \div 2
    /\ UNCHANGED <<leaves, target>>

ProofSpec == ProofInit /\ [][generate_proof_step]_proof_vars

proof == [leaf_hash |-> target, siblings |-> siblings, root |-> compute_merkle_root(leaves)]

-----------------------------------------------------------------------------
(***************************************************************************)
(* Properties.                                                             *)
(***************************************************************************)

\* The loop invariant of generate_proof: folding the siblings found so far into
\* the leaf gives the node of the current layer the loop stands at, so a
\* finished proof verifies, for every list length, odd layers included.
PathReachesNode ==
    /\ index \in DOMAIN layer
    /\ path_hash(target, siblings) = layer[index]
    /\ Len(layer) = 1 => verify_proof(proof)

\* The root commits to the list: no other list without duplicates, shorter,
\* longer or in another order, has the root of such a list.
RootCommits ==
    siblings = <<>> /\ IsInjective(leaves) =>
        \A other \in Lists :
            IsInjective(other) /\ compute_merkle_root(other) = compute_merkle_root(leaves)
                => other = leaves
=============================================================================
