------------------------------- MODULE UtxoTree -------------------------------
(* The sparse Merkle tree over the unspent outputs (crypto/smt.cpp): the        *)
(* compressed trie the node updates with every finalized block, the change rows *)
(* it publishes, and the copy from which the light server answers               *)
(* get_utxo_proofs.  Hashes are terms, so equal hashes have equal preimages.    *)
(* The table of single-leaf paths is shared by all trees of a process.          *)
EXTENDS Integers, Sequences, FiniteSets, TLC

CONSTANTS
    Depth,            \* bits of a key, 256
    TreeKeys,         \* keys of outputs, sequences of bits
    LeafValues,       \* what an output may hold, numbers from 1 on
    DeltasKept,       \* kRetainedSmtDeltaHeights
    MemoLimit,        \* kLeafPathMemoMaxEntries
    LastTreeHeight    \* bound: finalized blocks

VARIABLES
    outputs,          \* the UTXO set: key -> value, 0: none
    node,             \* the node's [tree, size, memo]
    rows,             \* the database: [height, leaves, root, deltas]
    view,             \* the server's view of it
    server            \* the server's [tree, height, memo]

utVars == <<outputs, node, rows, view, server>>

\* A trie has at most one branch per key, so this is above every depth.
NoTree == [leaf |-> FALSE, depth |-> Depth + 1, key |-> <<>>, hash |-> <<>>, child |-> <<>>]

-------------------------------------------------------------------------------
(* Hashes.                                                                      *)
leaf_hash(key, value) == <<"leaf", key, value>>
node_hash(left, right) == <<"node", left, right>>
empties[d \in 0..Depth] == IF d = Depth THEN <<"empty">> ELSE node_hash(empties[d + 1], empties[d + 1])

\* Joins the subtree cur on the path of key, at depth d, with its sibling.
Joined(key, d, cur, sibling) == IF key[d] = 1 THEN node_hash(sibling, cur) ELSE node_hash(cur, sibling)

RECURSIVE Climbed(_, _, _, _)
Climbed(key, d, target, cur) ==
    IF d = target THEN cur ELSE Climbed(key, d - 1, target, Joined(key, d, cur, empties[d]))

\* The reference: the hash below a prefix of every leaf and every empty place.
RECURSIVE Reference(_, _)
Reference(leaves, prefix) ==
    IF Len(prefix) = Depth
    THEN IF prefix \in DOMAIN leaves /\ leaves[prefix] # 0 THEN leaf_hash(prefix, leaves[prefix]) ELSE empties[Depth]
    ELSE node_hash(Reference(leaves, Append(prefix, 0)), Reference(leaves, Append(prefix, 1)))

\* verify_proof: the siblings go from the leaf to the root.
RECURSIVE Folded(_, _, _, _)
Folded(key, proof, i, cur) ==
    IF i = Depth THEN cur ELSE Folded(key, proof, i + 1, Joined(key, Depth - i, cur, proof[i + 1]))
verify_proof(root, key, value, proof) ==
    Folded(key, proof, 0, IF value = 0 THEN empties[Depth] ELSE leaf_hash(key, value)) = root

\* Only the siblings that are not empty subtrees travel.
encode_compact_proof(proof) == [i \in {j \in 1..Depth : proof[j] # empties[Depth + 1 - j]} |-> proof[i]]
decode_compact_proof(sent) == [i \in 1..Depth |-> IF i \in DOMAIN sent THEN sent[i] ELSE empties[Depth + 1 - i]]

-------------------------------------------------------------------------------
(* The trie; every operation returns the table as it leaves it.                 *)
MemoEntry(memo, n, target) ==
    IF n.hash \in DOMAIN memo /\ memo[n.hash].depth >= target THEN memo[n.hash]
    ELSE [depth |-> Depth, hash |-> n.hash]

\* The hash of a subtree as seen from depth target, climbing over empty siblings.
lift(n, target, memo) ==
    IF n.leaf
    THEN LET m == MemoEntry(memo, n, target)
             h == IF m.depth < target THEN m.hash ELSE Climbed(n.key, m.depth, target, m.hash)
         IN [hash |-> h, memo |-> (n.hash :> [depth |-> target, hash |-> h]) @@ memo]
    ELSE [hash |-> Climbed(n.key, n.depth, target, n.hash), memo |-> memo]

LeafNode(key, hash) == [leaf |-> TRUE, depth |-> Depth, key |-> key, hash |-> hash, child |-> <<>>]

first_diff_bit(a, b) ==
    IF a = b THEN Depth ELSE CHOOSE i \in 0..(Depth - 1) : a[i + 1] # b[i + 1] /\ \A j \in 1..i : a[j] = b[j]

branch(depth, a, b, memo) ==
    LET left  == IF a.key[depth + 1] = 1 THEN b ELSE a
        right == IF a.key[depth + 1] = 1 THEN a ELSE b
        low   == lift(left, depth + 1, memo)
        high  == lift(right, depth + 1, low.memo)
    IN [tree |-> [leaf |-> FALSE, depth |-> depth, key |-> left.key, hash |-> node_hash(low.hash, high.hash),
                  child |-> <<left, right>>],
        memo |-> high.memo]

\* set and erase also tell by how much the number of leaves changes.
By(result, change) == [tree |-> result.tree, memo |-> result.memo, by |-> change]
Same(tree, memo) == [tree |-> tree, memo |-> memo, by |-> 0]

RECURSIVE set(_, _, _, _)
set(n, key, hash, memo) ==
    LET diff == first_diff_bit(n.key, key)
        side == key[n.depth + 1] + 1
        replaced == set(n.child[side], key, hash, memo)
    IN CASE n = NoTree -> [Same(LeafNode(key, hash), memo) EXCEPT !.by = 1]
         [] n.leaf /\ n.key = key -> Same(LeafNode(key, hash), memo)
         [] n # NoTree /\ n.key # key /\ (n.leaf \/ diff < n.depth) -> By(branch(diff, n, LeafNode(key, hash), memo), 1)
         [] OTHER -> By(branch(n.depth, replaced.tree, n.child[3 - side], replaced.memo), replaced.by)

RECURSIVE erase(_, _, _)
erase(n, key, memo) ==
    LET diff == first_diff_bit(n.key, key)
        side == key[n.depth + 1] + 1
        replaced == erase(n.child[side], key, memo)
    IN CASE n = NoTree \/ (n.leaf /\ n.key # key) -> Same(n, memo)
         [] n.leaf /\ n.key = key -> [Same(NoTree, memo) EXCEPT !.by = -1]
         [] n # NoTree /\ ~n.leaf /\ diff < n.depth -> Same(n, memo)
         [] n # NoTree /\ ~n.leaf /\ diff >= n.depth ->
                CASE replaced.tree = n.child[side] -> Same(n, replaced.memo)
                  [] replaced.tree = NoTree -> [replaced EXCEPT !.tree = n.child[3 - side]]
                  [] OTHER -> By(branch(n.depth, replaced.tree, n.child[3 - side], replaced.memo), replaced.by)

\* from_leaf_hashes: every branch at the first bit in which its keys differ.
RECURSIVE build(_, _, _)
build(leaves, keys, memo) ==
    LET one == CHOOSE k \in keys : TRUE
        depth == CHOOSE d \in 0..(Depth - 1) :
                     /\ \E k \in keys : k[d + 1] # one[d + 1]
                     /\ \A j \in 1..d : \A k \in keys : k[j] = one[j]
        zeros == build(leaves, {k \in keys : k[depth + 1] = 0}, memo)
        ones  == build(leaves, {k \in keys : k[depth + 1] = 1}, zeros.memo)
    IN CASE keys = {} -> [tree |-> NoTree, memo |-> memo]
         [] Cardinality(keys) = 1 -> [tree |-> LeafNode(one, leaf_hash(one, leaves[one])), memo |-> memo]
         [] OTHER -> branch(depth, zeros.tree, ones.tree, ones.memo)

Trimmed(memo) == IF Cardinality(DOMAIN memo) > MemoLimit THEN <<>> ELSE memo
Present(leaves) == {k \in DOMAIN leaves : leaves[k] # 0}
from_leaf_hashes(leaves, memo) == build(leaves, Present(leaves), IF Present(leaves) = {} THEN memo ELSE Trimmed(memo))

\* hash_sorted_leaves: the root without a trie, with the same table of paths.
RECURSIVE subtree(_, _, _, _)
subtree(leaves, keys, depth, memo) ==
    LET one   == CHOOSE k \in keys : TRUE
        left  == subtree(leaves, {k \in keys : k[depth + 1] = 0}, depth + 1, memo)
        right == subtree(leaves, {k \in keys : k[depth + 1] = 1}, depth + 1, left.memo)
    IN CASE keys = {} -> [hash |-> empties[depth], memo |-> memo]
         [] Cardinality(keys) = 1 -> lift(LeafNode(one, leaf_hash(one, leaves[one])), depth, memo)
         [] OTHER -> [hash |-> node_hash(left.hash, right.hash), memo |-> right.memo]
compute_root_from_leaves(leaves, memo) == subtree(leaves, Present(leaves), 0, Trimmed(memo))

\* updated: changes are [key, value], value 0 removes.
RECURSIVE Changed(_, _, _, _)
Changed(tree, changes, memo, by) ==
    IF changes = <<>> THEN [tree |-> tree, memo |-> memo, by |-> by]
    ELSE LET c == Head(changes)
             next == IF c.value = 0 THEN erase(tree, c.key, memo) ELSE set(tree, c.key, leaf_hash(c.key, c.value), memo)
         IN Changed(next.tree, Tail(changes), next.memo, by + next.by)
updated(tree, changes, memo) == Changed(tree, changes, IF changes = <<>> THEN memo ELSE Trimmed(memo), 0)

TreeRoot(tree, memo) == IF tree = NoTree THEN [hash |-> empties[0], memo |-> memo] ELSE lift(tree, 0, memo)

RECURSIVE Leaves(_)
Leaves(n) == IF n = NoTree THEN {} ELSE IF n.leaf THEN {n.key} ELSE Leaves(n.child[1]) \cup Leaves(n.child[2])

\* proof: down the path of the key; where it leaves the trie the subtree is the sibling.
\* Slip: the subtree is seen from the depth of the branch, not from below it.
SiblingDepth_slip(diff) == diff

SiblingDepth(diff) == diff + 1

RECURSIVE ProofBelow(_, _, _, _)
ProofBelow(n, key, proof, memo) ==
    LET diff == first_diff_bit(n.key, key)
        side == key[n.depth + 1] + 1
        away == lift(n, SiblingDepth(diff), memo)
        other == lift(n.child[3 - side], n.depth + 1, memo)
    IN CASE n = NoTree \/ (n.leaf /\ n.key = key) -> [proof |-> proof, memo |-> memo]
         [] n # NoTree /\ n.key # key /\ (n.leaf \/ diff < n.depth) ->
                [proof |-> [proof EXCEPT ![Depth - diff] = away.hash], memo |-> away.memo]
         [] OTHER -> ProofBelow(n.child[side], key, [proof EXCEPT ![Depth - n.depth] = other.hash], other.memo)
ProofOf(tree, key, memo) == ProofBelow(tree, key, [i \in 1..Depth |-> empties[Depth + 1 - i]], memo)

-------------------------------------------------------------------------------
(* The node.                                                                    *)
Order == CHOOSE order \in [1..Cardinality(TreeKeys) -> TreeKeys] : \A i, j \in DOMAIN order : i # j => order[i] # order[j]
Touched(keys, leaves) ==
    LET places == SelectSeq([i \in DOMAIN Order |-> i], LAMBDA i : Order[i] \in keys)
    IN [j \in DOMAIN places |-> [key |-> Order[places[j]], value |-> leaves[Order[places[j]]]]]

\* persist_canonical_cache_delta: an output that changed is removed, then put.
RECURSIVE DeltaRow(_, _, _)
DeltaRow(prev, next, i) ==
    IF i > Len(Order) THEN <<>>
    ELSE LET k == Order[i]
             removed == IF prev[k] # 0 /\ prev[k] # next[k] THEN <<[key |-> k, value |-> 0]>> ELSE <<>>
             added   == IF next[k] # 0 /\ prev[k] # next[k] THEN <<[key |-> k, value |-> next[k]]>> ELSE <<>>
         IN removed \o added \o DeltaRow(prev, next, i + 1)

NoOutputs == [k \in TreeKeys |-> 0]

UtInit ==
    /\ outputs = NoOutputs
    /\ node = [tree |-> NoTree, size |-> 0, memo |-> <<>>]
    /\ rows = [height |-> 0, leaves |-> NoOutputs, root |-> empties[0], deltas |-> <<>>]
    /\ view = rows
    /\ server = [tree |-> NoTree, height |-> -1, memo |-> <<>>]

\* A finalized block; extra holds outputs it created and spent itself.
Published(next, height, grown, root) ==
    /\ node' = [tree |-> grown.tree, size |-> node.size + grown.by, memo |-> root.memo]
    /\ rows' = [height |-> height, leaves |-> next, root |-> root.hash,
                deltas |-> [h \in {g \in DOMAIN rows.deltas \cup {height} : g > height - DeltasKept} |->
                               IF h = height THEN DeltaRow(outputs, next, 1) ELSE rows.deltas[h]]]
Grown(next, grown) == Published(next, rows.height + 1, grown, TreeRoot(grown.tree, grown.memo))
FinalizeOutputs(next, extra) ==
    LET changed == {k \in TreeKeys : outputs[k] # next[k]}
    IN /\ rows.height < LastTreeHeight
       /\ Cardinality(changed) \in 1..2
       /\ extra \subseteq {k \in TreeKeys : outputs[k] = 0 /\ next[k] = 0} /\ Cardinality(extra) <= 1
       /\ outputs' = next
       /\ Grown(next, updated(node.tree, Touched(changed \cup extra, next), node.memo))
       /\ UNCHANGED <<view, server>>

\* utxo_tree_for after a start: the tree is built from the set.
RestartTree ==
    LET built == from_leaf_hashes(outputs, <<>>)
    IN /\ node' = [tree |-> built.tree, size |-> Cardinality(Present(outputs)), memo |-> built.memo]
       /\ UNCHANGED <<outputs, rows, view, server>>

-------------------------------------------------------------------------------
(* The light server.                                                            *)
catch_up_with_primary == view # rows /\ view' = rows /\ UNCHANGED <<outputs, node, rows, server>>

\* The rows the cached tree lacks are all there.
CanFollow == server.height >= 0 /\ ((server.height + 1)..view.height) \subseteq DOMAIN view.deltas

RECURSIVE Followed(_, _, _)
Followed(tree, h, memo) ==
    IF h > view.height THEN [tree |-> tree, memo |-> memo]
    ELSE LET next == updated(tree, view.deltas[h], memo) IN Followed(next.tree, h + 1, next.memo)

\* The tree utxo_proof_at answers from, and its root: the cached one brought up to date, or one
\* built anew when rows are missing or the root is not that of the tip.
AtRoot(tree, root) == [tree |-> tree, root |-> root.hash, memo |-> root.memo]
Rebuilt(built) == AtRoot(built.tree, TreeRoot(built.tree, built.memo))
CheckedRoot(tree, root) ==
    IF CanFollow /\ root.hash = view.root THEN AtRoot(tree, root)
    ELSE Rebuilt(from_leaf_hashes(view.leaves, root.memo))
Rooted(followed) == CheckedRoot(followed.tree, TreeRoot(followed.tree, followed.memo))
Current ==
    Rooted(IF CanFollow THEN Followed(server.tree, server.height + 1, server.memo)
           ELSE [tree |-> NoTree, memo |-> server.memo])

\* get_utxo_proofs of one output, under the lock that holds the view.
Served(key, current) ==
    server' = [tree |-> current.tree, height |-> view.height,
               memo |-> IF current.root = view.root THEN ProofOf(current.tree, key, current.memo).memo
                        ELSE current.memo]
utxo_proof_at(key) == Served(key, Current) /\ UNCHANGED <<outputs, node, rows, view>>

RestartServer ==
    /\ server' = [tree |-> NoTree, height |-> -1, memo |-> <<>>]
    /\ view' = rows
    /\ UNCHANGED <<outputs, node, rows>>

UtNext ==
    \/ \E next \in [TreeKeys -> LeafValues \cup {0}], extra \in SUBSET TreeKeys : FinalizeOutputs(next, extra)
    \/ RestartTree \/ catch_up_with_primary \/ RestartServer
    \/ \E key \in TreeKeys : utxo_proof_at(key)

UtSpec == UtInit /\ [][UtNext]_utVars

-------------------------------------------------------------------------------
\* The tree the node keeps from block to block, and the one it builds after a restart, commit
\* to exactly its outputs: the root is that of the full tree and the one check_utxo_tree_against
\* recomputes, and the size is their number, whatever the table of paths holds.
TreeIsReference ==
    /\ TreeRoot(node.tree, node.memo).hash = Reference(outputs, <<>>)
    /\ Leaves(node.tree) = Present(outputs) /\ node.size = Cardinality(Present(outputs))
    /\ compute_root_from_leaves(outputs, node.memo).hash = rows.root

Provable(current, key) ==
    LET proof == decode_compact_proof(encode_compact_proof(ProofOf(current.tree, key, current.memo).proof))
    IN \A value \in LeafValues \cup {0} : verify_proof(view.root, key, value, proof) <=> value = view.leaves[key]
Proving(current) == current.root = view.root /\ \A key \in TreeKeys : Provable(current, key)
\* Whatever blocks the server has missed, it can prove every output at its tip, spent or not,
\* and the proof as a wallet receives it shows the value at the tip and no other.
ProofsServed == Proving(Current)
================================================================================
