----------------------------- MODULE MerkleTree -----------------------------
(***************************************************************************)
(* The Merkle tree over the extrinsics of a summary, whose root the nodes  *)
(* vote on and whose paths prove single extrinsics to Ethereum             *)
(* (extrinsic-utils).  A hash is the value it was taken from; the pair     *)
(* that is hashed is sorted, so it is the set of its two members.          *)
(***************************************************************************)
EXTENDS Integers, Sequences

CONSTANTS Leaves, MaxLeaves

VARIABLE tree

keccak_256(data) == [of |-> data, pair |-> {}]
concatenate_pair(left_node, right_node) == [of |-> 0, pair |-> {<<left_node, right_node>>}]
sort_and_concatenate_pair(left_node, right_node) == [of |-> 0, pair |-> {left_node, right_node}]

process_nodes_in_pairs(nodes) ==
  LET half == Len(nodes) \div 2
      pairs == [i \in 1..half |-> sort_and_concatenate_pair(nodes[2 * i - 1], nodes[2 * i])]
  IN IF Len(nodes) % 2 = 1 THEN Append(pairs, nodes[Len(nodes)]) ELSE pairs
RECURSIVE process_level(_)
process_level(nodes) ==
  LET processed == process_nodes_in_pairs(nodes)
  IN IF Len(processed) > 1 THEN process_level(processed) ELSE processed
\* The root, or the error the code gives for a tree with none.
generate_tree_root(leaves) ==
  LET roots == process_level([i \in DOMAIN leaves |-> keccak_256(leaves[i])])
  IN IF Len(roots) = 1 THEN {roots[1]} ELSE {}

\* The walk up: the hash on the leaf's branch, the path so far and the nodes of the level.
\* The pairs are visited in order, and the hash looked for changes with the first found.
RECURSIVE visit(_, _, _, _)
visit(hash, path, nodes, i) ==
  IF 2 * i > Len(nodes) THEN <<hash, path>>
  ELSE LET left == nodes[2 * i - 1]
           right == nodes[2 * i]
       IN IF hash \in {left, right}
          THEN visit(sort_and_concatenate_pair(left, right),
                     Append(path, IF hash = left THEN right ELSE left), nodes, i + 1)
          ELSE visit(hash, path, nodes, i + 1)
process_nodes_in_pairs_for_path(hash, path, nodes) == visit(hash, path, nodes, 1)
RECURSIVE process_level_for_path(_, _, _)
process_level_for_path(hash, path, nodes) ==
  LET found == process_nodes_in_pairs_for_path(hash, path, nodes)
      processed == process_nodes_in_pairs(nodes)
  IN IF Len(processed) > 1 THEN process_level_for_path(found[1], found[2], processed)
     ELSE found[2]
generate_merkle_path(leaf, leaves) ==
  IF leaves = <<>> THEN {}
  ELSE {process_level_for_path(keccak_256(leaf), <<>>,
                               [i \in DOMAIN leaves |-> keccak_256(leaves[i])])}

-----------------------------------------------------------------------------
MerkleInit == tree = [leaves |-> <<>>, leaf |-> 0]
\* A summary's range has one more extrinsic in it.
AddLeaf(leaf) ==
  /\ tree.leaf = 0 /\ Len(tree.leaves) < MaxLeaves
  /\ tree' = [tree EXCEPT !.leaves = Append(@, leaf)]
\* A path is asked for, of a leaf that may not be in the tree.
AskForPath(leaf) ==
  /\ tree.leaf = 0
  /\ tree' = [tree EXCEPT !.leaf = leaf]
MerkleNext == \E leaf \in Leaves : AddLeaf(leaf) \/ AskForPath(leaf)
MerkleSpec == MerkleInit /\ [][MerkleNext]_tree

-----------------------------------------------------------------------------
\* What the T1 contract makes of a path: it hashes up from the leaf.
RECURSIVE Climb(_, _)
Climb(hash, path) ==
  IF path = <<>> THEN hash
  ELSE Climb(sort_and_concatenate_pair(hash, Head(path)), Tail(path))

\* The path generated for a leaf leads to the root the nodes agreed on exactly when the leaf
\* is in the tree, whatever the number of leaves and however often a leaf is repeated; an
\* empty tree has neither root nor path (generate_merkle_path, generate_tree_root).
PathsProveMembership ==
  tree.leaf # 0 =>
    LET root == generate_tree_root(tree.leaves)
        path == generate_merkle_path(tree.leaf, tree.leaves)
        member == \E i \in DOMAIN tree.leaves : tree.leaves[i] = tree.leaf
    IN /\ (root = {}) <=> tree.leaves = <<>>
       /\ (path = {}) <=> tree.leaves = <<>>
       /\ \A p \in path : Climb(keccak_256(tree.leaf), p) \in root <=> member
=============================================================================
