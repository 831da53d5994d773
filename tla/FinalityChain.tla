---------------------------- MODULE FinalityChain ----------------------------
(***************************************************************************)
(* What one archival node promises about its selected chain.  Of the block *)
(* DAG only the selected-parent tree is left: every block has the set of   *)
(* blocks on the selected chain that ends at it, and a blue score.  A new  *)
(* block is refused if the selected chain of its parent misses the         *)
(* finality point; otherwise it is added, and it becomes the selected tip  *)
(* if no known block is higher.                                            *)
(*                                                                         *)
(* D_Xxx is D with the mistake Xxx, to see that a property notices it.     *)
(***************************************************************************)
EXTENDS Integers

CONSTANTS
    Block,   \* block hashes, ordered as numbers
    Root,    \* the block that every node starts from
    Gain,    \* by how much a block's blue score may exceed its parent's
    Depth    \* FINALITY_DEPTH

ASSUME FinalityConstants ==
    /\ Block \subseteq Nat
    /\ Root \in Block
    /\ Gain \subseteq Nat \ {0}
    /\ Depth \in Nat \ {0}

VARIABLES
    known,   \* the blocks of the DAG
    chain,   \* chain[b]: the blocks of the selected chain ending at b
    score,   \* blue scores
    tip      \* the selected tip

vars == <<known, chain, score, tip>>

Init ==
    /\ known = {Root}
    /\ chain = [b \in {Root} |-> {Root}]
    /\ score = [b \in {Root} |-> 0]
    /\ tip = Root

(***************************************************************************)
(* The finalized part of the selected chain: what lies at least `Depth`    *)
(* below the tip, and nothing while the chain is no longer than that.      *)
(***************************************************************************)
Final ==
    {x \in chain[tip] : score[tip] > Depth /\ score[x] <= score[tip] - Depth}

IsFinalityPoint(fp) == fp \in Final /\ \A x \in Final : score[x] <= score[fp]

(***************************************************************************)
(* The finality rule of `add_block`.                                       *)
(***************************************************************************)
DescendsFromFinalityPoint_Unchecked(p) == TRUE
DescendsFromFinalityPoint(p) ==
    Final = {} \/ \E fp \in Final : IsFinalityPoint(fp) /\ fp \in chain[p]

(***************************************************************************)
(* The order in which tips are compared: blue score, then hash.            *)
(***************************************************************************)
Beats(b, s) == s > score[tip] \/ (s = score[tip] /\ b > tip)

(***************************************************************************)
(* The score of a block: its selected parent's, plus the blues it merges   *)
(* (the selected parent among them).                                       *)
(***************************************************************************)
NewScore(p, g) == score[p] + g

AddBlock(b, p, g) ==
    /\ b \notin known
    /\ DescendsFromFinalityPoint(p)
    /\ known' = known \cup {b}
    /\ chain' = [x \in known \cup {b} |-> IF x = b THEN chain[p] \cup {b} ELSE chain[x]]
    /\ score' = [x \in known \cup {b} |-> IF x = b THEN NewScore(p, g) ELSE score[x]]
    /\ tip' = IF Beats(b, NewScore(p, g)) THEN b ELSE tip

Next == \E b \in Block, p \in known, g \in Gain : AddBlock(b, p, g)

Spec == Init /\ [][Next]_vars

-----------------------------------------------------------------------------
(***************************************************************************)
(* Every known block has a selected chain of known blocks and a score.     *)
(***************************************************************************)
TypeOK ==
    /\ known \subseteq Block
    /\ chain \in [known -> SUBSET known]
    /\ score \in [known -> Nat]
    /\ tip \in known

(***************************************************************************)
(* The selected chains form a tree: each contains its own end, which has   *)
(* the highest score on it, with each block the whole chain of that block, *)
(* and of two of its blocks the lower one is on the chain of the higher    *)
(* (`selected_chain`).                                                     *)
(***************************************************************************)
ChainsAreTree ==
    \A b \in known :
        /\ b \in chain[b]
        /\ \A x \in chain[b] : score[x] <= score[b] /\ chain[x] \subseteq chain[b]
        /\ \A x, y \in chain[b] : score[x] <= score[y] => x \in chain[y]

(***************************************************************************)
(* The selected tip is the best of all known blocks, not only of those     *)
(* that were tips when it was chosen (`selected_tip`).                     *)
(***************************************************************************)
TipIsBest ==
    \A b \in known : score[b] < score[tip] \/ (score[b] = score[tip] /\ b <= tip)

(***************************************************************************)
(* What is final stays final: no sequence of blocks, however many a rival  *)
(* chain has, takes a block out of the finalized prefix (`add_block`: "A   *)
(* block's selected chain MUST descend from the current finality point").  *)
(***************************************************************************)
FinalGrows == [][Final \subseteq Final']_vars
=============================================================================
