------------------------------ MODULE Ghostdag ------------------------------
(***************************************************************************)
(* The GHOSTDAG ordering of a block DAG: selected parent, mergeset,        *)
(* k-cluster colouring, selected chain and canonical order.                *)
(*                                                                         *)
(* A block hash is a natural number; its order is the order of the hashes, *)
(* which breaks every tie.  Operators take the two maps the code passes    *)
(* around: `dag`, the blocks a node holds, of which only the parents are   *)
(* read here, and `gd`, the GHOSTDAG data of these blocks.  Ancestry comes *)
(* in two forms: `past`, found by walking parent links, and `reach`, the   *)
(* answers of the reachability index, block -> ancestors.  The mergeset is *)
(* walked; ordering and colouring ask the index.                           *)
(*                                                                         *)
(* D_Xxx is D with the mistake Xxx, to see that a property notices it.     *)
(***************************************************************************)
EXTENDS Integers, FiniteSets, Sequences, SequencesExt

CONSTANTS
    GHOSTDAG_K,   \* largest blue anticone
    None          \* the absent value of an Option

ASSUME GhostdagConstants == GHOSTDAG_K \in Nat

(***************************************************************************)
(* GhostdagData: mergeset_blues[1] is the selected parent.                 *)
(***************************************************************************)
GhostdagGenesis == [blue_score |-> 0, selected_parent |-> None,
                    mergeset_blues |-> <<>>, mergeset_reds |-> <<>>]

(***************************************************************************)
(* The blocks met by following parent links from each block of the DAG.  A *)
(* parent that the node no longer holds is met but not followed.           *)
(***************************************************************************)
PastMap(dag) ==
    LET past[b \in DOMAIN dag \cup UNION {dag[x].parents : x \in DOMAIN dag}] ==
            IF b \notin DOMAIN dag THEN {}
            ELSE UNION {{p} \cup past[p] : p \in dag[b].parents}
    IN past

HigherBlock(gd, a, b) ==
    \/ gd[a].blue_score > gd[b].blue_score
    \/ gd[a].blue_score = gd[b].blue_score /\ a >= b

(***************************************************************************)
(* `select_parent` and `selected_tip`: the block with the highest blue     *)
(* score, and of these the one with the largest hash.                      *)
(***************************************************************************)
Highest(gd, S) ==
    LET known == S \cap DOMAIN gd IN
    IF known = {} THEN None
    ELSE CHOOSE a \in known : \A b \in known : HigherBlock(gd, a, b)

(***************************************************************************)
(* `selected_chain`: from the base up to `tip` along selected parents.     *)
(***************************************************************************)
SelectedChain(gd, tip) ==
    LET chain[b \in DOMAIN gd] ==
            IF gd[b].selected_parent = None THEN <<b>>
            ELSE Append(chain[gd[b].selected_parent], b)
    IN chain[tip]

MaterializedBlues(gd, b) ==
    {b} \cup UNION {ToSet(gd[c].mergeset_blues) : c \in ToSet(SelectedChain(gd, b))}

Mergeset(past, parents, sp) ==
    (parents \cup UNION {past[p] : p \in parents}) \ ({sp} \cup past[sp])

(***************************************************************************)
(* `topological_order`: by the number of ancestors inside the mergeset,    *)
(* then by hash.                                                           *)
(***************************************************************************)
TopologicalOrder_ByHash(reach, ms) == SetToSortSeq(ms, LAMBDA a, b : a < b)

TopologicalOrder(reach, ms) ==
    LET rank(h)      == Cardinality(reach[h] \cap ms)
        before(a, b) == rank(a) < rank(b) \/ (rank(a) = rank(b) /\ a < b)
        place(h)     == Cardinality({x \in ms : before(x, h)}) + 1
    IN [i \in 1..Cardinality(ms) |-> CHOOSE h \in ms : place(h) = i]

InAnticone(reach, x, y) == x # y /\ x \notin reach[y] /\ y \notin reach[x]

(***************************************************************************)
(* `color_candidate_blue`: the candidate has at most K blues in its        *)
(* anticone, and each of these has fewer than K in its own.                *)
(***************************************************************************)
ColorCandidateBlue_OwnSideOnly(reach, blues, c) ==
    Cardinality({b \in blues : InAnticone(reach, b, c)}) <= GHOSTDAG_K

ColorCandidateBlue(reach, blues, c) ==
    LET anticone(x) == {b \in blues : InAnticone(reach, b, x)} IN
    /\ Cardinality(anticone(c)) <= GHOSTDAG_K
    /\ \A d \in anticone(c) : Cardinality(anticone(d)) < GHOSTDAG_K

(***************************************************************************)
(* `try_compute_ghostdag_data`, without its bound on the mergeset, which   *)
(* the caller checks.                                                      *)
(***************************************************************************)
ComputeGhostdagData(dag, gd, reach, parents) ==
    LET past  == PastMap(dag)
        sp    == Highest(gd, parents)
        color(acc, c) ==
            IF ColorCandidateBlue(reach, acc.seen, c)
            THEN [acc EXCEPT !.seen = @ \cup {c}, !.blues = Append(@, c)]
            ELSE [acc EXCEPT !.reds = Append(@, c)]
        done  == FoldLeft(color,
                          [seen |-> MaterializedBlues(gd, sp), blues |-> <<sp>>, reds |-> <<>>],
                          TopologicalOrder(reach, Mergeset(past, parents, sp)))
    IN [blue_score      |-> gd[sp].blue_score + Len(done.blues),
        selected_parent |-> sp,
        mergeset_blues  |-> done.blues,
        mergeset_reds   |-> done.reds]

(***************************************************************************)
(* The merged blocks of one block in the order in which they take effect:  *)
(* blues after the selected parent, then reds.                             *)
(***************************************************************************)
Merged(data) ==
    (IF data.mergeset_blues = <<>> THEN <<>> ELSE Tail(data.mergeset_blues))
        \o data.mergeset_reds

(***************************************************************************)
(* `canonical_order_at`: each block of the selected chain, preceded by the *)
(* blocks that it merges and the node holds; every block once.             *)
(***************************************************************************)
CanonicalOrderAt(gd, tip) ==
    LET add(acc, b)  == IF Contains(acc, b) \/ b \notin DOMAIN gd THEN acc
                        ELSE Append(acc, b)
        emit(acc, c) == add(FoldLeft(add, acc, Merged(gd[c])), c)
    IN FoldLeft(emit, <<>>, SelectedChain(gd, tip))
=============================================================================
