---------------------------- MODULE Reachability ----------------------------
(***************************************************************************)
(* The reachability index: every block has an interval inside that of its  *)
(* selected parent, and a covering set of later blocks that merged it.     *)
(* Placing a child takes most of what is left of its parent's interval;    *)
(* when nothing is left, all intervals are laid out anew.  Leaves of the   *)
(* tree are dropped when their body is pruned, whole prefixes when history *)
(* is.                                                                     *)
(*                                                                         *)
(* Blocks are numbers in the order of their arrival.  All are blue, so the *)
(* blue score is the number of ancestors.                                  *)
(*                                                                         *)
(* D_Xxx is D with the mistake Xxx, to see that a property notices it.     *)
(***************************************************************************)
EXTENDS Integers, Sequences, SequencesExt, FiniteSetsExt

CONSTANTS
    SCALE,             \* interval units per block of a new layout
    SIBLING_RESERVE,   \* units held back for later siblings
    SPACE_START,       \* first unit
    BURIED,            \* FINALITY_DEPTH
    FORGOTTEN,         \* PRUNING_DEPTH
    MaxParents,        \* bound: parents of a block
    MaxIndexed,        \* bound: blocks
    MaxReloaded        \* bound: held blocks of a node that restarts

ASSUME IndexAssumption ==
    /\ {SIBLING_RESERVE, SPACE_START, BURIED, FORGOTTEN, MaxParents, MaxIndexed, MaxReloaded} \subseteq Nat
    /\ SCALE \in Nat \ {0, 1}

VARIABLE dagIndex  \* of one node: a record with
                \*   nodes     block -> interval, tree links, next free unit, covering set
                \*   nextRoot  next_root_start
                \*   held      the keys of the dag
                \*   bodies    held blocks whose body is not pruned
                \*   past      block -> its ancestors, also the forgotten ones
                \*   chain     block -> its selected chain with itself
                \*   archival  the node prunes nothing
                \*   cut       history: blocks entered as roots, their selected parent dropped

NoBlock == 0

Node(first, last, parent) ==
    [start |-> first, end |-> last, parent |-> parent, children |-> <<>>, free |-> first, fcs |-> <<>>]

IndexedInit ==
    \E archival \in BOOLEAN :
        dagIndex = [nodes |-> [b \in {1} |-> Node(SPACE_START, SPACE_START + SCALE - 1, NoBlock)],
                 nextRoot |-> SPACE_START + SCALE, held |-> {1}, bodies |-> {1},
                 past |-> <<{}>>, chain |-> <<{1}>>, archival |-> archival, cut |-> {}]

-----------------------------------------------------------------------------
Encloses(x, y) == x.start <= y.start /\ y.end <= x.end

(***************************************************************************)
(* `fcs_contains_cover`: the only candidate is the last entry that starts  *)
(* no later than the target.                                               *)
(***************************************************************************)
StartsBefore(ns, fcs, target) == Cardinality({i \in DOMAIN fcs : ns[fcs[i]].start <= target.start})

FcsContainsCover(ns, b, target) ==
    LET fcs == ns[b].fcs
        idx == StartsBefore(ns, fcs, target)
    IN idx > 0 /\ Encloses(ns[fcs[idx]], target)

(***************************************************************************)
(* `is_ancestor`, by the index or, if it lacks a block, along the parents  *)
(* of the held blocks.                                                     *)
(***************************************************************************)
IsAncestor(s, a, b) ==
    IF {a, b} \subseteq DOMAIN s.nodes
    THEN /\ a # b
         /\ Encloses(s.nodes[a], s.nodes[b]) \/ FcsContainsCover(s.nodes, a, s.nodes[b])
    ELSE a \in s.past[b]

(***************************************************************************)
(* `try_place_child`.                                                      *)
(***************************************************************************)
HasRoom(ns, p) == ns[p].free < ns[p].end

Width(avail) == IF avail > SIBLING_RESERVE THEN avail - SIBLING_RESERVE ELSE avail

PlaceChild(ns, p, b) ==
    LET first == ns[p].free
        last == first + Width(ns[p].end - first) - 1
    IN (b :> Node(first, last, p)) @@ [ns EXCEPT ![p].free = last + 1, ![p].children = Append(@, b)]

(***************************************************************************)
(* `reindex_all`: each tree gets room for all of its blocks, the roots in  *)
(* the order of a hash map, and the children of a block in turn.           *)
(***************************************************************************)
Roots(ns) == {b \in DOMAIN ns : ns[b].parent \notin DOMAIN ns}

SubtreeSizes(ns) ==
    LET size[b \in DOMAIN ns] == 1 + FoldLeft(LAMBDA n, c : n + size[c], 0, ns[b].children)
    IN size

SortedFcs(fcs, start) == SetToSortSeq(ToSet(fcs), LAMBDA x, y : start[x] < start[y])

ReindexAll(ns, roots) ==
    LET size == SubtreeSizes(ns)
        Before(s, i) == FoldLeft(LAMBDA n, x : n + size[x] * SCALE, 0, SubSeq(s, 1, i - 1))
        Offset(s, b) == Before(s, CHOOSE i \in DOMAIN s : s[i] = b)
        start[b \in DOMAIN ns] ==
          IF b \in Roots(ns) THEN SPACE_START + Offset(roots, b)
          ELSE start[ns[b].parent] + Offset(ns[ns[b].parent].children, b)
    IN [b \in DOMAIN ns |->
          [ns[b] EXCEPT !.start = start[b],
                        !.end = start[b] + size[b] * SCALE - 1,
                        !.free = start[b] + (size[b] - 1) * SCALE,
                        !.fcs = SortedFcs(@, start)]]

(***************************************************************************)
(* `insert_to_fcs` of b into each block it merges.                         *)
(***************************************************************************)
InsertToFcs(ns, mergeset, b) ==
    [x \in DOMAIN ns |->
        IF x \notin mergeset \/ FcsContainsCover(ns, x, ns[b]) THEN ns[x]
        ELSE [ns[x] EXCEPT !.fcs = InsertAt(@, StartsBefore(ns, @, ns[b]) + 1, b)]]

Score(s, b) == Cardinality(s.past[b])
Tip(s) ==
    CHOOSE t \in s.held : \A b \in s.held :
        Score(s, b) < Score(s, t) \/ (Score(s, b) = Score(s, t) /\ b <= t)

(***************************************************************************)
(* The blocks of the selected chain at least so far below the tip.         *)
(***************************************************************************)
ChainBelow(s, depth) ==
    LET tip == Tip(s)
    IN {b \in s.chain[tip] \cap s.held : Score(s, tip) > depth /\ Score(s, b) <= Score(s, tip) - depth}

Merges_Parents(s, parents, sp) == parents \ {sp}
Merges(s, parents, sp) ==
    (parents \cup UNION {s.past[p] : p \in parents}) \ (s.past[sp] \cup {sp})

(***************************************************************************)
(* `Reachability::add_block`: under the selected parent, after a new       *)
(* layout if that has no room left; as a root when it is not in the index. *)
(***************************************************************************)
Placements(s, sp, b) ==
    IF sp \notin DOMAIN s.nodes
    THEN {[s EXCEPT !.nodes = (b :> Node(s.nextRoot, s.nextRoot + SCALE - 1, NoBlock)) @@ @,
                    !.nextRoot = @ + SCALE, !.cut = @ \cup {b}]}
    ELSE IF HasRoom(s.nodes, sp) THEN {[s EXCEPT !.nodes = PlaceChild(@, sp, b)]}
    ELSE {[s EXCEPT !.nodes = PlaceChild(ReindexAll(@, roots), sp, b),
                    !.nextRoot = SPACE_START + SCALE * Cardinality(DOMAIN s.nodes)] :
             roots \in SetToSeqs(Roots(s.nodes))}

InsertBlock(s, parents, sp) ==
    LET b == Len(s.past) + 1
        grown == [s EXCEPT !.held = @ \cup {b}, !.bodies = @ \cup {b},
                           !.past = Append(@, parents \cup UNION {s.past[p] : p \in parents}),
                           !.chain = Append(@, s.chain[sp] \cup {b})]
    IN {[p EXCEPT !.nodes = InsertToFcs(@, Merges(s, parents, sp) \cap DOMAIN s.nodes, b)] :
           p \in Placements(grown, sp, b)}

(***************************************************************************)
(* `drop_leaf`; `prune_bodies` calls it for the blocks that it finds       *)
(* buried, in the order of a hash map.                                     *)
(***************************************************************************)
DropLeaf(ns, b) ==
    IF b \notin DOMAIN ns \/ ns[b].children # <<>> THEN ns
    ELSE [x \in DOMAIN ns \ {b} |-> [ns[x] EXCEPT !.children = SelectSeq(@, LAMBDA c : c # b),
                                                 !.fcs = SelectSeq(@, LAMBDA c : c # b)]]

PruneBodies(s) ==
    LET tip == Score(s, Tip(s))
        buried == {b \in s.bodies : tip > BURIED /\ Score(s, b) <= tip - BURIED}
        dropped[S \in SUBSET buried] ==
          IF S = {} THEN {s.nodes} ELSE UNION {{DropLeaf(ns, b) : ns \in dropped[S \ {b}]} : b \in S}
    IN {[s EXCEPT !.bodies = @ \ buried, !.nodes = ns] : ns \in dropped[buried]}

(***************************************************************************)
(* `prune_history` with `retain`: the blocks below the score of the        *)
(* pruning point go, and survivors without their parent become roots.      *)
(***************************************************************************)
Retain(ns, keep) ==
    [b \in DOMAIN ns \cap keep |->
        [ns[b] EXCEPT !.parent = IF @ \in keep THEN @ ELSE NoBlock,
                      !.children = SelectSeq(@, LAMBDA c : c \in keep),
                      !.fcs = SelectSeq(@, LAMBDA c : c \in keep)]]

NextRootAfter(ns) == Max({SPACE_START} \cup {ns[b].end + 1 : b \in DOMAIN ns})

PruneHistory(s) ==
    LET below == ChainBelow(s, FORGOTTEN)
        keep == {b \in s.held : \A x \in below : Score(s, b) >= Score(s, x)}
    IN IF below = {} \/ keep = s.held THEN s
       ELSE [s EXCEPT !.held = keep, !.bodies = @ \cap keep, !.nodes = Retain(@, keep),
                      !.nextRoot = NextRootAfter(Retain(s.nodes, keep))]

(***************************************************************************)
(* The finality rule: the intervals must not deny that the selected parent *)
(* descends from the finality point.  `is_chain_ancestor` has no answer if *)
(* one of the two is not in the index, and then the block passes.          *)
(***************************************************************************)
FinalityPoints(s) ==
    {fp \in ChainBelow(s, BURIED) : \A b \in ChainBelow(s, BURIED) : Score(s, b) <= Score(s, fp)}

NotOffFinalChain(s, sp) ==
    \A fp \in FinalityPoints(s) :
        {fp, sp} \subseteq DOMAIN s.nodes => Encloses(s.nodes[fp], s.nodes[sp])

(***************************************************************************)
(* The part of `ChainState::add_block` that is about the index: the        *)
(* finality rule, the insertion and, unless archival, the two prunings.    *)
(***************************************************************************)
AddToIndex(parents, sp) ==
    /\ Len(dagIndex.past) < MaxIndexed
    /\ \A p \in parents : Score(dagIndex, p) <= Score(dagIndex, sp)
    /\ NotOffFinalChain(dagIndex, sp)
    /\ \E s \in InsertBlock(dagIndex, parents, sp) :
          IF s.archival THEN dagIndex' = s
          ELSE \E pruned \in PruneBodies(s) : dagIndex' = PruneHistory(pruned)

(***************************************************************************)
(* A restart: `rebuild_derived` replays the held blocks, parents first but *)
(* otherwise in the order of a hash map, under their selected parents.     *)
(* Blocks that had been dropped from the index are in it again.            *)
(***************************************************************************)
TopologicalOrders(s) ==
    {order \in SetToSeqs(s.held) : \A i, j \in DOMAIN order : order[i] \in s.past[order[j]] => i < j}

SelectedParentOf(s, b) ==
    IF s.chain[b] = {b} THEN NoBlock
    ELSE CHOOSE p \in s.chain[b] \ {b} : \A x \in s.chain[b] \ {b} : Score(s, x) <= Score(s, p)

MergesetOf(s, b) ==
    LET sp == SelectedParentOf(s, b)
    IN IF sp = NoBlock THEN {} ELSE s.past[b] \ (s.past[sp] \cup {sp})

RebuildDerived(s, order) ==
    LET Replayed(S, b) ==
          {[p EXCEPT !.nodes = InsertToFcs(@, MergesetOf(s, b) \cap DOMAIN @, b)] :
              p \in UNION {Placements(r, SelectedParentOf(s, b), b) : r \in S}}
        empty == [s EXCEPT !.nodes = [b \in {} |-> Node(0, 0, NoBlock)], !.nextRoot = SPACE_START]
    IN {[r EXCEPT !.cut = {}] : r \in FoldLeft(Replayed, {empty}, order)}

ReloadIndex ==
    /\ Cardinality(dagIndex.held) <= MaxReloaded
    /\ \E order \in TopologicalOrders(dagIndex) : dagIndex' \in RebuildDerived(dagIndex, order)

Antichain(S) == \A x, y \in S : x \notin dagIndex.past[y]

IndexedNext ==
    \/ ReloadIndex
    \/ \E parents \in UNION {kSubset(k, dagIndex.held) : k \in 1..MaxParents} :
        Antichain(parents) /\ \E sp \in parents : AddToIndex(parents, sp)

-----------------------------------------------------------------------------
(***************************************************************************)
(* Through new layouts, dropped leaves and forgotten prefixes the index    *)
(* never claims an ancestor that is none, and overlooks one only for a     *)
(* block that was mined on a dropped leaf, and for those above it; and it  *)
(* overlooks none after a restart (`is_ancestor`, `drop_leaf`, `retain`,   *)
(* `rebuild_derived`).                                                     *)
(***************************************************************************)
IndexErrsAboveCutsOnly ==
    \A a, b \in dagIndex.held :
        /\ IsAncestor(dagIndex, a, b) => a \in dagIndex.past[b]
        /\ a \in dagIndex.past[b] /\ ~IsAncestor(dagIndex, a, b)
             => ({b} \cup dagIndex.past[b]) \cap dagIndex.cut # {}
=============================================================================
