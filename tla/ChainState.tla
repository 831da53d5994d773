----------------------------- MODULE ChainState -----------------------------
(***************************************************************************)
(* The block DAG of several Hassan nodes: mining on a node's own tips,     *)
(* delivery of blocks in any order and with any delay, validation, the     *)
(* finality rule, the finalized base ledger, the replay of the finality    *)
(* window, and the pruning of bodies and of history.                       *)
(*                                                                         *)
(* A transaction consumes coins and makes coins; a ledger is the set of    *)
(* unspent coins, the coinbase outputs and the number of subsidies minted. *)
(* The header's `state_root` is the ledger it commits to.  Proof of work,  *)
(* witnesses, timestamps and difficulty are taken to be valid: an honest   *)
(* miner made every block.  Genesis stands for a common block whose ledger *)
(* holds the coins of `SeedCoins`.                                         *)
(*                                                                         *)
(* D_Xxx is D with the mistake Xxx, to see that a property notices it.     *)
(***************************************************************************)
EXTENDS Ghostdag

CONSTANTS
    Node,               \* the nodes
    Archival,           \* the nodes that prune nothing
    BlockId,            \* hashes of the blocks that may be mined
    Tx,                 \* transactions
    Coin,               \* outpoints
    SeedCoins,          \* the coins unspent at genesis
    EscrowCoin,         \* coins that stand for the money of an open escrow
    Spends,             \* [Tx -> SUBSET Coin], the inputs of a transaction
    Makes,              \* [Tx -> SUBSET Coin], its outputs
    FINALITY_DEPTH,     \* blue-score depth of the finality point
    MAX_BLOCK_PARENTS,  \* most parents of a block
    MAX_MERGESET_SIZE,  \* most blocks that one block may merge
    MaxBody,            \* bound: transactions in a block
    HashWindow          \* bound: a new hash is one of the HashWindow smallest unused

GENESIS == 0

PRUNING_DEPTH == 2 * FINALITY_DEPTH

ASSUME ChainConstants ==
    /\ Archival \subseteq Node
    /\ BlockId \subseteq Nat \ {GENESIS}
    /\ None \notin BlockId \cup {GENESIS}
    /\ SeedCoins \subseteq Coin
    /\ EscrowCoin \subseteq Coin
    /\ Spends \in [Tx -> SUBSET Coin]
    /\ Makes \in [Tx -> SUBSET Coin]
    /\ FINALITY_DEPTH \in Nat \ {0}
    /\ MAX_BLOCK_PARENTS \in Nat \ {0}
    /\ MAX_MERGESET_SIZE \in Nat
    /\ MaxBody \in Nat
    /\ HashWindow \in Nat \ {0}

VARIABLES
    net,    \* every block mined so far: parents, body and state_root
    node    \* the ChainState of each node

vars == <<net, node>>

SeedLedger == [utxo |-> SeedCoins, coinbases |-> {}, minted |-> 0]

(***************************************************************************)
(* The reachability index, without its intervals: the blocks in it with    *)
(* their tree parents, and the blocks in their future covering sets.       *)
(* (Reachability.tla is about the intervals.)                              *)
(***************************************************************************)
EmptyIndex == [tree |-> [b \in {} |-> None], fcs |-> [b \in {} |-> {}]]

(***************************************************************************)
(* `Reachability::add_block`: under the selected parent, or as a root if   *)
(* that is not in the index, and into the covering set of every block that *)
(* it merges and the index knows.                                          *)
(***************************************************************************)
IndexBlock_BluesOnly(reach, b, data) ==
    LET known == DOMAIN reach.tree
        sp    == data.selected_parent
    IN [tree |-> [x \in known \cup {b} |->
                    IF x # b THEN reach.tree[x] ELSE IF sp \in known THEN sp ELSE None],
        fcs  |-> [x \in known \cup {b} |->
                    IF x = b THEN {}
                    ELSE IF x \in ToSet(data.mergeset_blues) \ {sp} THEN reach.fcs[x] \cup {b}
                    ELSE reach.fcs[x]]]

IndexBlock(reach, b, data) ==
    LET known == DOMAIN reach.tree
        sp    == data.selected_parent
    IN [tree |-> [x \in known \cup {b} |->
                    IF x # b THEN reach.tree[x] ELSE IF sp \in known THEN sp ELSE None],
        fcs  |-> [x \in known \cup {b} |->
                    IF x = b THEN {}
                    ELSE IF x \in ToSet(Merged(data)) THEN reach.fcs[x] \cup {b}
                    ELSE reach.fcs[x]]]

(***************************************************************************)
(* The fields of `ChainState` that matter here.  A block of `dag` is full  *)
(* until its body is pruned.                                               *)
(***************************************************************************)
NewChainState ==
    [dag |-> [b \in {GENESIS} |-> [parents |-> {}, body |-> <<>>, full |-> FALSE]],
     gd |-> [b \in {GENESIS} |-> GhostdagGenesis],
     tips |-> {GENESIS},
     base |-> SeedLedger, base_frontier |-> None,
     ledger |-> SeedLedger,
     reach |-> IndexBlock(EmptyIndex, GENESIS, GhostdagGenesis)]

Init ==
    /\ net = [b \in {GENESIS} |-> [parents |-> {}, body |-> <<>>, state_root |-> SeedLedger]]
    /\ node = [n \in Node |-> NewChainState]

-----------------------------------------------------------------------------
(***************************************************************************)
(* `apply_utxo_tx`, in its strict form (an error if an input is unknown)   *)
(* and as the replay uses it (such a transaction is skipped).              *)
(***************************************************************************)
Applies(l, t) == Spends[t] \subseteq l.utxo

ApplyTx(l, t) == [l EXCEPT !.utxo = (@ \ Spends[t]) \cup Makes[t]]

ApplyOrSkip(l, t) == IF Applies(l, t) THEN ApplyTx(l, t) ELSE l

ApplyBlockReward(l, b) == [l EXCEPT !.minted = @ + 1, !.coinbases = @ \cup {b}]

(***************************************************************************)
(* `apply_block_effects`: body with conflict-skip, then the reward.        *)
(***************************************************************************)
ApplyBlockEffects(s, l, b) ==
    IF s.dag[b].parents = {} THEN l
    ELSE ApplyBlockReward(FoldLeft(ApplyOrSkip, l, s.dag[b].body), b)

Replay(s, l, order) ==
    FoldLeft(LAMBDA acc, b : IF b \in DOMAIN s.dag THEN ApplyBlockEffects(s, acc, b) ELSE acc,
             l, order)

(***************************************************************************)
(* `replay_start`: the blocks of an order that are not yet in the base;    *)
(* all of them if the frontier does not occur in it.                       *)
(***************************************************************************)
AfterFrontier_Inclusive(s, order) ==
    LET i == SelectInSeq(order, LAMBDA b : b = s.base_frontier)
    IN IF i = 0 THEN order ELSE SubSeq(order, i, Len(order))

AfterFrontier(s, order) ==
    LET i == SelectInSeq(order, LAMBDA b : b = s.base_frontier)
    IN SubSeq(order, i + 1, Len(order))

VirtualStateAt(s, tip) ==
    Replay(s, s.base, AfterFrontier(s, CanonicalOrderAt(s.gd, tip)))

(***************************************************************************)
(* The form of a body: no outpoint twice, also where a transaction of the  *)
(* body would have made it again.                                          *)
(*                                                                         *)
(* `post_mergeset_state_root`: the state at the selected parent, the       *)
(* mergeset with conflict-skip, the block's own body strictly, its reward. *)
(***************************************************************************)
ValidateUtxoForms(body) ==
    \A i, j \in 1..Len(body) : i # j => Spends[body[i]] \cap Spends[body[j]] = {}

BodyApplies(l, body) ==
    \A i \in 1..Len(body) :
        Applies(FoldLeft(ApplyTx, l, SubSeq(body, 1, i - 1)), body[i])

MergedState_ParentOnly(s, data) == VirtualStateAt(s, data.selected_parent)
MergedState(s, data) == Replay(s, VirtualStateAt(s, data.selected_parent), Merged(data))

PostMergesetStateRoot(s, data, b, body) ==
    ApplyBlockReward(FoldLeft(ApplyTx, MergedState(s, data), body), b)

-----------------------------------------------------------------------------
SelectedTip(s) == Highest(s.gd, s.tips)

TipScore(s) == s.gd[SelectedTip(s)].blue_score

(***************************************************************************)
(* The highest block of a selected chain at least `depth` below its tip;   *)
(* None while the chain is no longer than that.  `finality_point` and the  *)
(* pruning point are both of this form.                                    *)
(***************************************************************************)
ChainPointBelow(s, depth) ==
    LET chain  == ToSet(SelectedChain(s.gd, SelectedTip(s)))
        buried == {b \in chain : s.gd[b].blue_score <= TipScore(s) - depth}
    IN IF TipScore(s) <= depth THEN None ELSE Highest(s.gd, buried)

FinalityPoint(s) == ChainPointBelow(s, FINALITY_DEPTH)

(***************************************************************************)
(* `Reachability::is_ancestor`, for all pairs: by the index if it has both *)
(* blocks (along the tree, or through a covering block), and otherwise by  *)
(* walking the parents of the held blocks.                                 *)
(***************************************************************************)
TreeAncestors(reach, b) ==
    LET up[x \in DOMAIN reach.tree] ==
            {x} \cup (IF reach.tree[x] = None THEN {} ELSE up[reach.tree[x]])
    IN up[b]

CoveredBy(reach, b) ==
    LET chain == TreeAncestors(reach, b)
    IN (chain \ {b}) \cup {a \in DOMAIN reach.tree : reach.fcs[a] \cap chain # {}}

IndexedPast(s) ==
    LET past    == PastMap(s.dag)
        known   == DOMAIN s.reach.tree
    IN [b \in DOMAIN past |->
          IF b \in known THEN CoveredBy(s.reach, b) \cup (past[b] \ known) ELSE past[b]]

(***************************************************************************)
(* `compute_ghostdag_data` as `ChainState` calls it.                       *)
(***************************************************************************)
GhostdagOf(s, parents) == ComputeGhostdagData(s.dag, s.gd, IndexedPast(s), parents)

(***************************************************************************)
(* `Reachability::is_chain_ancestor`: undecided (here: not refused) when   *)
(* either block is not in the index.                                       *)
(***************************************************************************)
NotOffFinalizedChain(s, sp) ==
    LET fp == FinalityPoint(s) IN
    {fp, sp} \subseteq DOMAIN s.reach.tree => fp \in TreeAncestors(s.reach, sp)

(***************************************************************************)
(* The checks of `add_block`, in its order.  A block off the finalized     *)
(* chain would be refused twice: its state_root cannot be recomputed from  *)
(* a base that holds blocks outside its past.                              *)
(***************************************************************************)
Admissible_FormOnly(s, b, blk) ==
    /\ b \notin DOMAIN s.dag
    /\ blk.parents # {}
    /\ Cardinality(blk.parents) <= MAX_BLOCK_PARENTS
    /\ blk.parents \subseteq DOMAIN s.dag

Admissible(s, b, blk) ==
    /\ b \notin DOMAIN s.dag
    /\ blk.parents # {}
    /\ Cardinality(blk.parents) <= MAX_BLOCK_PARENTS
    /\ blk.parents \subseteq DOMAIN s.dag
    /\ ValidateUtxoForms(blk.body)
    /\ NotOffFinalizedChain(s, Highest(s.gd, blk.parents))
    /\ LET data == GhostdagOf(s, blk.parents) IN
       /\ Len(Merged(data)) <= MAX_MERGESET_SIZE
       /\ BodyApplies(MergedState(s, data), blk.body)
       /\ blk.state_root = PostMergesetStateRoot(s, data, b, blk.body)

-----------------------------------------------------------------------------
(***************************************************************************)
(* The state changes of `add_block`, one operator for each step.           *)
(***************************************************************************)
NewTips_LastOnly(tips, b, blk) == {b}
NewTips(tips, b, blk) == (tips \ blk.parents) \cup {b}

InsertBlock(s, b, blk) ==
    LET data == GhostdagOf(s, blk.parents)
        held == [parents |-> blk.parents, body |-> blk.body, full |-> TRUE]
    IN [s EXCEPT
          !.dag  = [x \in DOMAIN @ \cup {b} |-> IF x = b THEN held ELSE @[x]],
          !.gd   = [x \in DOMAIN @ \cup {b} |-> IF x = b THEN data ELSE @[x]],
          !.tips = NewTips(@, b, blk),
          !.reach = IndexBlock(@, b, data)]

AdvanceFinalizedBase(s) ==
    LET fp    == FinalityPoint(s)
        order == CanonicalOrderAt(s.gd, SelectedTip(s))
        fpIdx == SelectInSeq(order, LAMBDA b : b = fp)
        start == SelectInSeq(order, LAMBDA b : b = s.base_frontier) + 1
    IN IF fp = None \/ fp = s.base_frontier \/ fpIdx = 0 \/ start > fpIdx + 1 THEN s
       ELSE [s EXCEPT !.base = Replay(s, @, SubSeq(order, start, fpIdx)),
                      !.base_frontier = fp]

RecomputeVirtualState_NoReset(s) ==
    [s EXCEPT !.ledger = Replay(s, @, AfterFrontier(s, CanonicalOrderAt(s.gd, SelectedTip(s))))]
RecomputeVirtualState(s) == [s EXCEPT !.ledger = VirtualStateAt(s, SelectedTip(s))]

(***************************************************************************)
(* `prune_bodies` clears every body at least FINALITY_DEPTH below the tip  *)
(* and tries to drop the block from the reachability index.  Only leaves   *)
(* of the tree can be dropped, and the blocks are visited in the arbitrary *)
(* order of a hash map: a parent goes too only if visited after all of its *)
(* children.                                                               *)
(***************************************************************************)
NewlyBuried(s) ==
    IF TipScore(s) <= FINALITY_DEPTH THEN {}
    ELSE {b \in DOMAIN s.dag : /\ s.dag[b].full
                               /\ s.gd[b].blue_score <= TipScore(s) - FINALITY_DEPTH}

TreeChildren(s, b) == {c \in DOMAIN s.reach.tree : s.reach.tree[c] = b}

DropOutcomes(s, buried) ==
    {D \in SUBSET (buried \cap DOMAIN s.reach.tree) :
        /\ \A b \in buried \cap DOMAIN s.reach.tree : TreeChildren(s, b) = {} => b \in D
        /\ \A b \in D : TreeChildren(s, b) \subseteq D}

(***************************************************************************)
(* What is left of the index when only the blocks of `keep` stay in it.    *)
(***************************************************************************)
RetainIndexed(reach, keep) ==
    [tree |-> [b \in DOMAIN reach.tree \cap keep |->
                 IF reach.tree[b] \in keep THEN reach.tree[b] ELSE None],
     fcs  |-> [b \in DOMAIN reach.tree \cap keep |-> reach.fcs[b] \cap keep]]

PruneBodies(s, buried, dropped) ==
    [s EXCEPT !.dag = [x \in DOMAIN @ |-> IF x \in buried
                                         THEN [@[x] EXCEPT !.body = <<>>, !.full = FALSE]
                                         ELSE @[x]],
              !.reach = RetainIndexed(@, DOMAIN s.dag \ dropped)]

(***************************************************************************)
(* `prune_history`: everything with a score below the pruning point's is   *)
(* forgotten, and survivors that lose their selected parent become roots.  *)
(***************************************************************************)
Reroot(data, keep) ==
    [data EXCEPT !.selected_parent = IF @ \in keep THEN @ ELSE None]

PruneHistory(s) ==
    LET pp   == ChainPointBelow(s, PRUNING_DEPTH)
        keep == {b \in DOMAIN s.dag : s.gd[b].blue_score >= s.gd[pp].blue_score}
    IN IF pp = None \/ keep = DOMAIN s.dag THEN s
       ELSE [s EXCEPT
               !.dag    = [b \in keep |-> @[b]],
               !.gd     = [b \in keep |-> Reroot(@[b], keep)],
               !.tips   = @ \cap keep,
               !.reach  = RetainIndexed(@, keep)]

AfterAdd(s, b, blk) ==
    RecomputeVirtualState(AdvanceFinalizedBase(InsertBlock(s, b, blk)))

AddBlock(n, b, blk) ==
    LET s == AfterAdd(node[n], b, blk) IN
    IF n \in Archival THEN node' = [node EXCEPT ![n] = s]
    ELSE \E dropped \in DropOutcomes(s, NewlyBuried(s)) :
            node' = [node EXCEPT ![n] = PruneHistory(PruneBodies(s, NewlyBuried(s), dropped))]

-----------------------------------------------------------------------------
(***************************************************************************)
(* `create_block_template`: the best tips up to the parent cap, and a body *)
(* selected from pending transactions that apply one after the other to    *)
(* the node's live state.                                                  *)
(***************************************************************************)
TemplateParents(s) ==
    {t \in s.tips : Cardinality({u \in s.tips \ {t} : HigherBlock(s.gd, u, t)}) < MAX_BLOCK_PARENTS}

SelectableBodies(s) == {body \in BoundedSeq(Tx, MaxBody) : BodyApplies(s.ledger, body)}

(***************************************************************************)
(* A node mines a block on its tips and adds it to its own state.  The     *)
(* template is bound to the state after the merge (`bind_parent_           *)
(* commitments`), which must succeed.                                      *)
(***************************************************************************)
Mine(n, b) ==
    LET s       == node[n]
        parents == TemplateParents(s)
        data    == GhostdagOf(s, parents)
    IN /\ b \notin DOMAIN net
       /\ Cardinality({x \in BlockId \ DOMAIN net : x < b}) < HashWindow
       /\ \E body \in SelectableBodies(s) :
            /\ BodyApplies(MergedState(s, data), body)
            /\ LET blk == [parents |-> parents, body |-> body,
                           state_root |-> PostMergesetStateRoot(s, data, b, body)]
               IN /\ Admissible(s, b, blk)
                  /\ net' = [x \in DOMAIN net \cup {b} |-> IF x = b THEN blk ELSE net[x]]
                  /\ AddBlock(n, b, blk)

(***************************************************************************)
(* A node receives a block that another one mined.  A block that is not    *)
(* admissible changes nothing and may be offered again later.              *)
(***************************************************************************)
Receive(n, b) ==
    /\ b \in DOMAIN net
    /\ Admissible(node[n], b, net[b])
    /\ AddBlock(n, b, net[b])
    /\ UNCHANGED net

(***************************************************************************)
(* `load_one`.  A saved state is refused unless its selected chain is held *)
(* and starts at genesis or at a pruning point, and unless what it has     *)
(* minted is found in its live ledger, where the money of an open escrow   *)
(* is overlooked (`supply_invariant_ok`).                                  *)
(***************************************************************************)
ValidateHardcodedChain(s) ==
    /\ GENESIS \in DOMAIN s.dag \/ TipScore(s) > PRUNING_DEPTH
    /\ ToSet(SelectedChain(s.gd, SelectedTip(s))) \subseteq DOMAIN s.dag

SupplyInvariantOk(s) == s.ledger.utxo \cap EscrowCoin = {}

(***************************************************************************)
(* `rebuild_derived`: the held blocks enter an empty index one by one with *)
(* their stored data, every block after its held parents but otherwise in  *)
(* the order of a hash map, also those that had been dropped.  These are   *)
(* the indexes that `n` insertions may give.                               *)
(***************************************************************************)
Ready_AnyOrder(dag, done) == DOMAIN dag \ done
Ready(dag, done) == {b \in DOMAIN dag \ done : dag[b].parents \cap DOMAIN dag \subseteq done}

RebuiltIndexes(s) ==
    LET after[n \in 0..Cardinality(DOMAIN s.dag)] ==
            IF n = 0 THEN {EmptyIndex}
            ELSE UNION {{IndexBlock(r, b, s.gd[b]) : b \in Ready(s.dag, DOMAIN r.tree)} : r \in after[n - 1]}
    IN after[Cardinality(DOMAIN s.dag)]

(***************************************************************************)
(* A restart between two blocks: the live ledger is recomputed from the    *)
(* stored base.                                                            *)
(***************************************************************************)
RebuildDerived(s, reach) == RecomputeVirtualState([s EXCEPT !.reach = reach])

Reload(n) ==
    /\ ValidateHardcodedChain(node[n])
    /\ SupplyInvariantOk(node[n])
    /\ \E reach \in RebuiltIndexes(node[n]) :
          node' = [node EXCEPT ![n] = RebuildDerived(@, reach)]
    /\ UNCHANGED net

Next ==
    \/ \E n \in Node, b \in BlockId : Mine(n, b) \/ Receive(n, b)
    \/ \E n \in Node : Reload(n)

Spec == Init /\ [][Next]_vars

-----------------------------------------------------------------------------
(***************************************************************************)
(* Two nodes that hold the same blocks agree on tip, finalized base and    *)
(* live state, in whatever order the blocks arrived and whenever each node *)
(* folded its base (`advance_finalized_base`, `recompute_virtual_state`:   *)
(* "every node with the same DAG agrees").                                 *)
(***************************************************************************)
SameDagSameState ==
    \A m, n \in Node :
        DOMAIN node[m].dag = DOMAIN node[n].dag =>
            /\ SelectedTip(node[m]) = SelectedTip(node[n])
            /\ node[m].base_frontier = node[n].base_frontier
            /\ node[m].base = node[n].base
            /\ node[m].ledger = node[n].ledger

(***************************************************************************)
(* Folding finalized blocks into the base and replaying the window on top  *)
(* gives exactly what one replay of the whole canonical order from genesis *)
(* gives, so a restart or a late fold cannot change the ledger             *)
(* (`advance_finalized_base`: "identical whether a block is folded         *)
(* incrementally or replayed fresh on reload").                            *)
(***************************************************************************)
FullReplay(s, tip) == Replay(s, SeedLedger, CanonicalOrderAt(s.gd, tip))

LedgerIsFullReplay ==
    \A n \in Archival : node[n].ledger = FullReplay(node[n], SelectedTip(node[n]))

(***************************************************************************)
(* A header's state_root is a statement about the block's past only: every *)
(* node that holds the block, whatever else it holds and wherever its own  *)
(* base stands, would recompute the same root for it                       *)
(* (`post_mergeset_state_root`).                                           *)
(***************************************************************************)
StateRootIsPastOnly ==
    \A n \in Archival : \A b \in DOMAIN node[n].dag :
        net[b].state_root = FullReplay(node[n], b)

(***************************************************************************)
(* The blue set seen by any block is a k-cluster: no blue block has more   *)
(* than K blue blocks in its anticone (`color_candidate_blue`).            *)
(***************************************************************************)
BluesFormKCluster ==
    \A n \in Node : \A b \in DOMAIN node[n].gd :
        LET past  == PastMap(node[n].dag)
            blues == MaterializedBlues(node[n].gd, b)
        IN \A x \in blues :
              Cardinality({y \in blues : InAnticone(past, x, y)}) <= GHOSTDAG_K


(***************************************************************************)
(* The canonical order holds every block of the selected tip's past once.  *)
(* A block takes effect before one of its own past only where a block that *)
(* merges both coloured it blue and the ancestor red: everywhere else the  *)
(* order is topological, along the chain and inside each mergeset          *)
(* (`canonical_order_at`, `topological_order`).                            *)
(***************************************************************************)
OnlyRedsComeLate ==
    \A n \in Archival :
        LET s     == node[n]
            past  == PastMap(s.dag)
            order == CanonicalOrderAt(s.gd, SelectedTip(s))
        IN /\ ToSet(order) = past[SelectedTip(s)] \cup {SelectedTip(s)}
           /\ IsInjective(order)
           /\ \A i, j \in 1..Len(order) :
              i < j /\ order[j] \in past[order[i]] =>
                 \E c \in ToSet(SelectedChain(s.gd, SelectedTip(s))) :
                    order[i] \in ToSet(s.gd[c].mergeset_blues) /\ order[j] \in ToSet(s.gd[c].mergeset_reds)

(***************************************************************************)
(* What is final stays final: the finality point of a node is on its       *)
(* selected chain ever after, whatever is mined or arrives later           *)
(* (`add_block`: "A block's selected chain MUST descend from the current   *)
(* finality point").                                                       *)
(***************************************************************************)
FinalityStep ==
    \A n \in Node :
        LET fp == FinalityPoint(node[n]) IN
        fp # None => Contains(SelectedChain(node'[n].gd, Highest(node'[n].gd, node'[n].tips)), fp)

FinalityNeverReverts == [][FinalityStep]_vars

(***************************************************************************)
(* The index of an archival node, grown block by block in the order in     *)
(* which the blocks arrived, is the one that a restart builds, whatever    *)
(* parents-first order the hash map gives: no answer of `is_ancestor`      *)
(* depends on arrival or on restarts (`rebuild_derived`, `add_block`).     *)
(***************************************************************************)
ReplayRebuildsIndex ==
    \A n \in Archival : RebuiltIndexes(node[n]) = {node[n].reach}

(***************************************************************************)
(* On an archival node the index, which looks only along the tree and at   *)
(* one covering block, gives of all pairs of blocks the answer that a walk *)
(* over the parents gives: what is coloured, ordered and refused by it     *)
(* depends on the blocks alone (`is_ancestor`: "reachability index         *)
(* disagrees with BFS").                                                   *)
(***************************************************************************)
IndexIsExact == \A n \in Archival : IndexedPast(node[n]) = PastMap(node[n].dag)

(***************************************************************************)
(* A node can always bind the template that it builds from its own tips    *)
(* and from transactions that apply to its live state and that no block it *)
(* holds includes (`drop_included_from_mempools` forgets those):           *)
(* `create_block_template` unwraps the result of `bind_parent_commitments`,*)
(* "template parents must yield a selected parent".                        *)
(***************************************************************************)
Included(s) == UNION {ToSet(s.dag[b].body) : b \in DOMAIN s.dag}

TemplateBinds ==
    \A n \in Node :
        LET s    == node[n]
            data == GhostdagOf(s, TemplateParents(s))
        IN \A body \in SelectableBodies(s) :
              ToSet(body) \cap Included(s) = {} => BodyApplies(MergedState(s, data), body)

(***************************************************************************)
(* The selected-chain view of a node.                                      *)
(***************************************************************************)
ChainView(n) ==
    INSTANCE FinalityChain WITH
        Block <- BlockId \cup {GENESIS},
        Root  <- GENESIS,
        Gain  <- 1..(MAX_MERGESET_SIZE + 1),
        Depth <- FINALITY_DEPTH,
        known <- DOMAIN node[n].gd,
        chain <- [b \in DOMAIN node[n].gd |-> ToSet(SelectedChain(node[n].gd, b))],
        score <- [b \in DOMAIN node[n].gd |-> node[n].gd[b].blue_score],
        tip   <- SelectedTip(node[n])

(***************************************************************************)
(* Every archival node implements FinalityChain: with mergesets, colouring *)
(* and deliveries in any order, each step of `add_block` puts one block on *)
(* a chain that holds the finality point, and the best of the tips is the  *)
(* best of all blocks.  (This is \A n \in Archival : ChainView(n)!Spec with *)
(* the quantifier moved inside [].)                                        *)
(***************************************************************************)
ImplementsFinalityChain ==
    /\ \A n \in Archival : ChainView(n)!Init
    /\ [][\A n \in Archival : [ChainView(n)!Next]_(ChainView(n)!vars)]_vars
=============================================================================
