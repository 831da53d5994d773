------------------------------ MODULE Indexer ------------------------------
(***************************************************************************)
(* The explorer's index of the selected chain, kept in memory and in a     *)
(* file of its own.  It follows the chain by height: through reorgs, the   *)
(* pruning of the chain's lower part, and restarts at which the chain and  *)
(* the index are read from files that were written at different times.     *)
(*                                                                         *)
(* Blocks of this version hold no account transfers, so the transfer and   *)
(* address tables are empty.  Labels are never removed and say nothing of  *)
(* the chain.  D_Xxx is D with the mistake Xxx.                            *)
(***************************************************************************)
EXTENDS Integers, Sequences, SequencesExt, FiniteSetsExt

CONSTANTS
    ChainBlock,         \* blocks, genesis among them
    Genesis,
    SelectedParent,     \* [ChainBlock \ {Genesis} -> ChainBlock]
    FinalityDepth,      \* reorgs reach no deeper, and no more blocks than these are kept
    MAX_SERIES_POINTS,  \* points of the series
    MaxRestarts         \* bound: restarts

VARIABLES
    base,       \* pruned_selected_blocks
    mainChain,  \* the selected chain above base
    index,      \* [blocks, byHash, series, tip]
    disk,       \* the files: [chain, base, index]
    restarts

indexVars == <<base, mainChain, index, disk, restarts>>

Empty == [blocks |-> [h \in {} |-> Genesis], byHash |-> [b \in {} |-> 0], series |-> <<>>, tip |-> -1]

IndexInit ==
    /\ base = 0
    /\ mainChain = <<Genesis>>
    /\ index = Empty
    /\ disk = [chain |-> <<Genesis>>, base |-> 0, index |-> Empty]
    /\ restarts = 0

-----------------------------------------------------------------------------
(***************************************************************************)
(* The chain moves: a block on top of some block not below the finality    *)
(* depth becomes the tip.                                                  *)
(***************************************************************************)
MoveTip ==
    \E b \in ChainBlock, i \in DOMAIN mainChain :
        /\ b # Genesis /\ SelectedParent[b] = mainChain[i]
        /\ Len(mainChain) - i <= FinalityDepth
        /\ b \notin ToSet(mainChain)
        /\ mainChain' = Append(SubSeq(mainChain, 1, i), b)
        /\ UNCHANGED <<base, index, disk, restarts>>

PruneChain ==
    /\ Len(mainChain) > FinalityDepth + 1
    /\ mainChain' = Tail(mainChain)
    /\ base' = base + 1
    /\ UNCHANGED <<index, disk, restarts>>

-----------------------------------------------------------------------------
(***************************************************************************)
(* `trim_from_height`: all that is indexed from a height up goes.          *)
(***************************************************************************)
TrimFromHeight_ThatHeight(x, height) ==
    [x EXCEPT !.blocks = [h \in DOMAIN @ \ {height} |-> @[h]],
              !.byHash = [b \in DOMAIN @ \ {x.blocks[height]} |-> @[b]],
              !.series = SelectSeq(@, LAMBDA p : p # height)]
TrimFromHeight(x, height) ==
    LET dropped == {x.blocks[h] : h \in {h \in DOMAIN x.blocks : h >= height}}
    IN [x EXCEPT !.blocks = [h \in {h \in DOMAIN @ : h < height} |-> @[h]],
                 !.byHash = [b \in DOMAIN @ \ dropped |-> @[b]],
                 !.series = SelectSeq(@, LAMBDA p : p < height)]

(***************************************************************************)
(* One height of `sync_from_state`.  x may hold another block there.       *)
(***************************************************************************)
IndexHeight(x, height, b) ==
    IF height \in DOMAIN x.blocks /\ x.blocks[height] = b THEN x
    ELSE LET y == IF height \in DOMAIN x.blocks THEN TrimFromHeight(x, height) ELSE x
         IN [y EXCEPT !.blocks = [h \in DOMAIN @ \cup {height} |-> IF h = height THEN b ELSE @[h]],
                      !.byHash = [c \in DOMAIN @ \cup {b} |-> IF c = b THEN height ELSE @[c]],
                      !.series = Append(@, height)]

SyncFromState(x) ==
    LET all == FoldLeft(LAMBDA y, i : IndexHeight(y, base + i - 1, mainChain[i]),
                        x, [i \in DOMAIN mainChain |-> i])
        over == Len(all.series) - MAX_SERIES_POINTS
    IN [all EXCEPT !.series = IF over > 0 THEN SubSeq(@, over + 1, Len(@)) ELSE @,
                   !.tip = base + Len(mainChain) - 1]

(***************************************************************************)
(* `IndexerHandle::sync`: under the locks, and the file is replaced.  The  *)
(* file may fail to be written; the old one then stays.                    *)
(***************************************************************************)
SyncIndex ==
    /\ index' = SyncFromState(index)
    /\ disk' \in {disk, [disk EXCEPT !.index = index']}
    /\ UNCHANGED <<base, mainChain, restarts>>

SaveChain ==
    /\ disk' = [disk EXCEPT !.chain = mainChain, !.base = base]
    /\ UNCHANGED <<base, mainChain, index, restarts>>

(***************************************************************************)
(* `IndexerHandle::open`: a file that does not check is built anew.        *)
(***************************************************************************)
RestartNode ==
    /\ restarts < MaxRestarts
    /\ restarts' = restarts + 1
    /\ base' = disk.base
    /\ mainChain' = disk.chain
    /\ index' \in {disk.index, Empty}
    /\ disk' = [disk EXCEPT !.index = index']

IndexNext == MoveTip \/ PruneChain \/ SyncIndex \/ SaveChain \/ RestartNode

-----------------------------------------------------------------------------
(***************************************************************************)
(* After every sync the index is one chain with the node's: it has the     *)
(* node's block at every height the node still holds, each record extends  *)
(* the one below it (also those above the node's tip, which a restart from *)
(* an older chain file leaves), hashes and heights agree both ways, and    *)
(* the series has one point at most for a height (`sync_from_state`,       *)
(* `trim_from_height`).                                                    *)
(***************************************************************************)
IndexIsOneChain ==
    [][index' # index /\ UNCHANGED restarts =>
         LET x == index'.blocks
         IN /\ \A i \in DOMAIN mainChain : x[base + i - 1] = mainChain[i]
            /\ \A h \in DOMAIN x : h > base => h - 1 \in DOMAIN x /\ SelectedParent[x[h]] = x[h - 1]
            /\ \A b \in DOMAIN index'.byHash : x[index'.byHash[b]] = b
            /\ \A h \in DOMAIN x : index'.byHash[x[h]] = h
            /\ IsInjective(index'.series)]_indexVars
=============================================================================
