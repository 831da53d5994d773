----------------------------- MODULE MCStorage -----------------------------
(***************************************************************************)
(* Small instances of what a node keeps and what it gives up: the files of *)
(* one node, and an archival and a pruned node over the same blocks.  A    *)
(* behaviour is about the files, or about the blocks from when the process *)
(* of the files has ended before its first step.                           *)
(***************************************************************************)
EXTENDS ChainState, Persistence

VARIABLE part

MCSpends == [t \in Tx |-> SeedCoins]
MCMakes  == [t \in Tx |-> {}]

allVars == <<part, vars, savesVars>>

MCInit == part = "files" /\ Init /\ SavesInit

Untouched == live = Fresh /\ faults = 0 /\ \A i \in Inode : content[i] = Empty

MCNext ==
    \/ part = "files" /\ SavesNext /\ UNCHANGED <<part, vars>>
    \/ part = "files" /\ Untouched /\ Crash /\ part' = "blocks" /\ UNCHANGED vars
    \/ part = "blocks" /\ Next /\ UNCHANGED <<part, savesVars>>

MCSpec == MCInit /\ [][MCNext]_allVars /\ Fairness
=============================================================================
