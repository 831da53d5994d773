---------------------------- MODULE MCChainState ----------------------------
(***************************************************************************)
(* Small instances of ChainState: every transaction spends all the coins   *)
(* of the genesis ledger, so any two of them conflict.  Where they are an  *)
(* open escrow's money, the transactions race to close it, and the node    *)
(* cannot restart before.                                                  *)
(***************************************************************************)
EXTENDS ChainState

MCSpends == [t \in Tx |-> SeedCoins]
MCMakes  == [t \in Tx |-> {}]

TxSymmetry == Permutations(Tx)
Symmetry   == Permutations(Node) \cup TxSymmetry
=============================================================================
