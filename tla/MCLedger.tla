------------------------------ MODULE MCLedger ------------------------------
(***************************************************************************)
(* A small instance of the ledger: two parties and one seed, so that each  *)
(* party can issue one title and open one escrow.                          *)
(***************************************************************************)
EXTENDS Ledger, TLC

Symmetry == Permutations(Addr)
=============================================================================
