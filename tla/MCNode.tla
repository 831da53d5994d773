------------------------------- MODULE MCNode -------------------------------
(***************************************************************************)
(* Small instances of the parts of a node that face its peers and its      *)
(* miner.  Each behaviour runs one of them, the one that `part` names, so  *)
(* that their state spaces add up rather than multiply.                    *)
(***************************************************************************)
EXTENDS Mempool, Sync, Peers, Superproof, ColdStart, TxRelay, TLC

CONSTANTS Parts, txParent, txChild, txRival, txSingle, p1, p2, blkA, blkB, blkC, blkD, blkE, r1, r2, s1, s2, n1, n2, t1, t2

VARIABLE part

\* Mempool: a parent and its child, a rival of the parent that fills the pool,
\* and a single transaction, whose input is annulled at score 2; one signer with
\* operations in both queues.
PerTx(p, q, r, x) == (txParent :> p) @@ (txChild :> q) @@ (txRival :> r) @@ (txSingle :> x)
MCTx == {txParent, txChild, txRival, txSingle}
MCTxId == PerTx(1, 2, 3, 4)
MCSpends == PerTx({"a"}, {"c"}, {"a"}, {"b"})
MCMakes == PerTx({"c"}, {"d"}, {"e"}, {"f"})
MCFee == PerTx(2, 4, 9, 8)
MCSize == PerTx(1, 3, 3, 2)
MCExpires == PerTx(9, 9, 9, 2)
MCSeedCoins == {"a", "b"}
MCOp == {[list |-> "registry", signer |-> "s", nonce |-> 0, kind |-> "transfer"],
         [list |-> "custody", signer |-> "s", nonce |-> 0, kind |-> "lock"]}

\* Sync: a diamond of blocks, and beside it a block that only the peer with the
\* lower score has; this one has pruned the first.
MCParentsOf == (blkA :> {}) @@ (blkB :> {blkA}) @@ (blkC :> {blkA}) @@ (blkD :> {blkB, blkC}) @@ (blkE :> {blkA})
MCHolds == (p1 :> {blkA, blkB, blkC, blkD}) @@ (p2 :> {blkA, blkB, blkE})
MCHeaderOnly == (p1 :> {}) @@ (p2 :> {blkA})
MCBlue == (blkA :> 1) @@ (blkB :> 2) @@ (blkC :> 2) @@ (blkD :> 4) @@ (blkE :> 2)

\* Peers: two remotes of one group, the second also claims the first's address.
MCListenAt == (r1 :> "x1") @@ (r2 :> "x2")
MCGroupOf == [r \in {r1, r2} |-> "group"]
MCMayAdvertise == (r1 :> {"x1", "y1"}) @@ (r2 :> {"x1"})

\* ColdStart: two pruning points; the multi-level proof verifies less work.
MCLinearWork == <<4, 7>>
MCVerifiedWork == <<3, 5>>

\* TxRelay: one node filters the cheaper transaction.
MCRelayFee == (t1 :> 1) @@ (t2 :> 3)
MCFilterOf == (n1 :> 0) @@ (n2 :> 2)

proofVars == <<headers>>
allVars == <<part, poolVars, syncVars, peerVars, proofVars, coldVars, relayVars>>

\* A part that does not run has one initial state.
MCInit ==
    /\ part \in Parts
    /\ PoolInit /\ SyncInit /\ PeersInit /\ ProofInit /\ ColdInit /\ RelayInit
    /\ part # "proofs" => Head(headers).level = 0
    /\ part # "coldstart" => \A p \in Server : serving[p] = 1

Only(name, step, others) == part = name /\ step /\ UNCHANGED <<part, others>>

MCNext ==
    \/ Only("mempool", PoolNext, <<syncVars, peerVars, proofVars, coldVars, relayVars>>)
    \/ Only("sync", SyncNext, <<poolVars, peerVars, proofVars, coldVars, relayVars>>)
    \/ Only("peers", PeersNext, <<poolVars, syncVars, proofVars, coldVars, relayVars>>)
    \/ Only("proofs", ProofNext, <<poolVars, syncVars, peerVars, coldVars, relayVars>>)
    \/ Only("coldstart", ColdNext, <<poolVars, syncVars, peerVars, proofVars, relayVars>>)
    \/ Only("relay", RelayNext, <<poolVars, syncVars, peerVars, proofVars, coldVars>>)

MCSpec == MCInit /\ [][MCNext]_allVars
=============================================================================
