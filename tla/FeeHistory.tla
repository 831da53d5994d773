----------------------------- MODULE FeeHistory -----------------------------
(***************************************************************************)
(* What a node learns of fees: when a transaction was first seen, the      *)
(* samples of the blocks on the selected chain, and the estimates made of  *)
(* them.  Blocks have one parent here, so the blue score is the height;    *)
(* every transaction has the typical size, so a rate stands for a fee.     *)
(*                                                                         *)
(* D_Xxx is D with the mistake Xxx, to see that a property notices it.     *)
(***************************************************************************)
EXTENDS Integers, Sequences, SequencesExt, FiniteSetsExt, Functions

CONSTANTS
    FeeTx,            \* transactions
    Feerate,          \* [FeeTx -> Nat]
    RelayFloor,       \* typical_signed_tx_min_fee
    MAX_FEE_BLOCKS,   \* FeeRateHistory::max_blocks
    MAX_TRACKED,      \* first-seen entries kept
    FeePoolSize,      \* MAX_MEMPOOL_SIZE
    SUCCESS_PCT,      \* share of successes an estimate asks for
    FeeTarget,        \* <<low, medium, high>>, in blues
    MaxFeeBlocks      \* bound: blocks

ASSUME FeeConstants ==
    /\ IsFiniteSet(FeeTx) /\ Feerate \in [FeeTx -> Nat] /\ RelayFloor \in Nat
    /\ MAX_FEE_BLOCKS \in Nat \ {0} /\ FeePoolSize \in Nat /\ MaxFeeBlocks \in Nat
    /\ SUCCESS_PCT \in Nat /\ FeeTarget \in Seq(Nat) /\ Len(FeeTarget) = 3

VARIABLES
    tree,      \* [block -> [parent, blue, txs]]; a block is the rank of its hash
    waiting,   \* the mempool
    tracked,   \* keys of tx_first_seen_ms
    firstSeen, \* tx_first_seen_blue
    samples,   \* fee_history
    seenAt,    \* history: tip's blue score at the last admission
    unseen     \* history: <<b, t>> where t's entry was gone, or b beside the chain, when b arrived

feeVars == <<tree, waiting, tracked, firstSeen, samples, seenAt, unseen>>

Root0 == 0
Unknown == [t \in {} |-> 0]

FeeInit ==
    /\ tree = [b \in {Root0} |-> [parent |-> Root0, blue |-> 0, txs |-> {}]]
    /\ waiting = {} /\ tracked = {} /\ unseen = {}
    /\ firstSeen = Unknown /\ seenAt = Unknown
    /\ samples = <<>>

HeaviestTip(tr) ==
    CHOOSE b \in DOMAIN tr : \A c \in DOMAIN tr \ {b} :
        tr[c].blue < tr[b].blue \/ (tr[c].blue = tr[b].blue /\ c < b)

ChainTo(tr, b) ==
    LET up[x \in DOMAIN tr] == IF x = Root0 THEN <<>> ELSE Append(up[tr[x].parent], x)
    IN up[b]
FeeChain(tr) == ChainTo(tr, HeaviestTip(tr))
TipBlue == tree[HeaviestTip(tree)].blue

Without(f, S) == [t \in DOMAIN f \ S |-> f[t]]
Put(f, x, v) == [y \in DOMAIN f \cup {x} |-> IF y = x THEN v ELSE f[y]]
OrInsert(f, t, v) == IF t \in DOMAIN f THEN f ELSE Put(f, t, v)

(***************************************************************************)
(* Admission with `record_first_seen`: at the limit any entry makes room.  *)
(***************************************************************************)
SeeTx(t) ==
    /\ t \notin waiting
    /\ \A b \in DOMAIN tree : t \notin tree[b].txs
    /\ waiting' = waiting \cup {t}
    /\ \E room \in {{}} \cup {{x} : x \in tracked} :
          /\ room # {} <=> Cardinality(tracked) >= MAX_TRACKED /\ t \notin tracked
          /\ tracked' = (tracked \ room) \cup {t}
          /\ firstSeen' = OrInsert(Without(firstSeen, room), t, TipBlue)
    /\ seenAt' = Put(seenAt, t, TipBlue)
    /\ UNCHANGED <<tree, samples, unseen>>

(***************************************************************************)
(* Evicted or replaced, a transaction is forgotten and may come again.     *)
(***************************************************************************)
EvictTx(t) ==
    /\ t \in waiting
    /\ waiting' = waiting \ {t}
    /\ tracked' = tracked \ {t}
    /\ firstSeen' = Without(firstSeen, {t})
    /\ UNCHANGED <<tree, samples, seenAt, unseen>>

-----------------------------------------------------------------------------
(***************************************************************************)
(* `record_selected_chain_fee_samples`: the blocks of the chain above the  *)
(* last sample, each with the rates and lags of its transactions; a lag is *)
(* zero when nothing is known.  With more than one there is one more for   *)
(* the package, with the longest lag.                                      *)
(***************************************************************************)
LastRecorded == IF samples = <<>> THEN 0 ELSE Last(samples).blue

Lag(blue, t) == IF t \in DOMAIN firstSeen THEN Max({0, blue - firstSeen[t]}) ELSE 0

Points(b) ==
    LET each == {[txs |-> {t}, rate |-> Feerate[t], lag |-> Lag(b.blue, t)] : t \in b.txs}
        total == SumFunction([t \in b.txs |-> Feerate[t]])
    IN IF Cardinality(b.txs) <= 1 THEN each
       ELSE each \cup {[txs |-> b.txs, rate |-> total \div Cardinality(b.txs),
                        lag |-> Max({p.lag : p \in each})]}

Sample(tr, b) == [block |-> b, blue |-> tr[b].blue, points |-> Points(tr[b])]

Recorded(s) == SubSeq(s, Max({1, Len(s) - MAX_FEE_BLOCKS + 1}), Len(s))

WithNewSamples(tr) ==
    FoldLeft(LAMBDA s, b : IF tr[b].blue > LastRecorded /\ tr[b].txs # {}
                           THEN Recorded(Append(s, Sample(tr, b))) ELSE s,
             samples, FeeChain(tr))

(***************************************************************************)
(* The end of `add_block`: samples, then `drop_included_from_mempools`.    *)
(***************************************************************************)
AddFeeBlock(b, parent, txs) ==
    LET grown == Put(tree, b, [parent |-> parent, blue |-> tree[parent].blue + 1, txs |-> txs])
    IN /\ \A x \in ToSet(ChainTo(tree, parent)) : tree[x].txs \cap txs = {}
       /\ tree' = grown
       /\ samples' = WithNewSamples(grown)
       /\ waiting' = waiting \ txs
       /\ firstSeen' = Without(firstSeen, txs)
       /\ unseen' = unseen \cup {<<b, t>> : t \in IF b \in ToSet(FeeChain(grown))
                                                 THEN txs \ DOMAIN firstSeen ELSE txs}
       /\ UNCHANGED <<tracked, seenAt>>

FeeNext ==
    \/ \E t \in FeeTx : SeeTx(t) \/ EvictTx(t)
    \/ \E b \in (1..MaxFeeBlocks) \ DOMAIN tree, parent \in DOMAIN tree, txs \in SUBSET FeeTx :
          AddFeeBlock(b, parent, txs)

FeeSpec == FeeInit /\ [][FeeNext]_feeVars

-----------------------------------------------------------------------------
(***************************************************************************)
(* `estimate_for_target_with_extra`, over all points of the history and    *)
(* the waiting transactions, which fail when they waited longer.  From the *)
(* highest rate down, the last that passes before one fails again.         *)
(***************************************************************************)
Waited_None(target) == {}
Waited(target) == {t \in waiting \cap DOMAIN firstSeen : TipBlue - firstSeen[t] > target}

Outcomes(target) ==
    (UNION {{<<i, p>> : p \in samples[i].points} : i \in DOMAIN samples})
        \cup {<<0, [txs |-> {t}, rate |-> Feerate[t], lag |-> TipBlue - firstSeen[t]]>> :
                  t \in Waited(target)}

Passes(target, points, rate) ==
    LET above == {o \in points : o[2].rate >= rate}
    IN 100 * Cardinality({o \in above : o[2].lag <= target}) >= SUCCESS_PCT * Cardinality(above)

EstimateForTarget(target) ==
    LET points == Outcomes(target)
        rates == {o[2].rate : o \in points}
        passing == {r \in rates : Passes(target, points, r)}
        unbroken == {r \in passing : \A x \in rates : x \in r..Max(passing) => x \in passing}
    IN IF passing = {} THEN {} ELSE {Min(unbroken)}

(***************************************************************************)
(* `current_min_relay_fee`, `estimate_fee`.                                *)
(***************************************************************************)
CurrentMinRelayFee ==
    LET n == Cardinality(waiting)
        lowest == Min({Feerate[t] : t \in waiting})
    IN IF n = 0 \/ n * 4 < FeePoolSize * 3 THEN RelayFloor
       ELSE Max({RelayFloor, IF n >= FeePoolSize THEN lowest + 1 ELSE lowest})

(***************************************************************************)
(* The fee at the given percentile of the pool: the least with more than   *)
(* that many fees at or below it.                                          *)
(***************************************************************************)
MempoolPick(pct) ==
    LET before == ((Cardinality(waiting) - 1) * pct) \div 100
        UpToFee(t) == {x \in waiting : Feerate[x] <= Feerate[t]}
    IN IF waiting = {} THEN CurrentMinRelayFee
       ELSE Max({CurrentMinRelayFee, Min({Feerate[t] : t \in {x \in waiting : Cardinality(UpToFee(x)) > before}})})

Tier(target, pct) ==
    LET e == EstimateForTarget(target)
    IN IF e = {} THEN MempoolPick(pct) ELSE Max(e \cup {CurrentMinRelayFee})

EstimateFee ==
    LET low == Tier(FeeTarget[1], 10)
        medium == Max({low, Tier(FeeTarget[2], 50)})
    IN [low |-> low, medium |-> medium, high |-> Max({medium, Tier(FeeTarget[3], 90)})]

-----------------------------------------------------------------------------
(***************************************************************************)
(* An estimate is supported by what happened: of the samples at that rate  *)
(* or above and the transactions that still wait there past the target,    *)
(* enough were in time, and the tiers rise from what the pool asks for     *)
(* (`estimate_for_target_with_extra`, `estimate_fee`).  The lag of a sample*)
(* is the time since the transaction was last admitted, if the block came  *)
(* on the selected chain with the entry still there, and zero else: a      *)
(* block that came beside the chain takes its transactions' entries with   *)
(* it, although their "blue-score lag was already folded into fee_history  *)
(* above", and so does the first of two blocks with the same transaction,  *)
(* or a newcomer at the limit.                                             *)
(***************************************************************************)
EstimateIsSupported ==
    /\ \A i \in DOMAIN samples : \A t \in FeeTx : \A p \in samples[i].points : p.txs = {t} =>
          p.lag = IF <<samples[i].block, t>> \in unseen THEN 0 ELSE samples[i].blue - seenAt[t]
    /\ \A target \in ToSet(FeeTarget) : \A e \in EstimateForTarget(target) :
          LET paid(late) == UNION {{<<i, p>> : p \in {q \in samples[i].points : q.rate >= e /\ (q.lag > target <=> late)}}
                                       : i \in DOMAIN samples}
              stuck == {t \in waiting \cap DOMAIN firstSeen : Feerate[t] >= e /\ firstSeen[t] + target < TipBlue}
          IN 100 * Cardinality(paid(FALSE))
                >= SUCCESS_PCT * (Cardinality(paid(FALSE)) + Cardinality(paid(TRUE)) + Cardinality(stuck))
    /\ CurrentMinRelayFee <= EstimateFee.low
    /\ EstimateFee.low <= EstimateFee.medium /\ EstimateFee.medium <= EstimateFee.high
=============================================================================
