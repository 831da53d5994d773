------------------------------- MODULE Vault --------------------------------
(***************************************************************************)
(* Coins and their spending conditions: the evaluation of a predicate      *)
(* against a witness, the application of a transaction, and the escrow     *)
(* vault built on them, from which buyer and seller pay together, or the   *)
(* buyer alone after a timeout.  A transaction is admitted if it applies   *)
(* to a copy of the ledger; what is admitted is applied later, each at     *)
(* the blue score of its block, or skipped if another took its coin.       *)
(*                                                                         *)
(* A signature is a party's name; a cosigner's is good if it signed this   *)
(* very transaction.  Sizes and fees are in the same small unit.           *)
(*                                                                         *)
(* D_Xxx is D with the mistake Xxx, to see that a property notices it.     *)
(***************************************************************************)
EXTENDS Integers, Sequences, SequencesExt, FiniteSetsExt

CONSTANTS
    Party,                    \* addresses, with
    Buyer, Seller,            \* the two of the escrow
    SeedCoins,                \* coins at the start: name -> coin
    Witnesses,                \* witnesses that somebody tries
    Candidates,               \* transactions that the wallet does not build
    UTXO_DUST,
    COINBASE_MATURITY_BLUES,
    MAX_PRED_DEPTH,
    MAX_STACK,
    Amount,                   \* terms.amount
    TimeoutBlue,              \* terms.timeout_blue
    MaxVaultBlue,             \* bound: blue score
    MaxPool,                  \* bound: transactions waiting
    MaxApplied                \* bound: transactions applied

VARIABLES
    ledger,   \* coins: name -> [value, pred, born, mined]; accounts: party -> Nat; fees
    pool,     \* admitted transactions
    blue,     \* blue score of the next block
    applied   \* how many were applied; names the coins that they make

vaultVars == <<ledger, pool, blue, applied>>

VaultInit ==
    /\ ledger = [coins |-> SeedCoins, accounts |-> [p \in Party |-> 0], fees |-> 0]
    /\ pool = {}
    /\ blue = 0
    /\ applied = 0

-----------------------------------------------------------------------------
(***************************************************************************)
(* Predicates and witnesses.                                               *)
(***************************************************************************)
PayTo(a) == [k |-> "pay", a |-> a]
AbsoluteLock(a, at) == [k |-> "absolute", a |-> a, at |-> at]
RelativeLock(a, n) == [k |-> "relative", a |-> a, n |-> n]
AnnulAfter(a, at) == [k |-> "annul", a |-> a, at |-> at]
CreditAccount(a) == [k |-> "credit", a |-> a]
HashLock(x) == [k |-> "hash", x |-> x]
MultiSig(n, as) == [k |-> "multi", n |-> n, as |-> as]
Both(l, r) == [k |-> "and", l |-> l, r |-> r]
Either(l, r) == [k |-> "or", l |-> l, r |-> r]
ExactValue(v, in) == [k |-> "exact", v |-> v, in |-> in]

Signature == [k |-> "sig"]
Preimage(x) == [k |-> "pre", x |-> x]
Stack(s) == [k |-> "stack", s |-> s]
CosignerSig(p, good) == [k |-> "cosig", by |-> p, good |-> good]
CosignerAddress(p) == [k |-> "tag", by |-> p]

RECURSIVE PredDepth(_)
PredDepth(p) ==
    CASE p.k \in {"and", "or"} -> 1 + Max({PredDepth(p.l), PredDepth(p.r)})
      [] p.k = "exact" -> 1 + PredDepth(p.in)
      [] OTHER -> 1

RECURSIVE IsAccountCredit(_)
IsAccountCredit(p) ==
    CASE p.k = "credit" -> TRUE
      [] p.k \in {"and", "or"} -> IsAccountCredit(p.l) \/ IsAccountCredit(p.r)
      [] p.k = "exact" -> IsAccountCredit(p.in)
      [] OTHER -> FALSE

(***************************************************************************)
(* The addresses that `locked_address` may give: at most one, that of the  *)
(* left branch of a pair.                                                  *)
(***************************************************************************)
RECURSIVE LockedAddress(_)
LockedAddress(p) ==
    CASE p.k \in {"and", "or"} -> LockedAddress(p.l)
      [] p.k = "exact" -> LockedAddress(p.in)
      [] p.k \in {"hash", "multi"} -> {}
      [] OTHER -> {p.a}

(***************************************************************************)
(* `eval_multisig`: the primary signer and the cosigners, all members, all *)
(* signatures good, and enough of them that differ.                        *)
(***************************************************************************)
EnoughSigners_Counted(p, w, signer) == 1 + Len(w) >= p.n
EnoughSigners(p, w, signer) ==
    Cardinality({signer} \cup {v.by : v \in {x \in ToSet(w) : x.k = "cosig"}}) >= p.n

EvalMultisig(p, w, signer) ==
    LET stack == IF w.k = "stack" THEN w.s ELSE <<>>
    IN /\ p.n > 0 /\ p.n <= Cardinality(p.as)
       /\ signer \in p.as
       /\ w.k \in {"sig", "stack"}
       /\ Len(stack) <= MAX_STACK
       /\ \A i \in DOMAIN stack :
             \/ stack[i].k = "sig"
             \/ stack[i].k = "cosig" /\ stack[i].by \in p.as /\ stack[i].good
       /\ EnoughSigners(p, stack, signer)

(***************************************************************************)
(* `eval_inner`.                                                           *)
(***************************************************************************)
RECURSIVE Eval(_, _, _, _, _)
Eval(p, w, signer, at, born) ==
    LET Inner(q, v) == Eval(q, v, signer, at, born)
        Peeled == w.k = "stack" /\ Len(w.s) = 1
    IN CASE p.k = "pay" -> p.a = signer /\ w.k \in {"sig", "stack"}
         [] p.k = "absolute" -> p.a = signer /\ at >= p.at
         [] p.k = "relative" -> p.a = signer /\ at >= born + p.n
         [] p.k = "annul" -> p.a = signer /\ at < p.at
         [] p.k = "hash" -> IF Peeled THEN Inner(p, w.s[1]) ELSE w.k = "pre" /\ w.x = p.x
         [] p.k = "and" -> /\ w.k = "stack" /\ Len(w.s) \in 2..MAX_STACK
                           /\ Inner(p.l, w.s[1]) /\ Inner(p.r, w.s[2])
         [] p.k = "or" -> \/ /\ w.k = "stack" /\ w.s # <<>>
                             /\ Inner(p.l, w.s[1]) \/ Inner(p.r, w.s[1])
                          \/ w.k \in {"sig", "pre"} /\ (Inner(p.l, w) \/ Inner(p.r, w))
         [] p.k = "multi" -> EvalMultisig(p, w, signer)
         [] p.k = "exact" -> Inner(p.in, w)
         [] p.k = "credit" -> FALSE

EvaluateFull(p, w, signer, at, born) == PredDepth(p) <= MAX_PRED_DEPTH /\ Eval(p, w, signer, at, born)

RECURSIVE ExactValueBinds(_, _)
ExactValueBinds(p, v) ==
    CASE p.k = "exact" -> p.v = v /\ ExactValueBinds(p.in, v)
      [] p.k \in {"and", "or"} -> ExactValueBinds(p.l, v) /\ ExactValueBinds(p.r, v)
      [] OTHER -> TRUE

-----------------------------------------------------------------------------
(***************************************************************************)
(* A transaction: [coin, rel, wit, outs, fee, lock, signer], of one input. *)
(* Its size counts the outputs and the cosigners' signatures.              *)
(***************************************************************************)
RECURSIVE SizeOf(_)
SizeOf(w) == IF w.k = "cosig" THEN 1 ELSE IF w.k = "stack" THEN FoldLeft(LAMBDA n, v : n + SizeOf(v), 0, w.s) ELSE 0

MinFeeRequired(tx) == Len(tx.outs) + SizeOf(tx.wit)

ValidateForm(tx) ==
    /\ tx.outs # <<>>
    /\ tx.fee >= MinFeeRequired(tx)
    /\ \A i \in DOMAIN tx.outs :
          /\ tx.outs[i].value > 0
          /\ IsAccountCredit(tx.outs[i].pred) \/ tx.outs[i].value >= UTXO_DUST

SumOf(outs) == FoldLeft(LAMBDA n, o : n + o.value, 0, outs)

MayApply(l, tx, at) ==
    /\ ValidateForm(tx)
    /\ tx.lock > 0 => at >= tx.lock
    /\ tx.coin \in DOMAIN l.coins
    /\ LET c == l.coins[tx.coin]
       IN /\ c.mined => at >= c.born + COINBASE_MATURITY_BLUES
          /\ tx.rel > 0 => at >= c.born + tx.rel
          /\ EvaluateFull(c.pred, tx.wit, tx.signer, at, c.born)
          /\ ExactValueBinds(c.pred, c.value)
          /\ c.value = SumOf(tx.outs) + tx.fee

(***************************************************************************)
(* `apply_utxo_tx`: after the checks the input goes and the outputs come   *)
(* one by one; a credit that has no address stops it half-way, with the    *)
(* input gone.  The outputs are named after the transaction.               *)
(***************************************************************************)
ApplyUtxoTx(l, tx, at, name) ==
    IF ~MayApply(l, tx, at) THEN [ok |-> FALSE, l |-> l]
    ELSE LET NoAddress == {i \in DOMAIN tx.outs : IsAccountCredit(tx.outs[i].pred)
                                                  /\ LockedAddress(tx.outs[i].pred) = {}}
             done == 1 .. (IF NoAddress = {} THEN Len(tx.outs) ELSE Min(NoAddress) - 1)
             credits == {i \in done : IsAccountCredit(tx.outs[i].pred)}
             made == {<<name, i>> : i \in done \ credits}
         IN [ok |-> NoAddress = {},
             l |-> [coins |-> [c \in (DOMAIN l.coins \ {tx.coin}) \cup made |->
                                 IF c \in made
                                 THEN [value |-> tx.outs[c[2]].value, pred |-> tx.outs[c[2]].pred,
                                       born |-> at, mined |-> FALSE]
                                 ELSE l.coins[c]],
                    accounts |-> [p \in Party |-> l.accounts[p]
                        + MapThenSumSet(LAMBDA i : IF LockedAddress(tx.outs[i].pred) = {p}
                                                   THEN tx.outs[i].value ELSE 0, credits)],
                    fees |-> l.fees + (IF NoAddress = {} THEN tx.fee ELSE 0)]]

(***************************************************************************)
(* Admission: to the mempool, and again to a block, on a copy of the state. *)
(***************************************************************************)
Admits(tx) == ApplyUtxoTx(ledger, tx, blue, 0).ok

AdmitTx(tx) ==
    /\ tx \notin pool /\ Cardinality(pool) < MaxPool
    /\ Admits(tx)
    /\ pool' = pool \cup {tx}
    /\ UNCHANGED <<ledger, blue, applied>>

(***************************************************************************)
(* A block applies it, or skips it, at the block's blue score.             *)
(***************************************************************************)
IncludeTx(tx) ==
    /\ tx \in pool
    /\ applied < MaxApplied
    /\ pool' = pool \ {tx}
    /\ applied' = applied + 1
    /\ ledger' = ApplyUtxoTx(ledger, tx, blue, applied + 1).l
    /\ UNCHANGED <<blue>>

NextBlue ==
    /\ blue < MaxVaultBlue
    /\ blue' = blue + 1
    /\ UNCHANGED <<ledger, pool, applied>>

(***************************************************************************)
(* `bridge_account_to_utxo`.                                               *)
(***************************************************************************)
BridgeAccountToUtxo(p, v) ==
    /\ applied < MaxApplied
    /\ v >= UTXO_DUST
    /\ ledger.accounts[p] >= v
    /\ applied' = applied + 1
    /\ ledger' = [ledger EXCEPT
          !.accounts[p] = @ - v,
          !.coins = [c \in DOMAIN @ \cup {<<applied + 1, 0>>} |->
                       IF c = <<applied + 1, 0>>
                       THEN [value |-> v, pred |-> PayTo(p), born |-> blue, mined |-> FALSE]
                       ELSE @[c]]]
    /\ UNCHANGED <<pool, blue>>

-----------------------------------------------------------------------------
(***************************************************************************)
(* The vault of the escrow and the transactions of its wallet.  A builder  *)
(* gives the set of what it builds, empty for an error.                    *)
(***************************************************************************)
VaultPredicate_OneOfTwo == Either(MultiSig(1, {Buyer, Seller}), AbsoluteLock(Buyer, TimeoutBlue))
VaultPredicate == Either(MultiSig(2, {Buyer, Seller}), AbsoluteLock(Buyer, TimeoutBlue))

Draft(coin, wit, outs, fee, signer) ==
    [coin |-> coin, rel |-> 0, wit |-> wit, outs |-> outs, fee |-> fee, lock |-> 0, signer |-> signer]
Out(v, p) == [value |-> v, pred |-> p]

(***************************************************************************)
(* The fee is raised to what the final size asks, out of the last output.  *)
(***************************************************************************)
Rebumped_AlwaysPays(tx) == {[tx EXCEPT !.fee = MinFeeRequired(tx)]}
Rebumped(tx) ==
    LET extra == MinFeeRequired(tx) - tx.fee
        last == Len(tx.outs)
    IN IF extra <= 0 THEN {tx}
       ELSE IF tx.outs[last].value > extra + UTXO_DUST
       THEN {[tx EXCEPT !.fee = @ + extra, !.outs[last].value = @ - extra]}
       ELSE {}

BuildFundTx(coin, value) ==
    LET fee == MinFeeRequired(Draft(coin, Signature, <<Out(Amount, VaultPredicate)>>, 0, Buyer))
        change == value - (Amount + fee)
        outs == <<Out(Amount, VaultPredicate)>> \o (IF change > 0 THEN <<Out(change, PayTo(Buyer))>> ELSE <<>>)
    IN IF change < 0 \/ change \in 1 .. UTXO_DUST - 1 THEN {}
       ELSE Rebumped(Draft(coin, Signature, outs, fee, Buyer))

(***************************************************************************)
(* `payment`, from one coin to an address, with the fee the caller asks    *)
(* for or the least one, and change to the sender.                         *)
(***************************************************************************)
Payment(from, coin, value, to, amount, asked) ==
    LET floor == MinFeeRequired(Draft(coin, Signature, <<Out(amount, PayTo(to))>>, 0, from))
        fee == IF asked < floor THEN floor ELSE asked
        change == value - (amount + fee)
        outs == <<Out(amount, PayTo(to))>> \o (IF change > 0 THEN <<Out(change, PayTo(from))>> ELSE <<>>)
    IN IF change < 0 \/ change \in 1 .. UTXO_DUST - 1 THEN {}
       ELSE Rebumped(Draft(coin, Signature, outs, fee, from))

ProvisionalSpend(coin, value, to, wit, signer) ==
    LET fee == MinFeeRequired(Draft(coin, wit, <<Out(1, PayTo(to))>>, 0, signer))
    IN IF value - fee < UTXO_DUST THEN {}
       ELSE Rebumped(Draft(coin, wit, <<Out(value - fee, PayTo(to))>>, fee, signer))

Partner(p) == IF p = Buyer THEN Seller ELSE Buyer
CoopWitness(p) == Stack(<<Stack(<<CosignerSig(p, TRUE)>>)>>)

BuildCoopSpend(coin, value, primary, to) ==
    UNION {Rebumped([tx EXCEPT !.wit = CoopWitness(Partner(primary))]) :
              tx \in ProvisionalSpend(coin, value, to, Signature, primary)}

BuildTimeoutSpend(coin, value) ==
    IF blue < TimeoutBlue THEN {} ELSE ProvisionalSpend(coin, value, Buyer, Signature, Buyer)

Vaults == {c \in DOMAIN ledger.coins : ledger.coins[c].pred = VaultPredicate}
Built ==
    LET Value(c) == ledger.coins[c].value
        funding == {c \in DOMAIN ledger.coins : ledger.coins[c].pred = PayTo(Buyer)}
    IN UNION {BuildFundTx(c, Value(c)) : c \in funding}
       \cup UNION {BuildCoopSpend(c, Value(c), p, to) : c \in Vaults, p \in {Buyer, Seller}, to \in {Buyer, Seller}}
       \cup UNION {BuildTimeoutSpend(c, Value(c)) : c \in Vaults}

Payments(amounts, fees) ==
    UNION {Payment(ledger.coins[c].pred.a, c, ledger.coins[c].value, to, amount, fee) :
              c \in {c \in DOMAIN ledger.coins : ledger.coins[c].pred.k = "pay"},
              to \in {Buyer, Seller}, amount \in amounts, fee \in fees}

VaultNext ==
    \/ \E tx \in Built \cup Candidates : AdmitTx(tx)
    \/ \E tx \in pool : IncludeTx(tx)
    \/ \E p \in Party, v \in 1..Amount : BridgeAccountToUtxo(p, v)
    \/ NextBlue

-----------------------------------------------------------------------------
(***************************************************************************)
(* What a condition means, without regard to the shape of witnesses: the   *)
(* parties that signed, the primary one first, and the preimages shown.    *)
(***************************************************************************)
RECURSIVE Law(_, _, _, _, _, _)
Law(p, signer, signed, shown, at, born) ==
    LET In(q) == Law(q, signer, signed, shown, at, born)
    IN CASE p.k = "pay" -> p.a = signer
         [] p.k = "absolute" -> p.a = signer /\ at >= p.at
         [] p.k = "relative" -> p.a = signer /\ at >= born + p.n
         [] p.k = "annul" -> p.a = signer /\ at < p.at
         [] p.k = "hash" -> p.x \in shown
         [] p.k = "and" -> In(p.l) /\ In(p.r)
         [] p.k = "or" -> In(p.l) \/ In(p.r)
         [] p.k = "multi" -> signer \in p.as /\ Cardinality(signed \cap p.as) >= p.n
         [] p.k = "exact" -> In(p.in)
         [] p.k = "credit" -> FALSE

RECURSIVE Leaves(_)
Leaves(w) == IF w.k = "stack" THEN UNION {Leaves(w.s[i]) : i \in DOMAIN w.s} ELSE {w}
SignedBy(w) == {l.by : l \in {x \in Leaves(w) : x.k = "cosig" /\ x.good}}
Shown(w) == {l.x : l \in {x \in Leaves(w) : x.k = "pre"}}

(***************************************************************************)
(* No witness, of whatever shape, unlocks a coin unless the parties that   *)
(* signed and the preimages in it fulfil the condition; and if they can be *)
(* fulfilled, some witness unlocks it (`evaluate_full`, `eval_multisig`).  *)
(* Every ledger there is comes up with no transaction waiting too.         *)
(***************************************************************************)
WitnessesFollowLaw ==
    pool = {} =>
    \A c \in DOMAIN ledger.coins, signer \in Party :
        LET coin == ledger.coins[c]
            Unlocks(w) == EvaluateFull(coin.pred, w, signer, blue, coin.born)
            Lawful(w) == Law(coin.pred, signer, {signer} \cup SignedBy(w), Shown(w), blue, coin.born)
        IN /\ \A w \in Witnesses : Unlocks(w) => Lawful(w)
           /\ (\E w \in Witnesses : Lawful(w)) => \E w \in Witnesses : Unlocks(w)

Mature(c) == c.mined => blue >= c.born + COINBASE_MATURITY_BLUES

(***************************************************************************)
(* The wallet builds nothing that the ledger would refuse but for an       *)
(* immature coinbase, with the fee that the final size asks; a vault holds *)
(* the agreed amount, and a payment gives the payee what was asked for and *)
(* the miner no less (`build_fund_tx`, `build_spend_tx`, `payment`).       *)
(***************************************************************************)
BuiltApplies ==
    /\ \A tx \in Built : Mature(ledger.coins[tx.coin]) => MayApply(ledger, tx, blue)
    /\ \A amount \in UTXO_DUST..Amount, fee \in 0..3 : \A tx \in Payments({amount}, {fee}) :
          /\ Mature(ledger.coins[tx.coin]) => MayApply(ledger, tx, blue)
          /\ tx.outs[1].value = amount /\ tx.fee >= fee
    /\ \A c \in Vaults : ledger.coins[c].value = Amount

(***************************************************************************)
(* A vault goes only with the signatures of both parties, or with the      *)
(* buyer's when the timeout is reached at the block that takes it ("Funds  *)
(* move only by spending the vault UTXO under those predicates").          *)
(***************************************************************************)
VaultByLawOnly ==
    [][\A c \in Vaults : c \notin DOMAIN ledger'.coins =>
          \E tx \in pool : /\ tx.coin = c
                            /\ \/ {Buyer, Seller} = {tx.signer} \cup SignedBy(tx.wit)
                               \/ tx.signer = Buyer /\ blue >= TimeoutBlue]_vaultVars
=============================================================================
