------------------------------- MODULE Ledger -------------------------------
(***************************************************************************)
(* The value state of a Hassan node and the effects that the body of one   *)
(* block has on it: UTXO spends that credit the account overlay, title and *)
(* escrow operations of the registry, stake locks, and the block reward.   *)
(*                                                                         *)
(* It models the *replay* of blocks in canonical order                     *)
(* (`ChainState::apply_block_effects`): an operation that no longer        *)
(* applies is skipped, which for a registry operation still consumes the   *)
(* signer's nonce.  The UTXO set is abstracted to its total value; the     *)
(* history and wording of a title deed are left out.                       *)
(*                                                                         *)
(* A definition named D_Xxx is D with the mistake Xxx in it.  No action    *)
(* uses it: it is put in the place of D to see that a property notices.    *)
(***************************************************************************)
EXTENDS Integers, FiniteSets, Functions

CONSTANTS
    Addr,              \* account addresses
    Seed,              \* seeds from which title and escrow ids are derived
    Amount,            \* amounts that operations may carry
    Fee,               \* fees that UTXO transactions may carry
    Timeout,           \* timeout scores that an escrow may be opened with
    BLOCK_REWARD,      \* subsidy before the first halving
    HALVING_INTERVAL,  \* blue scores between two halvings
    MAX_SUPPLY,        \* cap on the minted supply
    MaxBlue,           \* bound: largest blue score of a block
    MaxNonce,          \* bound: operations per signer
    None               \* the absent value of an Option or a map entry

(***************************************************************************)
(* `derive_title_id` and `derive_escrow_id` hash the signer and a seed; a  *)
(* collision-free hash is the pair itself.                                 *)
(***************************************************************************)
TitleId  == Addr \X Seed
EscrowId == Addr \X Seed

(***************************************************************************)
(* The enum also has Disputed, which no operation sets.                    *)
(***************************************************************************)
EscrowStatus == {"Open", "Funded", "Released", "Refunded"}
Live         == {"Open", "Funded"}

TitleDeed == [current_owner : Addr, escrow_id : EscrowId \cup {None}]

EscrowAccount == [buyer : Addr, seller : Addr, amount : Nat \ {0},
                  funded : Nat, status : EscrowStatus,
                  title_id : TitleId \cup {None}, timeout_blue : Nat]

ASSUME LedgerConstants ==
    /\ Amount \subseteq Nat
    /\ Fee \subseteq Nat
    /\ Timeout \subseteq Nat
    /\ BLOCK_REWARD \in Nat
    /\ HALVING_INTERVAL \in Nat \ {0}
    /\ MAX_SUPPLY \in Nat
    /\ MaxBlue \in Nat \ {0}
    /\ MaxNonce \in Nat

(***************************************************************************)
(* Addresses and seeds have a fixed number of bytes.                       *)
(***************************************************************************)
ASSUME LedgerFinite == IsFiniteSet(Addr) /\ IsFiniteSet(Seed)

ASSUME NoneAbsent ==
    /\ None \notin TitleId \cup EscrowId
    /\ None \notin TitleDeed
    /\ None \notin EscrowAccount

VARIABLES
    balance,   \* accounts[a].balance
    nonce,     \* accounts[a].nonce
    staked,    \* value locked by custody certificates
    titles,    \* registry.titles
    escrows,   \* registry.escrows
    utxo,      \* total value of the UTXO set
    minted,    \* minted_supply
    fees,      \* fees collected so far from the block being replayed
    blue,      \* blue score of the block being replayed
    stage      \* which list of the block's body is being replayed

vars == <<balance, nonce, staked, titles, escrows, utxo, minted, fees, blue, stage>>

Init ==
    /\ balance = [a \in Addr |-> 0]
    /\ nonce   = [a \in Addr |-> 0]
    /\ staked  = [a \in Addr |-> 0]
    /\ titles  = [t \in TitleId |-> None]
    /\ escrows = [e \in EscrowId |-> None]
    /\ utxo    = 0
    /\ minted  = 0
    /\ fees    = 0
    /\ blue    = 1
    /\ stage   = 1

-----------------------------------------------------------------------------
(***************************************************************************)
(* `apply_utxo_tx`: inputs worth v + f (and any change, which stays in the *)
(* UTXO set) are spent; v is credited to an account by a CreditAccount     *)
(* output, and the fee f is set aside for the block's coinbase.            *)
(***************************************************************************)
ApplyUtxoTx(a, v, f) ==
    /\ stage = 1
    /\ utxo >= v + f
    /\ utxo' = utxo - (v + f)
    /\ balance' = [balance EXCEPT ![a] = @ + v]
    /\ fees' = fees + f
    /\ UNCHANGED <<nonce, staked, titles, escrows, minted, blue, stage>>

(***************************************************************************)
(* The prologue of `RegistryState::apply_op`: the operation carries the    *)
(* signer's current nonce, which is advanced before anything else is       *)
(* checked.  (An operation with another nonce changes nothing.)            *)
(***************************************************************************)
TakeNonce(s) ==
    /\ stage \in {1, 2}
    /\ stage' = 2
    /\ nonce[s] < MaxNonce
    /\ nonce' = [nonce EXCEPT ![s] = @ + 1]
    /\ UNCHANGED <<staked, utxo, minted, fees, blue>>

IssueTitle(s, seed, owner) ==
    LET id == <<s, seed>> IN
    /\ TakeNonce(s)
    /\ titles[id] = None
    /\ titles' = [titles EXCEPT ![id] = [current_owner |-> owner, escrow_id |-> None]]
    /\ UNCHANGED <<balance, escrows>>

TransferTitle(s, t, to) ==
    /\ TakeNonce(s)
    /\ titles[t] # None
    /\ titles[t].current_owner = s
    /\ titles[t].escrow_id = None
    /\ titles' = [titles EXCEPT ![t].current_owner = to]
    /\ UNCHANGED <<balance, escrows>>

OpenEscrow(s, seed, b, sl, amt, t, timeout) ==
    LET id == <<s, seed>> IN
    /\ TakeNonce(s)
    /\ amt # 0
    /\ t # None => /\ titles[t] # None
                   /\ titles[t].current_owner = sl
                   /\ titles[t].escrow_id = None
    /\ escrows[id] = None
    /\ titles' = IF t = None THEN titles
                 ELSE [titles EXCEPT ![t].escrow_id = id]
    /\ escrows' = [escrows EXCEPT ![id] =
                     [buyer |-> b, seller |-> sl, amount |-> amt, funded |-> 0,
                      status |-> "Open", title_id |-> t, timeout_blue |-> timeout]]
    /\ UNCHANGED balance

(***************************************************************************)
(* An escrow keeps taking money from its buyer after it is Funded, and a   *)
(* payment below the agreed amount leaves it Open.                         *)
(***************************************************************************)
Deposit_NeverExact(x, amt) ==
    [x EXCEPT !.funded = @ + amt,
              !.status = IF x.funded + amt > x.amount THEN "Funded" ELSE @]

Deposit(x, amt) ==
    [x EXCEPT !.funded = @ + amt,
              !.status = IF x.funded + amt >= x.amount THEN "Funded" ELSE @]

FundEscrow(s, e, amt) ==
    /\ TakeNonce(s)
    /\ escrows[e] # None
    /\ s = escrows[e].buyer
    /\ escrows[e].status \in Live
    /\ balance[s] >= amt
    /\ balance' = [balance EXCEPT ![s] = @ - amt]
    /\ escrows' = [escrows EXCEPT ![e] = Deposit(escrows[e], amt)]
    /\ UNCHANGED titles

(***************************************************************************)
(* The closing half that Release, Refund and TimeoutClaim share: the whole *)
(* funded amount is paid to one party, and the title, if any, is unlocked. *)
(***************************************************************************)
CloseEscrow(e, status, payee) ==
    /\ balance' = [balance EXCEPT ![payee] = @ + escrows[e].funded]
    /\ escrows' = [escrows EXCEPT ![e] = [@ EXCEPT !.funded = 0, !.status = status]]

UnlockTitle_Forgotten(t) == titles
UnlockTitle(t) == [titles EXCEPT ![t].escrow_id = None]

(***************************************************************************)
(* Who may close an escrow.  An arbiter is recorded but can do nothing.    *)
(***************************************************************************)
MayRelease_Unfunded(s, x) == s = x.buyer /\ x.status \in Live
MayRelease(s, x) == s = x.buyer /\ x.status = "Funded"

MayRefund_BuyerAlone(s, x) == s = x.buyer /\ x.status \in Live
MayRefund(s, x) ==
    \/ x.status = "Open" /\ s = x.buyer
    \/ x.status = "Funded" /\ s = x.seller

MayTimeoutClaim(s, x) ==
    /\ s = x.buyer
    /\ x.status = "Funded"
    /\ x.timeout_blue # 0
    /\ blue >= x.timeout_blue

ReleaseEscrow(s, e) ==
    /\ TakeNonce(s)
    /\ escrows[e] # None
    /\ MayRelease(s, escrows[e])
    /\ CloseEscrow(e, "Released", escrows[e].seller)
    /\ LET t == escrows[e].title_id IN
       titles' = IF t = None \/ titles[t] = None THEN titles
                 ELSE [UnlockTitle(t) EXCEPT ![t].current_owner = escrows[e].buyer]

RefundEscrow(s, e) ==
    /\ TakeNonce(s)
    /\ escrows[e] # None
    /\ MayRefund(s, escrows[e])
    /\ CloseEscrow(e, "Refunded", escrows[e].buyer)
    /\ LET t == escrows[e].title_id IN
       titles' = IF t = None \/ titles[t] = None THEN titles ELSE UnlockTitle(t)

TimeoutClaimEscrow(s, e) ==
    /\ TakeNonce(s)
    /\ escrows[e] # None
    /\ MayTimeoutClaim(s, escrows[e])
    /\ CloseEscrow(e, "Refunded", escrows[e].buyer)
    /\ LET t == escrows[e].title_id IN
       titles' = IF t = None \/ titles[t] = None THEN titles ELSE UnlockTitle(t)

(***************************************************************************)
(* Conflict-skip: an operation that carries the right nonce but lost its   *)
(* preconditions to a block merged before it.  `apply_op` returns an error *)
(* after it has advanced the nonce, and the replay drops the error.        *)
(***************************************************************************)
SkipRegistryOp(s) ==
    /\ TakeNonce(s)
    /\ UNCHANGED <<balance, titles, escrows>>

-----------------------------------------------------------------------------
(***************************************************************************)
(* `apply_custody_op`.  Unlike the registry it takes the nonce last, so a  *)
(* custody operation that fails changes nothing.  Bridge kinds are refused.*)
(***************************************************************************)
TakeCustodyNonce(s) ==
    /\ stage' = 3
    /\ nonce[s] < MaxNonce
    /\ nonce' = [nonce EXCEPT ![s] = @ + 1]
    /\ UNCHANGED <<titles, escrows, utxo, minted, fees, blue>>

StakeLock(s, amt) ==
    /\ amt # 0
    /\ balance[s] >= amt
    /\ balance' = [balance EXCEPT ![s] = @ - amt]
    /\ staked' = [staked EXCEPT ![s] = @ + amt]
    /\ TakeCustodyNonce(s)

StakeUnlock(s, amt) ==
    /\ amt # 0
    /\ staked[s] >= amt
    /\ staked' = [staked EXCEPT ![s] = @ - amt]
    /\ balance' = [balance EXCEPT ![s] = @ + amt]
    /\ TakeCustodyNonce(s)

(***************************************************************************)
(* `block_subsidy` and `apply_block_reward`: the coinbase output is the    *)
(* subsidy, clamped so that the cap is never exceeded, plus the fees.  The *)
(* next block in canonical order may have a lower blue score than this one *)
(* (a merged side block), so the next score is any.                        *)
(***************************************************************************)
block_subsidy(b) ==
    LET halvings == b \div HALVING_INTERVAL
    IN IF halvings >= 128 THEN 0 ELSE BLOCK_REWARD \div (2 ^ halvings)

ASSUME SubsidyIsNat == \A b \in 1..MaxBlue : block_subsidy(b) \in Nat

Lesser(x, y) == IF x <= y THEN x ELSE y
SaturatingSub(x, y) == IF x >= y THEN x - y ELSE 0

Subsidy_Uncapped == block_subsidy(blue)
Subsidy == Lesser(block_subsidy(blue), SaturatingSub(MAX_SUPPLY, minted))

ApplyBlockReward(next) ==
    /\ minted' = minted + Subsidy
    /\ utxo' = utxo + Subsidy + fees
    /\ fees' = 0
    /\ blue' = next
    /\ stage' = 1
    /\ UNCHANGED <<balance, nonce, staked, titles, escrows>>

-----------------------------------------------------------------------------
RegistryStep(s) ==
    \/ \E seed \in Seed, o \in Addr : IssueTitle(s, seed, o)
    \/ \E t \in TitleId, to \in Addr : TransferTitle(s, t, to)
    \/ \E seed \in Seed, b, sl \in Addr, amt \in Amount,
          t \in TitleId \cup {None}, timeout \in Timeout :
            OpenEscrow(s, seed, b, sl, amt, t, timeout)
    \/ \E e \in EscrowId, amt \in Amount : FundEscrow(s, e, amt)
    \/ \E e \in EscrowId : \/ ReleaseEscrow(s, e)
                           \/ RefundEscrow(s, e)
                           \/ TimeoutClaimEscrow(s, e)
    \/ SkipRegistryOp(s)

Next ==
    \/ \E a \in Addr, v \in Amount, f \in Fee : ApplyUtxoTx(a, v, f)
    \/ \E s \in Addr : RegistryStep(s)
    \/ \E s \in Addr, amt \in Amount : StakeLock(s, amt) \/ StakeUnlock(s, amt)
    \/ \E next \in 1..MaxBlue : ApplyBlockReward(next)

Spec == Init /\ [][Next]_vars

-----------------------------------------------------------------------------
(***************************************************************************)
(* Every component of the value state has its type (the maps and counters  *)
(* of `Ledger`, `RegistryState` and `EscrowAccount`).                      *)
(***************************************************************************)
TypeOK ==
    /\ balance \in [Addr -> Nat]
    /\ nonce \in [Addr -> Nat]
    /\ staked \in [Addr -> Nat]
    /\ titles \in [TitleId -> TitleDeed \cup {None}]
    /\ escrows \in [EscrowId -> EscrowAccount \cup {None}]
    /\ utxo \in Nat
    /\ minted \in Nat
    /\ fees \in Nat
    /\ blue \in 1..MaxBlue
    /\ stage \in 1..3

Accounts   == SumFunction(balance)
Staked     == SumFunction(staked)
InEscrow   == SumFunction([e \in EscrowId |->
                             IF escrows[e] = None THEN 0 ELSE escrows[e].funded])

(***************************************************************************)
(* No value is created or lost by any sequence of spends, escrow payments, *)
(* refunds, stake locks and rewards: what was minted is exactly what the   *)
(* accounts, stakes, escrows, UTXOs and the fees in flight hold, and it    *)
(* never exceeds the cap (`apply_block_reward`, `apply_op`,                *)
(* `apply_custody_op`, `apply_utxo_tx`).                                   *)
(***************************************************************************)
SupplyAccounted ==
    /\ Accounts + Staked + InEscrow + utxo + fees = minted
    /\ minted <= MAX_SUPPLY

(***************************************************************************)
(* `ChainState::supply_invariant_ok`, which `apply_block_effects` asserts  *)
(* at the end of every block and `load_one` requires of a state file:      *)
(* "Hard supply identity: minted = accounts + staked + utxo + fees_burned" *)
(* (fees_burned is 0 on a chain of the current version).                   *)
(***************************************************************************)
SupplyInvariantOk ==
    (stage = 1 /\ fees = 0) => Accounts + Staked + utxo = minted

(***************************************************************************)
(* A title and the escrow that locks it always agree: the deed names a     *)
(* live escrow exactly when that escrow names the deed, and while it is    *)
(* locked its owner is the escrow's seller.  Hence a title is never in two *)
(* live escrows, and never stays locked by a closed one (`apply_op`:       *)
(* OpenEscrow locks, Release, Refund and TimeoutClaim unlock).             *)
(***************************************************************************)
LockedTitleHasEscrow ==
    \A t \in TitleId :
        (titles[t] # None /\ titles[t].escrow_id # None) =>
            LET e == titles[t].escrow_id IN
            /\ escrows[e] # None
            /\ escrows[e].status \in Live
            /\ escrows[e].title_id = t
            /\ escrows[e].seller = titles[t].current_owner

LiveEscrowHasTitle ==
    \A e \in EscrowId :
        (escrows[e] # None /\ escrows[e].status \in Live /\ escrows[e].title_id # None) =>
            /\ titles[escrows[e].title_id] # None
            /\ titles[escrows[e].title_id].escrow_id = e

TitleLockConsistent == LockedTitleHasEscrow /\ LiveEscrowHasTitle

(***************************************************************************)
(* The books of an escrow follow its status: Funded means that at least    *)
(* the agreed amount is held, Open that less is, and a closed escrow holds *)
(* nothing, whatever partial or excess payments were made before           *)
(* (`FundEscrow` and the three closing operations of `apply_op`).          *)
(***************************************************************************)
BooksBalance(x) ==
    CASE x.status = "Open"   -> x.funded < x.amount
      [] x.status = "Funded" -> x.funded >= x.amount
      [] OTHER               -> x.funded = 0

EscrowBooks == \A e \in EscrowId : escrows[e] # None => BooksBalance(escrows[e])

(***************************************************************************)
(* Delivery versus payment: a title locked in escrow changes hands only to *)
(* the buyer of that escrow, and in the very same step its former owner is *)
(* paid at least the agreed amount (`ReleaseEscrow`).                      *)
(***************************************************************************)
DeliveryStep ==
    \A t \in TitleId :
        LET d == titles[t] IN
        (d # None /\ d.escrow_id # None /\ titles'[t].current_owner # d.current_owner) =>
            /\ titles'[t].current_owner = escrows[d.escrow_id].buyer
            /\ balance'[d.current_owner] >= balance[d.current_owner] + escrows[d.escrow_id].amount

DeliveryVersusPayment == [][DeliveryStep]_vars

(***************************************************************************)
(* No unilateral spend: the money of a funded escrow reaches the seller    *)
(* only in an operation that the buyer signed, and goes back to the buyer  *)
(* only in one that the seller signed or that the buyer signed at or after *)
(* the timeout; a closed escrow never changes again (the authorisation     *)
(* rules of `EscrowAccount`; the signer is the one whose nonce advances).  *)
(***************************************************************************)
Signed(a) == nonce'[a] # nonce[a]

AuthorisedStep ==
    \A e \in EscrowId :
        LET x == escrows[e] IN
        x # None =>
            /\ x.status \notin Live => escrows'[e] = x
            /\ (x.status = "Funded" /\ escrows'[e].status = "Released") => Signed(x.buyer)
            /\ (x.status = "Funded" /\ escrows'[e].status = "Refunded") =>
                  \/ Signed(x.seller)
                  \/ Signed(x.buyer) /\ x.timeout_blue # 0 /\ blue >= x.timeout_blue
            /\ (x.status = "Open" /\ escrows'[e].status # "Open") => Signed(x.buyer)

NoUnilateralSpend == [][AuthorisedStep]_vars
=============================================================================
