---------------------------- MODULE LedgerProofs ----------------------------
(***************************************************************************)
(* Proofs about Ledger, for any set of parties, titles and amounts.        *)
(***************************************************************************)
EXTENDS Ledger, Inductions, TLAPS

LEMMA InitType == Init => TypeOK
  BY LedgerConstants DEF Init, TypeOK

LEMMA NonceType ==
    ASSUME TypeOK, NEW s \in Addr, nonce' = [nonce EXCEPT ![s] = @ + 1]
    PROVE  nonce' \in [Addr -> Nat]
  BY DEF TypeOK

LEMMA RegistryType ==
    ASSUME TypeOK, NEW s \in Addr, TakeNonce(s),
           balance' \in [Addr -> Nat],
           titles' \in [TitleId -> TitleDeed \cup {None}],
           escrows' \in [EscrowId -> EscrowAccount \cup {None}]
    PROVE  TypeOK'
  <1>1. nonce' \in [Addr -> Nat]
    BY NonceType DEF TakeNonce
  <1> QED BY <1>1 DEF TypeOK, TakeNonce

LEMMA UnlockType ==
    ASSUME TypeOK, NEW t \in TitleId, titles[t] # None
    PROVE  UnlockTitle(t) \in [TitleId -> TitleDeed \cup {None}]
  BY DEF TypeOK, UnlockTitle, TitleDeed

LEMMA CloseType ==
    ASSUME TypeOK, NEW e \in EscrowId, NEW p \in Addr, escrows[e] # None,
           NEW st \in EscrowStatus, CloseEscrow(e, st, p)
    PROVE  balance' \in [Addr -> Nat] /\ escrows' \in [EscrowId -> EscrowAccount \cup {None}]
  <1>1. escrows[e] \in EscrowAccount /\ escrows[e].funded \in Nat
    BY DEF TypeOK, EscrowAccount
  <1>2. balance' \in [Addr -> Nat]
    BY <1>1 DEF TypeOK, CloseEscrow
  <1>3. escrows' \in [EscrowId -> EscrowAccount \cup {None}]
    BY <1>1 DEF TypeOK, CloseEscrow, EscrowAccount
  <1> QED BY <1>2, <1>3

LEMMA DepositType ==
    ASSUME NEW x \in EscrowAccount, NEW amt \in Nat
    PROVE  Deposit(x, amt) \in EscrowAccount
  <1>1. x.funded + amt \in Nat /\ x.status \in EscrowStatus /\ "Funded" \in EscrowStatus
    BY DEF EscrowAccount, EscrowStatus
  <1>2. CASE x.funded + amt >= x.amount
    BY <1>1, <1>2 DEF Deposit, EscrowAccount
  <1>3. CASE ~(x.funded + amt >= x.amount)
    BY <1>1, <1>3 DEF Deposit, EscrowAccount
  <1> QED BY <1>2, <1>3

LEMMA TypeStep == TypeOK /\ [Next]_vars => TypeOK'
  <1> SUFFICES ASSUME TypeOK, [Next]_vars PROVE TypeOK'
    OBVIOUS
  <1> USE DEF EscrowId, TitleId
  <1>1. ASSUME NEW a \in Addr, NEW v \in Amount, NEW f \in Fee, ApplyUtxoTx(a, v, f)
        PROVE  TypeOK'
    <2>1. v \in Nat /\ f \in Nat
      BY LedgerConstants
    <2> QED BY <1>1, <2>1 DEF TypeOK, ApplyUtxoTx
  <1>2. ASSUME NEW s \in Addr, RegistryStep(s)
        PROVE  TypeOK'
    <2>1. ASSUME NEW seed \in Seed, NEW o \in Addr, IssueTitle(s, seed, o)
          PROVE  TypeOK'
      <3>1. titles' \in [TitleId -> TitleDeed \cup {None}]
        BY <2>1 DEF IssueTitle, TypeOK, TitleDeed
      <3> QED BY <2>1, <3>1, RegistryType DEF IssueTitle, TypeOK
    <2>2. ASSUME NEW t \in TitleId, NEW to \in Addr, TransferTitle(s, t, to)
          PROVE  TypeOK'
      <3>1. titles' \in [TitleId -> TitleDeed \cup {None}]
        BY <2>2 DEF TransferTitle, TypeOK, TitleDeed
      <3> QED BY <2>2, <3>1, RegistryType DEF TransferTitle, TypeOK
    <2>3. ASSUME NEW seed \in Seed, NEW b \in Addr, NEW sl \in Addr, NEW amt \in Amount,
                 NEW t \in TitleId \cup {None}, NEW timeout \in Timeout,
                 OpenEscrow(s, seed, b, sl, amt, t, timeout)
          PROVE  TypeOK'
      <3>1. titles' \in [TitleId -> TitleDeed \cup {None}]
        BY <2>3 DEF OpenEscrow, TypeOK, TitleDeed
      <3>2. [buyer |-> b, seller |-> sl, amount |-> amt, funded |-> 0, status |-> "Open",
             title_id |-> t, timeout_blue |-> timeout] \in EscrowAccount
        BY <2>3, LedgerConstants DEF OpenEscrow, EscrowAccount, EscrowStatus
      <3>3. escrows' \in [EscrowId -> EscrowAccount \cup {None}]
        BY <2>3, <3>2 DEF OpenEscrow, TypeOK
      <3> QED BY <2>3, <3>1, <3>3, RegistryType DEF OpenEscrow, TypeOK
    <2>4. ASSUME NEW e \in EscrowId, NEW amt \in Amount, FundEscrow(s, e, amt)
          PROVE  TypeOK'
      <3>1. amt \in Nat /\ escrows[e] \in EscrowAccount
        BY <2>4, LedgerConstants DEF FundEscrow, TypeOK
      <3>2. balance' \in [Addr -> Nat]
        BY <2>4, <3>1 DEF FundEscrow, TypeOK
      <3>3. escrows' \in [EscrowId -> EscrowAccount \cup {None}]
        BY <2>4, <3>1, DepositType DEF FundEscrow, TypeOK
      <3> QED BY <2>4, <3>2, <3>3, RegistryType DEF FundEscrow, TypeOK
    <2>5. ASSUME NEW e \in EscrowId, ReleaseEscrow(s, e)
          PROVE  TypeOK'
      <3>1. /\ escrows[e] \in EscrowAccount
            /\ escrows[e].buyer \in Addr /\ escrows[e].seller \in Addr
            /\ escrows[e].title_id \in TitleId \cup {None}
        BY <2>5 DEF ReleaseEscrow, TypeOK, EscrowAccount
      <3>2. balance' \in [Addr -> Nat] /\ escrows' \in [EscrowId -> EscrowAccount \cup {None}]
        BY <2>5, <3>1, CloseType DEF ReleaseEscrow, EscrowStatus
      <3>3. titles' \in [TitleId -> TitleDeed \cup {None}]
        BY <2>5, <3>1 DEF ReleaseEscrow, UnlockTitle, TypeOK, TitleDeed
      <3> QED BY <2>5, <3>2, <3>3, RegistryType DEF ReleaseEscrow
    <2>6. ASSUME NEW e \in EscrowId, RefundEscrow(s, e)
          PROVE  TypeOK'
      <3>1. /\ escrows[e] \in EscrowAccount /\ escrows[e].buyer \in Addr
            /\ escrows[e].title_id \in TitleId \cup {None}
        BY <2>6 DEF RefundEscrow, TypeOK, EscrowAccount
      <3>2. balance' \in [Addr -> Nat] /\ escrows' \in [EscrowId -> EscrowAccount \cup {None}]
        BY <2>6, <3>1, CloseType DEF RefundEscrow, EscrowStatus
      <3>3. titles' \in [TitleId -> TitleDeed \cup {None}]
        BY <2>6, <3>1, UnlockType DEF RefundEscrow, TypeOK
      <3> QED BY <2>6, <3>2, <3>3, RegistryType DEF RefundEscrow
    <2>7. ASSUME NEW e \in EscrowId, TimeoutClaimEscrow(s, e)
          PROVE  TypeOK'
      <3>1. /\ escrows[e] \in EscrowAccount /\ escrows[e].buyer \in Addr
            /\ escrows[e].title_id \in TitleId \cup {None}
        BY <2>7 DEF TimeoutClaimEscrow, TypeOK, EscrowAccount
      <3>2. balance' \in [Addr -> Nat] /\ escrows' \in [EscrowId -> EscrowAccount \cup {None}]
        BY <2>7, <3>1, CloseType DEF TimeoutClaimEscrow, EscrowStatus
      <3>3. titles' \in [TitleId -> TitleDeed \cup {None}]
        BY <2>7, <3>1, UnlockType DEF TimeoutClaimEscrow, TypeOK
      <3> QED BY <2>7, <3>2, <3>3, RegistryType DEF TimeoutClaimEscrow
    <2>8. CASE SkipRegistryOp(s)
      BY <2>8, RegistryType DEF SkipRegistryOp, TypeOK
    <2> QED BY <1>2, <2>1, <2>2, <2>3, <2>4, <2>5, <2>6, <2>7, <2>8 DEF RegistryStep
  <1>3. ASSUME NEW s \in Addr, NEW amt \in Amount, StakeLock(s, amt) \/ StakeUnlock(s, amt)
        PROVE  TypeOK'
    <2>1. amt \in Nat
      BY LedgerConstants
    <2>2. balance' \in [Addr -> Nat] /\ staked' \in [Addr -> Nat]
      BY <1>3, <2>1 DEF StakeLock, StakeUnlock, TypeOK
    <2>3. TakeCustodyNonce(s)
      BY <1>3 DEF StakeLock, StakeUnlock
    <2> QED BY <2>2, <2>3, NonceType DEF TakeCustodyNonce, TypeOK
  <1>4. ASSUME NEW next \in 1..MaxBlue, ApplyBlockReward(next)
        PROVE  TypeOK'
    <2>1. Subsidy \in Nat
      BY SubsidyIsNat, LedgerConstants DEF Subsidy, Lesser, SaturatingSub, TypeOK
    <2> QED BY <1>4, <2>1 DEF ApplyBlockReward, TypeOK
  <1>5. CASE UNCHANGED vars
    BY <1>5 DEF vars, TypeOK
  <1> QED BY <1>1, <1>2, <1>3, <1>4, <1>5 DEF Next

(***************************************************************************)
(* The value state is well typed in every reachable state; in particular   *)
(* no balance, stake or escrow ever goes below zero.                       *)
(***************************************************************************)
THEOREM LedgerType == Spec => []TypeOK
  BY InitType, TypeStep, PTL DEF Spec

-----------------------------------------------------------------------------
(***************************************************************************)
(* Release, Refund and TimeoutClaim: the escrow that is closed was live,   *)
(* so its title was locked by it and by no other.                          *)
(***************************************************************************)
LEMMA CloseKeepsLocks ==
    ASSUME TypeOK, TitleLockConsistent,
           NEW e \in EscrowId, escrows[e] # None, escrows[e].status \in Live,
           NEW st \in EscrowStatus \ Live, NEW p \in Addr, CloseEscrow(e, st, p),
           \A t \in TitleId : t # escrows[e].title_id => titles'[t] = titles[t],
           escrows[e].title_id # None => titles'[escrows[e].title_id].escrow_id = None
    PROVE  TitleLockConsistent'
  <1>1. /\ escrows[e] \in EscrowAccount
        /\ escrows'[e] = [escrows[e] EXCEPT !.funded = 0, !.status = st]
        /\ \A f \in EscrowId : f # e => escrows'[f] = escrows[f]
    BY DEF CloseEscrow, TypeOK
  <1>2. /\ escrows'[e].status \notin Live
        /\ escrows[e].title_id \in TitleId \cup {None}
    BY <1>1 DEF EscrowAccount
  <1>3. LockedTitleHasEscrow'
    <2> SUFFICES ASSUME NEW t \in TitleId, titles'[t] # None, titles'[t].escrow_id # None
                 PROVE  LET f == titles'[t].escrow_id IN
                        /\ escrows'[f] # None
                        /\ escrows'[f].status \in Live
                        /\ escrows'[f].title_id = t
                        /\ escrows'[f].seller = titles'[t].current_owner
      BY DEF LockedTitleHasEscrow
    <2>1. t # escrows[e].title_id
      BY NoneAbsent
    <2>2. titles'[t] = titles[t]
      BY <2>1
    <2>3. titles[t].escrow_id \in EscrowId /\ titles[t].escrow_id # e
      BY <2>1, <2>2 DEF TitleLockConsistent, LockedTitleHasEscrow, TypeOK, TitleDeed
    <2> QED BY <1>1, <2>2, <2>3 DEF TitleLockConsistent, LockedTitleHasEscrow
  <1>4. LiveEscrowHasTitle'
    <2> SUFFICES ASSUME NEW f \in EscrowId, escrows'[f] # None, escrows'[f].status \in Live,
                        escrows'[f].title_id # None
                 PROVE  /\ titles'[escrows'[f].title_id] # None
                        /\ titles'[escrows'[f].title_id].escrow_id = f
      BY DEF LiveEscrowHasTitle
    <2>1. f # e /\ escrows'[f] = escrows[f]
      BY <1>1, <1>2
    <2>2. /\ escrows[f].title_id \in TitleId
          /\ titles[escrows[f].title_id] # None
          /\ titles[escrows[f].title_id].escrow_id = f
      BY <2>1 DEF TitleLockConsistent, LiveEscrowHasTitle, TypeOK, EscrowAccount
    <2>3. escrows[f].title_id # escrows[e].title_id
      BY <1>2, <2>1, <2>2 DEF TitleLockConsistent, LiveEscrowHasTitle
    <2> QED BY <2>1, <2>2, <2>3
  <1> QED BY <1>3, <1>4 DEF TitleLockConsistent

LEMMA LockInit == Init => TitleLockConsistent
  BY DEF Init, TitleLockConsistent, LockedTitleHasEscrow, LiveEscrowHasTitle

(***************************************************************************)
(* The record of an unlocked title may change its owner or come into being *)
(* without an escrow: no live escrow refers to it.                         *)
(***************************************************************************)
LEMMA UnlockedTitleKeepsLocks ==
    ASSUME TypeOK, TitleLockConsistent, NEW t \in TitleId, NEW d \in TitleDeed,
           titles[t] = None \/ titles[t].escrow_id = None,
           d.escrow_id = None, titles' = [titles EXCEPT ![t] = d], escrows' = escrows
    PROVE  TitleLockConsistent'
  <1>1. titles'[t] = d /\ \A u \in TitleId : u # t => titles'[u] = titles[u]
    BY DEF TypeOK
  <1>2. LockedTitleHasEscrow'
    BY <1>1 DEF TitleLockConsistent, LockedTitleHasEscrow
  <1>3. \A e \in EscrowId : e # None
    BY NoneAbsent
  <1>4. LiveEscrowHasTitle'
    <2> SUFFICES ASSUME NEW e \in EscrowId, escrows[e] # None, escrows[e].status \in Live,
                        escrows[e].title_id # None
                 PROVE  /\ titles'[escrows[e].title_id] # None
                        /\ titles'[escrows[e].title_id].escrow_id = e
      BY DEF LiveEscrowHasTitle
    <2>1. escrows[e].title_id \in TitleId
      BY DEF TypeOK, EscrowAccount
    <2> QED BY <1>1, <1>3, <2>1 DEF TitleLockConsistent, LiveEscrowHasTitle
  <1> QED BY <1>2, <1>4 DEF TitleLockConsistent

LEMMA OpenKeepsLocks ==
    ASSUME TypeOK, TitleLockConsistent,
           NEW s \in Addr, NEW seed \in Seed, NEW b \in Addr, NEW sl \in Addr,
           NEW amt \in Amount, NEW t \in TitleId \cup {None}, NEW timeout \in Timeout,
           OpenEscrow(s, seed, b, sl, amt, t, timeout)
    PROVE  TitleLockConsistent'
  <1> DEFINE id == <<s, seed>>
  <1>1. /\ id \in EscrowId /\ escrows[id] = None
        /\ escrows'[id] = [buyer |-> b, seller |-> sl, amount |-> amt, funded |-> 0,
                           status |-> "Open", title_id |-> t, timeout_blue |-> timeout]
        /\ \A f \in EscrowId : f # id => escrows'[f] = escrows[f]
    BY DEF OpenEscrow, TypeOK, EscrowId
  <1>2. escrows'[id] # None
    <2>1. amt \in Nat \ {0} /\ timeout \in Nat
      BY LedgerConstants DEF OpenEscrow
    <2>2. escrows'[id] \in EscrowAccount
      BY <1>1, <2>1 DEF EscrowAccount, EscrowStatus
    <2> QED BY <2>2, NoneAbsent
  <1>3. \A u \in TitleId : u # t => titles'[u] = titles[u]
    BY DEF OpenEscrow, TypeOK
  <1>4. t # None => /\ titles[t] \in TitleDeed
                    /\ titles[t].current_owner = sl /\ titles[t].escrow_id = None
                    /\ titles'[t] = [titles[t] EXCEPT !.escrow_id = id]
    BY DEF OpenEscrow, TypeOK
  <1>5. LockedTitleHasEscrow'
    <2> SUFFICES ASSUME NEW u \in TitleId, titles'[u] # None, titles'[u].escrow_id # None
                 PROVE  LET f == titles'[u].escrow_id IN
                        /\ escrows'[f] # None
                        /\ escrows'[f].status \in Live
                        /\ escrows'[f].title_id = u
                        /\ escrows'[f].seller = titles'[u].current_owner
      BY DEF LockedTitleHasEscrow
    <2>1. CASE u = t
      <3>1. titles'[u].escrow_id = id /\ titles'[u].current_owner = sl
        BY <1>4, <2>1, NoneAbsent DEF TitleDeed
      <3> QED BY <1>1, <1>2, <2>1, <3>1 DEF Live
    <2>2. CASE u # t
      <3>1. titles'[u] = titles[u]
        BY <1>3, <2>2
      <3>2. titles[u].escrow_id \in EscrowId /\ titles[u].escrow_id # id
        BY <1>1, <3>1 DEF TitleLockConsistent, LockedTitleHasEscrow, TypeOK, TitleDeed
      <3> QED BY <1>1, <3>1, <3>2 DEF TitleLockConsistent, LockedTitleHasEscrow
    <2> QED BY <2>1, <2>2
  <1>6. LiveEscrowHasTitle'
    <2> SUFFICES ASSUME NEW f \in EscrowId, escrows'[f] # None, escrows'[f].status \in Live,
                        escrows'[f].title_id # None
                 PROVE  /\ titles'[escrows'[f].title_id] # None
                        /\ titles'[escrows'[f].title_id].escrow_id = f
      BY DEF LiveEscrowHasTitle
    <2>1. CASE f = id
      <3>1. escrows'[f].title_id = t /\ t # None
        BY <1>1, <2>1
      <3>2. titles'[t] \in TitleDeed /\ titles'[t].escrow_id = id
        BY <1>1, <1>4, <3>1 DEF TitleDeed
      <3> QED BY <2>1, <3>1, <3>2, NoneAbsent
    <2>2. CASE f # id
      <3>1. /\ escrows'[f] = escrows[f] /\ escrows[f].title_id \in TitleId
            /\ titles[escrows[f].title_id] # None
            /\ titles[escrows[f].title_id].escrow_id = f
        BY <1>1, <2>2 DEF TitleLockConsistent, LiveEscrowHasTitle, TypeOK, EscrowAccount
      <3>2. escrows[f].title_id # t
        BY <1>4, <3>1, NoneAbsent
      <3> QED BY <1>3, <3>1, <3>2
    <2> QED BY <2>1, <2>2
  <1> QED BY <1>5, <1>6 DEF TitleLockConsistent

LEMMA FundKeepsLocks ==
    ASSUME TypeOK, TitleLockConsistent, NEW s \in Addr, NEW e \in EscrowId, NEW amt \in Amount,
           FundEscrow(s, e, amt)
    PROVE  TitleLockConsistent'
  <1>1. escrows[e] \in EscrowAccount /\ amt \in Nat
    BY LedgerConstants DEF FundEscrow, TypeOK
  <1>2. /\ titles' = titles
        /\ escrows'[e] = Deposit(escrows[e], amt)
        /\ \A f \in EscrowId : f # e => escrows'[f] = escrows[f]
    BY DEF FundEscrow, TypeOK
  <1>3. escrows[e] # None /\ escrows'[e] # None
    BY <1>1, <1>2, DepositType, NoneAbsent
  <1>4. /\ escrows[e].status \in Live /\ escrows'[e].status \in Live
        /\ escrows'[e].title_id = escrows[e].title_id
        /\ escrows'[e].seller = escrows[e].seller
    BY <1>1, <1>2 DEF FundEscrow, Deposit, EscrowAccount, Live
  <1>5. \A t \in TitleId : titles[t] # None => titles[t].escrow_id \in EscrowId \cup {None}
    BY DEF TypeOK, TitleDeed
  <1>6. LockedTitleHasEscrow'
    BY <1>2, <1>3, <1>4, <1>5 DEF TitleLockConsistent, LockedTitleHasEscrow
  <1>7. LiveEscrowHasTitle'
    BY <1>2, <1>3, <1>4 DEF TitleLockConsistent, LiveEscrowHasTitle
  <1> QED BY <1>6, <1>7 DEF TitleLockConsistent

(***************************************************************************)
(* What the three closing operations have in common.                       *)
(***************************************************************************)
Closing(s, e) == ReleaseEscrow(s, e) \/ RefundEscrow(s, e) \/ TimeoutClaimEscrow(s, e)

LEMMA ClosingFacts ==
    ASSUME TypeOK, NEW s \in Addr, NEW e \in EscrowId, Closing(s, e)
    PROVE  /\ escrows[e] # None /\ escrows[e] \in EscrowAccount
           /\ escrows[e].status \in Live
           /\ \E st \in EscrowStatus \ Live, p \in Addr : CloseEscrow(e, st, p)
           /\ \A t \in TitleId : t # escrows[e].title_id => titles'[t] = titles[t]
  <1>1. escrows[e] # None /\ escrows[e] \in EscrowAccount
    BY DEF Closing, ReleaseEscrow, RefundEscrow, TimeoutClaimEscrow, TypeOK
  <1>2. escrows[e].status \in Live
    BY DEF Closing, ReleaseEscrow, MayRelease, RefundEscrow, MayRefund,
           TimeoutClaimEscrow, MayTimeoutClaim, Live
  <1>3. escrows[e].buyer \in Addr /\ escrows[e].seller \in Addr
    BY <1>1 DEF EscrowAccount
  <1>4. {"Released", "Refunded"} \subseteq EscrowStatus \ Live
    BY DEF EscrowStatus, Live
  <1>5. \E st \in EscrowStatus \ Live, p \in Addr : CloseEscrow(e, st, p)
    BY <1>3, <1>4 DEF Closing, ReleaseEscrow, RefundEscrow, TimeoutClaimEscrow
  <1>6. \A t \in TitleId : t # escrows[e].title_id => titles'[t] = titles[t]
    BY DEF Closing, ReleaseEscrow, RefundEscrow, TimeoutClaimEscrow, UnlockTitle, TypeOK
  <1> QED BY <1>1, <1>2, <1>5, <1>6

LEMMA ClosingKeepsLocks ==
    ASSUME TypeOK, TitleLockConsistent, NEW s \in Addr, NEW e \in EscrowId, Closing(s, e)
    PROVE  TitleLockConsistent'
  <1> DEFINE t == escrows[e].title_id
  <1>1. escrows[e] # None /\ escrows[e].status \in Live /\ t \in TitleId \cup {None}
    BY ClosingFacts DEF EscrowAccount
  <1>2. t # None => titles[t] # None /\ titles[t] \in TitleDeed
    BY <1>1 DEF TitleLockConsistent, LiveEscrowHasTitle, TypeOK
  <1>3. t # None => titles'[t].escrow_id = None
    BY <1>1, <1>2 DEF Closing, ReleaseEscrow, RefundEscrow, TimeoutClaimEscrow, UnlockTitle,
                      TypeOK, TitleDeed
  <1> QED BY <1>1, <1>3, ClosingFacts, CloseKeepsLocks

LEMMA LockStep == TypeOK /\ TitleLockConsistent /\ [Next]_vars => TitleLockConsistent'
  <1> SUFFICES ASSUME TypeOK, TitleLockConsistent, [Next]_vars
               PROVE  TitleLockConsistent'
    OBVIOUS
  <1>1. CASE titles' = titles /\ escrows' = escrows
    BY <1>1 DEF TitleLockConsistent, LockedTitleHasEscrow, LiveEscrowHasTitle
  <1>2. ASSUME NEW s \in Addr, RegistryStep(s)
        PROVE  TitleLockConsistent'
    <2>1. ASSUME NEW seed \in Seed, NEW o \in Addr, IssueTitle(s, seed, o)
          PROVE  TitleLockConsistent'
      <3>1. <<s, seed>> \in TitleId
        BY DEF TitleId
      <3>2. [current_owner |-> o, escrow_id |-> None] \in TitleDeed
        BY DEF TitleDeed
      <3> QED BY <2>1, <3>1, <3>2, UnlockedTitleKeepsLocks DEF IssueTitle
    <2>2. ASSUME NEW t \in TitleId, NEW to \in Addr, TransferTitle(s, t, to)
          PROVE  TitleLockConsistent'
      <3>1. titles[t] \in TitleDeed /\ titles[t].escrow_id = None
        BY <2>2 DEF TransferTitle, TypeOK
      <3>2. /\ [titles[t] EXCEPT !.current_owner = to] \in TitleDeed
            /\ [titles[t] EXCEPT !.current_owner = to].escrow_id = None
        BY <3>1 DEF TitleDeed
      <3>3. titles' = [titles EXCEPT ![t] = [titles[t] EXCEPT !.current_owner = to]]
        BY <2>2 DEF TransferTitle
      <3> QED BY <2>2, <3>1, <3>2, <3>3, UnlockedTitleKeepsLocks DEF TransferTitle
    <2>3. CASE \E e \in EscrowId : Closing(s, e)
      BY <2>3, ClosingKeepsLocks
    <2>4. CASE SkipRegistryOp(s)
      BY <1>1, <2>4 DEF SkipRegistryOp
    <2> QED BY <1>2, <2>1, <2>2, <2>3, <2>4, OpenKeepsLocks, FundKeepsLocks
            DEF RegistryStep, Closing
  <1>3. CASE UNCHANGED vars
    BY <1>1, <1>3 DEF vars
  <1>4. ASSUME NEW a \in Addr, NEW v \in Amount, NEW f \in Fee, ApplyUtxoTx(a, v, f)
        PROVE  TitleLockConsistent'
    BY <1>1, <1>4 DEF ApplyUtxoTx
  <1>5. ASSUME NEW s \in Addr, NEW amt \in Amount, StakeLock(s, amt) \/ StakeUnlock(s, amt)
        PROVE  TitleLockConsistent'
    BY <1>1, <1>5 DEF StakeLock, StakeUnlock, TakeCustodyNonce
  <1>6. ASSUME NEW next \in 1..MaxBlue, ApplyBlockReward(next)
        PROVE  TitleLockConsistent'
    BY <1>1, <1>6 DEF ApplyBlockReward
  <1> QED BY <1>2, <1>3, <1>4, <1>5, <1>6 DEF Next

(***************************************************************************)
(* A title and the escrow that locks it always agree, whatever the parties *)
(* sign and in whatever order blocks replay it (`RegistryState::apply_op`).*)
(***************************************************************************)
THEOREM TitleLocks == Spec => []TitleLockConsistent
  BY LedgerType, LockInit, LockStep, PTL DEF Spec

-----------------------------------------------------------------------------
(***************************************************************************)
(* How a step may change one escrow: it comes into being without money, it *)
(* takes a payment, or it is closed.                                       *)
(***************************************************************************)
LEMMA EscrowStep ==
    ASSUME TypeOK, [Next]_vars, NEW e \in EscrowId
    PROVE  \/ escrows'[e] = escrows[e]
           \/ /\ escrows[e] = None
              /\ escrows'[e].status = "Open" /\ escrows'[e].funded = 0
              /\ escrows'[e].amount \in Nat \ {0}
           \/ \E s \in Addr, amt \in Amount :
                 FundEscrow(s, e, amt) /\ escrows'[e] = Deposit(escrows[e], amt)
           \/ \E s \in Addr, st \in EscrowStatus \ Live :
                 /\ Closing(s, e)
                 /\ escrows'[e] = [escrows[e] EXCEPT !.funded = 0, !.status = st]
  <1>1. CASE escrows' = escrows
    BY <1>1
  <1>2. ASSUME NEW s \in Addr, NEW seed \in Seed, NEW b \in Addr, NEW sl \in Addr,
               NEW amt \in Amount, NEW t \in TitleId \cup {None}, NEW timeout \in Timeout,
               OpenEscrow(s, seed, b, sl, amt, t, timeout)
        PROVE  \/ escrows'[e] = escrows[e]
               \/ /\ escrows[e] = None
                  /\ escrows'[e].status = "Open" /\ escrows'[e].funded = 0
                  /\ escrows'[e].amount \in Nat \ {0}
    BY <1>2, LedgerConstants DEF OpenEscrow, TypeOK
  <1>3. ASSUME NEW s \in Addr, NEW f \in EscrowId, NEW amt \in Amount, FundEscrow(s, f, amt)
        PROVE  \/ escrows'[e] = escrows[e]
               \/ f = e /\ escrows'[e] = Deposit(escrows[e], amt)
    BY <1>3 DEF FundEscrow, TypeOK
  <1>4. ASSUME NEW s \in Addr, NEW f \in EscrowId, Closing(s, f)
        PROVE  \/ escrows'[e] = escrows[e]
               \/ f = e /\ \E st \in EscrowStatus \ Live :
                              escrows'[e] = [escrows[e] EXCEPT !.funded = 0, !.status = st]
    <2>1. PICK st \in EscrowStatus \ Live, p \in Addr : CloseEscrow(f, st, p)
      BY <1>4, ClosingFacts
    <2> QED BY <2>1 DEF CloseEscrow, TypeOK
  <1>5. ASSUME NEW s \in Addr, RegistryStep(s)
        PROVE  \/ escrows' = escrows
               \/ \E seed \in Seed, b, sl \in Addr, amt \in Amount,
                     t \in TitleId \cup {None}, timeout \in Timeout :
                       OpenEscrow(s, seed, b, sl, amt, t, timeout)
               \/ \E f \in EscrowId, amt \in Amount : FundEscrow(s, f, amt)
               \/ \E f \in EscrowId : Closing(s, f)
    BY <1>5 DEF RegistryStep, IssueTitle, TransferTitle, SkipRegistryOp, Closing
  <1>6. escrows' = escrows \/ \E s \in Addr : RegistryStep(s)
    BY DEF Next, vars, ApplyUtxoTx, StakeLock, StakeUnlock, TakeCustodyNonce, ApplyBlockReward
  <1> QED BY <1>1, <1>2, <1>3, <1>4, <1>5, <1>6

LEMMA BooksInit == Init => EscrowBooks
  BY DEF Init, EscrowBooks

LEMMA BooksStep == TypeOK /\ EscrowBooks /\ [Next]_vars => EscrowBooks'
  <1> SUFFICES ASSUME TypeOK, EscrowBooks, [Next]_vars, NEW e \in EscrowId,
                      escrows'[e] # None
               PROVE  BooksBalance(escrows'[e])
    BY DEF EscrowBooks
  <1>1. CASE escrows'[e] = escrows[e]
    BY <1>1 DEF EscrowBooks
  <1>2. CASE /\ escrows'[e].status = "Open" /\ escrows'[e].funded = 0
             /\ escrows'[e].amount \in Nat \ {0}
    BY <1>2 DEF BooksBalance
  <1>3. ASSUME NEW s \in Addr, NEW amt \in Amount,
               FundEscrow(s, e, amt), escrows'[e] = Deposit(escrows[e], amt)
        PROVE  BooksBalance(escrows'[e])
    <2>1. /\ escrows[e] \in EscrowAccount /\ amt \in Nat
          /\ escrows[e].funded \in Nat /\ escrows[e].amount \in Nat
          /\ escrows[e].status \in Live
      BY <1>3, LedgerConstants DEF FundEscrow, TypeOK, EscrowAccount
    <2>2. escrows[e].status = "Funded" => escrows[e].funded >= escrows[e].amount
      BY <1>3 DEF FundEscrow, EscrowBooks, BooksBalance
    <2>3. /\ escrows'[e].funded = escrows[e].funded + amt
          /\ escrows'[e].amount = escrows[e].amount
          /\ escrows'[e].status = IF escrows[e].funded + amt >= escrows[e].amount
                                  THEN "Funded" ELSE escrows[e].status
      BY <1>3, <2>1 DEF Deposit, EscrowAccount
    <2>4. CASE escrows[e].funded + amt >= escrows[e].amount
      BY <2>1, <2>3, <2>4 DEF BooksBalance
    <2>5. CASE ~(escrows[e].funded + amt >= escrows[e].amount)
      <3>1. escrows[e].status = "Open"
        BY <2>1, <2>2, <2>5 DEF Live
      <3> QED BY <2>1, <2>3, <2>5, <3>1 DEF BooksBalance
    <2> QED BY <2>4, <2>5
  <1>4. ASSUME NEW s \in Addr, NEW st \in EscrowStatus \ Live, Closing(s, e),
               escrows'[e] = [escrows[e] EXCEPT !.funded = 0, !.status = st]
        PROVE  BooksBalance(escrows'[e])
    <2>1. escrows[e] \in EscrowAccount
      BY <1>4, ClosingFacts
    <2>2. escrows'[e].funded = 0 /\ escrows'[e].status = st
      BY <1>4, <2>1 DEF EscrowAccount
    <2>3. st # "Open" /\ st # "Funded"
      BY DEF Live
    <2> QED BY <2>2, <2>3 DEF BooksBalance
  <1> QED BY <1>1, <1>2, <1>3, <1>4, EscrowStep

(***************************************************************************)
(* A funded escrow holds at least its amount, an open one less, a closed   *)
(* one nothing (`FundEscrow` and the closing operations of `apply_op`).    *)
(***************************************************************************)
THEOREM Books == Spec => []EscrowBooks
  BY LedgerType, BooksInit, BooksStep, PTL DEF Spec

-----------------------------------------------------------------------------
(***************************************************************************)
(* How a step may change a locked title: only a Release of its own escrow  *)
(* changes the owner.                                                      *)
(***************************************************************************)
LEMMA LockedTitleStep ==
    ASSUME TypeOK, TitleLockConsistent, [Next]_vars, NEW t \in TitleId,
           titles[t] # None, titles[t].escrow_id # None,
           titles'[t].current_owner # titles[t].current_owner
    PROVE  \E s \in Addr : ReleaseEscrow(s, titles[t].escrow_id)
  <1>1. CASE titles' = titles
    BY <1>1
  <1>2. ASSUME NEW s \in Addr, RegistryStep(s)
        PROVE  ReleaseEscrow(s, titles[t].escrow_id)
    <2>1. /\ titles[t] \in TitleDeed
          /\ \A e \in EscrowId : (escrows[e] # None /\ escrows[e].title_id = t
                                     /\ escrows[e].status \in Live) => titles[t].escrow_id = e
      BY NoneAbsent DEF TypeOK, TitleLockConsistent, LiveEscrowHasTitle
    <2>2. ASSUME NEW seed \in Seed, NEW o \in Addr, IssueTitle(s, seed, o) PROVE FALSE
      BY <2>2 DEF IssueTitle, TypeOK, TitleId
    <2>3. ASSUME NEW u \in TitleId, NEW to \in Addr, TransferTitle(s, u, to) PROVE FALSE
      BY <2>3 DEF TransferTitle, TypeOK
    <2>4. ASSUME NEW seed \in Seed, NEW b \in Addr, NEW sl \in Addr, NEW amt \in Amount,
                 NEW u \in TitleId \cup {None}, NEW timeout \in Timeout,
                 OpenEscrow(s, seed, b, sl, amt, u, timeout)
          PROVE FALSE
      BY <2>4 DEF OpenEscrow, TypeOK
    <2>5. ASSUME NEW e \in EscrowId, RefundEscrow(s, e) \/ TimeoutClaimEscrow(s, e)
          PROVE FALSE
      BY <2>1, <2>5 DEF RefundEscrow, TimeoutClaimEscrow, UnlockTitle, TypeOK, TitleDeed
    <2>6. ASSUME NEW e \in EscrowId, ReleaseEscrow(s, e)
          PROVE  e = titles[t].escrow_id
      <3>1. Closing(s, e)
        BY <2>6 DEF Closing
      <3>2. escrows[e].title_id = t
        BY <3>1, ClosingFacts
      <3> QED BY <2>1, <3>1, <3>2, ClosingFacts
    <2>7. ASSUME NEW e \in EscrowId, NEW amt \in Amount, FundEscrow(s, e, amt) PROVE FALSE
      BY <2>7 DEF FundEscrow
    <2>8. CASE SkipRegistryOp(s)
      BY <2>8 DEF SkipRegistryOp
    <2> QED BY <1>2, <2>2, <2>3, <2>4, <2>5, <2>6, <2>7, <2>8 DEF RegistryStep
  <1>3. titles' = titles \/ \E s \in Addr : RegistryStep(s)
    BY DEF Next, vars, ApplyUtxoTx, StakeLock, StakeUnlock, TakeCustodyNonce, ApplyBlockReward
  <1> QED BY <1>1, <1>2, <1>3

LEMMA DeliveryOneStep ==
    ASSUME TypeOK, TitleLockConsistent, EscrowBooks, [Next]_vars
    PROVE  DeliveryStep
  <1> SUFFICES ASSUME NEW t \in TitleId, titles[t] # None, titles[t].escrow_id # None,
                      titles'[t].current_owner # titles[t].current_owner
               PROVE  /\ titles'[t].current_owner = escrows[titles[t].escrow_id].buyer
                      /\ balance'[titles[t].current_owner] >=
                           balance[titles[t].current_owner] + escrows[titles[t].escrow_id].amount
    BY DEF DeliveryStep
  <1> DEFINE e == titles[t].escrow_id
  <1>1. PICK s \in Addr : ReleaseEscrow(s, e)
    BY LockedTitleStep
  <1>2. /\ titles[t] \in TitleDeed /\ e \in EscrowId
        /\ escrows[e] # None /\ escrows[e].title_id = t
        /\ escrows[e].seller = titles[t].current_owner
    BY DEF TypeOK, TitleDeed, TitleLockConsistent, LockedTitleHasEscrow
  <1>3. /\ escrows[e] \in EscrowAccount /\ escrows[e].seller \in Addr
        /\ escrows[e].funded \in Nat /\ escrows[e].amount \in Nat
    BY <1>2 DEF TypeOK, EscrowAccount
  <1>4. escrows[e].funded >= escrows[e].amount
    BY <1>1, <1>2 DEF ReleaseEscrow, MayRelease, EscrowBooks, BooksBalance
  <1>5. balance'[escrows[e].seller] = balance[escrows[e].seller] + escrows[e].funded
    BY <1>1, <1>3 DEF ReleaseEscrow, CloseEscrow, TypeOK
  <1>6. titles'[t].current_owner = escrows[e].buyer
    BY <1>1, <1>2, NoneAbsent DEF ReleaseEscrow, UnlockTitle, TypeOK, TitleDeed
  <1>7. balance[escrows[e].seller] \in Nat
    BY <1>3 DEF TypeOK
  <1> QED BY <1>2, <1>3, <1>4, <1>5, <1>6, <1>7

(***************************************************************************)
(* Delivery versus payment, for any parties and amounts: a locked title    *)
(* leaves its owner only for the full price (`ReleaseEscrow`).             *)
(***************************************************************************)
THEOREM Delivery == Spec => DeliveryVersusPayment
  <1>1. TypeOK /\ TitleLockConsistent /\ EscrowBooks /\ [Next]_vars => [DeliveryStep]_vars
    BY DeliveryOneStep
  <1> QED BY <1>1, LedgerType, TitleLocks, Books, PTL DEF Spec, DeliveryVersusPayment

-----------------------------------------------------------------------------
LEMMA SignerSigned ==
    ASSUME TypeOK, NEW s \in Addr, TakeNonce(s)
    PROVE  Signed(s)
  BY DEF TakeNonce, Signed, TypeOK

LEMMA AuthorisedOneStep ==
    ASSUME TypeOK, [Next]_vars
    PROVE  AuthorisedStep
  <1> SUFFICES ASSUME NEW e \in EscrowId, escrows[e] # None
               PROVE  LET x == escrows[e] IN
                      /\ x.status \notin Live => escrows'[e] = x
                      /\ (x.status = "Funded" /\ escrows'[e].status = "Released")
                            => Signed(x.buyer)
                      /\ (x.status = "Funded" /\ escrows'[e].status = "Refunded") =>
                            \/ Signed(x.seller)
                            \/ Signed(x.buyer) /\ x.timeout_blue # 0 /\ blue >= x.timeout_blue
                      /\ (x.status = "Open" /\ escrows'[e].status # "Open") => Signed(x.buyer)
    BY DEF AuthorisedStep
  <1>1. escrows[e] \in EscrowAccount
    BY DEF TypeOK
  <1>2. CASE escrows'[e] = escrows[e]
    BY <1>2
  <1>3. ASSUME NEW s \in Addr, NEW amt \in Amount,
               FundEscrow(s, e, amt), escrows'[e] = Deposit(escrows[e], amt)
        PROVE  /\ escrows[e].status \in Live /\ Signed(escrows[e].buyer)
               /\ escrows'[e].status \in Live
    <2>1. Signed(s) /\ s = escrows[e].buyer /\ escrows[e].status \in Live
      BY <1>3, SignerSigned DEF FundEscrow
    <2> QED BY <1>1, <1>3, <2>1 DEF Deposit, EscrowAccount, Live
  <1>4. ASSUME NEW s \in Addr, ReleaseEscrow(s, e)
        PROVE  escrows[e].status = "Funded" /\ Signed(escrows[e].buyer)
                  /\ escrows'[e].status = "Released"
    <2>1. Signed(s) /\ s = escrows[e].buyer /\ escrows[e].status = "Funded"
      BY <1>4, SignerSigned DEF ReleaseEscrow, MayRelease
    <2> QED BY <1>1, <1>4, <2>1 DEF ReleaseEscrow, CloseEscrow, TypeOK, EscrowAccount
  <1>5. ASSUME NEW s \in Addr, RefundEscrow(s, e)
        PROVE  /\ escrows'[e].status = "Refunded"
               /\ \/ escrows[e].status = "Open" /\ Signed(escrows[e].buyer)
                  \/ escrows[e].status = "Funded" /\ Signed(escrows[e].seller)
    <2>1. Signed(s)
      BY <1>5, SignerSigned DEF RefundEscrow
    <2> QED BY <1>1, <1>5, <2>1 DEF RefundEscrow, MayRefund, CloseEscrow, TypeOK, EscrowAccount
  <1>6. ASSUME NEW s \in Addr, TimeoutClaimEscrow(s, e)
        PROVE  /\ escrows'[e].status = "Refunded"
               /\ escrows[e].status = "Funded" /\ Signed(escrows[e].buyer)
               /\ escrows[e].timeout_blue # 0 /\ blue >= escrows[e].timeout_blue
    <2>1. Signed(s)
      BY <1>6, SignerSigned DEF TimeoutClaimEscrow
    <2> QED BY <1>1, <1>6, <2>1 DEF TimeoutClaimEscrow, MayTimeoutClaim, CloseEscrow, TypeOK,
                                        EscrowAccount
  <1> QED BY <1>2, <1>3, <1>4, <1>5, <1>6, EscrowStep DEF Closing, Live

(***************************************************************************)
(* No unilateral spend, for any parties: money leaves a funded escrow only *)
(* with the signature of the party that gives it up, or at the timeout     *)
(* (the authorisation rules of `EscrowAccount`).                           *)
(***************************************************************************)
THEOREM Authorised == Spec => NoUnilateralSpend
  <1>1. TypeOK /\ [Next]_vars => [AuthorisedStep]_vars
    BY AuthorisedOneStep
  <1> QED BY <1>1, LedgerType, PTL DEF Spec, NoUnilateralSpend

-----------------------------------------------------------------------------
(***************************************************************************)
(* The supply.  A step moves value between two of the sums, or mints it.   *)
(***************************************************************************)
Funded == [e \in EscrowId |-> IF escrows[e] = None THEN 0 ELSE escrows[e].funded]

LEMMA EscrowsFinite == IsFiniteSet(EscrowId)
  BY LedgerFinite, FS_Product DEF EscrowId

LEMMA FundedType ==
    ASSUME TypeOK
    PROVE  Funded \in [EscrowId -> Nat] /\ InEscrow = SumFunction(Funded)
  <1>1. ASSUME NEW e \in EscrowId PROVE (IF escrows[e] = None THEN 0 ELSE escrows[e].funded) \in Nat
    BY DEF TypeOK, EscrowAccount
  <1> QED BY <1>1 DEF Funded, InEscrow

LEMMA TotalsAreInt ==
    ASSUME TypeOK
    PROVE  Accounts \in Int /\ Staked \in Int /\ InEscrow \in Int
  <1>1. balance \in [Addr -> Nat] /\ staked \in [Addr -> Nat]
    BY DEF TypeOK
  <1>2. Accounts \in Int /\ Staked \in Int
    BY <1>1, SumIsInt, LedgerFinite DEF Accounts, Staked
  <1>3. InEscrow \in Int
    BY SumIsInt, FundedType, EscrowsFinite
  <1> QED BY <1>2, <1>3

LEMMA TotalsStayInt ==
    ASSUME TypeOK'
    PROVE  Accounts' \in Int /\ Staked' \in Int /\ InEscrow' \in Int
  <1>1. balance' \in [Addr -> Nat] /\ staked' \in [Addr -> Nat]
    BY DEF TypeOK
  <1>2. Accounts' \in Int /\ Staked' \in Int
    BY <1>1, SumIsInt, LedgerFinite DEF Accounts, Staked
  <1>3. PICK g : g = [d \in EscrowId |-> IF escrows'[d] = None THEN 0 ELSE escrows'[d].funded]
    OBVIOUS
  <1>4. ASSUME NEW e \in EscrowId PROVE (IF escrows'[e] = None THEN 0 ELSE escrows'[e].funded) \in Nat
    BY DEF TypeOK, EscrowAccount
  <1>5. g \in [EscrowId -> Nat]
    BY <1>3, <1>4
  <1>6. InEscrow' = SumFunction(g)
    BY <1>3 DEF InEscrow
  <1>7. InEscrow' \in Int
    BY <1>5, <1>6, SumIsInt, EscrowsFinite
  <1> QED BY <1>2, <1>7

LEMMA AccountsMove ==
    ASSUME TypeOK, NEW a \in Addr, NEW v \in Nat, balance' = [balance EXCEPT ![a] = v]
    PROVE  Accounts' = Accounts - balance[a] + v
  <1>1. balance \in [Addr -> Nat]
    BY DEF TypeOK
  <1>2. SumFunction(balance') = SumFunction(balance) - balance[a] + v
    BY <1>1, SumExcept, LedgerFinite
  <1> QED BY <1>2 DEF Accounts

LEMMA StakedMove ==
    ASSUME TypeOK, NEW a \in Addr, NEW v \in Nat, staked' = [staked EXCEPT ![a] = v]
    PROVE  Staked' = Staked - staked[a] + v
  <1>1. staked \in [Addr -> Nat]
    BY DEF TypeOK
  <1>2. SumFunction(staked') = SumFunction(staked) - staked[a] + v
    BY <1>1, SumExcept, LedgerFinite
  <1> QED BY <1>2 DEF Staked

LEMMA EscrowMoves ==
    ASSUME TypeOK, NEW e \in EscrowId, NEW x \in EscrowAccount, escrows' = [escrows EXCEPT ![e] = x]
    PROVE  InEscrow' = InEscrow - (IF escrows[e] = None THEN 0 ELSE escrows[e].funded) + x.funded
  <1>1. Funded \in [EscrowId -> Nat] /\ InEscrow = SumFunction(Funded)
    BY FundedType
  <1>2. PICK g : g = [d \in EscrowId |-> IF escrows'[d] = None THEN 0 ELSE escrows'[d].funded]
    OBVIOUS
  <1>3. InEscrow' = SumFunction(g)
    BY <1>2 DEF InEscrow
  <1>4. escrows'[e] = x /\ x # None /\ x.funded \in Nat /\ \A d \in EscrowId : d # e => escrows'[d] = escrows[d]
    BY NoneAbsent DEF TypeOK, EscrowAccount
  <1>5. PICK n \in Nat : n = x.funded
    BY <1>4
  <1>6. Funded[e] = IF escrows[e] = None THEN 0 ELSE escrows[e].funded
    BY DEF Funded
  <1>7. g[e] = n
    BY <1>2, <1>4, <1>5
  <1>8. ASSUME NEW d \in EscrowId, d # e PROVE g[d] = Funded[d]
    BY <1>2, <1>4, <1>8 DEF Funded
  <1>9. DOMAIN g = EscrowId
    BY <1>2
  <1>10. SumFunction(g) = SumFunction(Funded) - Funded[e] + n
    BY <1>1, <1>7, <1>8, <1>9, EscrowsFinite, SumOneChanged
  <1> QED BY <1>1, <1>3, <1>5, <1>6, <1>10

LEMMA SupplyInit == Init => SupplyAccounted
  <1> SUFFICES ASSUME Init PROVE SupplyAccounted
    OBVIOUS
  <1>1. ASSUME NEW S, IsFiniteSet(S), NEW f, f = [x \in S |-> 0] PROVE SumFunction(f) = 0
    <2>1. DOMAIN f = S /\ \A x \in S : f[x] = 0
      BY <1>1
    <2> QED BY <1>1, <2>1, SumZero, SumFunctionIs
  <1>2. Accounts = 0 /\ Staked = 0
    BY <1>1, LedgerFinite DEF Init, Accounts, Staked
  <1>3. InEscrow = 0
    <2>1. [e \in EscrowId |-> IF escrows[e] = None THEN 0 ELSE escrows[e].funded] = [e \in EscrowId |-> 0]
      BY DEF Init
    <2> QED BY <1>1, <2>1, EscrowsFinite DEF InEscrow
  <1> QED BY <1>2, <1>3, LedgerConstants DEF Init, SupplyAccounted

(***************************************************************************)
(* A registry operation moves v from an account to an escrow, or back.     *)
(***************************************************************************)
LEMMA RegistryKeepsSupply ==
    ASSUME TypeOK, SupplyAccounted, NEW s, TakeNonce(s), Accounts' + InEscrow' = Accounts + InEscrow,
           Accounts' \in Int, InEscrow' \in Int
    PROVE  SupplyAccounted'
  <1>1. UNCHANGED <<staked, utxo, minted, fees>>
    BY DEF TakeNonce
  <1>2. Staked' = Staked
    BY <1>1 DEF Staked
  <1>3. Accounts \in Int /\ Staked \in Int /\ InEscrow \in Int /\ utxo \in Nat /\ fees \in Nat /\ minted \in Nat
    BY TotalsAreInt DEF TypeOK
  <1>4. Accounts + Staked + InEscrow + utxo + fees = minted /\ minted <= MAX_SUPPLY
    BY DEF SupplyAccounted
  <1>5. PICK a \in Int, b \in Int, c \in Int, d \in Int : a = Accounts /\ b = InEscrow /\ c = Accounts' /\ d = InEscrow'
    BY <1>3
  <1>6. c + d = a + b /\ a + Staked + b + utxo + fees = minted
    BY <1>4, <1>5
  <1>7. c + Staked + d + utxo + fees = minted
    BY <1>3, <1>6
  <1>8. Accounts' + Staked' + InEscrow' + utxo' + fees' = minted'
    BY <1>1, <1>2, <1>5, <1>7
  <1> QED BY <1>1, <1>4, <1>8 DEF SupplyAccounted

LEMMA CloseMovesValue ==
    ASSUME TypeOK, TypeOK', NEW e \in EscrowId, escrows[e] # None, NEW st \in EscrowStatus, NEW p \in Addr,
           CloseEscrow(e, st, p)
    PROVE  Accounts' + InEscrow' = Accounts + InEscrow
  <1>1. escrows[e] \in EscrowAccount /\ escrows[e].funded \in Nat /\ balance[p] \in Nat
    BY DEF TypeOK, EscrowAccount
  <1>a. PICK y : y = [escrows[e] EXCEPT !.funded = 0, !.status = st]
    OBVIOUS
  <1>b. y \in EscrowAccount /\ y.funded = 0
    BY <1>1, <1>a DEF EscrowAccount
  <1>2. PICK x \in EscrowAccount : x = [escrows[e] EXCEPT !.funded = 0, !.status = st] /\ x.funded = 0
    BY <1>a, <1>b
  <1>3. Accounts' = Accounts - balance[p] + (balance[p] + escrows[e].funded)
    <2>1. balance[p] + escrows[e].funded \in Nat
      BY <1>1
    <2>2. balance' = [balance EXCEPT ![p] = balance[p] + escrows[e].funded]
      BY DEF CloseEscrow
    <2> QED BY <2>1, <2>2, AccountsMove
  <1>4. escrows' = [escrows EXCEPT ![e] = x]
    BY <1>2 DEF CloseEscrow
  <1>5. InEscrow' = InEscrow - escrows[e].funded + 0
    BY <1>2, <1>4, EscrowMoves
  <1> QED BY <1>1, <1>3, <1>5, TotalsAreInt

LEMMA SupplyRegistry ==
    ASSUME TypeOK, TypeOK', SupplyAccounted, NEW s \in Addr, RegistryStep(s)
    PROVE  SupplyAccounted'
  <1>0. Accounts \in Int /\ InEscrow \in Int
    BY TotalsAreInt
  <1>1. Accounts' \in Int /\ InEscrow' \in Int
    BY TotalsStayInt
  <1>2. ASSUME UNCHANGED <<balance, escrows>>, TakeNonce(s) PROVE SupplyAccounted'
    <2>1. Accounts' = Accounts /\ InEscrow' = InEscrow
      BY <1>2 DEF Accounts, InEscrow
    <2> QED BY <1>1, <1>2, <2>1, RegistryKeepsSupply
  <1>3. ASSUME NEW seed \in Seed, NEW b \in Addr, NEW sl \in Addr, NEW amt \in Amount,
               NEW t \in TitleId \cup {None}, NEW timeout \in Timeout, OpenEscrow(s, seed, b, sl, amt, t, timeout)
        PROVE  SupplyAccounted'
    <2>1. PICK e \in EscrowId : e = <<s, seed>>
      BY DEF EscrowId
    <2>2. PICK x : x = [buyer |-> b, seller |-> sl, amount |-> amt, funded |-> 0, status |-> "Open",
                        title_id |-> t, timeout_blue |-> timeout]
      OBVIOUS
    <2>3. x \in EscrowAccount /\ x.funded = 0
      BY <1>3, <2>2, LedgerConstants DEF OpenEscrow, EscrowAccount, EscrowStatus
    <2>4. /\ escrows' = [escrows EXCEPT ![e] = x] /\ escrows[e] = None /\ balance' = balance /\ TakeNonce(s)
      BY <1>3, <2>1, <2>2 DEF OpenEscrow
    <2>5. InEscrow' = InEscrow - 0 + 0
      BY <2>3, <2>4, EscrowMoves
    <2>6. Accounts' = Accounts
      BY <2>4 DEF Accounts
    <2> QED BY <1>0, <1>1, <2>4, <2>5, <2>6, RegistryKeepsSupply
  <1>4. ASSUME NEW e \in EscrowId, NEW amt \in Amount, FundEscrow(s, e, amt) PROVE SupplyAccounted'
    <2>1. /\ amt \in Nat /\ escrows[e] \in EscrowAccount /\ escrows[e] # None /\ balance[s] \in Nat
          /\ balance[s] >= amt /\ TakeNonce(s)
      BY <1>4, LedgerConstants DEF FundEscrow, TypeOK
    <2>2. PICK x \in EscrowAccount : x = Deposit(escrows[e], amt)
      BY <2>1, DepositType
    <2>3. x.funded = escrows[e].funded + amt /\ escrows[e].funded \in Nat
      BY <2>1, <2>2 DEF Deposit, EscrowAccount
    <2>4. Accounts' = Accounts - balance[s] + (balance[s] - amt)
      <3>1. balance[s] - amt \in Nat /\ balance' = [balance EXCEPT ![s] = balance[s] - amt]
        BY <1>4, <2>1 DEF FundEscrow
      <3> QED BY <3>1, AccountsMove
    <2>5. InEscrow' = InEscrow - escrows[e].funded + x.funded
      <3>1. escrows' = [escrows EXCEPT ![e] = x]
        BY <1>4, <2>2 DEF FundEscrow
      <3> QED BY <2>1, <3>1, EscrowMoves
    <2>6. Accounts' + InEscrow' = Accounts + InEscrow
      BY <1>0, <2>1, <2>3, <2>4, <2>5
    <2> QED BY <1>1, <2>1, <2>6, RegistryKeepsSupply
  <1>5. ASSUME NEW e \in EscrowId, ReleaseEscrow(s, e) \/ RefundEscrow(s, e) \/ TimeoutClaimEscrow(s, e)
        PROVE  SupplyAccounted'
    <2>1. escrows[e] # None /\ TakeNonce(s) /\ escrows[e] \in EscrowAccount
      BY <1>5 DEF ReleaseEscrow, RefundEscrow, TimeoutClaimEscrow, TypeOK
    <2>2. escrows[e].buyer \in Addr /\ escrows[e].seller \in Addr
      BY <2>1 DEF EscrowAccount
    <2>3. \E st \in EscrowStatus, p \in Addr : CloseEscrow(e, st, p)
      BY <1>5, <2>2 DEF ReleaseEscrow, RefundEscrow, TimeoutClaimEscrow, EscrowStatus
    <2>4. Accounts' + InEscrow' = Accounts + InEscrow
      BY <2>1, <2>3, CloseMovesValue
    <2> QED BY <1>1, <2>1, <2>4, RegistryKeepsSupply
  <1>6. ASSUME NEW seed \in Seed, NEW o \in Addr, IssueTitle(s, seed, o) PROVE SupplyAccounted'
    BY <1>2, <1>6 DEF IssueTitle
  <1>7. ASSUME NEW t \in TitleId, NEW to \in Addr, TransferTitle(s, t, to) PROVE SupplyAccounted'
    BY <1>2, <1>7 DEF TransferTitle
  <1>8. CASE SkipRegistryOp(s)
    BY <1>2, <1>8 DEF SkipRegistryOp
  <1> QED BY <1>3, <1>4, <1>5, <1>6, <1>7, <1>8 DEF RegistryStep

LEMMA SupplyStep == TypeOK /\ TypeOK' /\ SupplyAccounted /\ [Next]_vars => SupplyAccounted'
  <1> SUFFICES ASSUME TypeOK, TypeOK', SupplyAccounted, [Next]_vars PROVE SupplyAccounted'
    OBVIOUS
  <1>0. /\ Accounts \in Int /\ Staked \in Int /\ InEscrow \in Int /\ utxo \in Nat /\ fees \in Nat /\ minted \in Nat
        /\ Accounts + Staked + InEscrow + utxo + fees = minted /\ minted <= MAX_SUPPLY
    BY TotalsAreInt DEF TypeOK, SupplyAccounted
  <1>1. ASSUME NEW a \in Addr, NEW v \in Amount, NEW f \in Fee, ApplyUtxoTx(a, v, f) PROVE SupplyAccounted'
    <2>1. /\ v \in Nat /\ f \in Nat /\ balance[a] \in Nat /\ utxo >= v + f
          /\ utxo' = utxo - (v + f) /\ fees' = fees + f /\ UNCHANGED <<staked, escrows, minted>>
      BY <1>1, LedgerConstants DEF ApplyUtxoTx, TypeOK
    <2>2. Accounts' = Accounts - balance[a] + (balance[a] + v)
      <3>1. balance[a] + v \in Nat
        BY <2>1
      <3>2. balance' = [balance EXCEPT ![a] = balance[a] + v]
        BY <1>1 DEF ApplyUtxoTx
      <3> QED BY <3>1, <3>2, AccountsMove
    <2>3. Staked' = Staked /\ InEscrow' = InEscrow
      BY <2>1 DEF Staked, InEscrow
    <2>4. Accounts' + Staked' + InEscrow' + utxo' + fees' = minted'
      BY <1>0, <2>1, <2>2, <2>3
    <2> QED BY <1>0, <2>1, <2>4 DEF SupplyAccounted
  <1>2. ASSUME NEW s \in Addr, NEW amt \in Amount, StakeLock(s, amt) \/ StakeUnlock(s, amt) PROVE SupplyAccounted'
    <2>1. /\ amt \in Nat /\ balance[s] \in Nat /\ staked[s] \in Nat /\ UNCHANGED <<escrows, utxo, minted, fees>>
      BY <1>2, LedgerConstants DEF StakeLock, StakeUnlock, TakeCustodyNonce, TypeOK
    <2>2. InEscrow' = InEscrow
      BY <2>1 DEF InEscrow
    <2>3. Accounts' + Staked' = Accounts + Staked
      <3>1. CASE StakeLock(s, amt)
        <4>1. balance[s] - amt \in Nat /\ staked[s] + amt \in Nat
          BY <2>1, <3>1 DEF StakeLock
        <4>2. /\ Accounts' = Accounts - balance[s] + (balance[s] - amt)
              /\ Staked' = Staked - staked[s] + (staked[s] + amt)
          BY <3>1, <4>1, AccountsMove, StakedMove DEF StakeLock
        <4> QED BY <1>0, <2>1, <4>2
      <3>2. CASE StakeUnlock(s, amt)
        <4>1. balance[s] + amt \in Nat /\ staked[s] - amt \in Nat
          BY <2>1, <3>2 DEF StakeUnlock
        <4>2. /\ Accounts' = Accounts - balance[s] + (balance[s] + amt)
              /\ Staked' = Staked - staked[s] + (staked[s] - amt)
          BY <3>2, <4>1, AccountsMove, StakedMove DEF StakeUnlock
        <4> QED BY <1>0, <2>1, <4>2
      <3> QED BY <1>2, <3>1, <3>2
    <2>4. Accounts' \in Int /\ Staked' \in Int
      BY TotalsStayInt
    <2>5. Accounts' + Staked' + InEscrow' + utxo' + fees' = minted'
      BY <1>0, <2>1, <2>2, <2>3, <2>4
    <2> QED BY <1>0, <2>1, <2>5 DEF SupplyAccounted
  <1>3. ASSUME NEW next \in 1..MaxBlue, ApplyBlockReward(next) PROVE SupplyAccounted'
    <2>1. Subsidy \in Nat /\ minted + Subsidy <= MAX_SUPPLY
      BY <1>0, SubsidyIsNat, LedgerConstants DEF Subsidy, Lesser, SaturatingSub, TypeOK
    <2>2. /\ minted' = minted + Subsidy /\ utxo' = utxo + Subsidy + fees /\ fees' = 0
          /\ UNCHANGED <<balance, staked, escrows>>
      BY <1>3 DEF ApplyBlockReward
    <2>3. Accounts' = Accounts /\ Staked' = Staked /\ InEscrow' = InEscrow
      BY <2>2 DEF Accounts, Staked, InEscrow
    <2>4. PICK n \in Nat : n = Subsidy
      BY <2>1
    <2>5. Accounts' + Staked' + InEscrow' + utxo' + fees' = minted'
      BY <1>0, <2>2, <2>3, <2>4
    <2> QED BY <2>1, <2>2, <2>5 DEF SupplyAccounted
  <1>4. CASE UNCHANGED vars
    BY <1>4 DEF vars, SupplyAccounted, Accounts, Staked, InEscrow
  <1> QED BY <1>1, <1>2, <1>3, <1>4, SupplyRegistry DEF Next

(***************************************************************************)
(* For any parties, amounts and order of operations, no value is made but  *)
(* by the subsidy and none is lost: the accounts, the stakes, the escrows, *)
(* the UTXO set and the fees in flight add up to what was minted, and that *)
(* stays within the cap (`apply_block_reward`, `apply_op`,                 *)
(* `apply_custody_op`, `apply_utxo_tx`).                                   *)
(***************************************************************************)
THEOREM Supply == Spec => []SupplyAccounted
  <1>1. TypeOK /\ TypeOK' /\ SupplyAccounted /\ [Next]_vars => SupplyAccounted'
    BY SupplyStep
  <1> QED BY <1>1, SupplyInit, LedgerType, PTL DEF Spec

=============================================================================
