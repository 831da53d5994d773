----------------------------- MODULE PeerBudget -----------------------------
(***************************************************************************)
(* How `handle_conn` polices one connection: a cap on the size of each     *)
(* kind of message, a window on their number, a budget of expensive block  *)
(* verifications, and a score of misbehaviour that fades with time.  Each  *)
(* counter belongs to the connection and has a window of its own.          *)
(*                                                                         *)
(* A message is of a kind: one that costs nothing, a good block, a block   *)
(* that the cheap check refuses, one that only the verification refuses,   *)
(* or one that is too big for what it is.                                  *)
(*                                                                         *)
(* D_Xxx is D with the mistake Xxx, to see that a property notices it.     *)
(***************************************************************************)
EXTENDS Integers, Sequences, FiniteSetsExt

CONSTANTS
    PEER_MSG_LIMIT, PEER_RATE_WINDOW,
    STARK_LIMIT, STARK_WINDOW,          \* stark_verifies_per_window, stark_window
    INVALID_TX_PENALTY, INVALID_BLOCK_PENALTY, INVALID_STARK_PENALTY,
    BAN_SCORE_THRESHOLD, BAN_DECAY_POINTS, BAN_DECAY_INTERVAL,
    MaxMessages,   \* bound: messages
    MaxSeconds     \* bound: time

ASSUME BudgetConstants ==
    /\ {PEER_MSG_LIMIT, STARK_LIMIT, INVALID_TX_PENALTY, INVALID_BLOCK_PENALTY, INVALID_STARK_PENALTY,
        BAN_DECAY_POINTS, MaxMessages, MaxSeconds} \subseteq Nat
    /\ {PEER_RATE_WINDOW, STARK_WINDOW, BAN_SCORE_THRESHOLD, BAN_DECAY_INTERVAL} \subseteq Nat \ {0}
    /\ STARK_WINDOW <= MaxSeconds

VARIABLES
    second,    \* the time
    meter,     \* rate, stark: [start, count]; score, lastDecay
    fate,      \* "open", "flood", "oversize" or "banned"
    history    \* of messages: [at, kind, charge]

budgetVars == <<second, meter, fate, history>>

MessageKind == {"plain", "block", "badBlock", "badStark", "tooBig"}

BudgetInit ==
    /\ second = STARK_WINDOW
    /\ meter = [rate |-> [start |-> second, count |-> 0], stark |-> [start |-> 0, count |-> 0],
                score |-> 0, lastDecay |-> second]
    /\ fate = "open"
    /\ history = <<>>

-----------------------------------------------------------------------------
(***************************************************************************)
(* `message_within_type_cap`.                                              *)
(***************************************************************************)
OverTypeCap(kind) == kind = "tooBig"

(***************************************************************************)
(* `RateWindow::record`, and whether it lets the message pass.             *)
(***************************************************************************)
Record(w) ==
    IF second - w.start >= PEER_RATE_WINDOW THEN [start |-> second, count |-> 1]
    ELSE [w EXCEPT !.count = @ + 1]
WithinRate(w) == Record(w).count <= PEER_MSG_LIMIT

(***************************************************************************)
(* `StarkVerifyBudget::try_consume`, and whether it grants.                *)
(***************************************************************************)
ConsumeBudget(b) ==
    IF second - b.start >= STARK_WINDOW THEN [start |-> second, count |-> 1]
    ELSE [b EXCEPT !.count = @ + 1]
Granted(b) == second - b.start >= STARK_WINDOW \/ b.count < STARK_LIMIT

(***************************************************************************)
(* What `dispatch` does with it: the cheap check comes before the budget.  *)
(***************************************************************************)
NeedsVerify(kind) == kind \in {"block", "badStark"}
Verified(kind) == NeedsVerify(kind) /\ Granted(meter.stark)
Penalty(kind) ==
    CASE kind = "badBlock" -> INVALID_BLOCK_PENALTY
      [] kind = "tooBig" -> INVALID_TX_PENALTY
      [] NeedsVerify(kind) /\ (kind = "badStark" \/ ~Verified(kind)) -> INVALID_STARK_PENALTY
      [] OTHER -> 0

(***************************************************************************)
(* The score fades at the top of the loop, before the next message is      *)
(* waited for, once however long it has been.                              *)
(***************************************************************************)
Faded_EveryMessage(score, since) ==
    [score |-> IF score > BAN_DECAY_POINTS THEN score - BAN_DECAY_POINTS ELSE 0, lastDecay |-> second]
Faded(score, since) ==
    IF second - since < BAN_DECAY_INTERVAL THEN [score |-> score, lastDecay |-> since]
    ELSE [score |-> IF score > BAN_DECAY_POINTS THEN score - BAN_DECAY_POINTS ELSE 0, lastDecay |-> second]

ReceiveMessage(kind) ==
    LET tooBig == OverTypeCap(kind)
        flood == ~tooBig /\ ~WithinRate(meter.rate)
        dispatched == ~tooBig /\ ~flood
        charge == IF flood THEN 0 ELSE Penalty(kind)
        score == meter.score + charge
        over == score >= BAN_SCORE_THRESHOLD
        faded == Faded(score, meter.lastDecay)
    IN /\ fate = "open"
       /\ Len(history) < MaxMessages
       /\ fate' = IF flood THEN "flood" ELSE IF ~over THEN "open" ELSE IF tooBig THEN "oversize" ELSE "banned"
       /\ meter' = [rate |-> IF tooBig THEN meter.rate ELSE Record(meter.rate),
                    stark |-> IF dispatched /\ NeedsVerify(kind) THEN ConsumeBudget(meter.stark) ELSE meter.stark,
                    score |-> faded.score, lastDecay |-> faded.lastDecay]
       /\ history' = Append(history, [at |-> second, kind |-> kind, charge |-> charge])
       /\ UNCHANGED second

SecondPasses ==
    /\ second < MaxSeconds
    /\ second' = second + 1
    /\ UNCHANGED <<meter, fate, history>>

BudgetNext == SecondPasses \/ \E kind \in MessageKind : ReceiveMessage(kind)

BudgetSpec == BudgetInit /\ [][BudgetNext]_budgetVars

-----------------------------------------------------------------------------
Within(t, length) == {i \in DOMAIN history : t <= history[i].at /\ history[i].at < t + length}

(***************************************************************************)
(* While a connection is open, what it was charged in any stretch up to    *)
(* now is below the threshold but for the points that had time to fade:    *)
(* nobody misbehaves faster than that for long (`handle_conn`).  And a peer*)
(* that sent nothing but good blocks and cheap messages is banned only     *)
(* after it sent, within one window, more blocks than the budget allows    *)
(* for (`ingest_block` charges the peer for those).                        *)
(***************************************************************************)
BansAreEarned ==
    /\ fate = "open" =>
          \A i \in DOMAIN history :
              LET fades == (second - history[i].at) \div BAN_DECAY_INTERVAL + 1
              IN MapThenSumSet(LAMBDA j : history[j].charge, i..Len(history))
                   < BAN_SCORE_THRESHOLD + fades * BAN_DECAY_POINTS
    /\ fate = "banned" /\ (\A i \in DOMAIN history : history[i].kind \in {"plain", "block"}) =>
          \E t \in 0..MaxSeconds :
              Cardinality({i \in Within(t, STARK_WINDOW) : history[i].kind = "block"}) > STARK_LIMIT
=============================================================================
