---------------------------- MODULE VersionBits ----------------------------
(***************************************************************************)
(* Signalling for soft upgrades: the state of one deployment after a walk  *)
(* along the selected chain.  The table of deployments is empty in this    *)
(* version of the code, so Start and Timeout stand for the first entry it  *)
(* may get.  A block is <<blue score, whether it signals>>.                *)
(*                                                                         *)
(* D_Xxx is D with the mistake Xxx, to see that a property notices it.     *)
(***************************************************************************)
EXTENDS Integers, Sequences, SequencesExt, FiniteSetsExt

CONSTANTS
    SIGNAL_WINDOW,     \* blue scores in one window
    SIGNAL_THRESHOLD,  \* signals in a window that lock the deployment in
    Start, Timeout,    \* start_blue, timeout_blue
    MaxBlue, MaxStep   \* bounds: blue score, and its growth from block to block

ASSUME VersionConstants ==
    /\ SIGNAL_WINDOW \in Nat \ {0} /\ SIGNAL_THRESHOLD \in Nat \ {0}
    /\ Start \in Nat /\ Timeout \in Nat /\ MaxBlue \in Nat /\ MaxStep \in Nat

VARIABLE walk          \* the blocks of `main_chain`

Window(blue) == blue \div SIGNAL_WINDOW

(***************************************************************************)
(* The close of a window, at the first block of a later one.               *)
(***************************************************************************)
Close_KeepsCount(v, blue) ==
    [state |-> CASE v.state = "Started" /\ v.count >= SIGNAL_THRESHOLD -> "LockedIn"
                 [] v.state = "Started" /\ v.count < SIGNAL_THRESHOLD /\ blue >= Timeout -> "Failed"
                 [] v.state = "LockedIn" -> "Active"
                 [] OTHER -> v.state,
     count |-> v.count, start |-> Window(blue) * SIGNAL_WINDOW]
Close(v, blue) ==
    [state |-> CASE v.state = "Started" /\ v.count >= SIGNAL_THRESHOLD -> "LockedIn"
                 [] v.state = "Started" /\ v.count < SIGNAL_THRESHOLD /\ blue >= Timeout -> "Failed"
                 [] v.state = "LockedIn" -> "Active"
                 [] OTHER -> v.state,
     count |-> 0, start |-> Window(blue) * SIGNAL_WINDOW]

Observe(v, b) ==
    LET c == IF Window(b[1]) > Window(v.start) THEN Close(v, b[1]) ELSE v
        s == IF c.state = "Defined" /\ b[1] >= Start THEN "Started" ELSE c.state
        n == IF s \in {"Started", "LockedIn"} /\ b[2] THEN c.count + 1 ELSE c.count
    IN [c EXCEPT !.state = IF s = "Started" /\ b[1] >= Timeout THEN "Failed" ELSE s, !.count = n]

(***************************************************************************)
(* `version_bits_status`: the walk from its first block.                   *)
(***************************************************************************)
VersionBitsStatus(w) == FoldLeft(Observe, [state |-> "Defined", count |-> 0, start |-> 0], w)

VbInit == walk = <<<<0, FALSE>>>>

ExtendChain ==
    \E step \in 1..MaxStep, signal \in BOOLEAN :
        /\ Last(walk)[1] + step <= MaxBlue
        /\ walk' = Append(walk, <<Last(walk)[1] + step, signal>>)

VbSpec == VbInit /\ [][ExtendChain]_walk

-----------------------------------------------------------------------------
(***************************************************************************)
(* The machine computes what the rule says, for every sequence of blocks,  *)
(* with blue scores that jump over windows as well: a window earns the     *)
(* lock-in if enough of its blocks from Start on signal and none has       *)
(* reached Timeout; a block of a later window carries it out; and one of a *)
(* still later window activates.  What is not locked in fails at Timeout,  *)
(* or at Start if that comes later (`observe`).                            *)
(***************************************************************************)
LockInIsEarned ==
    LET Blocks(w) == {i \in DOMAIN walk : Window(walk[i][1]) = w}
        Late(w) == \E i \in DOMAIN walk : Window(walk[i][1]) <= w /\ walk[i][1] >= Timeout
        Earns(w) == /\ Cardinality({i \in Blocks(w) : walk[i][2] /\ walk[i][1] >= Start}) >= SIGNAL_THRESHOLD
                    /\ ~Late(w)
        windows == {Window(walk[i][1]) : i \in DOMAIN walk}
        earned == {w \in windows : Earns(w)}
        after == IF earned = {} THEN {} ELSE {w \in windows : w > Min(earned)}
        state == VersionBitsStatus(walk).state
    IN /\ state = "LockedIn" <=> Cardinality(after) = 1
       /\ state = "Active" <=> Cardinality(after) >= 2
       /\ state = "Failed" <=> after = {} /\ Last(walk)[1] >= Timeout /\ Last(walk)[1] >= Start
=============================================================================
