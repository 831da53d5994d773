----------------------------- MODULE Superproof -----------------------------
(***************************************************************************)
(* Difficulty and pruning proofs: the selected chain of an archival node   *)
(* grows under the live difficulty adjustment, each header with its        *)
(* interlinks; from it the linear and the multi-level proof are built, and *)
(* verified as a node that has only genesis verifies them.                 *)
(*                                                                         *)
(* A header stands for its hash, by its position: genesis is at 1 and has  *)
(* height 0.  A header may merge one blue sibling of its selected parent,  *)
(* mined at the same time.  Hashes meet their targets.                     *)
(*                                                                         *)
(* D_Xxx is D with the mistake Xxx, to see that a property notices it.     *)
(***************************************************************************)
EXTENDS Integers, Sequences, SequencesExt, FiniteSetsExt

CONSTANTS
    DAA_WINDOW,                \* samples of the difficulty adjustment
    TARGET_BLOCK_TIME,         \* aimed time between blocks
    GENESIS_DIFFICULTY,
    BOOTSTRAP_MIN_DIFFICULTY,  \* floor of the bootstrap era
    HARD_ERA_MIN_DIFFICULTY,   \* floor after it
    BOOTSTRAP_ERA_END,         \* minted supply that ends the bootstrap era
    BLOCK_REWARD,
    HALVING_INTERVAL,
    MAX_SUPPLY,
    MAX_LEVEL,                 \* bound: superblock levels
    MAX_MULTILEVEL_HOPS,
    BlockTime,                 \* bound: times between blocks
    MaxHeaders                 \* bound: length of the chain

VARIABLE headers

ProofInit ==
    \E l \in 0..MAX_LEVEL :
        headers = <<[ts |-> 0, diff |-> GENESIS_DIFFICULTY, level |-> l, links |-> <<>>, side |-> FALSE]>>

Larger(x, y) == IF x >= y THEN x ELSE y
Smaller(x, y) == IF x <= y THEN x ELSE y
Clamp(x, lo, hi) == IF x < lo THEN lo ELSE IF x > hi THEN hi ELSE x

-----------------------------------------------------------------------------
(***************************************************************************)
(* Issuance: by block, and in closed form, an era of halving at a time.    *)
(***************************************************************************)
BlockSubsidy(blue) == BLOCK_REWARD \div 2^(blue \div HALVING_INTERVAL)

CumulativeIssuance(blue) ==
    LET eras[n \in Nat] ==
          IF n = 0 THEN [total |-> 0, remaining |-> blue, reward |-> BLOCK_REWARD]
          ELSE LET e == eras[n - 1]
                   take == Smaller(e.remaining, HALVING_INTERVAL)
               IN [total |-> e.total + e.reward * take,
                   remaining |-> e.remaining - take, reward |-> e.reward \div 2]
    IN Smaller(MAX_SUPPLY, eras[blue].total)

EraMinDifficulty(minted) ==
    IF minted < BOOTSTRAP_ERA_END THEN BOOTSTRAP_MIN_DIFFICULTY ELSE HARD_ERA_MIN_DIFFICULTY

(***************************************************************************)
(* Blue score of a header, and the supply minted in the past of a chain:   *)
(* every block but genesis, and every merged sibling, mints its subsidy.   *)
(***************************************************************************)
Blue(c, k) == (k - 1) + Cardinality({j \in 1..k : c[j].side})

Minted(c) ==
    Smaller(MAX_SUPPLY,
        MapThenSumSet(LAMBDA k : BlockSubsidy(Blue(c, k))
                                 + (IF c[k].side THEN BlockSubsidy(Blue(c, k - 2) + 1) ELSE 0),
                      2..Len(c)))

-----------------------------------------------------------------------------
(***************************************************************************)
(* A quarter up, by one at least, and a quarter down, to the floor at most. *)
(***************************************************************************)
Up(d) == Larger((d * 5) \div 4, d + 1)
Down(d, floor) == Larger((d * 3) \div 4, floor)

Retarget(base, newest, oldest, floor) ==
    LET span == Larger(newest - oldest, 1)
        sp == Larger(base, floor)
        raw == (sp * DAA_WINDOW * TARGET_BLOCK_TIME) \div span
    IN Larger(Clamp(raw, Down(sp, floor), Up(sp)), floor)

(***************************************************************************)
(* `collect_daa_blue_samples`: down the selected chain, the blues that     *)
(* each header merges, its selected parent first.  So the selected parent  *)
(* of the new block is itself no sample; genesis only if it is alone.      *)
(***************************************************************************)
Sample(h) == [ts |-> h.ts, diff |-> Larger(h.diff, 1)]

Samples_FromTip(c) == [i \in 1 .. Smaller(Len(headers), DAA_WINDOW) |-> Sample(headers[Len(headers) + 1 - i])]
Samples(c) ==
    LET Blues(k) == <<Sample(c[k - 1])>> \o (IF c[k].side THEN <<Sample(c[k - 1])>> ELSE <<>>)
        all == IF Len(c) = 1 THEN <<Sample(c[1])>>
               ELSE FlattenSeq([i \in 1 .. Len(c) - 1 |-> Blues(Len(c) + 1 - i)])
    IN SubSeq(all, 1, Smaller(Len(all), DAA_WINDOW))

(***************************************************************************)
(* `expected_difficulty_at` for a child of the last header of c, on a node *)
(* whose live supply is `minted`.                                          *)
(***************************************************************************)
ExpectedDifficultyAt(c, minted) ==
    LET floor == EraMinDifficulty(minted)
        sp == Larger(Last(c).diff, floor)
        s == Samples(c)
        times == {s[i].ts : i \in DOMAIN s}
        avg == Larger(FoldLeft(LAMBDA n, x : n + x.diff, 0, s) \div Len(s), floor)
        scaled == Retarget(avg, Max(times), Min(times), floor)
    IN IF Len(s) < DAA_WINDOW THEN sp
       ELSE Larger(Clamp(scaled, Down(sp, floor), Up(sp)), floor)

(***************************************************************************)
(* `past_median_time` of the last eleven headers.                          *)
(***************************************************************************)
PastMedianTime(c) ==
    LET n == Smaller(Len(c), 11)
    IN c[Len(c) - n + (n \div 2) + 1].ts

(***************************************************************************)
(* `compute_interlinks`: up to the parent's level the parent, above that   *)
(* what the parent points to.                                              *)
(***************************************************************************)
AtParent(i, parent) == i <= parent.level + 1

ComputeInterlinks(c) ==
    LET parent == Last(c)
    IN [i \in 1 .. Larger(Len(parent.links), parent.level + 1) |->
          IF AtParent(i, parent) \/ i > Len(parent.links) THEN Len(c) ELSE parent.links[i]]

(***************************************************************************)
(* A block is mined on the tip and admitted with its difficulty, interlinks *)
(* and timestamp checked.                                                  *)
(***************************************************************************)
ExtendHeaders(dt, level, side) ==
    /\ Len(headers) < MaxHeaders
    /\ side => Len(headers) >= 2
    /\ Last(headers).ts + dt > PastMedianTime(headers)
    /\ headers' = Append(headers,
          [ts |-> Last(headers).ts + dt, diff |-> ExpectedDifficultyAt(headers, Minted(headers)),
           level |-> level, links |-> ComputeInterlinks(headers), side |-> side])

ProofNext ==
    \E dt \in BlockTime, level \in 0..MAX_LEVEL, side \in BOOLEAN : ExtendHeaders(dt, level, side)

ProofSpec == ProofInit /\ [][ProofNext]_headers

-----------------------------------------------------------------------------
(***************************************************************************)
(* The linear proof: `expected_difficulty_linear` of the header at k, and  *)
(* `verify_pruning_proof`.                                                 *)
(***************************************************************************)
ExpectedDifficultyLinear(c, k) ==
    LET floor == EraMinDifficulty(CumulativeIssuance(k - 1))
        sp == Larger(c[k - 1].diff, floor)
    IN IF k - 1 < DAA_WINDOW THEN sp
       ELSE Retarget(sp, c[k - 1].ts, c[k - DAA_WINDOW].ts, floor)

VerifyPruningProof(c) ==
    \A k \in 2..Len(c) : c[k].diff = ExpectedDifficultyLinear(c, k) /\ c[k].ts >= c[k - 1].ts

(***************************************************************************)
(* What either proof of an archival node is built from: the headers of the *)
(* selected chain from genesis to the pruning point.                       *)
(***************************************************************************)
UpToPruningPoint(c, pp) == SubSeq(c, 1, pp)

(***************************************************************************)
(* The multi-level proof: the last headers in full, and before them hops   *)
(* that follow the highest interlink down to genesis.                      *)
(***************************************************************************)
Split(c, recent) == Len(c) - Larger(recent, 1)

LinkTaken_Lowest(h) == h.links[1]
LinkTaken(h) == Last(h.links)

Hops(c, from) ==
    LET walk[i \in 1..Len(c)] ==
          IF i = 1 THEN <<1>>
          ELSE IF c[i].links = <<>> THEN <<i>> \o walk[i - 1]
          ELSE <<i>> \o walk[LinkTaken(c[i])]
    IN walk[from]

HopDifficultyBounds(older, gap, floor) ==
    LET windows == Smaller(((gap - 1) \div DAA_WINDOW) + 1, 64)
        bounds[n \in Nat] ==
          IF n = 0 THEN [lo |-> Larger(older, floor), hi |-> Larger(older, floor)]
          ELSE [lo |-> Down(bounds[n - 1].lo, floor), hi |-> Up(bounds[n - 1].hi)]
    IN bounds[windows]

InBounds(d, older, gap, floor) ==
    LET b == HopDifficultyBounds(older, gap, floor) IN b.lo <= d /\ d <= b.hi

(***************************************************************************)
(* `verify_multilevel_pruning_proof` of the proof that c gives: structure; *)
(* floors, bounds and legitimacy of the hops; then the recent headers, the *)
(* first DAA_WINDOW of them by bounds from the boundary, the rest exactly. *)
(***************************************************************************)
ValidateStructure(c, hops, split) ==
    LET Follows(cur, older) == /\ c[cur].ts >= c[older].ts
                               /\ c[cur].diff >= EraMinDifficulty(0)
    IN /\ split < Len(c)
       /\ hops # <<>> /\ Len(hops) <= MAX_MULTILEVEL_HOPS
       /\ Last(hops) = 1
       /\ \A i \in 1 .. Len(hops) - 1 : hops[i] > hops[i + 1] /\ Follows(hops[i], hops[i + 1])
       /\ \A k \in split + 1 .. Len(c) : Follows(k, k - 1)

VerifyHop(c, cur, older) ==
    LET floor == EraMinDifficulty(CumulativeIssuance(cur - 1))
    IN /\ c[cur].diff >= floor
       /\ InBounds(c[cur].diff, c[older].diff, cur - older, floor)
       /\ older \in ToSet(c[cur].links) \cup {cur - 1}

VerifyRecent(c, split, k) ==
    LET floor == EraMinDifficulty(CumulativeIssuance(k - 1))
    IN IF k - split <= DAA_WINDOW
       THEN InBounds(c[k].diff, Larger(c[split].diff, floor), k - split, floor)
       ELSE c[k].diff = Retarget(Larger(c[k - 1].diff, floor), c[k - 1].ts, c[k - DAA_WINDOW].ts, floor)

VerifyMultilevel(c, recent) ==
    LET split == Split(c, recent)
        hops == Hops(c, split)
    IN /\ ValidateStructure(c, hops, split)
       /\ \A i \in 1 .. Len(hops) - 1 : VerifyHop(c, hops[i], hops[i + 1])
       /\ \A k \in split + 1 .. Len(c) : VerifyRecent(c, split, k)

-----------------------------------------------------------------------------
(***************************************************************************)
(* On a chain that stays at the bootstrap floor, within that era, the      *)
(* multi-level proof verifies for every recent window if the linear one    *)
(* does, however lucky the blocks were; and below its first hop it has the *)
(* blocks of a level that no earlier block exceeds, and no other           *)
(* (`build_multilevel_pruning_proof`, `verify_multilevel_pruning_proof`).  *)
(***************************************************************************)
FlatChainProves ==
    /\ \A k \in 2..Len(headers) : headers[k].diff = BOOTSTRAP_MIN_DIFFICULTY
    /\ CumulativeIssuance(Len(headers)) < BOOTSTRAP_ERA_END
    /\ VerifyPruningProof(UpToPruningPoint(headers, Len(headers)))
    => \A recent \in 1 .. Len(headers) - 1 :
          LET split == Split(headers, recent)
              records == {j \in 1 .. split - 1 : \A i \in 1..j : headers[i].level <= headers[j].level}
          IN /\ VerifyMultilevel(UpToPruningPoint(headers, Len(headers)), recent)
             /\ ToSet(Hops(headers, split)) = {split} \cup records

(***************************************************************************)
(* A node takes the floor of a block's difficulty from its live supply,    *)
(* so one that is ahead when the block comes may ask more than the miner   *)
(* did, and refuse it.  It does only if the bootstrap era ended in         *)
(* between, and only if the block, its parent or one of its samples has    *)
(* less than the floor after it: once a window lies above that floor, the  *)
(* end of the era divides nobody (`expected_difficulty_at`).               *)
(***************************************************************************)
EraEndDividesBelowFloor ==
    \A k \in 2..Len(headers) :
        LET c == SubSeq(headers, 1, k - 1)
            again == ExpectedDifficultyAt(c, Minted(headers))
            seen == {headers[k].diff, Last(c).diff} \cup {x.diff : x \in ToSet(Samples(c))}
        IN \/ again = headers[k].diff
           \/ /\ Minted(c) < BOOTSTRAP_ERA_END /\ Minted(headers) >= BOOTSTRAP_ERA_END
              /\ again > headers[k].diff
              /\ \E d \in seen : d < HARD_ERA_MIN_DIFFICULTY
=============================================================================
