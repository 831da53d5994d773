------------------------------ MODULE Mempool ------------------------------
(***************************************************************************)
(* The mempools of a node and the production of blocks from them: UTXO     *)
(* admission with replacement, packages and eviction; the registry and     *)
(* custody queues; the block template, with its selections, the trimming   *)
(* to size and the two strict bindings; the search; and the blocks of      *)
(* other miners, which arrive at any time.                                 *)
(*                                                                         *)
(* The live ledger is the replay of `chain`, the blocks in the past of the *)
(* selected tip in canonical order, in which what does not apply is        *)
(* skipped; the other blocks of the DAG are in `side`, until a block       *)
(* merges them or a heavier one takes the tip's place.  Signatures and     *)
(* forms are valid; of what an operation requires, its nonce is kept; the  *)
(* pools are smaller than what a template takes of each (1000, 500, 200).  *)
(* The account-transfer pool is empty in this version of the code          *)
(* (ACCOUNT_PEER_TRANSFERS).                                               *)
(*                                                                         *)
(* D_Xxx is D with the mistake Xxx, to see that a property notices it.     *)
(***************************************************************************)
EXTENDS Integers, Sequences, SequencesExt, FiniteSetsExt

CONSTANTS
    Tx,                      \* UTXO transactions
    TxId,                    \* [Tx -> Nat], the order of their ids
    Spends, Makes,           \* [Tx -> SUBSET Coin]
    Fee, Size,               \* [Tx -> Nat]
    Expires,                 \* [Tx -> Nat], the least expire_blue (AnnulAfter) of its inputs
    SeedCoins,               \* the coins unspent at the start
    Op,                      \* operations: [list, signer, nonce, kind]
    MAX_BLOCK_PARENTS,       \* most parents of a block
    MAX_MERGESET_SIZE,       \* most blocks that a block merges
    MAX_MEMPOOL_SIZE,        \* most transactions in the pool
    MAX_MEMPOOL_BYTES,       \* most bytes in the pool
    MAX_UTXO_PACKAGE_COUNT,  \* most transactions in an ancestor package
    MAX_UTXO_PACKAGE_BYTES,  \* most bytes in one
    MIN_TX_FEE,              \* what a replacement pays on top
    MAX_QUEUE,               \* most operations in one queue
    MaxBlockSize,            \* size to which a template is trimmed
    MaxChain                 \* bound: blocks

ASSUME PoolConstants ==
    /\ Op \subseteq [list : {"registry", "custody"}, signer : {o.signer : o \in Op},
                     nonce : Nat, kind : {o.kind : o \in Op}]
    /\ Tx \cap Op = {}
    /\ Fee \in [Tx -> Nat]
    /\ Expires \in [Tx -> Nat]
    /\ MAX_BLOCK_PARENTS \in Nat \ {0}
    /\ MAX_MERGESET_SIZE \in Nat

VARIABLES
    pool,     \* utxo_mempool
    queue,    \* registry_mempool and custody_mempool, by list
    chain,    \* the selected tip's past and itself, in canonical order: [body, score]
    side,     \* the other blocks, in the order in which they are merged
    work,     \* the body of the block being searched for, or NoWork
    mode      \* "up", or the `expect` that failed

poolVars == <<pool, queue, chain, side, work, mode>>

NoWork == <<>>
Signer == {o.signer : o \in Op}
Coin == SeedCoins \cup UNION {Makes[t] : t \in Tx}

-----------------------------------------------------------------------------
(***************************************************************************)
(* A state: unspent coins, account nonces, and the blue score at which     *)
(* locks are judged.  A UTXO transaction applies if its inputs are there   *)
(* and not annulled yet, an operation if its nonce is next.                *)
(***************************************************************************)
Applies(l, x) ==
    IF x \in Tx THEN Spends[x] \subseteq l.coins /\ l.score < Expires[x]
    ELSE l.nonce[x.signer] = x.nonce

Apply(l, x) ==
    IF x \in Tx THEN [l EXCEPT !.coins = (@ \ Spends[x]) \cup Makes[x]]
    ELSE [l EXCEPT !.nonce[x.signer] = @ + 1]

(***************************************************************************)
(* The items of s are applied in turn, and those that do not apply are     *)
(* left out: the state after that, and the good ones.                      *)
(***************************************************************************)
ApplyAll(l, s) ==
    FoldLeft(LAMBDA r, x : IF Applies(r.l, x)
                           THEN [l |-> Apply(r.l, x), good |-> Append(r.good, x)] ELSE r,
             [l |-> l, good |-> <<>>], s)

(***************************************************************************)
(* Blocks are replayed each at its own blue score, so that the live state  *)
(* has that of the selected tip.                                           *)
(***************************************************************************)
Replay(l, blocks) ==
    FoldLeft(LAMBDA r, b : ApplyAll([r EXCEPT !.score = b.score], b.body).l, l, blocks)

SeedState == [coins |-> SeedCoins, nonce |-> [s \in Signer |-> 0], score |-> 0]
Live == Replay(SeedState, chain)

PoolInit ==
    /\ pool = <<>>
    /\ queue = [l \in {"registry", "custody"} |-> <<>>]
    /\ chain = <<>>
    /\ side = <<>>
    /\ work = NoWork
    /\ mode = "up"

-----------------------------------------------------------------------------
Fees(S) == MapThenSumSet(LAMBDA t : Fee[t], S)
Bytes(S) == MapThenSumSet(LAMBDA t : Size[t], S)
Rate(S) == Fees(S) \div Bytes(S)

Parents(S, t) == {p \in S : Makes[p] \cap Spends[t] # {}}

(***************************************************************************)
(* The members of S reached from a set along parents, or along children.   *)
(***************************************************************************)
AncestorsIn(S, T) ==
    LET up[i \in 0..Cardinality(S)] ==
          IF i = 0 THEN UNION {Parents(S, t) : t \in T}
          ELSE up[i - 1] \cup UNION {Parents(S, t) : t \in up[i - 1]}
    IN up[Cardinality(S)]

DescendantsIn(S, T) == {d \in S : AncestorsIn(S, {d}) \cap T # {}}

(***************************************************************************)
(* The queued transactions that share an input with t, and all that spend  *)
(* what these make.                                                        *)
(***************************************************************************)
ConflictSet_Direct(t) == {q \in ToSet(pool) : Spends[q] \cap Spends[t] # {}}
ConflictSet(t) ==
    LET direct == {q \in ToSet(pool) : Spends[q] \cap Spends[t] # {}}
    IN direct \cup DescendantsIn(ToSet(pool), direct)

Without(s, S) == FoldLeft(LAMBDA r, x : IF x \in S THEN r ELSE Append(r, x), <<>>, s)

(***************************************************************************)
(* `utxo_mempool_preview`: the live coins and whatever of the rest of the  *)
(* pool can be applied to them, in rounds over what is still pending, as   *)
(* many as there are transactions.                                         *)
(***************************************************************************)
Round(r) ==
    LET done == ApplyAll(r.l, r.pending)
    IN [l |-> done.l, pending |-> Without(r.pending, ToSet(done.good))]

Preview(rest) == FoldLeft(LAMBDA r, t : Round(r), [l |-> Live, pending |-> rest], rest).l

Package(S, t) == {t} \cup AncestorsIn(S, {t})

(***************************************************************************)
(* Eviction for bytes: from the lowest package rate up, the later of two   *)
(* equals first, as few as are needed, and only below the rate of the      *)
(* incoming package.  {{}} if nothing is to go, {} if it does not work.    *)
(***************************************************************************)
RankedForEviction(p) ==
    SetToSortSeq(DOMAIN p, LAMBDA i, j :
        LET ri == Rate(Package(ToSet(p), p[i]))
            rj == Rate(Package(ToSet(p), p[j]))
        IN ri < rj \/ (ri = rj /\ i > j))

BytesToEvict(p, t, rate) ==
    LET order == RankedForEviction(p)
        Prefix(k) == {p[order[i]] : i \in 1..k}
        Fits(k) == Bytes(ToSet(p) \ Prefix(k)) + Size[t] <= MAX_MEMPOOL_BYTES
        Cheap(k) == \A i \in 1..k : Rate(Package(ToSet(p), p[order[i]])) < rate
    IN {Prefix(k) : k \in {k \in 0..Len(p) :
            Fits(k) /\ Cheap(k) /\ \A j \in 0 .. k - 1 : ~Fits(j)}}

(***************************************************************************)
(* Eviction for the count: the first of those with the lowest package      *)
(* rate and fee, if the incoming package beats it.                         *)
(***************************************************************************)
CountToEvict(p, t, rate) ==
    IF Len(p) < MAX_MEMPOOL_SIZE THEN {{}}
    ELSE LET R(i) == Rate(Package(ToSet(p), p[i]))
             F(i) == Fees(Package(ToSet(p), p[i]))
             worst == CHOOSE i \in DOMAIN p : \A j \in DOMAIN p :
                        \/ R(i) < R(j)
                        \/ R(i) = R(j) /\ F(i) < F(j)
                        \/ R(i) = R(j) /\ F(i) = F(j) /\ i <= j
         IN IF rate > R(worst) \/ (rate = R(worst) /\ Fee[t] > F(worst))
            THEN {{p[worst]}} ELSE {}

(***************************************************************************)
(* A replacement pays for all it replaces, and at a higher rate.           *)
(***************************************************************************)
MayReplace(t, conflicts) ==
    conflicts # {} =>
        /\ Fee[t] >= Fees(conflicts) + MIN_TX_FEE
        /\ Fee[t] \div Size[t] > Rate(conflicts)

(***************************************************************************)
(* `admit_utxo_to_mempool`.  The conflicts are removed before the budgets  *)
(* are checked: when these refuse the transaction, both are gone.  The     *)
(* byte eviction, too, comes before the check of the count.                *)
(***************************************************************************)
Admission(t) ==
    LET conflicts == ConflictSet(t)
        rest == Without(pool, conflicts)
        pkg == Package(ToSet(rest), t)
        rate == Rate(pkg)
    IN IF \/ t \in ToSet(pool)
          \/ ~Applies(Preview(rest), t)
          \/ Cardinality(pkg) > MAX_UTXO_PACKAGE_COUNT
          \/ Bytes(pkg) > MAX_UTXO_PACKAGE_BYTES
          \/ ~MayReplace(t, conflicts)
       THEN pool
       ELSE IF BytesToEvict(rest, t, rate) = {} THEN rest
       ELSE LET p == Without(rest, CHOOSE S \in BytesToEvict(rest, t, rate) : TRUE)
            IN IF CountToEvict(p, t, rate) = {} THEN p
               ELSE Append(Without(p, CHOOSE S \in CountToEvict(p, t, rate) : TRUE), t)

AdmitUtxo(t) ==
    /\ mode = "up"
    /\ pool' = Admission(t)
    /\ pool' # pool
    /\ UNCHANGED <<queue, chain, side, work, mode>>

(***************************************************************************)
(* `admit_registry_to_mempool`, `admit_custody_to_mempool`.  The queues    *)
(* tell operations apart by signer and nonce, that of custody operations   *)
(* by their kind as well.                                                  *)
(***************************************************************************)
Duplicates(o, q) ==
    /\ o.list = q.list /\ o.signer = q.signer /\ o.nonce = q.nonce
    /\ o.list = "custody" => o.kind = q.kind

NotQueued(o) == \A i \in DOMAIN queue[o.list] : ~Duplicates(queue[o.list][i], o)

AdmitOp(o) ==
    /\ mode = "up"
    /\ o.nonce >= Live.nonce[o.signer]
    /\ NotQueued(o)
    /\ Len(queue[o.list]) < MAX_QUEUE
    /\ queue' = [queue EXCEPT ![o.list] = Append(@, o)]
    /\ UNCHANGED <<pool, chain, side, work, mode>>

-----------------------------------------------------------------------------
(***************************************************************************)
(* The selections: what applies to a running copy of the live state, UTXO  *)
(* transactions in the order of their own rate, operations as queued.      *)
(***************************************************************************)
Select_AsAdmitted(l, s) == s
Select(l, s) == ApplyAll(l, s).good

Outranks(s, t) ==
    \/ Rate({s}) > Rate({t})
    \/ Rate({s}) = Rate({t}) /\ Fee[s] > Fee[t]
    \/ Rate({s}) = Rate({t}) /\ Fee[s] = Fee[t] /\ TxId[s] < TxId[t]

ByRate ==
    FoldLeft(LAMBDA r, t : LET before == {s \in ToSet(r) : Outranks(s, t)}
                           IN Without(r, ToSet(r) \ before) \o <<t>> \o Without(r, before),
             <<>>, pool)

Selected ==
    [utxo |-> Select(Live, ByRate), registry |-> Select(Live, queue["registry"]),
     custody |-> Select(Live, queue["custody"])]

(***************************************************************************)
(* The trimming of a template that is too big: the transaction with the    *)
(* lowest fee first, while there is one; then the last operation.          *)
(***************************************************************************)
Body(b) == b.utxo \o b.registry \o b.custody
BodySize(b) == Bytes(ToSet(b.utxo)) + Len(b.registry) + Len(b.custody)

TrimOne(b) ==
    IF b.utxo # <<>> THEN
        LET low == CHOOSE i \in DOMAIN b.utxo : \A j \in DOMAIN b.utxo :
                       \/ Fee[b.utxo[i]] < Fee[b.utxo[j]]
                       \/ Fee[b.utxo[i]] = Fee[b.utxo[j]] /\ i <= j
        IN [b EXCEPT !.utxo = RemoveAt(@, low)]
    ELSE IF b.registry # <<>> THEN [b EXCEPT !.registry = Front(@)]
    ELSE IF b.custody # <<>> THEN [b EXCEPT !.custody = Front(@)]
    ELSE b

Trimmed(b) ==
    FoldLeft(LAMBDA c, x : IF BodySize(c) <= MaxBlockSize THEN c ELSE TrimOne(c), b, Body(b))

(***************************************************************************)
(* What the template's parents bring besides the selected tip's past: all  *)
(* of `side`, unless the tips may be more than MAX_BLOCK_PARENTS; of these *)
(* the first are cited, here with the first blocks.                        *)
(***************************************************************************)
Cited ==
    IF Len(side) < MAX_BLOCK_PARENTS THEN {side}
    ELSE {SubSeq(side, 1, m) : m \in MAX_BLOCK_PARENTS - 1 .. Len(side)}

ScoreOf(blocks) == IF blocks = <<>> THEN 0 ELSE Last(blocks).score

(***************************************************************************)
(* `post_mergeset_state_root`: the body of a block is applied to the state *)
(* that its selected parent, the last of `base`, and the blocks it merges  *)
(* leave, these replayed with what does not apply skipped; the blue ones   *)
(* among them add to its score.  Every item applies in turn, or it is an   *)
(* error; so is a mergeset that is too large.                              *)
(***************************************************************************)
MergedState(base, merged, blues) ==
    [Replay(Replay(SeedState, base), merged) EXCEPT !.score = ScoreOf(base) + 1 + blues]

Binds(l, body) == ApplyAll(l, body).good = body

(***************************************************************************)
(* `create_block_template` binds what it selected twice, before and after  *)
(* the trimming (`bind_parent_commitments`), and unwraps the error.        *)
(***************************************************************************)
CreateBlockTemplate ==
    /\ mode = "up"
    /\ work = NoWork
    /\ \E cited \in Cited : \E blues \in 0..Len(cited) :
         LET b == Selected
             l == MergedState(chain, cited, blues)
         IN \/ /\ Len(cited) > MAX_MERGESET_SIZE \/ ~Binds(l, Body(b))
               /\ mode' = "template parents must yield a selected parent"
               /\ UNCHANGED work
            \/ /\ Len(cited) <= MAX_MERGESET_SIZE
               /\ Binds(l, Body(b))
               /\ ~Binds(l, Body(Trimmed(b)))
               /\ mode' = "post-trim commitments"
               /\ UNCHANGED work
            \/ /\ Len(cited) <= MAX_MERGESET_SIZE
               /\ Binds(l, Body(b))
               /\ Binds(l, Body(Trimmed(b)))
               /\ Body(Trimmed(b)) # <<>>
               /\ work' = Body(Trimmed(b))
               /\ UNCHANGED mode
    /\ UNCHANGED <<pool, queue, chain, side>>

(***************************************************************************)
(* A block enters the DAG and the mempools lose what it includes: UTXO     *)
(* transactions by id, operations as the queues tell them apart.           *)
(***************************************************************************)
DropIncluded(body) ==
    /\ pool' = Without(pool, ToSet(body))
    /\ queue' = [l \in DOMAIN queue |->
                    Without(queue[l], {q \in ToSet(queue[l]) : \E x \in ToSet(body) \cap Op : Duplicates(x, q)})]

(***************************************************************************)
(* The new block stands on the selected tip or on a block below it, and    *)
(* merges the side blocks or does not; `add_block` takes it if its body    *)
(* binds there.  It becomes the selected tip if its blue score is the      *)
(* highest, or as high and its hash greater; what it does not have in its  *)
(* past is then at the side.                                               *)
(***************************************************************************)
IncludeBlock(body) ==
    /\ Len(chain) + Len(side) < MaxChain
    /\ DropIncluded(body)
    /\ \E k \in 0..Len(chain), merged \in {<<>>, side} : \E blues \in 0..Len(merged) :
         LET base == SubSeq(chain, 1, k)
             b == [body |-> body, score |-> ScoreOf(base) + 1 + blues]
         IN /\ Len(merged) <= MAX_MERGESET_SIZE
            /\ Binds(MergedState(base, merged, blues), body)
            /\ \/ /\ b.score >= ScoreOf(chain)
                  /\ chain' = base \o merged \o <<b>>
                  /\ side' = SubSeq(chain, k + 1, Len(chain)) \o (IF merged = side THEN <<>> ELSE side)
               \/ /\ b.score <= ScoreOf(chain)
                  /\ side' = Append(side, b)
                  /\ UNCHANGED chain

(***************************************************************************)
(* The search ends with a nonce, and `assemble_block` hands the block to   *)
(* `add_block`, where others may have come first; or it runs out of time   *)
(* and the template is dropped.                                            *)
(***************************************************************************)
FindNonce ==
    /\ mode = "up"
    /\ work # NoWork
    /\ IncludeBlock(work)
    /\ work' = NoWork
    /\ UNCHANGED mode

SearchTimesOut ==
    /\ mode = "up"
    /\ work # NoWork
    /\ work' = NoWork
    /\ UNCHANGED <<pool, queue, chain, side, mode>>

(***************************************************************************)
(* A block of another miner.                                               *)
(***************************************************************************)
ReceiveBlock(x) ==
    /\ mode = "up"
    /\ IncludeBlock(<<x>>)
    /\ UNCHANGED <<work, mode>>

PoolNext ==
    \/ \E t \in Tx : AdmitUtxo(t)
    \/ \E o \in Op : AdmitOp(o)
    \/ CreateBlockTemplate
    \/ FindNonce
    \/ SearchTimesOut
    \/ \E x \in Tx \cup Op : ReceiveBlock(x)

PoolSpec == PoolInit /\ [][PoolNext]_poolVars

-----------------------------------------------------------------------------
Sourced(t, p) == Spends[t] \subseteq Live.coins \cup UNION {Makes[q] : q \in ToSet(p)}

(***************************************************************************)
(* A replacement never strands a child: if all that an admission removed   *)
(* shares an input with the new transaction, or descends from what does,   *)
(* then who had a source for its inputs, in the live state or in the pool, *)
(* still has one (`admit_utxo_to_mempool`, the expanded conflict set).     *)
(***************************************************************************)
StrandsNobody ==
    \A t \in ToSet(pool') \ ToSet(pool) :
       LET direct == {q \in ToSet(pool) : Spends[q] \cap Spends[t] # {}}
       IN ToSet(pool) \ ToSet(pool') \subseteq direct \cup DescendantsIn(ToSet(pool), direct)
            => \A d \in ToSet(pool') : Sourced(d, pool) => Sourced(d, pool')

ReplacementStrandsNobody == [][StrandsNobody]_poolVars

(***************************************************************************)
(* Why what was selected against the live state may not bind.              *)
(***************************************************************************)
Items(blocks) == UNION {ToSet(blocks[i].body) : i \in DOMAIN blocks}

SharedSigner ==
    {o.signer : o \in ToSet(queue["registry"])} \cap {o.signer : o \in ToSet(queue["custody"])} # {}

SiblingInterferes ==
    \/ \E x \in Items(side) \cap Tx : \E t \in ToSet(pool) : Spends[x] \cap Spends[t] # {}
    \/ \E x \in Items(side) \cap Op : \E l \in DOMAIN queue : \E o \in ToSet(queue[l]) : o.signer = x.signer

ExpiresOnTheWay ==
    \E t \in ToSet(pool) :
       Live.score < Expires[t] /\ Expires[t] <= ScoreOf(chain) + 1 + Len(side)

(***************************************************************************)
(* Every reason for which an `expect` of the producer fails, none of which *)
(* its message foresees (`create_block_template`).  The first one: the     *)
(* same signer has an operation in both queues; a block that the template  *)
(* merges spends what a selected transaction spends, or has an operation   *)
(* of the same signer; an input is annulled between the tip's score and    *)
(* the template's; or there are too many blocks to merge.  The second one: *)
(* the trimming takes a parent and leaves its child.                       *)
(***************************************************************************)
PanicsAreKnown ==
    /\ mode = "template parents must yield a selected parent" =>
          SharedSigner \/ SiblingInterferes \/ ExpiresOnTheWay \/ Len(side) > MAX_MERGESET_SIZE
    /\ mode = "post-trim commitments" =>
          \E s, t \in ToSet(pool) : Makes[s] \cap Spends[t] # {} /\ Fee[s] <= Fee[t]
=============================================================================
