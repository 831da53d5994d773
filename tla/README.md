# Hassan: TLA+ models and proofs

Hassan is a block-DAG node written in Rust: GHOSTDAG ordering, a hybrid ledger
(UTXO set, account overlay, title and escrow registry, stakes), a finality rule,
pruning, mining, a peer-to-peer layer and the services around it. This directory
holds TLA+ modules of it, the TLC runs that check them on small instances, and TLAPS proofs of
the results that should hold for every instance. `PROJECT.json` is the index:
components, runs, the source lines behind every definition, hazards, findings
and theorems.

## 1. The system

Paths are relative to the repository; `src/lib.rs` is the crate's main file.

| Component | State | Operations | Why it is hard |
|---|---|---|---|
| Block DAG (`src/lib.rs`, `ChainState`) | `dag`, `tips`, `ghostdag`, `main_chain`, `base`, `base_frontier`, live ledger, `pruning_point` | `add_block` (validate, insert, fold, replay, prune) | blocks arrive in any order; the live ledger must be a function of the DAG alone |
| GHOSTDAG (`src/ghostdag.rs`) | none (data per block) | `try_compute_ghostdag_data`, `selected_chain`, `selected_tip` | colouring at exactly K; ties; order inside a mergeset |
| Reachability (`src/reachability.rs`) | tree, intervals, future covering sets | `add_block`, `is_ancestor`, `is_chain_ancestor`, `drop_leaf`, `retain` | answers `None` for dropped blocks; reindexing |
| Ledger (`src/lib.rs`, `src/custody.rs`, `src/genesis.rs`) | accounts, stakes, supply, UTXO set | `apply_block_effects`, `apply_block_reward`, `apply_custody_op` | conflict-skip during replay; cap on the supply |
| Registry (`src/registry.rs`) | titles, escrows | seven operations of `apply_op` | two parties, locks, partial payments, timeouts, nonce taken even on failure |
| UTXO (`src/utxo.rs`, `src/utxo_tx.rs`, `src/predicate.rs`) | outpoints | `apply_utxo_tx`, `mint_coinbase` | locks, maturity, predicates |
| Mempools (`src/lib.rs`) | four pools | admit, replace, evict, select | failure after a partial change; eviction of parents |
| Block production (`src/consensus.rs`) | work, miners, shares | template, search, assemble, submit | state changes between template and assembly; `expect` on results |
| P2P (`src/p2p.rs`) | orphans, in-flight sets, pending headers, ban scores | `dispatch`, `ingest_block`, announcers | loss, reordering, silent peers, budgets |
| Pruning proofs (`src/superproof.rs`, `src/assume_valid.rs`) | verified pruning point, best work | build, verify, adopt | staleness between check and adoption |
| Persistence (`src/lib.rs`, `src/main.rs`) | state file, `.bak`, `.bak.1`, `.tmp` | `save_to`, `load_from`, saver thread, shutdown handler | crash between renames; two threads save at once |
| BDPE / TUEP (`src/bdpe.rs`, `tuep-escrow/`) | vault outpoint | fund, settle, reclaim | two signers, timeout |
| Version bits, address manager, rate limits, Stratum, indexer (`src/versionbits.rs`, `src/addrman.rs`, `src/security.rs`, `src/stratum.rs`, `src/indexer.rs`) | small state machines | see sources | windows, eviction, bans, reorgs, files of different ages |
| Encrypted wire (`src/p2p.rs`) | sockets, cipher counters, jobs of the writers | handshake, send, read | several writers, writes that fail half-way, full sockets at both ends |
| Peer policing (`src/p2p.rs`) | rate window, STARK budget, ban score of a connection | `handle_conn` | three clocks in one loop |
| Dialing (`src/tor.rs`) | a SOCKS5 exchange | `dial_target`, `socks5_connect_timeout` | answers of unknown length with data behind them |
| Fee estimates (`src/lib.rs`, `src/economics.rs`) | first-seen times, samples per block | record, drop, estimate | reorganisations; entries dropped before they are sampled |
| HTTP server (`src/main.rs`, `src/api.rs`) | threads, stream slots | accept, read, guard, serve, stream | counters of several threads, requests in pieces |
| Cryptography, explorer, formatting | – | – | not modelled, see section 7 |

Interaction: P2P and the miner call `ChainState::add_block` under one write
lock; it calls GHOSTDAG and the reachability index, replays bodies through the
ledger and the registry, and then prunes. The template builder and the API take
read locks and use what they read later. So the unit of atomicity is one call
of `add_block`, and the interleavings that matter are those of *blocks*, across
nodes, and of template, search and assembly against `add_block`.

## 2. Modules

| Module | Models | Notes |
|---|---|---|
| `Ledger` | the effects of block bodies and rewards on the value state | one action per operation |
| `LedgerProofs` | theorems about `Ledger` | TLAPS |
| `MCLedger` | small instance of `Ledger` | |
| `FinalityChain` | abstract: the selected-parent tree, scores, the finality rule | the promise about finality |
| `FinalityProofs` | theorems about `FinalityChain` | TLAPS |
| `Ghostdag` | GHOSTDAG as operators on a DAG | no state |
| `ChainState` | several nodes: mining, delivery, validation, fold, replay, pruning | extends `Ghostdag`, implements `FinalityChain` |
| `MCChainState` | small instances of `ChainState` | |
| `ChainProofs` | theorems about `ChainState` and `Ghostdag` | TLAPS |
| `Persistence` | saver thread, shutdown handler, `save_to`, `load_from`, crashes, restart | two runs take it as it is |
| `MCStorage` | small instance of `Persistence` and of a pruned node of `ChainState` | |
| `PersistenceProofs` | theorem about `Persistence` | TLAPS |
| `Mempool` | UTXO pool, operation queues, block template, search, assembly | |
| `Sync` | how bodies and headers are fetched; `ingest_block` cut at its locks | |
| `Peers` | dialing, handshake, registration, Hello, bans, end of a connection | |
| `Superproof` | difficulty adjustment, interlinks, linear and multi-level pruning proofs | |
| `ColdStart` | adoption of a pruning proof and of the ledger of its point | |
| `TxRelay` | announcing and pulling of transactions | |
| `MCNode` | small instances of the six modules above | |
| `NodeProofs` | theorems about `Peers`, `Sync`, `ColdStart`, `TxRelay` and `Mempool` | TLAPS |
| `AddrMan` | new and tried tables, feelers | |
| `RateLimit` | request windows and bans of the API | |
| `VersionBits` | one deployment along a chain | |
| `Stratum` | workers, jobs, shares | |
| `Indexer` | the explorer's index beside the chain | |
| `Reachability` | intervals, covering sets, new layouts, dropped leaves, rebuild | |
| `Vault` | predicates, application of a transaction, BDPE vault, wallet | |
| `FeeHistory` | first-seen records, samples, estimates | |
| `HttpServer` | threads and streams of the API server | |
| `Wire` | one encrypted connection | |
| `Socks` | one dial through a proxy | |
| `PeerBudget` | how one connection is policed | |
| `MCServices` | small instances of `FinalityChain` and the twelve modules above | |
| `ServiceProofs` | theorems about `HttpServer`, `Socks`, `Stratum`, `RateLimit`, `PeerBudget`, `AddrMan`, `VersionBits` and `FeeHistory` | TLAPS |
| `WireProofs` | theorems about `Wire` | TLAPS |
| `Inductions` | lemmas: induction, sums and folds of the community modules | TLAPS |

`MCNode`, `MCServices` and `MCStorage` hold modules that share no state. The variable
`part` says which of them a behaviour runs, so that the state spaces add up and do not
multiply.

Definitions whose names end in `_Xxx` (for example `Subsidy_Uncapped`) are
plausible mistakes. No action uses them; each is put in the place of the
definition it is named after, to see that a property notices.

### Ledger

State: `balance`, `nonce`, `staked`, `titles`, `escrows` are the maps of the code
over a fixed set of addresses and ids, `None` standing for an absent entry.
`utxo` is the total value of the UTXO set, `minted` is `minted_supply`. `fees`,
`blue` and `stage` are the local variables of `apply_block_effects`: fees
collected so far, score of the block, and which list of the body is being
applied (UTXO transactions, registry operations, custody operations). The
transparent list is not there: `ACCOUNT_PEER_TRANSFERS` is off, and
`apply_transparent_tx` refuses everything. Each action is one operation that
succeeds, except `SkipRegistryOp`, the operation that fails after
`apply_op` has advanced the nonce; a failing UTXO or custody operation changes
nothing. `ApplyBlockReward` ends the block and picks any next score, because
canonical order may go down in score at a merged block.

Assumptions in the model: title and escrow ids do not collide (512-bit
hashes); the u128 additions do not overflow, which the supply cap implies.

### ChainState

`node[n]` is a record with the fields of the Rust struct that the properties
need: `dag` (parents, body, and whether the body is still there), `gd`, `tips`,
`base`, `base_frontier`, `ledger`, and `reach`, the reachability index: tree parents
and future covering sets. Only its intervals are left out, which `Reachability` is
about. `net` is the set of all mined blocks; a node may receive any of them at
any time, in any order, or never. A transaction is a set of coins spent and a
set of coins made; `state_root` is the ledger itself, so two roots are equal
exactly when the states are.

Colouring, order and finality ask the index, as the code does (`GhostdagOf`,
`NotOffFinalizedChain`): `IndexedPast` is what `is_ancestor` answers for every pair, by
the tree and one covering block, or by a walk over the parents if the index lacks one
of the two. `drop_leaf` is tried on the buried blocks in the order of a hash map, which
the model leaves open (`DropOutcomes`). A block whose selected parent was dropped becomes
a root, so that on a pruned node the answers may be wrong. On an archival node they are
right; this is the property `IndexIsExact`, not an assumption.

The finality rule of `add_block` asks the index whether the finality point is on
the chain of the selected parent, and lets the block pass if the index no longer
holds one of the two. The model shows that the rule has a second line behind it:
a block off the finalized chain cannot reproduce its `state_root` from a base that
holds blocks outside its past, so `FinalityNeverReverts` breaks only if both
checks are dropped (`Admissible_FormOnly`), not if one is.

`AddBlock` is the whole of `add_block`: insertion, `AdvanceFinalizedBase`,
`RecomputeVirtualState`, `PruneBodies`, `PruneHistory`, in the order of the code.
`Admissible` has its checks in order. `Mine` is `create_block_template`, the
search and `add_block` in one step. `Reload` is the restart of a node from its own state
file: `validate_hardcoded_chain`; `supply_invariant_ok`, which refuses a state with an
open escrow (`EscrowCoin` are coins that stand for the money of one, so while such a
coin is unspent the node cannot restart); then `rebuild_derived`, which inserts the
stored blocks into an empty index, each after its held parents and otherwise in the
order of a hash map (`RebuiltIndexes` are all the outcomes), and replays the ledger from
the stored base.

Left out of `add_block`: proof of work, sizes, birth certificates and STARK proofs
(every block is honestly made) and the display difficulty. Difficulty and
timestamps are in `Superproof`, mempools in `Mempool`, fee samples in `FeeHistory`,
the ledger cached at the pruning point in `ColdStart`.
Coins other than coinbases stand for the value state; the registry and stakes
are in `Ledger`.

### FinalityChain

Only the selected-parent tree is left: for each block the set of blocks on its
selected chain, and its score. `ChainState!ChainView(n)` maps a node to it, and
`ImplementsFinalityChain` says that the initial state and every step of each
archival node map to the initial state and to a step, or a stutter, of
`FinalityChain`. A node that prunes history does not refine it (it forgets
blocks); for such a node `FinalityNeverReverts` is checked directly.

### Persistence

A chain state is reduced to a `version`, which grows with every block, and the
height of its tip, which is all that the saver looks at. `save_to` is cut at its
system calls: create, write and sync, test for the primary, two renames whose
results are ignored, the rename that commits, the sync of the directory. Both
threads of `main` that save run it, each with its own snapshot and open file.
Files are inodes under names, since one thread may hold a file that the other
renames. The pruning that `save_to` does is on the snapshot, which nothing else
reads.

`survivors` holds the directories that a power loss may leave: those since the
last sync of the directory, as renames reach the disk in order or not at all.
`Crash` picks one of them and forgets all memory; a plain kill is the case where
it picks the newest. `Restart` is the start of `main`: it tests for the primary
file before it calls `load_from`. If the primary is there and nothing loads,
`main` exits and the model stays down.

The file system is modelled from its use (marked external): a file that is
written and synced has its contents, one that is not, or that two threads wrote,
fails the integrity tag, and syncing a directory works. Creating, writing and
renaming fail up to `MaxFaults` times. The mempool dump is left out.

### Mempool

`chain` is the selected tip's past and the tip itself in canonical order, each block
with its body and blue score, and the live ledger is its replay, in which what does not
apply is skipped. `side` holds the other blocks of the DAG. A new block stands on any
block of the chain, merges the side blocks or does not, and becomes the tip if its score
allows it, so blocks of other miners also bring reorganisations.

`AdmitUtxo` follows `admit_utxo_to_mempool`: conflict set with descendants, the preview
of the pool's coins, both package limits (count and bytes), the price of a replacement,
eviction by bytes and then by count; fees and sizes are numbers, and forms and
signatures are taken to be valid. `AdmitOp` is the same for the registry and custody
queues, which tell operations apart by signer and nonce, custody operations by their
kind as well. Of the conditions of an operation only its nonce is kept.

`CreateBlockTemplate` selects from the three lists against the live state, and binds
against the state after the merge of the selected tips (`MergedState`): the live state,
the side blocks that the parents cite, and the higher score at which expiring inputs are
judged. A mergeset beyond `MAX_MERGESET_SIZE` is an error as well. Then it trims to the
size limit and binds again; an error of either bind is unwrapped in the code, and `mode`
then keeps the message. `FindNonce` assembles against whatever the state is by then.
The pools are smaller than the 1000, 500 and 200 entries that a template takes of each
list. The loops of the code over a list are folds over it; candidates are ordered by
rate by inserting one after the other, since what a sorting operator returns could not
be reasoned about.

### Sync

`have` is the set of keys of the DAG, `orphans` maps a missing parent to the blocks
that wait for it, `inFlight` and `pending` are the tables of the same names in the
code. Every peer has a thread; `ingest_block` takes and releases its locks several
times, and each stretch under one lock is an action (`SkipKnown`, `Precheck`,
`ReadMissing`, `BufferOrphan`, `AskForParents`, `AddToDag`, `EndBlock`). `HearHello` asks a
peer for its tips only if the blue score in its Hello is above the node's own at that
moment. `Precheck` charges the STARK budget of the connection for the block that the peer
sent itself, and drops the block when the budget is used up; when its window ends is
left open (`PeerBudget` has the clocks).

Peers are honest, hold what they hold from the start, and answer in order; a disconnect
loses what was under way. The periodic tip announcer, by which a peer that mines later
would be heard of, is not modelled: the question is what the exchange at the start of
a connection leaves open. `refused`, `unanswered` and `unasked` are history: the
blocks that the node dropped or did not ask for, those whose answer was lost with its
connection, and the connected peers whose tips were not asked for.

### Peers

A slot is a connection thread: dialing with its reservation in `connected_addrs`,
handshake, the second look at the caps under the lock, Hello, gossip, ban, close.
The two locks that `remember_addr` takes are one step.

### Superproof and ColdStart

`Superproof` grows one selected chain, with merged siblings, under the live
retarget rule with its clamps and era floors, and with interlinks by level; the
builders and verifiers of both kinds of proof are operators on it, evaluated in
every state. `ColdStart` takes proofs that verify and models what happens to them:
each peer's thread compares, imports and records under one lock after the other,
while other answers come in and the servers' own pruning points move on.

### TxRelay

Two passes of the announcer (hashes, then bodies), pulls with a budget, answers,
links that come and go. `missed` is a history variable that holds the reasons for
which a peer may never hear of a transaction.

### Reachability

The index with its intervals and covering sets, small units instead of u64:
placing a child, the new layout when there is no room, `drop_leaf`, `retain`, the
rebuild after a restart, and the finality check of `add_block`, which has no answer for a
block that is not in the index and then lets it pass. `past` is ancestry by definition, against which every
answer of `is_ancestor` is compared.

### Vault

Predicates and witnesses are trees, a signature is a party's name. `EvaluateFull`
and its helpers are recursive operators, as in the code, so this module is for TLC
only. `ApplyUtxoTx` works on copies where the code does and stops half-way where the
code can. A transaction is admitted at one blue score and applied at a later one.
The vault and the wallet payment are built with the code's fee loop (the fee is
raised out of the last output). Transactions have one input here.

### The smaller modules

`AddrMan`, `RateLimit`, `VersionBits`, `Stratum` and `Indexer` are the state machines of
their files, one action per method. The deployments table of `VersionBits` is empty
in this version, so `Start` and `Timeout` stand for its first entry. The indexer is
run against a chain that reorganises, prunes and restarts from a file of another
age. `FeeHistory` has blocks with one parent, so that blue score is height.
`HttpServer` cuts `acquire_sse_slot` into its load and its compare-and-exchange;
requests are lengths and classes. A handler that panics ends the process (`panic = "abort"`
in the release profile, `src/Cargo.toml:44`), so it is no way out of a request that would
leave a counter behind. `Wire` counts frames: a frame decrypts if it has the
number that the reader expects (external: the Noise library), and a write into a
full socket may fail after a part of the frame, which `send` ignores. `Socks` keeps the
bytes of one exchange, as the length of the answer is what matters (external: the
proxy). `PeerBudget` is the loop of `handle_conn` with its three windows.

## 3. Runs

| Run | Instance | Shows |
|---|---|---|
| `ledger` | 2 addresses, 1 seed each, amounts 1–2, supply cap 2, 3 operations per signer | value is conserved and capped; titles and escrows agree; delivery only against payment; nobody spends an escrow alone |
| `supply_identity` | same | *violated*: the identity asserted by the code leaves out escrows |
| `chain_state` | 2 archival nodes, 5 blocks, 2 conflicting transactions, K = 0, depth 2 | same blocks, same state; the fold changes nothing; state roots speak of the past only; the index answers like a walk over the parents; a restart builds the same index in any insertion order. The coin that both transactions spend is an open escrow's, so restarts come before and after the refusal |
| `wide_dag` | 2 archival nodes, 6 blocks, K = 2, depth 3 | k-clusters; canonical order covers the past once, and only reds come late in it; refinement of `FinalityChain` |
| `storage`, files | saver thread, 2 blocks, 1 failing call, 7 inodes, crashes and restarts without bound | `load_from` always finds the last save that returned Ok, or a newer one; liveness: a height at which the chain stays is saved |
| `storage`, blocks | 1 archival and 1 pruned node, 6 blocks, K = 1, depth 2, pruning depth 4 | `FinalityNeverReverts`, also where the index is wrong or does not decide |
| `pruned_scores` | 1 archival and 1 pruned node, 7 blocks, K = 1, depth 2 | *violated*: a pruned node can give a block another score |
| `pruned_agrees` | 1 archival and 1 pruned node, 5 blocks, 2 transactions | *violated*: a pruned node can end with another ledger |
| `template_binds` | as `chain_state` | *violated*: a template may fail to bind |
| `restart_after_crash` | saver thread, 3 blocks | *violated*: a node may start from genesis beside a good backup |
| `clean_stop` | saver thread and shutdown handler, 3 blocks | *violated*: a clean stop may lose the chain |
| `node` | one part of `MCNode` at a time, see below | see below |
| `services` | one part of `MCServices` at a time, see below | see below |

The parts of `node`:

| Part | Instance | Shows |
|---|---|---|
| mempool | parent, child, rival and a single transaction that expires at score 2; one signer in both queues; pool of 2 transactions or 6 bytes, packages of 2 or 4 bytes; blocks of size 3, 3 blocks on the chain or beside it, mergesets of 1 | `PanicsAreKnown`: the producer fails for five reasons only; `ReplacementStrandsNobody` |
| sync | diamond of 4 blocks and a block beside it, which only the peer with the lower score has; this peer has pruned the first; 3 orphans, 2 requests, 1 verification, ban at 40; 1 lost connection or expired orphan | `StallExplained`: why a block can stay missing |
| peers | 2 remotes in one group, 2 threads, caps 2 and 1, 1 ban | `ReservationsExplained`: why an address can stay reserved |
| proofs | 6 headers, `DAA_WINDOW` 2, halving every 3, cap 17, levels 0 and 1, block times 1 and 4 (target 2), floors 4 and 5 | `FlatChainProves`: multi-level proofs verify where linear ones do; `EraEndDividesBelowFloor`: when a node with a larger supply asks another difficulty of a block |
| coldstart | 2 servers, 2 pruning points, 2 requests | `WrongLedgerIsKnown`: a node without the right ledger knows it |
| relay | 2 nodes, 2 transactions, one filter, 4 events | `PropagationExplained`: who may never hear of a transaction, and which pulls stay |

The parts of `services`:

| Part | Instance | Shows |
|---|---|---|
| finality | 6 blocks, gains 1–2, depth 2 | `FinalGrows` |
| addresses | 4 addresses, 2 buckets of 2, total 3 | `OnePlaceOnly` |
| limits | 1 client, 2 requests in 2 seconds, ban at 4, clock to 8 | `GrantsAreBounded` |
| versions | windows of 3, scores to 10 in steps up to 3 | `LockInIsEarned`: the machine agrees with the rule |
| stratum | 2 workers, 2 nonces, jobs of 1 nonce and age 1 | `ShareCreditedOnce` |
| index | 6 blocks in 3 branches, finality depth 2, 1 restart | `IndexIsOneChain` |
| reach | 7 blocks with up to 2 parents, layouts of 3 units a block, archival and pruned, restart with up to 4 held blocks | `IndexErrsAboveCutsOnly`: where the index is wrong |
| vault | 3 coins with nested conditions, 3 applied and 2 waiting transactions, witnesses of nested stacks | `WitnessesFollowLaw`, `VaultByLawOnly`, `BuiltApplies` |
| fees | 2 transactions, 3 blocks | `EstimateIsSupported` |
| http | 3 connections, 2 threads, 1 stream, 6 kinds of request | `SlotsAccounted` |
| wire | 2 ends with reader and announcer, sockets of 2 frames, a message of 2 parts | `DeliveredInOrder`, `StuckOnlyWhenBothAnswer` |
| socks | names of 0 to 4 bytes, both kinds of address, up to 4 bytes behind the answer | `StreamStartsAtPeer` |
| budget | 4 messages of 5 kinds in 4 seconds | `BansAreEarned` |

Bounds. `MaxNonce` (3 operations per signer) is enough for one party to issue,
open, and close, and the other to fund twice and close. The supply cap of 2
with a reward of 2 halved at score 2 makes the clamp bite. `FINALITY_DEPTH` = 2
stands for 432000: the fold starts with the third block of a chain, and with
`PRUNING_DEPTH` = 4, six blocks drop history. In the blocks of `storage`, five suffice for a
block to be mined on a leaf that the pruned node dropped, and a sixth merges it there:
its finality check then has no answer, and its index gives wrong ones. Another score
needs a seventh, hence the size of `pruned_scores`. K = 0 makes any two
parallel blocks compete for blue, so red blocks appear with 3 blocks. K = 2 in
`wide_dag` is the smallest K for which the second half of the colouring rule (an
older blue block that already has K blues in its anticone) decides anything: the
selected parent is in the anticone of every candidate, so with K = 1 a side chain
long enough to matter would be the selected chain. The depth is 3 there because
the side chain must still be admissible when it is merged.
`HashWindow` bounds the choice of the next hash: with 2, a new block can have a
smaller or a larger hash than the next one, so ties are broken both ways; with 1
(runs `storage` and `pruned_scores`) a later block always has the larger hash. `MAX_BLOCK_PARENTS` and
`MAX_MERGESET_SIZE` are 2 and 3. `MaxBody` is 1.
In `Persistence`, two blocks give the old, the current and the interrupted save,
and the number of saves is not bounded: after a crash or a failed call the saver
saves again, so all three generations of files come into play. Seven inodes leave
a free one in every state of the runs.
The limits of the modules in `node` and `services` are one or two, so that every
one of them is reached and exceeded by the inputs: three transactions for a pool
of two, a child whose parent is cheaper than it, four orphan entries for a pool of
two, a job that is full after one share, a budget of one verification. Where two
limits can bite in either order (bytes and count of the pool, window and ban) both
are small enough for both orders. Seven blocks in `reach` are needed for a block to
be mined on a dropped leaf and merged above it; four messages in `budget` for a ban
by good blocks alone.

Symmetry: addresses, nodes (where all are archival) and transactions are
interchangeable in the actions and properties. Hashes are not, as they are
ordered.

Deadlock is checked in `Ledger`, where a reward is always possible. The DAG
models stop when all block hashes are used, `Persistence` when no block is left or
nothing can be loaded, and the parts of `node` and `services` when their bounds are
used up, so it is not checked there. That threads do not wait for each other for
ever is the property `StuckOnlyWhenBothAnswer` instead.

Fairness and liveness. `Persistence`, as run in `storage`, assumes weak fairness of the saver's snapshot
(its loop polls every five seconds for ever) and of the steps of a save once it
has begun (system calls return). Blocks, signals, crashes and restarts are not
fair. `HeightGetsSaved` holds because calls fail only `MaxFaults` times; a disk that
fails for ever defeats it.

For fetching blocks and spreading transactions no such property would be true: the
code gives up in several situations. `StallExplained`, `PropagationExplained` and
`ReservationsExplained` say instead, as safety properties of the quiet states, that
nothing else than the listed reasons can leave a block missing, a transaction
unheard of or an address reserved. They need no fairness.

## 4. What the violations say

1. `supply_invariant_ok` (`src/lib.rs:1200`) leaves out the money in escrows. It is
   false at the end of any block that leaves an escrow with money in it. A debug
   build asserts it after each block; `load_one` refuses such a state file. The
   correct identity is `SupplyAccounted`, which holds.
2. `prune_bodies` (`src/lib.rs:1721`) goes by blue score, the fold by canonical
   prefix. A side block low in score that is merged above the finality point
   loses its body before it is folded; the replay then skips its transactions.
   The run has an archival and a pruned node with the same blocks and different
   ledgers, the pruned one after a restart.
3. `prune_bodies` drops every buried leaf from the reachability index
   (`src/lib.rs:1759`), also a stale tip on which a block may still be mined. The index
   enters such a block as a root (`src/reachability.rs:133`), and `is_ancestor` no longer
   knows what it descends from. The colouring then counts ancestors as strangers: the
   pruned node gives the block that merges the branch another blue score than an
   archival node does, although `src/lib.rs:1714` says that scoring is unaffected.
4. `create_block_template` (`src/consensus.rs:178`) selects against the state of the
   selected tip and binds against the state after merging all tips. A pending
   transaction that conflicts with one in a sibling tip makes the bind fail,
   and the result is unwrapped.
5. `save_to` moves the primary file away before it moves the new one in
   (`src/lib.rs:1939`, `1941`), and `main` calls `load_from` only if the primary exists
   (`src/main.rs:78`). A crash between the two renames makes the next start begin at
   genesis, and the saves that follow roll the good backup out. `load_from` itself
   would have found it (`LoadFromRecovers` holds).
6. The shutdown handler (`src/main.rs:182`) and the saver thread may be in `save_to` at
   the same time, with one temporary file between them. The process can exit with
   the primary missing, torn, or older than the handler's snapshot.

Passing runs also show what does *not* hold, by the exceptions that their
properties have to make:

- A blue block may take effect before its red ancestor (`OnlyRedsComeLate`), contrary
  to the comment on `canonical_order`; all nodes agree on it all the same.
- The producer panics for five reasons (`PanicsAreKnown`): one signer has operations in
  both queues; a block that the template merges spends what a selected transaction
  spends, or has an operation of its signer (violation 4); an input is annulled between
  the tip's score and the template's; the blocks to merge are more than
  `MAX_MERGESET_SIZE`; or the trimming takes a parent and leaves its child.
- A block may stay missing although a connected peer has it: a peer whose blue score is
  not above the node's own is not asked for its tips, so its side blocks are not heard
  of; an answer that is lost with its connection is not asked for again, a waiting block can be overtaken by its
  parent; limits drop blocks in silence, the STARK budget with a charge; and a block that
  was announced and lost takes its whole past with it, since only tips are asked for (`StallExplained`).
  Contrary to the comment at `src/p2p.rs:2110`, not every block whose parents are
  missing is buffered: `ingest_block` looks for the parents under a second read lock
  (`src/p2p.rs:2136-2144`), and if other threads have added them in between, the list
  is empty and the block is kept nowhere. Two peers and two blocks are enough. A
  peer that loses a race is charged for an invalid block.
- An address stays reserved if its connection ends before it is registered, or if
  its Hello names another one (`ReservationsExplained`).
- A transaction is announced once: who connects later never hears of it, and a pull
  that is lost with its connection keeps its place (`PropagationExplained`).
- A peer that sends good blocks faster than the STARK budget, which is smaller than
  the number of bodies the node requests at a time, is banned (`BansAreEarned`). Messages
  that are too big do not count in the rate window and end in a disconnect, not a ban.
- Limits by window allow two budgets in one rolling window (`GrantsAreBounded`).
- A node takes the floor of a block's difficulty from its live supply
  (`src/lib.rs:2445`), not from the block's past. A node that has passed the end of the
  bootstrap era may refuse a block that was right for its miner; this ends once the
  block's window lies above the new floor (`EraEndDividesBelowFloor`). A linear proof of an honest chain need not
  verify, since its samples and its floor are not those of the live rule; hence the
  premise of `FlatChainProves`.
- A weaker proof can replace the pruning point of a stronger one that another thread
  is about to record; the node then asks for the ledger again (`WrongLedgerIsKnown`).
- After `drop_leaf` (violation 3), the index overlooks ancestors of blocks mined on the dropped leaf,
  until the next restart (`IndexErrsAboveCutsOnly`).
- Two readers that both answer into full sockets wait until the write timeout, and
  the connection is lost (`StuckOnlyWhenBothAnswer`).
- The lag of a transaction in a block beside the chain is not "already folded into
  fee_history" (`src/lib.rs:1626`) and becomes zero (`EstimateIsSupported`).

## 5. Proofs

`LedgerProofs` proves, for all sets of addresses, seeds, amounts and all bounds:

- `LedgerType`: `Spec => []TypeOK`. The point is that no balance, stake or UTXO
  total goes below zero.
- `TitleLocks`: `Spec => []TitleLockConsistent`. The two halves are proved
  together: a lock names a live escrow *and* that escrow names the lock.
  Either half alone is not inductive: closing an escrow unlocks its title, and only the
  second half says that no other escrow relied on that lock.
- `Books`: `Spec => []EscrowBooks`.
- `Delivery`: from the two above. The release step pays `funded`, and `EscrowBooks`
  gives `funded >= amount`; the lock gives that the owner is the seller.
- `Authorised`: from the guards and the type invariant.
- `Supply`: `Spec => []SupplyAccounted`. Each action moves an amount between two of
  the totals (accounts, stakes, escrows, UTXO set, fees of the block), or mints it;
  one lemma per total says what changing one entry does to its sum. The cap follows
  from the way the reward is cut to what is left.

Assumptions: the named `ASSUME`s of `Ledger` (amounts and bounds are naturals,
`None` is not a record or id, the subsidy is a natural, addresses and seeds are
finitely many). Each proof has one step per action. TLC evaluates the assumptions in the run `ledger`.

`FinalityProofs` proves, for all sets of blocks, gains and depths:

- `ChainInvariant`: `TypeOK`, `ChainsAreTree` and `TipIsBest` are invariant, together.
- `FinalityHolds`: `Spec => [][Final \subseteq Final']_vars`. If the new block
  becomes the tip, its parent's chain holds the finality point, hence (tree) the
  whole finalized prefix; its score is no lower than the old tip's, so the
  threshold does not move down.

`LedgerType` and `ChainInvariant` are what the other proofs rest on; no run repeats them.

`PersistenceProofs` proves `SavesRecover`: if the saver is the only thread that
saves, `LoadFromRecovers` is invariant, for any number of inodes, versions and
failing calls. The invariant says of *every* directory that a power loss may leave
that its primary file is complete and recent enough, or missing with a complete
first backup; that no such directory knows the temporary file under a name that is
loaded, so that truncating it harms nobody; and where in `save_to` the saver is.
The hypothesis `Thread = {"saver"}` cannot go: with the shutdown handler as a second
writer TLC finds a behaviour that violates `LoadFromRecovers`; the run `clean_stop`
shows what the two threads do to a stop without a crash.

`NodeProofs`, for any number of peers, connections, addresses and transactions:

- `ReservationsAccounted`: `PeersSpec => []ReservationsExplained`. Needs that a
  connection that is not registered still has the address it was dialed at, since an
  early return gives up the dialed address and the end of a connection the
  listening one.
- `LedgerNeverMistaken`: `ColdSpec => []WrongLedgerIsKnown`. "Some thread is
  importing" is too weak: the multi-level handler still imports after it has set the
  flag, and another thread may have cleared the flag since. The invariant names the
  steps at which a thread has yet to set it.
- `RelayExplained`: `RelaySpec => []PropagationExplained`. The invariant follows a
  transaction from the announcer's snapshot to the wire and the pull: what was read
  is in the pool or was missed; what was announced is known, unwanted, missed, or
  on its way in full; a pull has its question or its answer on the way.
- `StallsExplained`: `SyncSpec => []StallExplained`. The invariant follows the blocks the
  node still knows of or has dropped for a reason it can name (`Kept`): known,
  on the way in an answer, in a thread's hands, in the pool, refused, or lost with a
  connection. No step takes a block out of `Kept`. Of a connected peer that has said Hello
  and was not asked for its tips, `UnaskedLower` says that the node has a block as high as
  each of its blocks; blocks are only ever added. What is requested, waits as a
  header or was announced as a tip is in it, so "already under way" is a safe reason
  not to ask. A missing parent of a block in a thread or in the pool is in it too,
  unless a thread has the block straight from a peer and has yet to ask; that peer
  holds the parent and is connected, so whichever thread asks first, it answers. At
  rest the peer was not asked, or one climbs from the missing block to a tip and descends through kept parents to
  a block with a fate. `SyncConstants` assumes finitely many blocks without cycles, and
  that a peer holds the parents of what it holds. The attempt showed that an
  earlier form of the property was true of its instance only, and brought up the
  block that is kept nowhere (section 4).
- `PanicsExplained`: `PoolSpec => []PanicsAreKnown`. A list of items *has a path* from a
  state if each applies in turn; the strict check succeeds exactly on those. What is
  selected from each queue has a path on its own. It still has one from the merged
  state, unless a merged block interferes with it or an input expires in between. Transactions touch coins and
  operations touch their signer's nonce only, so the three lists in a row have one too
  unless a signer is in both queues. Trimming keeps the path, unless what it takes is
  spent by a transaction that stays, and that one pays no less. Where neither is the
  case both checks pass, so a failed check implies its reason.
- `NobodyStranded`: `PoolSpec => ReplacementStrandsNobody`. `AncestorsIn` takes as many
  rounds as there are transactions; a round that adds nothing is the last that
  matters, so the result is the least set closed under parents, and a child of a
  conflict is a conflict. Coins that the preview shows come from the live state or
  from a transaction that is kept, which makes the new one's inputs sourced as well.
  `PoolConstants` says that operations are records with a list, a signer, a nonce and a
  kind, that no operation is a transaction, that fees and expiry scores are naturals,
  and that a block may have a parent.

`ServiceProofs`, for any number of connections, workers and bytes, and any limits,
windows and lengths of bans:

- `CountersAccounted`: `HttpSpec => []SlotsAccounted`. That the exchange keeps within
  the limit needs that the value it compares with was below the limit when it was read.
- `DialedStreamStartsAtPeer`: `SocksSpec => []StreamStartsAtPeer`. The property, moved
  back along the proxy's answer: at each step of the dialer, the number of bytes of
  the proxy in front of the first byte of the peer.
- `WorkCreditedOnce`: `StratumSpec => []ShareCreditedOnce`. A share names a job that
  was made, and its nonce is among those seen as long as the job is there; ids grow,
  so a dropped job never comes back with an empty set.
- `GrantsBounded`: `RateSpec => []GrantsAreBounded`. A window that starts anywhere
  overlaps at most two windows of the limiter; the invariant bounds what was granted
  in the current one and in the stretch just before it, and says that an entry that
  was forgotten has been idle for a window. It uses that a window is no longer than
  a ban or the life of an entry (60, 300 and 600 seconds in `security.rs`).
- `BansEarned`: `BudgetSpec => []BansAreEarned`. From any message on, the score holds
  the charges since but for what has faded, once per interval; the counter of
  verifications counts blocks received in its window.
- `AddressesAtOnePlace`: `AddrSpec => []OnePlaceOnly`. Each address in a table is in its
  own bucket and there once, the two tables share none, and a feeler handed out is in
  the new one. `good` empties the new table of an address before it goes to the tried
  one, and `add` takes none that is known, so the parts keep each other. From them it
  follows that the lengths of the buckets add up to the number of addresses, and that
  a selection, which takes no address twice, never runs short.
- `LockInEarned`: `VbSpec => []LockInIsEarned`. The one fact about the walk is that blue
  scores grow; the rest is an invariant of the loop in `version_bits_status`, block by
  block: which window is being counted and how many of its blocks have signalled,
  which windows had earned the lock-in, and how many windows came after the first of
  them. The start and the timeout may stand in any order; `VersionConstants` assumes
  a window and a threshold of at least one.
- `EstimatesSupported`: `FeeSpec => []EstimateIsSupported`. A lag is computed when the
  block is recorded, which may be long after it came, so the invariant `FeeInv` says
  what is known then: an entry of `firstSeen` belongs to a waiting transaction, is from
  its last admission and no later than the tip; and every transaction of a block above
  the last sample is marked as unseen. A new block is on the chain only as its end,
  where its blue score is the highest, so that lags are not cut off at zero. An
  estimate passes its own test, and the points it counts are three disjoint sets:
  samples in time, samples too late, and transactions that wait too long. At a
  percentile below 100 the pool always has a fee to offer. `FeeConstants` says that
  there are finitely many transactions, that fees, targets and limits are naturals,
  that there are three targets, and that the history keeps at least one sample.

`WireProofs`, for messages of any kind and length and sockets of any size:

- `ReadersNeverBlocked`: `WireSpec => []StuckOnlyWhenBothAnswer`, from who holds a
  socket, and from the two ends going through the handshake in step.
- `MessagesInOrder`: `WireSpec => []DeliveredInOrder`. There is a schedule (which
  message and which part of it the n-th frame is) that agrees with the writer, the
  frames under way and the reader; after a failed write only frames follow that
  cannot be decrypted.

`ChainProofs`, for all sets of blocks, transactions and nodes, every K, finality depth
and mergeset limit, about the nodes that keep all their blocks:

- `ArchivalSettled`: `Spec => []ArchivalInv`, the inductive invariant behind the
  others. It says of such a node that it is *settled*: parents are held, every
  block's data are what `compute_ghostdag_data` gives on the blocks held now, the index
  (tree and covering sets) and the tips are those of the DAG, the base is the replay up to the
  finality point and the live ledger the replay up to the tip; and that each held
  block is *recorded*: it has the parents and the body it was mined with, and its
  state root is the replay of its own past. None of the parts is inductive alone: the
  ledger after a block follows from the base, the base from the finality point
  having stayed on the chain, and that from the roots. The step rests on *locality*:
  past, colours, order and replay of a block depend on its past only, so a block
  added elsewhere changes none of them.
- `LedgerReplays`, `RootsReplay`: `LedgerIsFullReplay` and `StateRootIsPastOnly` are
  parts of it.
- `AnswersAreExact`: `Spec => []IndexIsExact`. By induction on the score: a block's past
  is its selected parent, the past of that, and the mergeset; the first is a tree
  ancestor, the last has the block in its covering sets, and by induction the one between
  is what the chain below covers. Nothing else is covered. The colouring asks the index, so the other theorems rest on this one's lemmas.
- `ReplayRebuilds`: `Spec => []ReplayRebuildsIndex`. An insertion adds one tree edge and
  members of covering sets that depend on the block's own data only, so the index after
  any parents-first order is the same function of the blocks.
- `FinalityHolds`, `FinalityIsForGood`: the finality point of an archival node stays on
  its chain; hence `FinalityNeverReverts` where all nodes are archival.
- `ChainImplements`: `Spec => ImplementsFinalityChain`. Every step of a node adds one
  block or none. An added block is an `AddBlock` of `FinalityChain` with its blue
  count as gain, and the index is asked in place of the chain.
- `BluesAreCluster`, `BluesFormCluster`: the blues of a block form a k-cluster. The
  colouring tests a candidate against the blues it meets; the proof is that a blue
  counted when it was added, plus those added after it, never has more than K.
- `BlocksScoreAlike`, `ArchivesHoldSame`, `SameDagHoldsSame`: two archival nodes score
  the blocks they share alike, and with the same blocks have the same state.
- `OrderKeepsPast`: `Spec => []OnlyRedsComeLate`.

`FinalityNeverReverts`, `BluesFormKCluster` and `SameDagSameState` speak of all nodes, and
are proved under `Archival = Node`. A node that prunes is not settled; for
`SameDagSameState` the run `pruned_agrees` shows that the hypothesis cannot go, for
`FinalityNeverReverts` TLC checks a pruned node in the run `storage`, and the k-clusters of
a pruned node, which colours with a wrong index, are left open. The other theorems hold
in a network that mixes both kinds. `ChainConstants` assumes that hashes are numbers
other than that of genesis, that `None` is no hash, that transactions spend and make
coins, and that the depth, the number of parents and `HashWindow` are at least one.

These proofs need what folds, recursive functions and sums compute. The induction
theorems of the library cannot be instantiated here; `Inductions` takes instead a
smallest set for which a claim fails, in the well-founded order of finite sets
under inclusion, or an element of least rank, and refutes it. From this it has that
recursive functions along a rank exist, that a fold is a run from one value to the
next, and what happens to `SumFunction` and to a sum over a part of the domain when
one value changes, when the domain is split or empty. To be reasoned about,
`TopologicalOrder` gives each block its place, the number of blocks before it, instead
of calling a sorting operator; the order is the same.

The assumptions are the named `ASSUME`s of the modules: limits, windows and lengths
are naturals; the values for "nothing" (`None`, `NoAddr`, `Empty`, `Garbage`) differ from the
real ones; ids of jobs that differ are printed differently; every message has at
least one part. TLC evaluates each of them in the run of its module.

Only model-checked:

- `FinalityNeverReverts` of pruned nodes: a node that has dropped blocks computes with
  parents it no longer holds and with an index that depends on when it dropped them.
- `EraEndDividesBelowFloor`: products and quotients of variables, which the SMT backend
  does not decide.
- `FlatChainProves`, `Reachability` and `Indexer`: recursion along a chain, or a search
  through intervals; no proof has been tried.
- `Vault`: its recursive operators are not taken by the prover.
- `HeightGetsSaved`: liveness under fairness is out of the prover's reach.

## 6. Plan

Done: block production and mempools, restart of a node, sync, connections, relay,
reachability, coins and vault, pruning proofs and cold start, and the services.
Left, in this order:

1. *Proofs*: finality of pruned nodes.
2. *Sync on top of ChainState*: two nodes with different finality points, one of
   which refuses a side block and then all its descendants (the hazard at
   `src/lib.rs:741`, which no property covers yet), and the tip announcer.
3. Several inputs in `Vault`, and the conditions of operations beyond their nonce in `Mempool`.

## 7. Not modelled

- Hash functions, signatures, key exchange and STARK proofs are taken to be
  correct; a model checker has nothing to say about them.
- The explorer's pages, the answers of the API's read handlers, roles, traces, the
  display values of `economics.rs` and `kernel.rs`: they format state and change none.
- Code that has no effect in this version because `ACCOUNT_PEER_TRANSFERS` is false:
  the account mempool with its replacement and packages, compact blocks, which carry
  account transfers only, and the dump of the mempool to a file.
- The `EscrowRecord` state machine of `tuep-escrow`, which the node does not call.
- Parsing of addresses and of command lines, and the settings from the
  environment, which are constants of the modules.
- Registration of miners and the statistics of shares.
