------------------------------ MODULE TxRelay -------------------------------
(***************************************************************************)
(* How pending transactions spread: each node's announcer tells its peers  *)
(* of what is new in the mempool, with the hash and then in full; a peer   *)
(* pulls what it does not have under a budget, and admits what it gets.    *)
(* Transactions are evicted or mined, and connections come and go.         *)
(*                                                                         *)
(* D_Xxx is D with the mistake Xxx, to see that a property notices it.     *)
(***************************************************************************)
EXTENDS Integers, Sequences, FiniteSets

CONSTANTS
    RelayNode,
    RelayTx,
    RelayFee,               \* [RelayTx -> Nat]
    FilterOf,               \* [RelayNode -> Nat], the FeeFilter it advertises, 0: none
    MAX_IN_FLIGHT_TX_GETS,  \* most pulls under way
    MaxEvents               \* bound: submissions, evictions, link changes

VARIABLES
    txPool,      \* mempool of each node
    announced,   \* what the announcer has told
    snapshot,    \* the hashes that the announcer read, or NoSnapshot
    pulls,       \* in_flight_tx_gets
    wire,        \* messages from one node to another
    links,       \* pairs of connected nodes, both ways
    heard,       \* history: transactions that a node was given
    missed,      \* history: [from, to, tx] that the announcer skips for a reason
    events

relayVars == <<txPool, announced, snapshot, pulls, wire, links, heard, missed, events>>

Pair == {p \in RelayNode \X RelayNode : p[1] # p[2]}
NoSnapshot == [busy |-> FALSE, current |-> {}]

RelayInit ==
    /\ txPool = [n \in RelayNode |-> {}]
    /\ announced = [n \in RelayNode |-> {}]
    /\ snapshot = [n \in RelayNode |-> NoSnapshot]
    /\ pulls = [n \in RelayNode |-> {}]
    /\ wire = [p \in Pair |-> <<>>]
    /\ links = {}
    /\ heard = [n \in RelayNode |-> {}]
    /\ missed = {}
    /\ events = 0

Event == events < MaxEvents /\ events' = events + 1

-----------------------------------------------------------------------------
(***************************************************************************)
(* A transaction from the node's own API; one that leaves the mempool.     *)
(***************************************************************************)
SubmitTx(n, t) ==
    /\ Event
    /\ txPool' = [txPool EXCEPT ![n] = @ \cup {t}]
    /\ heard' = [heard EXCEPT ![n] = @ \cup {t}]
    /\ UNCHANGED <<announced, snapshot, pulls, wire, links, missed>>

(***************************************************************************)
(* If it leaves between the two passes of the announcer, it counts as      *)
(* announced and was not.                                                  *)
(***************************************************************************)
DropTx(n, t) ==
    /\ Event
    /\ t \in txPool[n]
    /\ txPool' = [txPool EXCEPT ![n] = @ \ {t}]
    /\ missed' = missed \cup (IF t \in snapshot[n].current \ announced[n]
                              THEN {<<n, m, t>> : m \in RelayNode} ELSE {})
    /\ UNCHANGED <<announced, snapshot, pulls, wire, links, heard>>

(***************************************************************************)
(* A new connection hears of nothing that was announced before it.  An old *)
(* one that goes loses its messages; the pulls stay in the table.          *)
(***************************************************************************)
Routes(p) == {x \in RelayNode \X RelayNode \X RelayTx : {x[1], x[2]} = {p[1], p[2]}}

LinkUp(p) ==
    /\ Event
    /\ p \notin links
    /\ links' = links \cup {p, <<p[2], p[1]>>}
    /\ missed' = missed \cup {x \in Routes(p) : x[3] \in announced[x[1]]}
    /\ UNCHANGED <<txPool, announced, snapshot, pulls, wire, heard>>

LinkDown(p) ==
    /\ Event
    /\ p \in links
    /\ links' = links \ {p, <<p[2], p[1]>>}
    /\ wire' = [wire EXCEPT ![p] = <<>>, ![<<p[2], p[1]>>] = <<>>]
    /\ missed' = missed \cup Routes(p)
    /\ UNCHANGED <<txPool, announced, snapshot, pulls, heard>>

-----------------------------------------------------------------------------
(***************************************************************************)
(* `spawn_mempool_announcer`: the hashes first; then the new ones that are *)
(* still there are sent, and the hashes read before count as announced.    *)
(***************************************************************************)
ReadHashes(n) ==
    /\ ~snapshot[n].busy
    /\ txPool[n] # announced[n]
    /\ snapshot' = [snapshot EXCEPT ![n] = [busy |-> TRUE, current |-> txPool[n]]]
    /\ UNCHANGED <<txPool, announced, pulls, wire, links, heard, missed, events>>

Listens(n, t) == FilterOf[n] = 0 \/ RelayFee[t] >= FilterOf[n]

(***************************************************************************)
(* The messages for the transactions in S, in some order.                  *)
(***************************************************************************)
Push(t) == <<[t |-> "inv", x |-> t], [t |-> "tx", x |-> t]>>

Pushes(S) ==
    LET order == CHOOSE s \in [1..Cardinality(S) -> S] : {s[i] : i \in DOMAIN s} = S
    IN [i \in 1 .. 2 * Cardinality(S) |-> Push(order[(i + 1) \div 2])[2 - (i % 2)]]

NowAnnounced_Pool(n) == txPool[n]
NowAnnounced(n) == snapshot[n].current

Announce(n) ==
    /\ snapshot[n].busy
    /\ LET want == (snapshot[n].current \ announced[n]) \cap txPool[n]
           Told(m) == {t \in want : Listens(m, t)}
       IN wire' = [p \in Pair |-> IF p[1] = n /\ p \in links THEN wire[p] \o Pushes(Told(p[2])) ELSE wire[p]]
    /\ announced' = [announced EXCEPT ![n] = NowAnnounced(n)]
    /\ snapshot' = [snapshot EXCEPT ![n] = NoSnapshot]
    /\ UNCHANGED <<txPool, pulls, links, heard, missed, events>>

Reading(m, n, kind) ==
    /\ <<m, n>> \in links
    /\ wire[<<m, n>>] # <<>>
    /\ Head(wire[<<m, n>>]).t = kind

Read(m, n) == Tail(wire[<<m, n>>])
Incoming(m, n) == Head(wire[<<m, n>>]).x

(***************************************************************************)
(* `UtxoTxInv` with `request_tx_pull`.                                     *)
(***************************************************************************)
OnTxInv(m, n) ==
    /\ Reading(m, n, "inv")
    /\ LET t == Incoming(m, n)
           pull == /\ t \notin txPool[n] \cup pulls[n]
                   /\ Cardinality(pulls[n]) < MAX_IN_FLIGHT_TX_GETS
       IN /\ pulls' = [pulls EXCEPT ![n] = IF pull THEN @ \cup {t} ELSE @]
          /\ wire' = [wire EXCEPT ![<<m, n>>] = Tail(@),
                                  ![<<n, m>>] = IF pull THEN Append(@, [t |-> "get", x |-> t]) ELSE @]
    /\ UNCHANGED <<txPool, announced, snapshot, links, heard, missed, events>>

OnGetTx(m, n) ==
    /\ Reading(m, n, "get")
    /\ LET t == Incoming(m, n)
           reply == IF t \in txPool[n] THEN "tx" ELSE "notfound"
       IN wire' = [wire EXCEPT ![<<m, n>>] = Tail(@), ![<<n, m>>] = Append(@, [t |-> reply, x |-> t])]
    /\ UNCHANGED <<txPool, announced, snapshot, pulls, links, heard, missed, events>>

Cleared(n, t) == pulls[n] \ {t}

(***************************************************************************)
(* `UtxoTx` with `relay_utxo`: admitted or not, the pull is over.          *)
(***************************************************************************)
OnTx(m, n) ==
    /\ Reading(m, n, "tx")
    /\ LET t == Incoming(m, n)
       IN /\ \/ txPool' = [txPool EXCEPT ![n] = @ \cup {t}]
             \/ UNCHANGED txPool
          /\ heard' = [heard EXCEPT ![n] = @ \cup {t}]
          /\ pulls' = [pulls EXCEPT ![n] = Cleared(n, t)]
    /\ wire' = [wire EXCEPT ![<<m, n>>] = Tail(@)]
    /\ UNCHANGED <<announced, snapshot, links, missed, events>>

OnTxNotFound(m, n) ==
    /\ Reading(m, n, "notfound")
    /\ pulls' = [pulls EXCEPT ![n] = Cleared(n, Incoming(m, n))]
    /\ wire' = [wire EXCEPT ![<<m, n>>] = Tail(@)]
    /\ UNCHANGED <<txPool, announced, snapshot, links, heard, missed, events>>

RelayNext ==
    \/ \E n \in RelayNode : ReadHashes(n) \/ Announce(n)
    \/ \E n \in RelayNode, t \in RelayTx : SubmitTx(n, t) \/ DropTx(n, t)
    \/ \E p \in Pair : \/ LinkUp(p) \/ LinkDown(p)
                       \/ OnTxInv(p[1], p[2]) \/ OnGetTx(p[1], p[2])
                       \/ OnTx(p[1], p[2]) \/ OnTxNotFound(p[1], p[2])

RelaySpec == RelayInit /\ [][RelayNext]_relayVars

-----------------------------------------------------------------------------
AllTold ==
    /\ \A p \in Pair : wire[p] = <<>>
    /\ \A n \in RelayNode : ~snapshot[n].busy /\ announced[n] = txPool[n]

(***************************************************************************)
(* When everything is told, a pending transaction is known to every peer   *)
(* that wants its fee, unless the peer connected only after it was         *)
(* announced, was disconnected, or it was out of the mempool between the   *)
(* two passes (`spawn_mempool_announcer`, "announced once").  A pull that  *)
(* is still in the table, and takes a place of its budget for good,        *)
(* belongs to a connection that was lost (`clear_tx_inflight`).            *)
(***************************************************************************)
PropagationExplained ==
    AllTold =>
        /\ \A p \in links : \A t \in txPool[p[1]] :
              \/ t \in heard[p[2]]
              \/ ~Listens(p[2], t)
              \/ <<p[1], p[2], t>> \in missed
        /\ \A n \in RelayNode : \A t \in pulls[n] : \E m \in RelayNode : <<m, n, t>> \in missed
=============================================================================
