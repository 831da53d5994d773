-------------------------------- MODULE Sync --------------------------------
(***************************************************************************)
(* How a node fetches blocks from its peers: requests under a budget, the  *)
(* orphan pool, headers that rank the requests, and the ingestion of       *)
(* blocks by one thread per peer.  A thread holds a lock only for single   *)
(* steps of `ingest_block`, so the steps of the threads interleave.        *)
(*                                                                         *)
(* The peers are honest: they hold valid blocks with all their ancestors,  *)
(* answer what they are asked, in order, and may disconnect, which loses   *)
(* what was under way.  A pruned peer answers with a header only.          *)
(*                                                                         *)
(* D_Xxx is D with the mistake Xxx, to see that a property notices it.     *)
(***************************************************************************)
EXTENDS Integers, Sequences, SequencesExt, FiniteSetsExt

CONSTANTS
    SyncPeer,                \* the peers, each with its thread
    SyncBlock,               \* blocks other than genesis
    ParentsOf,               \* [SyncBlock -> SUBSET SyncBlock], {}: genesis only
    Holds,                   \* [SyncPeer -> SUBSET SyncBlock]
    HeaderOnly,              \* [SyncPeer -> SUBSET SyncBlock], pruned bodies
    BlueOf,                    \* [SyncBlock -> Nat], blue scores; that of genesis is 0
    MAX_ORPHANS,             \* entries of the pool at which it takes no more
    MAX_IN_FLIGHT_BODIES,    \* most outstanding requests
    MAX_PENDING_HEADERS,     \* most headers that wait for their body
    INVALID_BLOCK_PENALTY,   \* points for an invalid block
    INVALID_STARK_PENALTY,   \* points for one beyond the STARK budget
    STARK_VERIFY_BUDGET,     \* verifications for a peer in one window
    BAN_SCORE_THRESHOLD,     \* points at which a peer is banned
    SendsHeaders,            \* the peers that push headers when connected
    MaxDrops                 \* bound: lost connections and expired orphans

(***************************************************************************)
(* Blocks are finitely many and name their parents by hash, so there is no *)
(* cycle; a peer that holds a block holds its parents.                     *)
(***************************************************************************)
ASSUME SyncConstants ==
    /\ IsFiniteSet(SyncBlock)
    /\ ParentsOf \in [SyncBlock -> SUBSET SyncBlock]
    /\ BlueOf \in [SyncBlock -> Nat \ {0}]
    /\ \E rank \in [SyncBlock -> 0..Cardinality(SyncBlock)] :
          \A b \in SyncBlock : \A p \in ParentsOf[b] : rank[p] < rank[b]
    /\ Holds \in [SyncPeer -> SUBSET SyncBlock]
    /\ \A p \in SyncPeer : \A b \in Holds[p] : ParentsOf[b] \subseteq Holds[p]

VARIABLES
    have,      \* the keys of `dag`
    orphans,   \* missing parent -> blocks that wait for it, with or without body
    inFlight,  \* in_flight_bodies
    pending,   \* pending_headers: block -> requested
    inbox,     \* what each peer has sent, or will in answer to what it got
    thread,    \* the state of each peer's thread in ingest_block
    banScore,  \* ban_score
    verified,  \* each peer's StarkVerifyBudget: verifications in the window
    link,      \* "down", "up" or "banned"
    drops,     \* lost connections and expired orphans so far
    refused,   \* history: blocks not requested or not buffered, or without body
    unanswered,\* history: blocks whose answer was lost with its connection
    unasked    \* history: connected peers whose tips were not asked for

syncVars == <<have, orphans, inFlight, pending, inbox, thread, banScore, verified, link, drops, refused,
              unanswered, unasked>>

Idle == [pc |-> "idle"]

SyncInit ==
    /\ have = {}
    /\ orphans = [b \in SyncBlock |-> {}]
    /\ inFlight = {}
    /\ pending = [b \in {} |-> FALSE]
    /\ inbox = [p \in SyncPeer |-> <<>>]
    /\ thread = [p \in SyncPeer |-> Idle]
    /\ banScore = [p \in SyncPeer |-> 0]
    /\ verified = [p \in SyncPeer |-> 0]
    /\ link = [p \in SyncPeer |-> "down"]
    /\ drops = 0
    /\ refused = {} /\ unanswered = {} /\ unasked = {}

-----------------------------------------------------------------------------
Missing(b) == ParentsOf[b] \ have

(***************************************************************************)
(* The answer to GetBlock, given by the same code on the other side.       *)
(***************************************************************************)
Answer(p, h) ==
    IF h \notin Holds[p] THEN [t |-> "NotFound", h |-> h, full |-> FALSE]
    ELSE [t |-> "Block", h |-> h, full |-> h \notin HeaderOnly[p]]

Tips(p) == {h \in Holds[p] : \A b \in Holds[p] : h \notin ParentsOf[b]}

(***************************************************************************)
(* The requests of a sequence of blocks, in turn, each if it is unknown,   *)
(* fits the budget and is not under way: what is under way then, what was  *)
(* asked, and what the budget kept from being asked.                       *)
(***************************************************************************)
Requests(hs) ==
    FoldLeft(LAMBDA r, h :
        IF h \in have \/ h \in r.flight THEN r
        ELSE IF Cardinality(r.flight) >= MAX_IN_FLIGHT_BODIES
        THEN [r EXCEPT !.refused = @ \cup {h}]
        ELSE [r EXCEPT !.flight = @ \cup {h}, !.asked = Append(@, h)],
        [flight |-> inFlight \ have, asked |-> <<>>, refused |-> {}], hs)

(***************************************************************************)
(* `request_block_body` for each of hs on the connection to p.             *)
(***************************************************************************)
RequestBlockBodies(p, hs, keep) ==
    LET r == Requests(hs)
    IN /\ inFlight' = IF hs = <<>> THEN inFlight ELSE r.flight
       /\ refused' = refused \cup r.refused
       /\ pending' = [h \in DOMAIN keep |-> keep[h] \/ h \in ToSet(r.asked)]
       /\ inbox' = [inbox EXCEPT ![p] =
                      Tail(@) \o [i \in DOMAIN r.asked |-> Answer(p, r.asked[i])]]

(***************************************************************************)
(* The blocks in the answers that a peer has under way.                    *)
(***************************************************************************)
Underway(p) == {m.h : m \in {x \in ToSet(inbox[p]) : x.t = "Block"}}

Reads(p, t) ==
    /\ link[p] = "up"
    /\ thread[p] = Idle
    /\ inbox[p] # <<>>
    /\ Head(inbox[p]).t = t

-----------------------------------------------------------------------------
(***************************************************************************)
(* A connection: the handshake, and the Hello of the peer.  Its tips are   *)
(* asked for if the blue score in it, that of the peer's selected tip, is  *)
(* above the node's own at that time.                                      *)
(***************************************************************************)
Connect(p) ==
    /\ link[p] = "down"
    /\ thread[p] = Idle
    /\ link' = [link EXCEPT ![p] = "up"]
    /\ banScore' = [banScore EXCEPT ![p] = 0]
    /\ verified' = [verified EXCEPT ![p] = 0]
    /\ inbox' = [inbox EXCEPT ![p] =
                   <<[t |-> "Hello"]>>
                   \o (IF p \in SendsHeaders THEN <<[t |-> "Headers", hs |-> Holds[p]]>> ELSE <<>>)]
    /\ unasked' = unasked \ {p}
    /\ UNCHANGED <<have, orphans, inFlight, pending, thread, drops, refused, unanswered>>

HasHigherBlue(p) == \E b \in Holds[p] : \A a \in have : BlueOf[b] > BlueOf[a]

HearHello(p) ==
    /\ Reads(p, "Hello")
    /\ IF HasHigherBlue(p)
       THEN /\ inbox' = [inbox EXCEPT ![p] = Append(Tail(@), [t |-> "Tips", hs |-> Tips(p)])]
            /\ UNCHANGED unasked
       ELSE /\ inbox' = [inbox EXCEPT ![p] = Tail(@)]
            /\ unasked' = unasked \cup {p}
    /\ UNCHANGED <<have, orphans, inFlight, pending, thread, banScore, verified, link, drops, refused, unanswered>>

Disconnect(p) ==
    /\ drops < MaxDrops
    /\ link[p] = "up"
    /\ thread[p] = Idle
    /\ link' = [link EXCEPT ![p] = "down"]
    /\ inbox' = [inbox EXCEPT ![p] = <<>>]
    /\ unanswered' = unanswered \cup Underway(p)
    /\ drops' = drops + 1
    /\ UNCHANGED <<have, orphans, inFlight, pending, thread, banScore, verified, refused, unasked>>

OnTips(p) ==
    /\ Reads(p, "Tips")
    /\ \E hs \in SetToSeqs(Head(inbox[p]).hs) : RequestBlockBodies(p, hs, pending)
    /\ UNCHANGED <<have, orphans, thread, banScore, verified, link, drops, unanswered, unasked>>

OnNotFound(p) ==
    /\ Reads(p, "NotFound")
    /\ inFlight' = inFlight \ {Head(inbox[p]).h}
    /\ inbox' = [inbox EXCEPT ![p] = Tail(@)]
    /\ UNCHANGED <<have, orphans, pending, thread, banScore, verified, link, drops, refused, unanswered, unasked>>

(***************************************************************************)
(* `precheck_header`: unknown, with known parents.  Difficulty, work and   *)
(* interlinks are right, the peers being honest.                           *)
(***************************************************************************)
PrecheckHeader(h) == h \notin have /\ Missing(h) = {}

(***************************************************************************)
(* `Message::Headers`: the headers that can be checked join the pending    *)
(* ones, which lose their lowest when there are too many; then the ones    *)
(* not yet requested are, from the highest work down.  The work of a       *)
(* header is its difficulty and its parent's, no sum over the chain: here  *)
(* all are equal, and the order is that of the hash map.                   *)
(***************************************************************************)
InSomeOrder(S) == SetToSeqs(S)

OnHeaders(p) ==
    /\ Reads(p, "Headers")
    /\ LET hs == Head(inbox[p]).hs \ have
           accepted == {h \in hs : PrecheckHeader(h)}
           parents == UNION {ParentsOf[h] : h \in hs \ accepted}
           overflow == Max({0, Cardinality(DOMAIN pending) + Cardinality(accepted) - MAX_PENDING_HEADERS})
       IN \E low \in InSomeOrder(DOMAIN pending) :
            LET kept == DOMAIN pending \ ToSet(SubSeq(low, 1, Min({overflow, Len(low)})))
                all == [h \in kept \cup accepted |-> h \in kept /\ pending[h]]
            IN \E ranked \in InSomeOrder({h \in DOMAIN all : accepted # {} /\ ~all[h]}) :
                 RequestBlockBodies(p, SetToSeq(parents) \o ranked, IF accepted = {} THEN pending ELSE all)
    /\ UNCHANGED <<have, orphans, thread, banScore, verified, link, drops, unanswered, unasked>>

-----------------------------------------------------------------------------
(***************************************************************************)
(* `ingest_block` in its steps.  `queue` holds the blocks to try, the last *)
(* one first; `direct` is the block that the peer sent.                    *)
(***************************************************************************)
OnBlock(p) ==
    /\ Reads(p, "Block")
    /\ thread' = [thread EXCEPT ![p] =
                    [pc |-> "next", queue |-> <<[h |-> Head(inbox[p]).h, full |-> Head(inbox[p]).full]>>,
                     direct |-> Head(inbox[p]).h, first |-> TRUE, missing |-> {}]]
    /\ inbox' = [inbox EXCEPT ![p] = Tail(@)]
    /\ UNCHANGED <<have, orphans, inFlight, pending, banScore, verified, link, drops, refused, unanswered, unasked>>

At(p, pc) == thread[p].pc = pc
Cur(p) == Last(thread[p].queue).h
Full(p) == Last(thread[p].queue).full
Direct(p) == thread[p].first
Done(t) == [t EXCEPT !.pc = "next", !.queue = Front(@), !.first = FALSE, !.missing = {}]
Tries(t, blocks) == [t EXCEPT !.queue = @ \o SetToSeq(blocks)]

(***************************************************************************)
(* A charge for the block that the peer sent; for the blocks it unlocked   *)
(* there is none.                                                          *)
(***************************************************************************)
Charge(p, points) ==
    banScore' = [banScore EXCEPT ![p] = IF Direct(p) THEN @ + points ELSE @]

(***************************************************************************)
(* `have`, under a read lock of its own.                                   *)
(***************************************************************************)
SkipKnown(p) ==
    /\ At(p, "next")
    /\ thread[p].queue # <<>>
    /\ thread' = [thread EXCEPT ![p] = IF Cur(p) \in have THEN Done(@) ELSE [@ EXCEPT !.pc = "check"]]
    /\ UNCHANGED <<have, orphans, inFlight, pending, inbox, banScore, verified, link, drops, refused,
                   unanswered, unasked>>

(***************************************************************************)
(* `try_consume`: the window may have passed, which starts a new one.      *)
(***************************************************************************)
MayVerify(p) ==
    \/ ~Direct(p) /\ UNCHANGED verified
    \/ Direct(p) /\ verified' = [verified EXCEPT ![p] = 1]
    \/ /\ Direct(p) /\ verified[p] < STARK_VERIFY_BUDGET
       /\ verified' = [verified EXCEPT ![p] = @ + 1]

(***************************************************************************)
(* `precheck_block`, under the next read lock: known by now, which is an   *)
(* error; parents; the witness; and, for the block that the peer sent, the *)
(* STARK budget.  What is refused is dropped.                              *)
(***************************************************************************)
Precheck(p) ==
    /\ At(p, "check")
    /\ LET b == Cur(p)
           Drop(points) == Charge(p, points) /\ thread' = [thread EXCEPT ![p] = Done(@)]
       IN \/ /\ b \in have
             /\ Drop(INVALID_BLOCK_PENALTY)
             /\ UNCHANGED <<verified, refused>>
          \/ /\ b \notin have /\ Missing(b) # {}
             /\ thread' = [thread EXCEPT ![p].pc = "missing"]
             /\ UNCHANGED <<banScore, verified, refused>>
          \/ /\ b \notin have /\ Missing(b) = {} /\ ~Full(p)
             /\ Drop(INVALID_BLOCK_PENALTY)
             /\ refused' = refused \cup {b}
             /\ UNCHANGED verified
          \/ /\ b \notin have /\ Missing(b) = {} /\ Full(p)
             /\ Direct(p) /\ verified[p] >= STARK_VERIFY_BUDGET
             /\ Drop(INVALID_STARK_PENALTY)
             /\ refused' = refused \cup {b}
             /\ UNCHANGED verified
          \/ /\ b \notin have /\ Missing(b) = {} /\ Full(p)
             /\ MayVerify(p)
             /\ thread' = [thread EXCEPT ![p].pc = "add"]
             /\ UNCHANGED <<banScore, refused>>
    /\ UNCHANGED <<have, orphans, inFlight, pending, inbox, link, drops, unanswered, unasked>>

(***************************************************************************)
(* The missing parents, read under a lock of its own.  A header without a  *)
(* body is an orphan like any other: its witness is not looked at here.    *)
(***************************************************************************)
ReadMissing(p) ==
    /\ At(p, "missing")
    /\ thread' = [thread EXCEPT ![p] = [@ EXCEPT !.pc = "buffer", !.missing = Missing(Cur(p))]]
    /\ UNCHANGED <<have, orphans, inFlight, pending, inbox, banScore, verified, link, drops, refused, unanswered, unasked>>

Entries == MapThenSumSet(LAMBDA b : Cardinality(orphans[b]), SyncBlock)

(***************************************************************************)
(* `buffer_orphan`: under every missing parent, unless the pool is full or *)
(* a block with this hash waits there, be it without its body.  When no    *)
(* parent is missing any more, the block is kept nowhere.                  *)
(***************************************************************************)
PoolFull == Entries >= MAX_ORPHANS

BufferOrphan(p) ==
    /\ At(p, "buffer")
    /\ IF PoolFull \/ thread[p].missing = {}
       THEN /\ refused' = refused \cup {Cur(p)}
            /\ UNCHANGED orphans
       ELSE /\ orphans' = [b \in SyncBlock |->
                  IF b \notin thread[p].missing \/ \E w \in orphans[b] : w.h = Cur(p) THEN orphans[b]
                  ELSE orphans[b] \cup {[h |-> Cur(p), full |-> Full(p)]}]
            /\ UNCHANGED refused
    /\ thread' = [thread EXCEPT ![p].pc = "ask"]
    /\ UNCHANGED <<have, inFlight, pending, inbox, banScore, verified, link, drops, unanswered, unasked>>

(***************************************************************************)
(* The missing parents are asked of all peers.                             *)
(***************************************************************************)
AskForParents(p) ==
    /\ At(p, "ask")
    /\ LET r == Requests(SetToSeq(thread[p].missing))
       IN /\ inFlight' = r.flight
          /\ refused' = refused \cup r.refused
          /\ inbox' = [q \in SyncPeer |->
                 IF link[q] # "up" THEN inbox[q]
                 ELSE inbox[q] \o [i \in DOMAIN r.asked |-> Answer(q, r.asked[i])]]
    /\ thread' = [thread EXCEPT ![p] = Done(@)]
    /\ UNCHANGED <<have, orphans, pending, banScore, verified, link, drops, unanswered, unasked>>

(***************************************************************************)
(* `add_block` under the write lock.  If another thread was faster, it is  *)
(* an error like any other.  Else the waiting blocks are tried.            *)
(***************************************************************************)
Unlocked_FirstOnly(b) == IF orphans[b] = {} THEN {} ELSE {CHOOSE c \in orphans[b] : TRUE}
Unlocked(b) == orphans[b]

AddToDag(p) ==
    /\ At(p, "add")
    /\ LET b == Cur(p)
       IN \/ /\ b \in have
             /\ Charge(p, INVALID_BLOCK_PENALTY)
             /\ thread' = [thread EXCEPT ![p] = Done(@)]
             /\ UNCHANGED <<have, orphans, inFlight, pending>>
          \/ /\ b \notin have
             /\ have' = have \cup {b}
             /\ inFlight' = inFlight \ {b}
             /\ pending' = [h \in DOMAIN pending \ {b} |-> pending[h]]
             /\ thread' = [thread EXCEPT ![p] = Tries(Done(@), Unlocked(b))]
             /\ orphans' = [orphans EXCEPT ![b] = {}]
             /\ UNCHANGED banScore
    /\ UNCHANGED <<inbox, verified, link, drops, refused, unanswered, unasked>>

(***************************************************************************)
(* The end of the handler: the request is no longer under way, and a peer  *)
(* with too many points is banned.                                         *)
(***************************************************************************)
EndBlock(p) ==
    /\ At(p, "next")
    /\ thread[p].queue = <<>>
    /\ inFlight' = inFlight \ {thread[p].direct}
    /\ thread' = [thread EXCEPT ![p] = Idle]
    /\ IF banScore[p] >= BAN_SCORE_THRESHOLD
       THEN /\ link' = [link EXCEPT ![p] = "banned"]
            /\ inbox' = [inbox EXCEPT ![p] = <<>>]
            /\ unanswered' = unanswered \cup Underway(p)
       ELSE UNCHANGED <<link, inbox, unanswered>>
    /\ UNCHANGED <<have, orphans, pending, banScore, verified, drops, refused, unasked>>

(***************************************************************************)
(* An orphan that has waited for ORPHAN_TTL.                               *)
(***************************************************************************)
OrphanExpires(b) ==
    /\ drops < MaxDrops
    /\ orphans[b] # {}
    /\ orphans' = [orphans EXCEPT ![b] = {}]
    /\ refused' = refused \cup {w.h : w \in orphans[b]}
    /\ drops' = drops + 1
    /\ UNCHANGED <<have, inFlight, pending, inbox, thread, banScore, verified, link, unanswered, unasked>>

ThreadStep(p) ==
    \/ HearHello(p)
    \/ OnTips(p)
    \/ OnNotFound(p)
    \/ OnHeaders(p)
    \/ OnBlock(p)
    \/ SkipKnown(p)
    \/ Precheck(p)
    \/ ReadMissing(p)
    \/ BufferOrphan(p)
    \/ AskForParents(p)
    \/ AddToDag(p)
    \/ EndBlock(p)

SyncNext ==
    \/ \E p \in SyncPeer : Connect(p) \/ Disconnect(p) \/ ThreadStep(p)
    \/ \E b \in SyncBlock : OrphanExpires(b)

SyncSpec == SyncInit /\ [][SyncNext]_syncVars

-----------------------------------------------------------------------------
Quiet == \A p \in SyncPeer : link[p] = "up" /\ thread[p] = Idle /\ inbox[p] = <<>>
Stranded == {w.h : w \in UNION {orphans[b] : b \in have}}

(***************************************************************************)
(* The ancestors of a block: what every set holds that has its parents and *)
(* the parents of its members.                                             *)
(***************************************************************************)
Past(h) ==
    {b \in SyncBlock : \A S \in SUBSET SyncBlock :
        ParentsOf[h] \subseteq S /\ (\A x \in S : ParentsOf[x] \subseteq S) => b \in S}

(***************************************************************************)
(* When all is quiet and a block that a connected peer holds is missing,   *)
(* then it, an ancestor, or a descendant that this peer announced for it   *)
(* has met one of these fates: its answer was lost with a connection, it   *)
(* waits for a parent that came in meanwhile, or the node dropped it, for  *)
(* a limit, a missing body, or a parent that came in between the two looks *)
(* for it.  Or the peer was never asked for its tips, and has no block of  *)
(* a blue score above all that the node has (`Message::Hello`).  The rest  *)
(* is a peer that is banned (`request_block_body`, `ingest_block`).        *)
(***************************************************************************)
StallExplained ==
    Quiet => \A p \in SyncPeer : \A b \in Holds[p] \ have :
        \/ \E x \in (unanswered \cup refused \cup Stranded) \ have :
              x \in {b} \cup Past(b) \/ (x \in Holds[p] /\ b \in Past(x))
        \/ p \in unasked /\ ~HasHigherBlue(p)
=============================================================================
