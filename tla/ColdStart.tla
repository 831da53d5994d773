----------------------------- MODULE ColdStart ------------------------------
(***************************************************************************)
(* Cold start from a pruning proof: the node asks all peers for a linear   *)
(* and a multi-level proof, each peer's thread verifies and imports what   *)
(* it gets, and then asks for the ledger of the pruning point.  The flags, *)
(* the best work and the chain state have a lock each, taken one after the *)
(* other, so the threads interleave between them.                          *)
(*                                                                         *)
(* The peers are honest archival nodes: their proofs verify, and each      *)
(* serves the pruning point it has at the moment, which moves on.  A       *)
(* pruning point is a number, and a later one has more work.               *)
(*                                                                         *)
(* D_Xxx is D with the mistake Xxx, to see that a property notices it.     *)
(***************************************************************************)
EXTENDS Integers, Sequences

CONSTANTS
    Server,          \* the peers
    PP,              \* pruning points, an initial segment of the naturals from 1
    LinearWork,      \* [PP -> Nat], cumulative work of the linear proof
    VerifiedWork,    \* [PP -> Nat], verified work of the multi-level one
    STALENESS,       \* how far behind the local tip a proof may be
    MaxRequests      \* bound: requests

VARIABLES
    expectingProof, expectingLedger,
    bestWork,        \* best_pruning_work
    verifiedPoint,   \* verified_pruning_point, 0: none
    statePoint,      \* pruning_point of the chain state, 0: none
    ledgerOf,        \* the point whose ledger the state holds, 0: its own
    serving,         \* the pruning point of each peer
    replies,         \* what each peer's connection has to read
    importer,        \* where each peer's thread is in its handler
    charged,         \* peers charged for an invalid message
    requests         \* requests so far

coldVars == <<expectingProof, expectingLedger, bestWork, verifiedPoint, statePoint,
              ledgerOf, serving, replies, importer, charged, requests>>
flags == <<expectingProof, expectingLedger, bestWork, verifiedPoint>>
chainPart == <<statePoint, ledgerOf>>

Waiting == [pc |-> "read"]

ColdInit ==
    /\ expectingProof = FALSE /\ expectingLedger = FALSE
    /\ bestWork = 0 /\ verifiedPoint = 0
    /\ statePoint = 0 /\ ledgerOf = 0
    /\ serving \in [Server -> PP]
    /\ replies = [p \in Server |-> <<>>]
    /\ importer = [p \in Server |-> Waiting]
    /\ charged = {}
    /\ requests = 0

WorkOfProof(m) == IF m.t = "linear" THEN LinearWork[m.pp] ELSE VerifiedWork[m.pp]

-----------------------------------------------------------------------------
(***************************************************************************)
(* `request_pruning_proof`, and the answers of the peers.                  *)
(***************************************************************************)
RequestPruningProof ==
    /\ requests < MaxRequests
    /\ requests' = requests + 1
    /\ expectingProof' = TRUE
    /\ replies' = [p \in Server |-> replies[p] \o
                     <<[t |-> "linear", pp |-> serving[p]], [t |-> "multilevel", pp |-> serving[p]]>>]
    /\ UNCHANGED <<expectingLedger, bestWork, verifiedPoint, chainPart, serving, importer, charged>>

ServerPrunes(p) ==
    /\ serving[p] + 1 \in PP
    /\ serving' = [serving EXCEPT ![p] = @ + 1]
    /\ UNCHANGED <<flags, chainPart, replies, importer, charged, requests>>

Goto(p, pc) == importer' = [importer EXCEPT ![p].pc = pc]
EndHandler(p) == importer' = [importer EXCEPT ![p] = Waiting]
InStep(p, pc) == importer[p].pc = pc
ItsProof(p) == importer[p].m
ItsWork(p) == WorkOfProof(ItsProof(p))

(***************************************************************************)
(* A proof nobody asked for is dropped unread.                             *)
(***************************************************************************)
ReadProof(p) ==
    /\ InStep(p, "read")
    /\ replies[p] # <<>>
    /\ Head(replies[p]).t \in {"linear", "multilevel"}
    /\ replies' = [replies EXCEPT ![p] = Tail(@)]
    /\ IF expectingProof
       THEN importer' = [importer EXCEPT ![p] = [pc |-> "fresh", m |-> Head(replies[p])]]
       ELSE UNCHANGED importer
    /\ UNCHANGED <<flags, chainPart, serving, charged, requests>>

(***************************************************************************)
(* `check_ibd_proof_freshness` against best work and tip as they are now.  *)
(* A proof that fails it costs its sender, also if another was faster.     *)
(***************************************************************************)
Fresh(m) ==
    /\ bestWork > 0 => WorkOfProof(m) > bestWork
    /\ statePoint > 0 => m.pp + STALENESS >= statePoint

CheckFreshness(p) ==
    /\ InStep(p, "fresh")
    /\ IF Fresh(ItsProof(p))
       THEN /\ Goto(p, "compare")
            /\ UNCHANGED <<expectingProof, charged>>
       ELSE /\ EndHandler(p)
            /\ expectingProof' = (expectingProof /\ ItsProof(p).t = "multilevel")
            /\ charged' = charged \cup {p}
    /\ UNCHANGED <<expectingLedger, bestWork, verifiedPoint, chainPart, serving, replies, requests>>

Compare(p) ==
    /\ InStep(p, "compare")
    /\ IF ItsWork(p) <= bestWork
       THEN EndHandler(p) /\ expectingProof' = FALSE
       ELSE Goto(p, "import") /\ UNCHANGED expectingProof
    /\ UNCHANGED <<expectingLedger, bestWork, verifiedPoint, chainPart, serving, replies, charged, requests>>

(***************************************************************************)
(* `import_verified_pruning_headers`: the tip is the pruning point, and    *)
(* the ledger stays what it was.                                           *)
(***************************************************************************)
ImportHeaders(p) ==
    /\ InStep(p, "import")
    /\ statePoint' = ItsProof(p).pp
    /\ Goto(p, "best")
    /\ UNCHANGED <<flags, ledgerOf, serving, replies, charged, requests>>

RecordWork(w) == IF w > bestWork THEN w ELSE bestWork

RecordBest(p) ==
    /\ InStep(p, "best")
    /\ bestWork' = RecordWork(ItsWork(p))
    /\ Goto(p, IF ItsProof(p).t = "linear" THEN "unexpect" ELSE "point")
    /\ UNCHANGED <<expectingProof, expectingLedger, verifiedPoint, chainPart, serving, replies, charged, requests>>

RecordPoint(p) ==
    /\ InStep(p, "point")
    /\ verifiedPoint' = ItsProof(p).pp
    /\ Goto(p, "ledger")
    /\ UNCHANGED <<expectingProof, expectingLedger, bestWork, chainPart, serving, replies, charged, requests>>

(***************************************************************************)
(* The linear handler asks for the ledger of its own proof; the multi-level *)
(* one clears the other flag first and reads the recorded point again.     *)
(***************************************************************************)
ExpectLedger(p) ==
    /\ InStep(p, "ledger")
    /\ expectingLedger' = TRUE
    /\ Goto(p, IF ItsProof(p).t = "linear" THEN "send" ELSE "unexpect")
    /\ UNCHANGED <<expectingProof, bestWork, verifiedPoint, chainPart, serving, replies, charged, requests>>

Unexpect(p) ==
    /\ InStep(p, "unexpect")
    /\ expectingProof' = FALSE
    /\ Goto(p, IF ItsProof(p).t = "linear" THEN "point" ELSE "send")
    /\ UNCHANGED <<expectingLedger, bestWork, verifiedPoint, chainPart, serving, replies, charged, requests>>

(***************************************************************************)
(* GetPruningPointLedger, which the peer answers only for its own pruning  *)
(* point of the moment: from its cache or, being archival, by a replay     *)
(* from genesis, if that gives the root in the header.                     *)
(***************************************************************************)
BuildPruningPointLedger(p, pp) ==
    IF serving[p] = pp THEN <<[t |-> "ledger", pp |-> pp]>> ELSE <<>>

AskForLedger(p) ==
    /\ InStep(p, "send")
    /\ LET pp == IF ItsProof(p).t = "linear" THEN ItsProof(p).pp ELSE verifiedPoint
       IN replies' = [replies EXCEPT ![p] = @ \o BuildPruningPointLedger(p, pp)]
    /\ EndHandler(p)
    /\ UNCHANGED <<flags, chainPart, serving, charged, requests>>

(***************************************************************************)
(* `adopt_pruning_point_ledger`, under the lock of the state.              *)
(***************************************************************************)
Matches_AnyPoint(pp) == TRUE
Matches(pp) == statePoint = pp

OnLedger(p) ==
    /\ InStep(p, "read")
    /\ replies[p] # <<>>
    /\ Head(replies[p]).t = "ledger"
    /\ replies' = [replies EXCEPT ![p] = Tail(@)]
    /\ LET pp == Head(replies[p]).pp
       IN \/ /\ ~expectingLedger
             /\ UNCHANGED <<ledgerOf, expectingLedger, charged>>
          \/ /\ expectingLedger
             /\ ~Matches(pp)
             /\ charged' = charged \cup {p}
             /\ UNCHANGED <<ledgerOf, expectingLedger>>
          \/ /\ expectingLedger
             /\ Matches(pp)
             /\ ledgerOf' = pp
             /\ expectingLedger' = FALSE
             /\ UNCHANGED charged
    /\ UNCHANGED <<expectingProof, bestWork, verifiedPoint, statePoint, serving, importer, requests>>

ColdNext ==
    \/ RequestPruningProof
    \/ \E p \in Server :
          \/ ServerPrunes(p) \/ ReadProof(p) \/ CheckFreshness(p) \/ Compare(p)
          \/ ImportHeaders(p) \/ RecordBest(p) \/ RecordPoint(p) \/ ExpectLedger(p)
          \/ Unexpect(p) \/ AskForLedger(p) \/ OnLedger(p)

ColdSpec == ColdInit /\ [][ColdNext]_coldVars

-----------------------------------------------------------------------------
Importing(p) == importer[p].pc \in {"best", "unexpect", "point", "ledger"}

(***************************************************************************)
(* A node whose ledger is not the one of its pruning point knows it: it    *)
(* expects a ledger, or a thread is about to.  So no block is ever applied *)
(* to a wrong ledger that passes for the right one                         *)
(* (`Message::PruningProof`, `adopt_pruning_point_ledger`).                *)
(***************************************************************************)
WrongLedgerIsKnown ==
    ledgerOf # statePoint => expectingLedger \/ \E p \in Server : Importing(p)
=============================================================================
